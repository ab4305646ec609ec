----------------------------- MODULE CmtProofs ------------------------------
(***************************************************************************)
(* Module Cmt for every tape, chunk size, word length and clock width:     *)
(* as long as the program samples the tape before a chunk has gone by      *)
(* (Attentive), the window follows the tape and the deck with its wrapping *)
(* cycle counter and its window implements CassetteDeck.                   *)
(***************************************************************************)
EXTENDS Cmt, TLAPS

(* Where the tape is, whether it turns or pauses.                          *)
Position == IF cmt_tstates = 1 THEN Elapsed ELSE mzt_elapse

(* The tape that is set is the one in the tape file.                       *)
TapeSet ==
  mzt_settape = 1 =>
    /\ tmpTapeData \in Tapes /\ mzt_bsize = Length[tmpTapeData]
    /\ cmt_tstates = 1 => cmt_play = 1

(* The position is between the last word sampled and MaxGap words on, and  *)
(* no word was read from the file before one was asked for.                *)
PositionAhead ==
  mzt_settape = 1 =>
    /\ preTword = 0 => readTword = 0 /\ bufStartTword = 0
    /\ cmt_play = 1 =>
         /\ Position \in Nat
         /\ Quotient(Position, WordTicks) \in preTword .. preTword + MaxGap

IInv ==
  /\ TypeOK /\ SpeedFollowsDeck /\ ProgressBehindTape
  /\ TapeSet /\ PositionAhead /\ WindowFollowsTape

----------------------------------------------------------------------------
(* A sum of two 32-bit numbers wraps to one.                               *)
LEMMA WrapInt32 ==
  ASSUME NEW x \in -2 * Half .. 2 * Half - 1
  PROVE  Wrap(x) \in Int32
  BY CmtAssumption DEF Wrap, Int32

(* Sums and differences of the cycle counters are 32-bit numbers.          *)
LEMMA DifferenceInt32 ==
  ASSUME NEW x \in Int32, NEW y \in Int32
  PROVE  Wrap(x - y) \in Int32 /\ Wrap(x + y) \in Int32
  BY CmtAssumption DEF Wrap, Int32

(* A cycle more is a cycle more, wherever the counter wraps.               *)
LEMMA ElapsedAdds ==
  ASSUME NEW c \in Int32, NEW s \in Int32, NEW e \in Int32, NEW d \in 1 .. Half - 1,
         NEW before, before = Wrap(Wrap(c - s) + e), before \in Nat, before + d < Half
  PROVE  Wrap(Wrap(Wrap(c + d) - s) + e) = before + d
  BY CmtAssumption DEF Wrap, Int32

(* Time elapsed, put off when the motor stops and taken up when it starts, *)
(* is what it was.                                                         *)
LEMMA PausedElapsed ==
  ASSUME NEW c \in Int32, NEW e \in Int32
  PROVE  Wrap(Wrap(c - c) + e) = e
  BY CmtAssumption DEF Wrap, Int32

(* C's division of numbers that are not negative is \div.                  *)
LEMMA QuotientNat ==
  ASSUME NEW a \in Nat, NEW w \in Nat \ {0}
  PROVE  Quotient(a, w) \in Nat /\ Quotient(a, w) = a \div w
  BY DEF Quotient

(* C's division yields an integer.                                         *)
LEMMA QuotientInt ==
  ASSUME NEW a \in Int, NEW w \in Nat \ {0}
  PROVE  Quotient(a, w) \in Int
<1>1. CASE a >= 0
  BY <1>1 DEF Quotient
<1>2. CASE ~(a >= 0)
  <2>1. -a \in Nat
    BY <1>2
  <2>2. (-a) \div w \in Nat
    BY <2>1
  <2>3. QED
    BY <1>2, <2>2 DEF Quotient
<1>3. QED
  BY <1>1, <1>2

(* The word reached on the tape does not go back when time passes.         *)
LEMMA QuotientMono ==
  ASSUME NEW a \in Nat, NEW b \in Nat, NEW w \in Nat \ {0}, a <= b
  PROVE  Quotient(a, w) <= Quotient(b, w)
  BY DEF Quotient

(* The word reached bounds the time played.                                *)
LEMMA QuotientBound ==
  ASSUME NEW a \in Nat, NEW k \in Nat, NEW w \in Nat \ {0}, Quotient(a, w) <= k
  PROVE  a < (k + 1) * w
  BY DEF Quotient

(* The time elapsed is a 32-bit number, and the word it leads to an        *)
(* integer.                                                                *)
LEMMA ElapsedType == TypeOK => Elapsed \in Int32 /\ Elapsed \in Int /\ Tword \in Int
<1>. SUFFICES ASSUME TypeOK PROVE Elapsed \in Int32 /\ Elapsed \in Int /\ Tword \in Int
  OBVIOUS
<1>1. Elapsed \in Int32
  BY DifferenceInt32 DEF TypeOK, Elapsed
<1>2. Elapsed \in Int
  BY <1>1, CmtAssumption DEF Int32
<1>3. QED
  BY <1>1, <1>2, QuotientInt, CmtAssumption DEF Tword

(* Blank tape and what lies behind its end are words.                      *)
LEMMA BlankIsWord == Blank \in Words /\ Junk \in Words
  BY DEF Words

(* A tape holds words.                                                     *)
LEMMA WordIsWord ==
  ASSUME NEW t \in Tapes, NEW k \in 0 .. Length[t] - 1
  PROVE  WordOn(t, k) \in Words
  BY DEF Words

(* What a read of the tape file yields.                                    *)
LEMMA GotBound ==
  ASSUME TypeOK, NEW from \in Nat
  PROVE  /\ Got(from) \in 0 .. Chunk
         /\ tmpTapeData \in Tapes /\ from < Length[tmpTapeData] =>
              /\ Got(from) >= 1 /\ from + Got(from) <= Length[tmpTapeData]
              /\ Got(from) = Chunk \/ from + Got(from) = Length[tmpTapeData]
         /\ tmpTapeData \in Tapes =>
              Length[tmpTapeData] \in Nat /\ \A i \in 0 .. Got(from) - 1 : from + i < Length[tmpTapeData]
<1>1. tmpTapeData \in Tapes \/ tmpTapeData = NoFile
  BY DEF TypeOK
<1>2. tmpTapeData \in Tapes => Length[tmpTapeData] \in Nat \ {0} /\ tmpTapeData # NoFile
  BY CmtAssumption
<1>3. QED
  BY <1>1, <1>2, CmtAssumption DEF Got

(* The invariant holds with no tape chosen.                                *)
LEMMA InitIInv == Init => IInv
<1>. SUFFICES ASSUME Init PROVE IInv
  OBVIOUS
<1>1. TypeOK
  BY BlankIsWord, CmtAssumption DEF Init, TypeOK, Int32
<1>2. QED
  BY <1>1 DEF Init, IInv, SpeedFollowsDeck, ProgressBehindTape, TapeSet, PositionAhead, WindowFollowsTape

----------------------------------------------------------------------------
(* While the program is attentive the position never comes near the width  *)
(* of the counter.                                                         *)
LEMMA PositionBound ==
  ASSUME Attentive, IInv, mzt_settape = 1, cmt_play = 1, NEW d \in Steps
  PROVE  Position + d < Half /\ preTword \in 0 .. mzt_bsize - 1
<1>1. tmpTapeData \in Tapes /\ mzt_bsize = Length[tmpTapeData] /\ mzt_bsize \in Nat \ {0}
  BY CmtAssumption DEF IInv, TapeSet
<1>2. preTword \in 0 .. mzt_bsize - 1
  BY <1>1 DEF IInv, TypeOK, WindowFollowsTape
<1>3. Position \in Nat /\ Quotient(Position, WordTicks) <= mzt_bsize - 1 + MaxGap
  <2>1. Position \in Nat /\ Quotient(Position, WordTicks) \in preTword .. preTword + MaxGap
    BY DEF IInv, PositionAhead
  <2>2. QED
    BY <1>1, <1>2, <2>1, CmtAssumption
<1>4. Position < (mzt_bsize - 1 + MaxGap + 1) * WordTicks
  <2>. DEFINE k == mzt_bsize - 1 + MaxGap
  <2>1. k \in Nat
    BY <1>1, CmtAssumption
  <2>2. QED
    BY <1>3, <2>1, QuotientBound, CmtAssumption
<1>5. mzt_bsize - 1 + MaxGap + 1 = Length[tmpTapeData] + MaxGap
  BY <1>1, CmtAssumption
<1>6. (Length[tmpTapeData] + MaxGap) * WordTicks + d <= Half
  BY <1>1 DEF Attentive
<1>7. d \in Nat /\ (Length[tmpTapeData] + MaxGap) * WordTicks \in Nat
  BY <1>1, CmtAssumption
<1>8. QED
  BY <1>2, <1>3, <1>4, <1>5, <1>6, <1>7, CmtAssumption

(* CPU time passes: with a deck that is looked at often enough, the time   *)
(* elapsed does not wrap.                                                  *)
LEMMA ExecuteIInv ==
  ASSUME Attentive, IInv, NEW d \in Steps, Execute(d)
  PROVE  IInv'
<1>1. TypeOK'
  <2>1. d \in Int32
    BY CmtAssumption DEF Int32
  <2>2. cpu_tstates' \in Int32
    BY <2>1, DifferenceInt32 DEF IInv, TypeOK, Execute
  <2>3. QED
    BY <2>2 DEF IInv, TypeOK, Execute, deckVars, windowVars, Words
<1>2. SpeedFollowsDeck' /\ ProgressBehindTape' /\ TapeSet' /\ WindowFollowsTape'
  BY DEF IInv, SpeedFollowsDeck, ProgressBehindTape, TapeSet, WindowFollowsTape, Execute, deckVars, windowVars
<1>3. PositionAhead'
  <2>. SUFFICES ASSUME mzt_settape' = 1, cmt_play' = 1
       PROVE  /\ Position' \in Nat
              /\ Quotient(Position', WordTicks) \in preTword' .. preTword' + MaxGap
    BY DEF IInv, PositionAhead, Execute, deckVars, windowVars
  <2>1. mzt_settape = 1 /\ cmt_play = 1 /\ UNCHANGED <<deckVars, preTword>>
    BY DEF Execute, deckVars, windowVars
  <2>2. Position \in Nat /\ Quotient(Position, WordTicks) \in preTword .. preTword + MaxGap
    BY <2>1 DEF IInv, PositionAhead
  <2>3. CASE cmt_tstates # 1
    BY <2>1, <2>2, <2>3 DEF Position, deckVars
  <2>4. CASE cmt_tstates = 1
    <3>1. Position' = Position + d
      <4>1. cpu_tstates \in Int32 /\ mzt_start \in Int32 /\ mzt_elapse \in Int32
        BY DEF IInv, TypeOK
      <4>2. Elapsed \in Nat /\ Elapsed + d < Half
        BY <2>1, <2>2, <2>4, PositionBound DEF Position
      <4>3. Wrap(Wrap(Wrap(cpu_tstates + d) - mzt_start) + mzt_elapse) = Elapsed + d
        BY <4>1, <4>2, ElapsedAdds, CmtAssumption DEF Elapsed
      <4>4. Elapsed' = Elapsed + d
        BY <2>1, <4>3 DEF Elapsed, Execute, deckVars
      <4>5. QED
        BY <2>1, <2>4, <4>4 DEF Position, deckVars
    <3>2. Position' \in Nat /\ Position <= Position'
      BY <2>2, <3>1, CmtAssumption
    <3>3. Quotient(Position, WordTicks) <= Quotient(Position', WordTicks)
      BY <2>2, <3>2, QuotientMono, CmtAssumption
    <3>4. Quotient(Position', WordTicks) - preTword <= MaxGap
      BY <2>1, <2>4 DEF Execute, Tword, Position, deckVars
    <3>5. Quotient(Position', WordTicks) \in Nat
      BY <3>2, QuotientNat, CmtAssumption
    <3>6. preTword \in Int
      BY DEF IInv, TypeOK
    <3>7. QED
      BY <2>1, <2>2, <3>2, <3>3, <3>4, <3>5, <3>6, CmtAssumption
  <2>5. QED
    BY <2>3, <2>4
<1>4. QED
  BY <1>1, <1>2, <1>3 DEF IInv

(* Starting and pausing leave the position alone.                          *)
LEMMA MotorIInv ==
  ASSUME IInv, MotorOn \/ MotorOff
  PROVE  IInv'
<1>1. CASE MotorOff \/ (MotorOn /\ UNCHANGED <<cmt_tstates, mzt_start, mzt_elapse, cpuspeed>>)
  BY <1>1 DEF IInv, MotorOn, MotorOff, deckVars, windowVars, TypeOK, SpeedFollowsDeck, TapeSet,
     ProgressBehindTape, PositionAhead, Position, Elapsed, WindowFollowsTape
<1>2. CASE MotorOn /\ motor = 0 /\ cmt_tstates = 0 /\ cmt_play # 0 /\ StartDeck /\ UNCHANGED mzt_elapse
  <2>1. TypeOK' /\ SpeedFollowsDeck' /\ ProgressBehindTape' /\ TapeSet' /\ WindowFollowsTape'
    BY <1>2 DEF IInv, MotorOn, StartDeck, setup_cpuspeed, windowVars, TypeOK, SpeedFollowsDeck,
       ProgressBehindTape, TapeSet, WindowFollowsTape
  <2>2. Position' = Position
    <3>1. cpu_tstates \in Int32 /\ mzt_elapse \in Int32
      BY DEF IInv, TypeOK
    <3>2. Elapsed' = mzt_elapse
      BY <1>2, <3>1, PausedElapsed DEF Elapsed, StartDeck, MotorOn
    <3>3. QED
      BY <1>2, <3>2 DEF Position, StartDeck
  <2>3. QED
    BY <1>2, <2>1, <2>2 DEF IInv, PositionAhead, MotorOn, windowVars
<1>3. CASE MotorOn /\ motor = 0 /\ cmt_tstates # 0 /\ PauseDeck /\ UNCHANGED mzt_start
  <2>1. TypeOK'
    <3>1. mzt_elapse' \in Int32
      BY <1>3, DifferenceInt32 DEF PauseDeck, IInv, TypeOK
    <3>2. QED
      BY <1>3, <3>1 DEF IInv, MotorOn, PauseDeck, setup_cpuspeed, windowVars, TypeOK
  <2>2. SpeedFollowsDeck' /\ ProgressBehindTape' /\ TapeSet' /\ WindowFollowsTape'
    BY <1>3 DEF IInv, MotorOn, PauseDeck, setup_cpuspeed, windowVars, SpeedFollowsDeck, ProgressBehindTape,
       TapeSet, WindowFollowsTape
  <2>3. Position' = Position
    <3>1. cmt_tstates = 1
      BY <1>3 DEF IInv, TypeOK
    <3>2. mzt_elapse' = Elapsed
      <4>1. mzt_elapse \in Int /\ Wrap(cpu_tstates - mzt_start) \in Int
        <5>1. mzt_elapse \in Int32 /\ Wrap(cpu_tstates - mzt_start) \in Int32
          BY DifferenceInt32 DEF IInv, TypeOK
        <5>2. QED
          BY <5>1, CmtAssumption DEF Int32
      <4>2. QED
        BY <1>3, <4>1 DEF PauseDeck, Elapsed
    <3>3. QED
      BY <1>3, <3>1, <3>2 DEF Position, PauseDeck
  <2>4. QED
    BY <1>3, <2>1, <2>2, <2>3 DEF IInv, PositionAhead, MotorOn, windowVars
<1>4. QED
  BY <1>1, <1>2, <1>3 DEF MotorOn

(* A tape chosen from the menu is at its start.                            *)
LEMMA ChooseIInv ==
  ASSUME IInv, NEW t \in Tapes, ChooseTape(t)
  PROVE  IInv'
<1>. USE DEF ChooseTape, set_mztData, PressPlay, StartDeck, setup_cpuspeed
<1>. Length[t] \in Nat \ {0}
  BY CmtAssumption
<1>1. TypeOK'
  BY BlankIsWord, CmtAssumption DEF IInv, TypeOK, Int32
<1>2. SpeedFollowsDeck' /\ ProgressBehindTape' /\ TapeSet' /\ WindowFollowsTape'
  BY CmtAssumption DEF SpeedFollowsDeck, ProgressBehindTape, TapeSet, WindowFollowsTape
<1>3. PositionAhead'
  <2>1. Position' = 0
    <3>1. 0 \in Int32 /\ cpu_tstates \in Int32
      BY CmtAssumption DEF Int32, IInv, TypeOK
    <3>2. Wrap(Wrap(cpu_tstates - cpu_tstates) + 0) = 0
      BY <3>1, PausedElapsed
    <3>3. QED
      BY <3>2 DEF Position, Elapsed
  <2>2. Quotient(0, WordTicks) = 0
    BY CmtAssumption DEF Quotient
  <2>3. QED
    BY <2>1, <2>2, CmtAssumption DEF PositionAhead
<1>4. QED
  BY <1>1, <1>2, <1>3 DEF IInv

(* A file that cannot be read leaves a deck without a tape.                *)
LEMMA MissingIInv ==
  ASSUME IInv, ChooseMissing
  PROVE  IInv'
  BY DEF IInv, ChooseMissing, CannotOpen, PressPlay, StartDeck, setup_cpuspeed, windowVars,
     TypeOK, SpeedFollowsDeck, ProgressBehindTape, TapeSet, PositionAhead, WindowFollowsTape

(* mz_reset stops the deck.                                                *)
LEMMA ResetIInv ==
  ASSUME IInv, mz_reset
  PROVE  IInv'
<1>1. 0 \in Int32
  BY CmtAssumption DEF Int32
<1>2. QED
  BY <1>1 DEF IInv, mz_reset, windowVars, TypeOK, SpeedFollowsDeck, ProgressBehindTape, TapeSet, PositionAhead,
     WindowFollowsTape

(* A sample behind the end of the tape stops the deck.                     *)
LEMMA EndIInv ==
  ASSUME IInv, EndOfTape
  PROVE  IInv'
<1>. USE DEF EndOfTape, StopAtEnd, setup_cpuspeed
<1>1. TypeOK'
  BY BlankIsWord DEF IInv, TypeOK
<1>2. SpeedFollowsDeck' /\ ProgressBehindTape' /\ TapeSet' /\ PositionAhead'
  BY DEF IInv, SpeedFollowsDeck, ProgressBehindTape, TapeSet, PositionAhead
<1>3. WindowFollowsTape'
  BY CmtAssumption DEF IInv, TypeOK, WindowFollowsTape
<1>4. QED
  BY <1>1, <1>2, <1>3 DEF IInv

(* The percentage of a position on the tape.                               *)
LEMMA PercentBound ==
  ASSUME NEW t \in Nat, NEW b \in Nat \ {0}, t < b
  PROVE  Quotient(t * 100, b) \in 0 .. 99 /\ Quotient(t * 100, b) * b <= 100 * t
<1>1. t * 100 \in Nat /\ t * 100 < 100 * b
  OBVIOUS
<1>. DEFINE q == (t * 100) \div b
<1>2. q \in Nat /\ q * b <= t * 100
  BY <1>1
<1>3. q < 100
  <2>1. ~(q >= 100)
    BY <1>1, <1>2
  <2>2. QED
    BY <1>2, <2>1
<1>4. Quotient(t * 100, b) = q
  BY <1>1 DEF Quotient
<1>5. QED
  BY <1>2, <1>3, <1>4

(* A sample refills the window when the position has left it, and the word *)
(* asked for is in it afterwards.                                          *)
LEMMA SampleIInv ==
  ASSUME Attentive, IInv, SampleTape
  PROVE  IInv'
<1>. TypeOK
  BY DEF IInv
<1>0. /\ UNCHANGED <<cpu_tstates, deckVars, motor, cpuspeed, tmpTapeData>>
      /\ preTword' = Tword /\ Tword \in Int
      /\ readTword \in Nat /\ bufStartTword \in Nat
      /\ Got(readTword) \in 0 .. Chunk
      /\ tapeDataBuf \in [0 .. Chunk - 1 -> Words]
  BY ElapsedType, GotBound DEF SampleTape, TypeOK
<1>1. TypeOK'
  <2>1. readTword' \in Nat /\ bufStartTword' \in Nat
    BY <1>0, CmtAssumption DEF SampleTape, Refill
  <2>2. tapeDataBuf' \in [0 .. Chunk - 1 -> Words]
    <3>1. CASE ~NeedsRefill
      BY <1>0, <3>1 DEF SampleTape, Refill
    <3>2. CASE NeedsRefill
      <4>1. ASSUME NEW j \in 0 .. Chunk - 1, j < Got(readTword)
            PROVE  [tape |-> tmpTapeData, word |-> readTword + j] \in Words
        <5>1. tmpTapeData \in Tapes
          BY <4>1, <1>0 DEF Got, TypeOK
        <5>2. readTword + j \in 0 .. Length[tmpTapeData] - 1
          <6>1. Length[tmpTapeData] \in Nat /\ j \in 0 .. Got(readTword) - 1
            BY <4>1, <5>1, <1>0, CmtAssumption
          <6>2. readTword + j < Length[tmpTapeData]
            BY <5>1, <6>1, <1>0, GotBound
          <6>3. QED
            BY <6>1, <6>2, <1>0
        <5>3. QED
          BY <5>1, <5>2, WordIsWord DEF WordOn
      <4>2. QED
        BY <1>0, <3>2, <4>1 DEF SampleTape, Refill
    <3>3. QED
      BY <3>1, <3>2
  <2>3. tapeData' \in Words
    BY <2>2, BlankIsWord DEF SampleTape, Fetch, TypeOK
  <2>4. QED
    BY <1>0, <2>1, <2>2, <2>3 DEF TypeOK, deckVars
<1>2. SpeedFollowsDeck' /\ TapeSet'
  BY <1>0 DEF IInv, SpeedFollowsDeck, TapeSet, deckVars
<1>3. CASE mzt_settape # 1
  BY <1>0, <1>1, <1>2, <1>3 DEF IInv, ProgressBehindTape, PositionAhead, WindowFollowsTape, deckVars
<1>4. CASE mzt_settape = 1
  <2>1. /\ cmt_tstates = 1 /\ cmt_play = 1 /\ Position = Elapsed
        /\ tmpTapeData \in Tapes /\ mzt_bsize = Length[tmpTapeData] /\ mzt_bsize \in Nat \ {0}
    BY <1>4, CmtAssumption DEF SampleTape, IInv, TypeOK, TapeSet, Position
  <2>2. /\ Elapsed \in Nat /\ Tword \in preTword .. preTword + MaxGap
        /\ preTword = 0 => readTword = 0 /\ bufStartTword = 0
    BY <1>4, <2>1 DEF IInv, PositionAhead, Tword
  <2>3. /\ readTword - bufStartTword \in 0 .. Chunk
        /\ readTword <= mzt_bsize
        /\ \A k \in 0 .. readTword - bufStartTword - 1 :
             tapeDataBuf[k] = WordOn(tmpTapeData, bufStartTword + k)
        /\ IF preTword = 0 THEN tapeData = Blank
           ELSE /\ preTword \in bufStartTword .. readTword - 1
                /\ tapeData = WordOn(tmpTapeData, preTword)
    BY <1>4 DEF IInv, WindowFollowsTape
  <2>4. preTword \in Nat /\ Tword \in Nat /\ Tword < mzt_bsize /\ MaxGap < Chunk
    <3>1. preTword \in 0 .. mzt_bsize - 1
      BY <2>1, <2>3, <1>0
    <3>2. QED
      BY <3>1, <2>2, <1>0, CmtAssumption DEF SampleTape, Attentive
  <2>5. PositionAhead'
    <3>1. Position' = Position
      BY <1>0 DEF Position, Elapsed, deckVars
    <3>2. Quotient(Position', WordTicks) \in preTword' .. preTword' + MaxGap
      BY <1>0, <2>1, <2>4, <3>1, CmtAssumption DEF Tword
    <3>3. preTword' = 0 => readTword' = 0 /\ bufStartTword' = 0
      BY <1>0, <2>2, <2>4 DEF SampleTape, Refill, NeedsRefill
    <3>4. QED
      BY <2>1, <2>2, <3>1, <3>2, <3>3 DEF PositionAhead
  <2>6. WindowFollowsTape'
    <3>1. CASE preTword = Tword
      BY <1>0, <2>1, <2>3, <3>1 DEF SampleTape, Refill, NeedsRefill, WindowFollowsTape, deckVars
    <3>2. CASE preTword # Tword /\ readTword > Tword
      <4>1. UNCHANGED <<bufStartTword, readTword, tapeDataBuf>>
        BY <1>0, <2>4, <3>2 DEF SampleTape, Refill, NeedsRefill
      <4>2. preTword # 0 /\ Tword \in bufStartTword .. readTword - 1
        BY <1>0, <2>2, <2>3, <2>4, <3>2
      <4>3. Tword - bufStartTword \in 0 .. Chunk - 1
            /\ Tword - bufStartTword \in 0 .. readTword - bufStartTword - 1
        BY <1>0, <2>3, <4>2, CmtAssumption
      <4>4. tapeData' = tapeDataBuf[Tword - bufStartTword]
        BY <3>2, <4>1, <4>3 DEF SampleTape, Fetch
      <4>5. tapeData' = WordOn(tmpTapeData, Tword)
        <5>1. bufStartTword + (Tword - bufStartTword) = Tword
          BY <1>0
        <5>2. QED
          BY <2>3, <4>3, <4>4, <5>1
      <4>6. Tword # 0
        BY <2>2, <2>4, <4>2
      <4>7. QED
        BY <1>0, <2>3, <4>1, <4>2, <4>5, <4>6 DEF WindowFollowsTape, deckVars
    <3>3. CASE preTword # Tword /\ readTword <= Tword
      <4>. DEFINE n == Got(readTword)
      <4>1. /\ bufStartTword' = readTword /\ readTword' = readTword + n
            /\ tapeDataBuf' = [k \in 0 .. Chunk - 1 |->
                                 IF k < n THEN [tape |-> tmpTapeData, word |-> readTword + k]
                                 ELSE tapeDataBuf[k]]
        BY <3>3 DEF SampleTape, Refill, NeedsRefill
      <4>2. /\ n \in 1 .. Chunk /\ readTword + n <= mzt_bsize
            /\ n = Chunk \/ readTword + n = mzt_bsize
        <5>1. readTword < Length[tmpTapeData]
          BY <1>0, <2>1, <2>4, <3>3
        <5>2. /\ n \in 0 .. Chunk /\ n >= 1 /\ readTword + n <= Length[tmpTapeData]
              /\ n = Chunk \/ readTword + n = Length[tmpTapeData]
          BY <1>0, <2>1, <5>1, GotBound
        <5>3. QED
          BY <2>1, <5>2, CmtAssumption
      <4>. HIDE DEF n
      <4>3. Tword < readTword + n
        <5>1. Tword < readTword + Chunk
          BY <1>0, <2>2, <2>3, <2>4, CmtAssumption
        <5>2. QED
          BY <4>2, <5>1, <2>4
      <4>4. Tword - readTword \in 0 .. n - 1 /\ Tword - readTword \in 0 .. Chunk - 1
        BY <1>0, <2>4, <3>3, <4>2, <4>3, CmtAssumption
      <4>5. \A k \in 0 .. n - 1 : tapeDataBuf'[k] = WordOn(tmpTapeData, readTword + k)
        BY <4>1, <4>2, CmtAssumption DEF WordOn
      <4>6. tapeData' = tapeDataBuf'[Tword - readTword]
        BY <3>3, <4>1, <4>4 DEF SampleTape, Fetch
      <4>7. tapeData' = WordOn(tmpTapeData, Tword)
        <5>1. readTword + (Tword - readTword) = Tword
          BY <1>0
        <5>2. QED
          BY <4>4, <4>5, <4>6, <5>1
      <4>8. Tword # 0
        BY <2>2, <2>4, <3>3
      <4>9. /\ readTword' - bufStartTword' = n
            /\ readTword' <= mzt_bsize
            /\ Tword \in bufStartTword' .. readTword' - 1
        BY <1>0, <3>3, <4>1, <4>2, <4>3, <2>4
      <4>10. QED
        <5>1. /\ readTword' - bufStartTword' \in 0 .. Chunk
              /\ readTword' <= mzt_bsize'
          BY <1>0, <4>2, <4>9, CmtAssumption DEF deckVars
        <5>2. \A k \in 0 .. readTword' - bufStartTword' - 1 :
                tapeDataBuf'[k] = WordOn(tmpTapeData', bufStartTword' + k)
          BY <1>0, <4>1, <4>5, <4>9
        <5>3. /\ preTword' # 0 /\ preTword' \in bufStartTword' .. readTword' - 1
              /\ tapeData' = WordOn(tmpTapeData', preTword')
          BY <1>0, <4>7, <4>8, <4>9
        <5>4. QED
          BY <5>1, <5>2, <5>3 DEF WindowFollowsTape
    <3>4. QED
      BY <1>0, <2>4, <3>1, <3>2, <3>3
  <2>7. ProgressBehindTape'
    <3>1. tape \in 0 .. 99 /\ tape * mzt_bsize <= 100 * preTword
      BY <1>4, <2>1 DEF IInv, ProgressBehindTape
    <3>2. Percent \in 0 .. 99 /\ Percent * mzt_bsize <= 100 * Tword
      BY <2>1, <2>4, PercentBound DEF Percent
    <3>3. 100 * preTword <= 100 * Tword
      BY <2>2, <2>4
    <3>4. tape * mzt_bsize <= 100 * Tword
      <4>1. tape * mzt_bsize \in Nat
        BY <3>1, <2>1
      <4>2. QED
        BY <3>1, <3>3, <4>1, <2>4
    <3>5. tape' \in 0 .. 99 /\ tape' * mzt_bsize <= 100 * Tword
      BY <3>1, <3>2, <3>4 DEF SampleTape
    <3>6. QED
      BY <1>0, <2>1, <3>5 DEF ProgressBehindTape, deckVars
  <2>8. QED
    BY <1>1, <1>2, <2>5, <2>6, <2>7 DEF IInv
<1>5. QED
  BY <1>3, <1>4

(* A sample of a stopped deck changes nothing the invariant is about.      *)
LEMMA StillIInv ==
  ASSUME IInv, StoppedDeck \/ UNCHANGED vars
  PROVE  IInv'
  BY DEF StoppedDeck, vars, deckVars, windowVars, IInv, TypeOK, SpeedFollowsDeck,
     ProgressBehindTape, TapeSet, PositionAhead, Position, Elapsed, WindowFollowsTape

(* Every step keeps the invariant, if the deck is looked at often enough.  *)
LEMMA NextIInv == ASSUME Attentive PROVE IInv /\ [Next]_vars => IInv'
<1>. SUFFICES ASSUME IInv, [Next]_vars PROVE IInv'
  OBVIOUS
<1>1. ASSUME NEW d \in Steps, Execute(d) PROVE IInv'
  BY <1>1, ExecuteIInv
<1>2. CASE StoppedDeck
  BY <1>2, StillIInv
<1>3. CASE EndOfTape
  BY <1>3, EndIInv
<1>4. CASE SampleTape
  BY <1>4, SampleIInv
<1>5. CASE MotorOn \/ MotorOff
  BY <1>5, MotorIInv
<1>6. ASSUME NEW t \in Tapes, ChooseTape(t) PROVE IInv'
  BY <1>6, ChooseIInv
<1>7. CASE ChooseMissing
  BY <1>7, MissingIInv
<1>8. CASE mz_reset
  BY <1>8, ResetIInv
<1>9. CASE UNCHANGED vars
  BY <1>9, StillIInv
<1>10. QED
  BY <1>1, <1>2, <1>3, <1>4, <1>5, <1>6, <1>7, <1>8, <1>9 DEF Next, cmt_read

(* An attentive program always finds the deck in order.                    *)
THEOREM Invariance == ASSUME Attentive PROVE Spec => []IInv
<1>1. IInv /\ [Next]_vars => IInv'
  BY NextIInv
<1>2. QED
  BY <1>1, InitIInv, PTL DEF Spec

(* Types: the counters stay 32-bit integers, the window holds words.       *)
THEOREM TypeCorrect == ASSUME Attentive PROVE Spec => []TypeOK
  BY Invariance, PTL DEF IInv

(* The window holds the tape's words around the one being sampled.         *)
THEOREM WindowCorrect == ASSUME Attentive PROVE Spec => []WindowFollowsTape
  BY Invariance, PTL DEF IInv

(* The progress shown never runs ahead of the tape.                        *)
THEOREM ProgressCorrect == ASSUME Attentive PROVE Spec => []ProgressBehindTape
  BY Invariance, PTL DEF IInv

(* The CPU is fast exactly while a tape turns.                             *)
THEOREM SpeedCorrect == ASSUME Attentive PROVE Spec => []SpeedFollowsDeck
  BY Invariance, PTL DEF IInv

----------------------------------------------------------------------------
(* Refinement, one lemma for each kind of step.                            *)
Present == mzt_settape = 1
Playable == mzt_settape = 1 /\ cmt_play = 1
Running == mzt_settape = 1 /\ cmt_tstates = 1
Pos == IF mzt_settape = 0 \/ cmt_play = 0 THEN 0
       ELSE IF cmt_tstates = 1 THEN Elapsed ELSE mzt_elapse

(* The position is what the abstract deck means by it, playing or paused.  *)
LEMMA PosIsPosition ==
  ASSUME IInv
  PROVE  /\ Playable => Pos = Position /\ Pos \in Nat
         /\ ~Playable => Pos = 0 /\ ~Running
         /\ Running => Playable
  BY DEF IInv, TypeOK, TapeSet, PositionAhead, Present, Playable, Running, Pos, Position

(* The deck starts empty.                                                  *)
LEMMA InitDeck == Init => Deck!Init
  BY DEF Init, Deck!Init, Deck!AtRest

(* CPU time advances a deck whose motor runs, and no other.                *)
LEMMA ExecuteDeck ==
  ASSUME Attentive, IInv, NEW d \in Steps, Execute(d)
  PROVE  Deck!Advance
<1>1. UNCHANGED <<tmpTapeData, mzt_settape, cmt_play, cmt_tstates, mzt_elapse>> /\ sense' = NotRead
  BY DEF Execute, deckVars, NothingRead
<1>2. CASE Running
  <2>1. Playable /\ Position \in Nat /\ Position + d < Half /\ Position = Elapsed /\ Pos = Position
    BY <1>2, PositionBound, PosIsPosition DEF Running, Playable, Position
  <2>2. Elapsed' = Elapsed + d
    <3>1. cpu_tstates \in Int32 /\ mzt_start \in Int32 /\ mzt_elapse \in Int32
      BY DEF IInv, TypeOK
    <3>2. Wrap(Wrap(Wrap(cpu_tstates + d) - mzt_start) + mzt_elapse) = Elapsed + d
      BY <2>1, <3>1, ElapsedAdds, CmtAssumption DEF Elapsed
    <3>3. QED
      BY <3>2 DEF Elapsed, Execute, deckVars
  <2>3. Pos' = Pos + d
    BY <1>1, <1>2, <2>1, <2>2 DEF Pos, Running, Playable
  <2>4. QED
    BY <1>1, <1>2, <2>3 DEF Deck!Advance, Pos, Running
<1>3. CASE ~Running
  <2>1. Pos' = Pos
    BY <1>1, <1>3 DEF Pos, Running, IInv, TypeOK
  <2>2. QED
    BY <1>1, <2>1 DEF Deck!Advance, Pos
<1>4. QED
  BY <1>2, <1>3

(* The motor's switch is the abstract deck's, with what a late look has    *)
(* yet to make up for.                                                     *)
LEMMA MotorDeck ==
  ASSUME IInv, MotorOn \/ MotorOff
  PROVE  Deck!Advance \/ Deck!Toggle
<1>1. UNCHANGED <<tmpTapeData, mzt_settape, cmt_play, cpu_tstates>> /\ sense' = NotRead
  BY DEF MotorOn, MotorOff, deckVars, NothingRead
<1>2. CASE UNCHANGED <<cmt_tstates, mzt_start, mzt_elapse>>
  <2>1. Pos' = Pos
    BY <1>1, <1>2 DEF Pos, Elapsed
  <2>2. QED
    BY <1>1, <1>2, <2>1 DEF Deck!Advance, Pos
<1>3. CASE cmt_tstates = 0 /\ cmt_play # 0 /\ StartDeck /\ UNCHANGED mzt_elapse
  <2>1. cpu_tstates \in Int32 /\ mzt_elapse \in Int32 /\ cmt_play = 1 /\ mzt_settape \in {0, 1}
    BY <1>3 DEF IInv, TypeOK
  <2>2. Elapsed' = mzt_elapse
    BY <1>1, <1>3, <2>1, PausedElapsed DEF Elapsed, StartDeck
  <2>3. Pos' = Pos
    BY <1>1, <1>3, <2>2 DEF Pos, StartDeck
  <2>4. QED
    BY <1>1, <1>3, <2>1, <2>3 DEF Deck!Advance, Deck!Toggle, Pos, StartDeck
<1>4. CASE cmt_tstates # 0 /\ PauseDeck
  <2>1. cmt_tstates = 1 /\ mzt_settape \in {0, 1} /\ (mzt_settape = 1 => cmt_play = 1)
    BY <1>4 DEF IInv, TypeOK, TapeSet
  <2>2. mzt_elapse' = Elapsed
    <3>1. mzt_elapse \in Int32 /\ Wrap(cpu_tstates - mzt_start) \in Int32
      BY DifferenceInt32 DEF IInv, TypeOK
    <3>2. mzt_elapse \in Int /\ Wrap(cpu_tstates - mzt_start) \in Int
      BY <3>1, CmtAssumption DEF Int32
    <3>3. QED
      BY <1>4, <3>2 DEF PauseDeck, Elapsed
  <2>3. Pos' = Pos
    BY <1>1, <1>4, <2>1, <2>2 DEF Pos, PauseDeck
  <2>4. QED
    BY <1>1, <1>4, <2>1, <2>3 DEF Deck!Advance, Deck!Toggle, Pos, PauseDeck
<1>5. QED
  BY <1>2, <1>3, <1>4 DEF MotorOn, MotorOff, deckVars

(* A stopped deck is silent.                                               *)
LEMMA StoppedDeckDeck ==
  ASSUME IInv, StoppedDeck
  PROVE  Deck!Listen \/ Deck!ListenToNothing
<1>1. UNCHANGED <<cpu_tstates, deckVars, tmpTapeData>> /\ cmt_tstates = 0 /\ sense' = Silent
  BY DEF StoppedDeck
<1>2. Pos' = Pos /\ mzt_settape \in {0, 1}
  BY <1>1 DEF Pos, Elapsed, deckVars, IInv, TypeOK
<1>3. QED
  BY <1>1, <1>2 DEF Deck!Listen, Deck!ListenToNothing, Deck!AtRest, Pos, deckVars

(* Behind the end of the tape the deck is silent and stops.                *)
LEMMA EndDeck ==
  ASSUME IInv, EndOfTape
  PROVE  Deck!Listen \/ Deck!ListenToNothing
<1>1. /\ UNCHANGED <<mzt_settape, tmpTapeData>> /\ sense' = Silent
      /\ cmt_play' = 0 /\ cmt_tstates' = 0 /\ cmt_tstates = 1 /\ mzt_settape \in {0, 1}
  BY DEF EndOfTape, StopAtEnd, IInv, TypeOK
<1>2. Deck!AtRest'
  BY <1>1 DEF Deck!AtRest
<1>3. CASE mzt_settape = 0
  BY <1>1, <1>2, <1>3 DEF Deck!ListenToNothing
<1>4. CASE mzt_settape = 1
  <2>1. Playable /\ Running /\ Pos = Elapsed /\ Pos \in Nat
    <3>1. Running
      BY <1>1, <1>4 DEF Running
    <3>2. Playable /\ Pos \in Nat
      BY <3>1, PosIsPosition
    <3>3. QED
      BY <1>1, <1>4, <3>1, <3>2 DEF Playable, Pos
  <2>2. mzt_bsize = Length[tmpTapeData] /\ mzt_bsize \in Nat
    BY <1>4, CmtAssumption DEF IInv, TapeSet
  <2>3. Pos \div WordTicks >= mzt_bsize
    BY <2>1 DEF EndOfTape, Tword, Quotient
  <2>4. Pos >= mzt_bsize * WordTicks
    BY <2>1, <2>2, <2>3, CmtAssumption
  <2>5. Deck!Listen
    BY <1>1, <1>2, <1>4, <2>1, <2>2, <2>4 DEF Deck!Listen, Pos, Running
  <2>6. QED
    BY <2>5
<1>5. QED
  BY <1>1, <1>3, <1>4

(* A sample reads the bit at the tape's position.                          *)
LEMMA SampleDeck ==
  ASSUME IInv, IInv', SampleTape
  PROVE  Deck!Listen \/ Deck!ListenToNothing
<1>1. /\ UNCHANGED <<cpu_tstates, deckVars, tmpTapeData>> /\ cmt_tstates = 1
      /\ preTword' = Tword /\ sense' = [word |-> tapeData', bit |-> Tbit]
      /\ Tword < mzt_bsize /\ mzt_settape \in {0, 1}
  BY DEF SampleTape, IInv, TypeOK
<1>2. Pos' = Pos
  BY <1>1 DEF Pos, Elapsed, deckVars
<1>3. CASE mzt_settape = 0
  BY <1>1, <1>2, <1>3 DEF Deck!ListenToNothing, Deck!AtRest, Pos, deckVars
<1>4. CASE mzt_settape = 1
  <2>1. Playable /\ Running /\ Pos = Elapsed /\ Pos \in Nat
    <3>1. Running
      BY <1>1, <1>4 DEF Running
    <3>2. Playable /\ Pos \in Nat
      BY <3>1, PosIsPosition
    <3>3. QED
      BY <1>1, <1>4, <3>1, <3>2 DEF Playable, Pos
  <2>2. mzt_bsize = Length[tmpTapeData] /\ mzt_bsize \in Nat
    BY <1>4, CmtAssumption DEF IInv, TapeSet
  <2>3. Tword = Pos \div WordTicks /\ Tword \in Nat
    BY <2>1, CmtAssumption DEF Tword, Quotient
  <2>4. Pos < mzt_bsize * WordTicks
    BY <1>1, <2>1, <2>2, <2>3, CmtAssumption
  <2>5. tapeData' = Deck!WordAt(Pos)
    BY <1>1, <1>4, <2>3 DEF IInv, WindowFollowsTape, Deck!WordAt, WordOn, deckVars
  <2>6. Tbit = Deck!BitAt(Pos)
    <3>1. Remainder(Elapsed, WordTicks) = Pos % WordTicks /\ Pos % WordTicks \in Nat
      BY <2>1, CmtAssumption DEF Remainder
    <3>2. QED
      BY <3>1 DEF Tbit, Quotient, Deck!BitAt
  <2>7. Deck!Listen
    BY <1>1, <1>2, <1>4, <2>1, <2>2, <2>4, <2>5, <2>6 DEF Deck!Listen, Pos, Running, deckVars
  <2>8. QED
    BY <2>7
<1>5. QED
  BY <1>1, <1>3, <1>4

(* A tape chosen is put into the deck.                                     *)
LEMMA ChooseDeck ==
  ASSUME IInv, NEW t \in Tapes, ChooseTape(t)
  PROVE  Deck!Insert
<1>1. cpu_tstates \in Int32 /\ 0 \in Int32
  BY CmtAssumption DEF IInv, TypeOK, Int32
<1>2. Wrap(Wrap(cpu_tstates - cpu_tstates) + 0) = 0
  BY <1>1, PausedElapsed
<1>3. Pos' = 0
  BY <1>2 DEF ChooseTape, set_mztData, PressPlay, StartDeck, Pos, Elapsed
<1>4. QED
  BY <1>3 DEF ChooseTape, set_mztData, PressPlay, StartDeck, NothingRead, Deck!Insert, Pos

(* A missing file and a reset take the tape out.                           *)
LEMMA RemoveDeck ==
  ASSUME ChooseMissing \/ mz_reset
  PROVE  Deck!Remove
  BY DEF ChooseMissing, CannotOpen, PressPlay, mz_reset, NothingRead, Deck!Remove, Deck!AtRest

(* Every step of the code is one of the abstract deck, or leaves it as it  *)
(* was.                                                                    *)
LEMMA StepDeck == ASSUME Attentive PROVE IInv /\ [Next]_vars => [Deck!Next]_(Deck!vars)
<1>. SUFFICES ASSUME IInv, [Next]_vars PROVE [Deck!Next]_(Deck!vars)
  OBVIOUS
<1>. IInv'
  BY NextIInv
<1>. USE DEF Deck!Next
<1>1. ASSUME NEW d \in Steps, Execute(d) PROVE Deck!Next
  BY <1>1, ExecuteDeck
<1>2. CASE StoppedDeck
  BY <1>2, StoppedDeckDeck
<1>3. CASE EndOfTape
  BY <1>3, EndDeck
<1>4. CASE SampleTape
  BY <1>4, SampleDeck
<1>5. CASE MotorOn \/ MotorOff
  BY <1>5, MotorDeck
<1>6. ASSUME NEW t \in Tapes, ChooseTape(t) PROVE Deck!Next
  BY <1>6, ChooseDeck
<1>7. CASE ChooseMissing \/ mz_reset
  BY <1>7, RemoveDeck
<1>8. CASE UNCHANGED vars
  BY <1>8 DEF vars, deckVars, Deck!vars, Elapsed
<1>9. QED
  BY <1>1, <1>2, <1>3, <1>4, <1>5, <1>6, <1>7, <1>8 DEF Next, cmt_read

(* With an attentive program the wrapping counter and the window are a     *)
(* deck: DeckSpec.                                                         *)
THEOREM DeckRefinement == ASSUME Attentive PROVE Spec => DeckSpec
<1>1. IInv /\ [Next]_vars => [Deck!Next]_(Deck!vars)
  BY StepDeck
<1>2. QED
  BY <1>1, InitDeck, Invariance, PTL DEF Spec, DeckSpec, Deck!Spec
=============================================================================
