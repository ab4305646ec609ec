-------------------------------- MODULE Cmt ---------------------------------
(***************************************************************************)
(* The cassette deck of MZhw.cpp: set_mztData converts a file to a tape of *)
(* words of pulses, the Z80 program starts and pauses the motor through    *)
(* E002H/E003H and samples the signal through E002H, where cmt_read turns  *)
(* the CPU cycles gone by into a position on the tape and keeps a window   *)
(* of Chunk words of the tape file in memory.                              *)
(***************************************************************************)
EXTENDS Integers

CONSTANTS
  Tapes, Length,   \* the files the user can choose, and the words each becomes
  BitTicks,        \* calcParam: CPU cycles a bit lasts
  WordTicks,       \* 27 * calcParam
  Chunk,           \* 400: words read from the tape file at once
  Half,            \* 2^31: the cycle counters are 32-bit integers
  Steps,           \* cycles an instruction takes
  MaxGap,          \* words that may go by before the program samples again
  LongTape,        \* 4000: tapes from here on report every percent
  NoFile           \* the tape file was truncated and nothing written to it

ASSUME CmtAssumption ==
  /\ Length \in [Tapes -> Nat \ {0}] /\ NoFile \notin Tapes
  /\ BitTicks \in Nat \ {0} /\ WordTicks \in Nat \ {0}
  /\ Chunk \in Nat \ {0} /\ Half \in Nat \ {0} /\ MaxGap \in Nat
  /\ Steps \subseteq 1 .. Half - 1

VARIABLES
  cpu_tstates,                         \* ts700: the cycle counter
  cmt_tstates, cmt_play, mzt_settape,  \* ts700: turning, PLAY pressed, tape set
  mzt_bsize, mzt_elapse, mzt_start,    \* ts700: words, cycles played, cycle it started
  motor,                               \* hw700.motor: the motor bit last written
  tape,                                \* sysst.tape: progress shown, in percent
  cpuspeed,                            \* the argument setup_cpuspeed last had
  tapeData, preTword,                  \* the word being sampled and its number
  readTword, bufStartTword, tapeDataBuf, \* the window: next word to read, first word, words
  tmpTapeData,                         \* what the tape file holds
  sense                                \* what E002H returned, if it was just read

deckVars == <<cmt_tstates, cmt_play, mzt_settape, mzt_bsize, mzt_elapse, mzt_start>>
windowVars == <<tapeData, preTword, readTword, bufStartTword, tapeDataBuf>>
vars == <<cpu_tstates, deckVars, motor, tape, cpuspeed, windowVars, tmpTapeData, sense>>

(* 32-bit addition of two 32-bit integers.                                 *)
Wrap(x) == IF x >= Half THEN x - 2 * Half
           ELSE IF x < -Half THEN x + 2 * Half ELSE x

(* Division and remainder as in C, which truncates.                        *)
Quotient(a, b) == IF a >= 0 THEN a \div b ELSE -((-a) \div b)
Remainder(a, b) == IF a >= 0 THEN a % b ELSE -((-a) % b)

Blank == [tape |-> NoFile, word |-> 0]
Junk == [tape |-> NoFile, word |-> -1]  \* whatever lies beside the array
Silent == [word |-> Blank, bit |-> -1]
NotRead == [word |-> Junk, bit |-> -1]

Elapsed == Wrap(Wrap(cpu_tstates - mzt_start) + mzt_elapse)
Tword == Quotient(Elapsed, WordTicks)
Tbit == Quotient(Remainder(Elapsed, WordTicks), BitTicks)

----------------------------------------------------------------------------
NothingRead == sense' = NotRead

setup_cpuspeed(mul) == cpuspeed' = mul

StartDeck ==
  /\ cmt_tstates' = 1
  /\ mzt_start' = cpu_tstates
  /\ setup_cpuspeed(5)

\* Mutant: a pause forgets the time played since the start.
PauseForgets ==
  /\ cmt_tstates' = 0
  /\ setup_cpuspeed(1)
  /\ UNCHANGED mzt_elapse

PauseDeck ==
  /\ cmt_tstates' = 0
  /\ setup_cpuspeed(1)
  /\ mzt_elapse' = Wrap(mzt_elapse + Wrap(cpu_tstates - mzt_start))

(* The program writes the motor bit, through E002H or E003H: only a rising *)
(* edge does something, and it starts or pauses by turns.                  *)
MotorOn ==
  /\ motor' = 8
  /\ \/ motor = 0 /\ cmt_tstates = 0 /\ cmt_play # 0
        /\ StartDeck /\ UNCHANGED mzt_elapse
     \/ motor = 0 /\ cmt_tstates # 0
        /\ PauseDeck /\ UNCHANGED mzt_start
     \/ (motor # 0 \/ (cmt_tstates = 0 /\ cmt_play = 0))
        /\ UNCHANGED <<cmt_tstates, mzt_start, mzt_elapse, cpuspeed>>
  /\ UNCHANGED <<cpu_tstates, cmt_play, mzt_settape, mzt_bsize, tape, windowVars,
                 tmpTapeData>>
  /\ NothingRead

MotorOff ==
  /\ motor' = 0
  /\ UNCHANGED <<cpu_tstates, deckVars, tape, cpuspeed, windowVars, tmpTapeData>>
  /\ NothingRead

----------------------------------------------------------------------------
(* cmt_read, sampled by a read of E002H.                                   *)
StoppedDeck ==
  /\ cmt_tstates = 0
  /\ sense' = Silent
  /\ UNCHANGED <<cpu_tstates, deckVars, motor, tape, cpuspeed, windowVars, tmpTapeData>>

\* Mutant: the end of the tape leaves the CPU at five times its speed.
EndStaysFast == cmt_play' = 0 /\ cmt_tstates' = 0 /\ UNCHANGED cpuspeed
\* Mutant: the end of the tape leaves the deck turning.
EndKeepsTurning == cmt_play' = 0 /\ setup_cpuspeed(1) /\ UNCHANGED cmt_tstates

StopAtEnd == cmt_play' = 0 /\ cmt_tstates' = 0 /\ setup_cpuspeed(1)

EndOfTape ==
  /\ cmt_tstates # 0 /\ Tword >= mzt_bsize
  /\ StopAtEnd
  /\ tape' = 100
  /\ tapeData' = Blank /\ preTword' = 0 /\ readTword' = 0 /\ bufStartTword' = 0
  /\ sense' = Silent
  /\ UNCHANGED <<cpu_tstates, mzt_settape, mzt_bsize, mzt_elapse, mzt_start, motor,
                 tapeDataBuf, tmpTapeData>>

\* Mutant: a short read at the end of the file is counted as a full one.
GotFull(from) == Chunk

(* The words a read of the tape file at word `from` yields.                *)
Got(from) == IF tmpTapeData = NoFile \/ from >= Length[tmpTapeData] THEN 0
             ELSE IF Length[tmpTapeData] - from < Chunk THEN Length[tmpTapeData] - from
             ELSE Chunk

Fetch(buf, i) == IF i \in 0 .. Chunk - 1 THEN buf[i] ELSE Junk

\* Mutant: the window is refilled one word late.
NeedsRefillLate == preTword # Tword /\ readTword < Tword

NeedsRefill == preTword # Tword /\ readTword <= Tword

Refill ==
  IF NeedsRefill
  THEN /\ bufStartTword' = readTword
       /\ readTword' = readTword + Got(readTword)
       /\ tapeDataBuf' = [i \in 0 .. Chunk - 1 |->
                            IF i < Got(readTword)
                            THEN [tape |-> tmpTapeData, word |-> readTword + i]
                            ELSE tapeDataBuf[i]]
  ELSE UNCHANGED <<bufStartTword, readTword, tapeDataBuf>>

Percent == Quotient(Tword * 100, mzt_bsize)
mzt_period == IF mzt_bsize < LongTape THEN 2 ELSE 1

SampleTape ==
  /\ cmt_tstates # 0 /\ Tword < mzt_bsize
  /\ tape' = IF Percent - tape >= mzt_period THEN Percent ELSE tape
  /\ preTword' = Tword
  /\ Refill
  /\ tapeData' = IF preTword # Tword THEN Fetch(tapeDataBuf', Tword - bufStartTword')
                 ELSE tapeData
  /\ sense' = [word |-> tapeData', bit |-> Tbit]
  /\ UNCHANGED <<cpu_tstates, deckVars, motor, cpuspeed, tmpTapeData>>

cmt_read == StoppedDeck \/ EndOfTape \/ SampleTape

----------------------------------------------------------------------------
\* Mutant: a new tape keeps the progress of the one before.
SetTapeKeepsProgress(t) ==
  /\ mzt_bsize' = Length[t] /\ mzt_elapse' = 0 /\ mzt_settape' = 1
  /\ tmpTapeData' = t
  /\ tapeData' = Blank /\ preTword' = 0 /\ readTword' = 0 /\ bufStartTword' = 0
  /\ UNCHANGED <<tape, tapeDataBuf>>

(* set_mztData: the chosen file is converted to the tape file.             *)
set_mztData(t) ==
  /\ mzt_bsize' = Length[t] /\ mzt_elapse' = 0 /\ mzt_settape' = 1
  /\ tmpTapeData' = t
  /\ tape' = 0
  /\ tapeData' = Blank /\ preTword' = 0 /\ readTword' = 0 /\ bufStartTword' = 0
  /\ UNCHANGED tapeDataBuf

(* set_mztData when the file cannot be opened: the tape file is truncated  *)
(* before that is known.                                                   *)
CannotOpen ==
  /\ mzt_settape' = 0 /\ tape' = 0 /\ tmpTapeData' = NoFile
  /\ UNCHANGED <<mzt_bsize, mzt_elapse, windowVars>>

(* selectMzt and setMztToMemory press PLAY whatever set_mztData returned.  *)
PressPlay ==
  /\ cmt_play' = 1
  /\ StartDeck
  /\ UNCHANGED <<cpu_tstates, motor>>
  /\ NothingRead

ChooseTape(t) == set_mztData(t) /\ PressPlay
ChooseMissing == CannotOpen /\ PressPlay

(* mz_reset clears ts700 and hw700; sysst, the window and the CPU speed    *)
(* are not part of them.                                                   *)
mz_reset ==
  /\ cpu_tstates' = 0 /\ cmt_tstates' = 0 /\ cmt_play' = 0 /\ mzt_settape' = 0
  /\ mzt_bsize' = 0 /\ mzt_elapse' = 0 /\ mzt_start' = 0 /\ motor' = 0
  /\ UNCHANGED <<tape, cpuspeed, windowVars, tmpTapeData>>
  /\ NothingRead

(* The Z80 executes an instruction of d cycles.  While the tape turns, the *)
(* program samples it before MaxGap words have gone by unheard.            *)
Execute(d) ==
  /\ cpu_tstates' = Wrap(cpu_tstates + d)
  /\ UNCHANGED <<deckVars, motor, tape, cpuspeed, windowVars, tmpTapeData>>
  /\ NothingRead
  /\ cmt_tstates # 0 => Tword' - preTword <= MaxGap

----------------------------------------------------------------------------
Init ==
  /\ cpu_tstates = 0 /\ cmt_tstates = 0 /\ cmt_play = 0 /\ mzt_settape = 0
  /\ mzt_bsize = 0 /\ mzt_elapse = 0 /\ mzt_start = 0 /\ motor = 0
  /\ tape = 0 /\ cpuspeed = 1
  /\ tapeData = Blank /\ preTword = 0 /\ readTword = 0 /\ bufStartTword = 0
  /\ tapeDataBuf = [i \in 0 .. Chunk - 1 |-> Blank]
  /\ tmpTapeData = NoFile
  /\ sense = NotRead

Next ==
  \/ \E d \in Steps : Execute(d)
  \/ cmt_read
  \/ MotorOn
  \/ MotorOff
  \/ \E t \in Tapes : ChooseTape(t)
  \/ ChooseMissing
  \/ mz_reset

Spec == Init /\ [][Next]_vars

----------------------------------------------------------------------------
WordOn(t, k) == [tape |-> t, word |-> k]
Words == {Blank, Junk} \cup UNION {{WordOn(t, k) : k \in 0 .. Length[t] - 1} : t \in Tapes}
Int32 == -Half .. Half - 1

TypeOK ==
  /\ {cpu_tstates, mzt_elapse, mzt_start} \subseteq Int32
  /\ {cmt_tstates, cmt_play, mzt_settape} \subseteq {0, 1}
  /\ mzt_bsize \in Nat /\ motor \in {0, 8} /\ cpuspeed \in {1, 5}
  /\ tmpTapeData \in Tapes \cup {NoFile}
  /\ preTword \in Int /\ readTword \in Nat /\ bufStartTword \in Nat
  /\ tapeData \in Words /\ tapeDataBuf \in [0 .. Chunk - 1 -> Words]

(* With a tape set, the window holds the words of the tape file from       *)
(* bufStartTword up to readTword and never more than the array has room    *)
(* for; the word being sampled lies in it and is the one the position      *)
(* asked for.  (After the first word, which is never fetched.)             *)
WindowFollowsTape ==
  mzt_settape = 1 =>
    /\ readTword - bufStartTword \in 0 .. Chunk
    /\ readTword <= mzt_bsize
    /\ \A i \in 0 .. readTword - bufStartTword - 1 :
         tapeDataBuf[i] = WordOn(tmpTapeData, bufStartTword + i)
    /\ IF preTword = 0 THEN tapeData = Blank
       ELSE /\ preTword \in bufStartTword .. readTword - 1
            /\ tapeData = WordOn(tmpTapeData, preTword)

(* What the program hears is the word at the position of the tape, but for *)
(* the first word: the comment at the line that samples it.                *)
HeardIsOnTape ==
  mzt_settape = 1 /\ sense \notin {NotRead, Silent} =>
    sense.word \in {Blank, WordOn(tmpTapeData, Tword)}

(* Without a tape the deck does not turn: the comment in set_mztData says  *)
(* that a file that cannot be opened ejects the tape.                      *)
NoTapeNoMotion == mzt_settape = 0 => cmt_tstates = 0

(* The progress shown never runs ahead of the tape, and shows 100 percent  *)
(* only when the tape has run out.                                         *)
ProgressBehindTape ==
  mzt_settape = 1 =>
    IF cmt_play = 0 THEN tape = 100
    ELSE tape \in 0 .. 99 /\ tape * mzt_bsize <= 100 * preTword

(* The CPU runs at five times its speed exactly while a tape turns (a      *)
(* reset in the middle of a tape is the exception: it sets neither the     *)
(* speed back nor leaves a tape set).                                      *)
SpeedFollowsDeck ==
  /\ cmt_tstates = 1 => cpuspeed = 5
  /\ mzt_settape = 1 /\ cmt_tstates = 0 => cpuspeed = 1

(* The cycle counter, which wraps around, and the window are a deck whose  *)
(* tape moves by the cycles executed while it turns, pauses included, and  *)
(* whose signal is the bit at the position reached.                        *)
Deck == INSTANCE CassetteDeck WITH
  tape <- tmpTapeData,
  present <- mzt_settape = 1,
  playable <- mzt_settape = 1 /\ cmt_play = 1,
  running <- mzt_settape = 1 /\ cmt_tstates = 1,
  pos <- IF mzt_settape = 0 \/ cmt_play = 0 THEN 0
         ELSE IF cmt_tstates = 1 THEN Elapsed ELSE mzt_elapse,
  heard <- sense
DeckSpec == Deck!Spec

(* The program samples often enough for the window, and every tape ends    *)
(* before the cycle counter can wrap around while it turns.                *)
Attentive ==
  /\ MaxGap < Chunk
  /\ \A t \in Tapes, d \in Steps : (Length[t] + MaxGap) * WordTicks + d <= Half

(* A turning tape stops, as long as the CPU executes and the program       *)
(* samples the tape.                                                       *)
TapeStops == cmt_tstates = 1 ~> cmt_tstates = 0
=============================================================================
