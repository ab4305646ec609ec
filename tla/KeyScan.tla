------------------------------ MODULE KeyScan ------------------------------
(***************************************************************************)
(* The key matrix (keyports of MZhw.cpp) and what works it in Mzmain.cpp:  *)
(* keyCheck with the serial line, the joypad, the I2C keyboards and the    *)
(* built-in script, and keyboard(), the reports of a USB or Bluetooth      *)
(* keyboard.  All run in the main loop.  k is the record of their globals: *)
(*    down     the keys that are down, by their codes in the matrix        *)
(*    pre, count, delay   preKeyCode, keyCheckCount, delayInputKeyCode     *)
(*    brk      sendBreakFlag                                               *)
(*    serial   serialKeyCode, and rx what the serial line has received     *)
(*    ex, cr   inputStringEx and inputStringMode                           *)
(*    pushed   the joyPadPushed_ flags that are set                        *)
(*    card     the key an I2C keyboard has, i2c the calls since its poll   *)
(*    wonder   wonderHouseMode, and at wonderHouseKeyIndex                 *)
(*    last     _last_key of keyboard()                                     *)
(*    mode     mzConfig.mzMode                                             *)
(***************************************************************************)
EXTENDS Integers, Sequences, TLC

CONSTANTS ak_tbl, ak_tbl_s,     \* code of a character, without and with shift
          hid_to_emu,           \* code of a key of a HID keyboard
          HoldCount,            \* keyCheck calls a key is held for: 5
          I2cEvery,             \* calls between two polls of I2C: 50
          wonderHouseKeyData    \* the script

Modes == {80, 700}
Bytes == 0 .. 255
Ascii == 0 .. 127
None == 255                     \* 0xff in the tables: no such key
Shift == 128                    \* shift_code, the same in both modes
Matrix == {16 * row + bit : row \in 0 .. 9, bit \in 0 .. 7}
KeyCodes == Matrix \cup {None}

\* The tables have a place for each character, and a key for BREAK; the
\* script ends with E.  The tables for HID keyboards end at 173: what lies
\* behind them and is read for the codes up to 231 is taken to be a code.
ASSUME TableAssumption ==
  /\ ak_tbl \in [Modes -> [Ascii -> KeyCodes]] /\ ak_tbl_s \in [Modes -> [Ascii -> KeyCodes]]
  /\ ak_tbl_s[80][3] \in Matrix
  /\ hid_to_emu \in [Modes -> [0 .. 231 -> KeyCodes]]
  /\ HoldCount \in Nat \ {0} /\ I2cEvery \in Nat \ {0}
  /\ wonderHouseKeyData \in Seq(Ascii) /\ wonderHouseKeyData # <<>>
  /\ wonderHouseKeyData[Len(wonderHouseKeyData)] = 69

NoKey == -1
NoCard == [kb |-> "none", code |-> 0]

\* A code of no key (255 is the only one in the tables) changes nothing.
mz_keydown_sub(k, code) == [k EXCEPT !.down = @ \cup ({code} \cap Matrix)]
mz_keyup_sub(k, code) == [k EXCEPT !.down = @ \ {code}]
mz_keyport_init(k) == [k EXCEPT !.down = {}]

NewKeys(mode) ==
  [down |-> {}, pre |-> NoKey, count |-> 0, delay |-> 0, brk |-> FALSE, serial |-> 0,
   rx |-> <<>>, ex |-> <<>>, cr |-> FALSE, pushed |-> {}, card |-> NoCard, i2c |-> 0,
   wonder |-> FALSE, at |-> 1, last |-> 0, mode |-> mode, in |-> 0]

-----------------------------------------------------------------------------
(* The sources of keyCheck; k.in is its inKeyCode.                         *)

\* The last byte of an arrow key's sequence ESC [ A ...; 0 for any other.
CursorKey(c) ==
  CASE c = 65 -> 18 [] c = 66 -> 17 [] c = 67 -> 19 [] c = 68 -> 20
    [] c = 49 -> 21 [] c = 52 -> 22 [] c = 50 -> 24 [] OTHER -> 0
Backspace(c) == IF c = 127 THEN 23 ELSE c

\* The first key of what has come; the rest is thrown away.  ESC alone is
\* BREAK.  A code is given again and again until another key comes.
checkSerialKey(k) ==
  LET Byte(n) == IF n <= Len(k.rx) THEN k.rx[n] ELSE 255    \* -1 in a char
      t == [k EXCEPT !.rx = <<>>]
  IN CASE k.rx = <<>> -> k
       [] k.rx # <<>> /\ Byte(1) # 27 -> [t EXCEPT !.serial = Backspace(Byte(1))]
       [] k.rx # <<>> /\ Byte(1) = 27 /\ Byte(2) = 255 ->
            [t EXCEPT !.serial = 0, !.brk = TRUE]
       [] OTHER -> [t EXCEPT !.serial = IF Byte(2) = 91 THEN CursorKey(Byte(3))
                                        ELSE Backspace(Byte(2))]

\* The stick: a direction is pressed beyond a threshold and released on the
\* other side of the same; on it, nothing happens.
Codes == [U |-> 117, D |-> 116, L |-> 114, R |-> 115]
Beyond(x, y) ==
  {d \in DOMAIN Codes : [U |-> x < 80, D |-> x > 160, L |-> y < 80, R |-> y > 160][d]}
Within(x, y) ==
  {d \in DOMAIN Codes : [U |-> x > 80, D |-> x < 160, L |-> y > 80, R |-> y < 160][d]}
Directions(k, x, y) ==
  LET on == Beyond(x, y) \ k.pushed
      off == Within(x, y) \cap k.pushed
  IN [k EXCEPT !.pushed = (@ \cup on) \ off,
               !.down = (@ \cup {Codes[d] : d \in on}) \ {Codes[d] : d \in off}]

\* A button types a text, unless one is still being typed.
Text(k, text) == IF k.ex = <<>> THEN [k EXCEPT !.ex = text] ELSE k
Button(k, name, value, pressed) ==
  CASE name \notin k.pushed /\ value = 1 -> [pressed EXCEPT !.pushed = @ \cup {name}]
    [] name \in k.pushed /\ value = 0 -> [k EXCEPT !.pushed = @ \ {name}]
    [] OTHER -> k

\* joyX = 0 means that there is none.  The buttons A and B are never read:
\* their values are whatever the stack holds.  Nothing sets joyPadPushed_B.
checkJoyPad(k, joy, buttonA, buttonB) ==
  LET d == Directions(k, joy.x, joy.y)
      a == Button(d, "A", buttonA, Text(d, <<32, 49, 67>>))
      b == IF buttonB = 1 THEN Text(a, <<51, 83>>) ELSE a
      p == IF b.ex = <<>> THEN [b EXCEPT !.ex = <<115>>, !.cr = TRUE] ELSE b
  IN IF k.mode # 700 \/ joy.x = 0 THEN k ELSE Button(b, "Press", joy.press, p)

CardKeys ==
  [code \in {8, 139, 140, 153, 164, 165} \cup 180 .. 183 |->
     CASE code = 181 -> 18 [] code = 182 -> 17 [] code = 183 -> 19 [] code = 180 -> 20
       [] code = 153 -> 21 [] code = 164 -> 22 [] code = 165 -> 24 [] code = 8 -> 23
       [] code = 140 -> 10 [] code = 139 -> 11]
FacesKeys ==
  [code \in {8, 183, 184} \cup 186 .. 193 |->
     CASE code = 183 -> 18 [] code = 193 -> 19 [] code = 192 -> 17 [] code = 191 -> 20
       [] code = 187 -> 21 [] code = 188 -> 22 [] code = 184 -> 24 [] code = 8 -> 23
       [] code = 186 -> 9 [] code = 189 -> 10 [] code = 190 -> 11]
Special(kb) == IF kb = "CARDKB" THEN CardKeys ELSE FacesKeys
IsEscape(card) == <<card.kb, card.code>> \in {<<"CARDKB", 27>>, <<"FACES", 175>>}

\* Only every so many calls the bus is asked.
checkI2cKeyboard(k) ==
  LET t == [k EXCEPT !.i2c = 0, !.card = NoCard]
      keys == Special(k.card.kb)
  IN CASE k.i2c + 1 < I2cEvery -> [k EXCEPT !.i2c = @ + 1]
       [] k.i2c + 1 >= I2cEvery /\ IsEscape(k.card) -> [t EXCEPT !.brk = TRUE]
       [] OTHER -> [t EXCEPT !.in = IF k.card.code \in DOMAIN keys THEN keys[k.card.code]
                                    ELSE k.card.code]

\* The script goes on when its delay is over, and ends at E.
wonderHouseKey(k, late) ==
  LET key == wonderHouseKeyData[k.at]
  IN CASE ~k.wonder \/ ~late -> k
       [] k.wonder /\ late /\ key = 69 -> [k EXCEPT !.wonder = FALSE]
       [] OTHER -> [k EXCEPT !.at = @ + 1, !.in = IF key = 10 /\ k.at > 2 THEN 13 ELSE key]

\* A source is asked while none before it has had a key.
InKeyCode(k, late) ==
  LET s == checkSerialKey(k)
      serial == IF k.in # 0 THEN k ELSE [s EXCEPT !.in = s.serial]
      i2c == IF serial.in # 0 THEN serial ELSE checkI2cKeyboard(serial)
  IN IF i2c.in # 0 THEN i2c ELSE wonderHouseKey(i2c, late)

-----------------------------------------------------------------------------
(* keyCheck.                                                               *)

\* A round of a key that is held; what is to be pressed a round late is.
Held(k) ==
  LET t == IF k.delay # 0 THEN mz_keydown_sub(k, k.delay) ELSE k
  IN [t EXCEPT !.delay = 0, !.count = @ + 1]

\* Mutant: the round in which a key is counted out is one too early.
HoldsOn_early(k) == k.count + 2 < HoldCount
HoldsOn(k) == k.count + 1 < HoldCount

\* Mutant: only the key is released, not its shift.
KeepsShift(k) == [mz_keyup_sub(k, k.pre) EXCEPT !.pre = NoKey, !.count = 0]
Released(k) ==
  [mz_keyup_sub(mz_keyup_sub(k, k.pre), Shift) EXCEPT !.pre = NoKey, !.count = 0]

SendBreak(k) ==
  LET code == IF k.mode = 700 THEN 135 ELSE ak_tbl_s[80][3]
  IN [mz_keydown_sub(mz_keydown_sub(k, Shift), code) EXCEPT !.pre = code, !.brk = FALSE]

Press(k, code) == [mz_keydown_sub(k, code) EXCEPT !.pre = code]

\* Mutant: the key that goes with shift is not pressed later.
ShiftOnly(k, key) ==
  LET code == ak_tbl[k.mode][key]
      shifted == ak_tbl_s[k.mode][key]
  IN CASE code = None -> k
       [] code = Shift -> [mz_keydown_sub(k, Shift) EXCEPT !.pre = shifted]
       [] OTHER -> Press(k, code)

\* With shift first, and the key a round later; code 0 for the key means
\* that there is none (which is so for ! of the MZ-80).
Typed(k, key) ==
  LET code == ak_tbl[k.mode][key]
      shifted == ak_tbl_s[k.mode][key]
  IN CASE code = None -> k
       [] code = Shift -> [mz_keydown_sub(k, Shift) EXCEPT !.pre = shifted, !.delay = shifted]
       [] OTHER -> Press(k, code)

\* Of inputStringEx, C and S stand for CTRL and SHIFT.
FromText(k, late) ==
  LET c == Head(k.ex)
      t == [k EXCEPT !.ex = Tail(@)]
      cr == IF k.cr THEN [k EXCEPT !.in = 13, !.cr = FALSE] ELSE k
      source == InKeyCode(cr, late)
  IN CASE k.ex # <<>> /\ c = 67 -> Press(t, 134)
       [] k.ex # <<>> /\ c = 83 -> Press(t, Shift)
       [] k.ex # <<>> /\ c \notin {67, 83} -> Typed(t, c)
       [] OTHER -> IF source.in = 0 THEN source ELSE Typed([source EXCEPT !.in = 0], source.in)

keyCheck(k, joy, buttonA, buttonB, late) ==
  LET held == IF k.pre # NoKey THEN Held(k) ELSE k
      t == IF k.pre # NoKey THEN Released(held) ELSE k
  IN CASE k.pre # NoKey /\ HoldsOn(k) -> held
       [] ~(k.pre # NoKey /\ HoldsOn(k)) /\ t.brk -> SendBreak(t)
       [] OTHER -> FromText(checkJoyPad(t, joy, buttonA, buttonB), late)

-----------------------------------------------------------------------------
\* keyboard: of a report, the shifts and the first key.
IsHidKey(key) == 0 < key /\ key < 232
keyboard(k, shift, key) ==
  LET s == IF shift THEN mz_keydown_sub(k, Shift) ELSE mz_keyup_sub(k, Shift)
      up == IF IsHidKey(k.last) THEN mz_keyup_sub(s, hid_to_emu[k.mode][k.last]) ELSE s
      dn == IF IsHidKey(key) THEN mz_keydown_sub(up, hid_to_emu[k.mode][key]) ELSE up
  IN IF key = k.last THEN s ELSE [dn EXCEPT !.last = key]
=============================================================================
