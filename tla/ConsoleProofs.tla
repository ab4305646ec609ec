--------------------------- MODULE ConsoleProofs ---------------------------
(***************************************************************************)
(* Theorems about Console, for every key table, script, terminal, I2C      *)
(* keyboard, hold count and number of files: the globals of the keys keep  *)
(* their types and the menus their selection whatever works the matrix,    *)
(* and while only keyCheck does, the program is shown one stroke after     *)
(* another (Keystrokes).                                                   *)
(***************************************************************************)
EXTENDS Console, TLAPS

Names == {"U", "D", "L", "R", "A", "Press"}
Typist == [down : SUBSET Matrix, pre : KeyCodes \cup {NoKey}, count : Nat,
           delay : KeyCodes, brk : BOOLEAN, serial : Ascii, rx : Seq(Ascii),
           ex : Seq(Ascii), cr : BOOLEAN, pushed : SUBSET Names,
           card : Cards \cup {NoCard}, i2c : 0 .. I2cEvery - 1, wonder : BOOLEAN,
           at : 1 .. Len(wonderHouseKeyData), last : Nat, mode : Modes, in : Ascii]

(* What of the globals is about the key that is down.                      *)
Same(a, b) == /\ a.down = b.down /\ a.pre = b.pre /\ a.count = b.count
              /\ a.delay = b.delay /\ a.mode = b.mode

----------------------------------------------------------------------------
(* The sources.                                                            *)
LEMMA Numbers ==
  /\ HoldCount \in Nat /\ HoldCount > 0 /\ I2cEvery \in Nat /\ I2cEvery > 0
  /\ wonderHouseKeyData \in Seq(Ascii) /\ Len(wonderHouseKeyData) \in Nat
  /\ Len(wonderHouseKeyData) > 0
  /\ wonderHouseKeyData[Len(wonderHouseKeyData)] = 69
  <1>1. wonderHouseKeyData \in Seq(Ascii) /\ wonderHouseKeyData # <<>>
    BY TableAssumption
  <1>2. Len(wonderHouseKeyData) \in Nat /\ Len(wonderHouseKeyData) > 0
    BY <1>1
  <1> QED BY <1>1, <1>2, TableAssumption

(* The special keys of a keyboard stand for codes of the table.            *)
LEMMA Special16 == \A kb \in {"CARDKB", "FACES", "none"} :
  \A code \in DOMAIN Special(kb) : Special(kb)[code] \in Ascii
  <1>1. \A code \in DOMAIN CardKeys : CardKeys[code] \in Ascii
    BY DEF CardKeys, Ascii
  <1>2. \A code \in DOMAIN FacesKeys : FacesKeys[code] \in Ascii
    BY DEF FacesKeys, Ascii
  <1> QED BY <1>1, <1>2 DEF Special

(* The texts the program types by itself are of the table's codes.         *)
LEMMA Texts ==
  /\ <<>> \in Seq(Ascii) /\ <<115>> \in Seq(Ascii) /\ <<51, 83>> \in Seq(Ascii)
  /\ <<32, 49, 67>> \in Seq(Ascii) /\ <<48>> \in Seq(Ascii) /\ <<49>> \in Seq(Ascii)
  /\ <<50>> \in Seq(Ascii)
  BY DEF Ascii

(* The key codes of the tables lie in the matrix, but for those that mean  *)
(* no key.                                                                 *)
LEMMA KeyRanges ==
  /\ Matrix \subseteq 0 .. 159 /\ Matrix \subseteq KeyCodes /\ 0 \in Matrix /\ 0 \in KeyCodes
  /\ Shift \in Matrix /\ None \notin Matrix /\ NoKey \notin KeyCodes
  /\ {134, 135} \subseteq Matrix /\ {117, 116, 114, 115} \subseteq Matrix
  /\ KeyCodes \subseteq Bytes
  <1>1. \A row \in 0 .. 9, bit \in 0 .. 7 : 16 * row + bit \in Matrix
    BY DEF Matrix
  <1>2. 16 * 0 + 0 \in Matrix /\ 16 * 8 + 0 \in Matrix
    BY <1>1
  <1>3. 16 * 8 + 6 \in Matrix /\ 16 * 8 + 7 \in Matrix
    BY <1>1
  <1>4. 16 * 7 + 5 \in Matrix /\ 16 * 7 + 4 \in Matrix /\ 16 * 7 + 2 \in Matrix
        /\ 16 * 7 + 3 \in Matrix
    BY <1>1
  <1>5. Matrix \subseteq 0 .. 159
    BY DEF Matrix
  <1> QED BY <1>2, <1>3, <1>4, <1>5 DEF KeyCodes, None, NoKey, Shift, Bytes

(* A code from the serial line changes the text to type alone.             *)
LEMMA SerialKey ==
  ASSUME NEW a \in Typist
  PROVE  /\ checkSerialKey(a) \in Typist /\ Same(a, checkSerialKey(a))
         /\ checkSerialKey(a).in = a.in
  <1> DEFINE t == [a EXCEPT !.rx = <<>>]
             Byte(n) == IF n <= Len(a.rx) THEN a.rx[n] ELSE 255
  <1>1. a.rx \in Seq(Ascii) /\ t \in Typist /\ Same(a, t) /\ t.in = a.in
    <2>1. t \in Typist
      BY Texts DEF Typist
    <2>2. Same(a, t) /\ t.in = a.in
      BY DEF Typist, Same
    <2>3. a.rx \in Seq(Ascii)
      BY DEF Typist
    <2> QED BY <2>1, <2>2, <2>3
  <1>2. \A n \in 1 .. 3 : Byte(n) \in Ascii \cup {255}
    BY <1>1
  <1>3. \A c : CursorKey(c) \in Ascii
    BY DEF CursorKey, Ascii
  <1>4. \A c \in Ascii : Backspace(c) \in Ascii
    BY DEF Backspace, Ascii
  <1>5. a.rx # <<>> => Byte(1) \in Ascii
    BY <1>1
  <1> HIDE DEF t, Byte
  <1>6. \A c \in Ascii : /\ [t EXCEPT !.serial = c] \in Typist
                         /\ Same(a, [t EXCEPT !.serial = c])
                         /\ [t EXCEPT !.serial = c].in = a.in
    BY <1>1 DEF Typist, Same
  <1>7. /\ [t EXCEPT !.serial = 0, !.brk = TRUE] \in Typist
        /\ Same(a, [t EXCEPT !.serial = 0, !.brk = TRUE])
        /\ [t EXCEPT !.serial = 0, !.brk = TRUE].in = a.in
    <2>1. [t EXCEPT !.serial = 0, !.brk = TRUE] \in Typist
      <3>1. [t EXCEPT !.serial = 0] \in Typist
        BY <1>1, <1>6 DEF Ascii
      <3>2. \A b \in Typist : [b EXCEPT !.brk = TRUE] \in Typist
        BY DEF Typist
      <3>3. [t EXCEPT !.serial = 0, !.brk = TRUE] = [[t EXCEPT !.serial = 0] EXCEPT !.brk = TRUE]
        OBVIOUS
      <3> QED BY <3>1, <3>2, <3>3
    <2>2. /\ Same(a, [t EXCEPT !.serial = 0, !.brk = TRUE])
          /\ [t EXCEPT !.serial = 0, !.brk = TRUE].in = a.in
      BY <1>1 DEF Typist, Same
    <2> QED BY <2>1, <2>2
  <1>8. CASE a.rx = <<>>
    BY <1>8 DEF checkSerialKey, Same
  <1>9. CASE a.rx # <<>> /\ Byte(1) # 27
    <2>1. checkSerialKey(a) = [t EXCEPT !.serial = Backspace(Byte(1))]
      BY <1>9 DEF checkSerialKey, t, Byte
    <2> QED BY <1>4, <1>5, <1>6, <1>9, <2>1
  <1>10. CASE a.rx # <<>> /\ Byte(1) = 27 /\ Byte(2) = 255
    <2>1. checkSerialKey(a) = [t EXCEPT !.serial = 0, !.brk = TRUE]
      BY <1>10 DEF checkSerialKey, t, Byte
    <2> QED BY <1>7, <2>1
  <1>11. CASE a.rx # <<>> /\ Byte(1) = 27 /\ Byte(2) # 255
    <2>1. checkSerialKey(a) = [t EXCEPT !.serial = IF Byte(2) = 91 THEN CursorKey(Byte(3))
                                                   ELSE Backspace(Byte(2))]
      BY <1>11 DEF checkSerialKey, t, Byte
    <2>2. Byte(2) \in Ascii
      BY <1>2, <1>11
    <2> QED BY <1>3, <1>4, <1>6, <2>1, <2>2
  <1> QED BY <1>8, <1>9, <1>10, <1>11

(* A code from the I2C keyboard changes the text to type alone.            *)
LEMMA I2cKey ==
  ASSUME NEW a \in Typist
  PROVE  checkI2cKeyboard(a) \in Typist /\ Same(a, checkI2cKeyboard(a))
  <1> DEFINE t == [a EXCEPT !.i2c = 0, !.card = NoCard]
             keys == Special(a.card.kb)
             code == IF a.card.code \in DOMAIN keys THEN keys[a.card.code] ELSE a.card.code
  <1>1. t \in Typist /\ Same(a, t) /\ a.card \in Cards \cup {NoCard}
    <2>1. t \in Typist
      <3>1. [a EXCEPT !.i2c = 0] \in Typist
        <4>1. \A n \in 0 .. I2cEvery - 1 : [a EXCEPT !.i2c = n] \in Typist
          BY DEF Typist
        <4>2. 0 \in 0 .. I2cEvery - 1
          BY Numbers
        <4> QED BY <4>1, <4>2
      <3>2. \A b \in Typist : [b EXCEPT !.card = NoCard] \in Typist
        BY DEF Typist
      <3>3. t = [[a EXCEPT !.i2c = 0] EXCEPT !.card = NoCard]
        OBVIOUS
      <3> QED BY <3>1, <3>2, <3>3
    <2>2. Same(a, t)
      BY DEF Typist, Same
    <2>3. a.card \in Cards \cup {NoCard}
      BY DEF Typist
    <2> QED BY <2>1, <2>2, <2>3
  <1> HIDE DEF t, code
  <1>2. CASE a.i2c + 1 < I2cEvery
    <2>1. checkI2cKeyboard(a) = [a EXCEPT !.i2c = @ + 1]
      BY <1>2, Numbers DEF checkI2cKeyboard, Typist, t, code
    <2>2. /\ a.i2c + 1 \in 0 .. I2cEvery - 1
      BY <1>2, Numbers DEF Typist
    <2>3. \A n \in 0 .. I2cEvery - 1 : [a EXCEPT !.i2c = n] \in Typist
      BY DEF Typist
    <2>4. \A n : Same(a, [a EXCEPT !.i2c = n])
      BY DEF Typist, Same
    <2> QED BY <2>1, <2>2, <2>3, <2>4
  <1>3. CASE a.i2c + 1 >= I2cEvery /\ IsEscape(a.card)
    <2>1. checkI2cKeyboard(a) = [t EXCEPT !.brk = TRUE]
      BY <1>3, Numbers DEF checkI2cKeyboard, Typist, t, code
    <2> QED BY <1>1, <2>1 DEF Typist, Same
  <1>4. CASE a.i2c + 1 >= I2cEvery /\ ~IsEscape(a.card)
    <2>1. checkI2cKeyboard(a) = [t EXCEPT !.in = code]
      BY <1>4, Numbers DEF checkI2cKeyboard, Typist, t, code
    <2>2. code \in Ascii
      <3>1. a.card.kb \in {"CARDKB", "FACES", "none"}
        BY <1>1, ConsoleAssumption DEF NoCard
      <3>2. a.card.code \in Ascii \cup DOMAIN keys
        BY <1>1, <1>4, ConsoleAssumption DEF NoCard, Ascii
      <3> QED BY <3>1, <3>2, Special16 DEF code
    <2> QED BY <1>1, <2>1, <2>2 DEF Typist, Same
  <1>5. a.i2c + 1 < I2cEvery \/ a.i2c + 1 >= I2cEvery
    BY Numbers DEF Typist
  <1> QED BY <1>2, <1>3, <1>4, <1>5

(* The script stops at its end, which is E.                                *)
LEMMA ScriptKey ==
  ASSUME NEW a \in Typist, NEW late
  PROVE  wonderHouseKey(a, late) \in Typist /\ Same(a, wonderHouseKey(a, late))
  <1> DEFINE key == wonderHouseKeyData[a.at]
             code == IF key = 10 /\ a.at > 2 THEN 13 ELSE key
  <1>1. a.at \in 1 .. Len(wonderHouseKeyData)
    BY DEF Typist
  <1>2. key \in Ascii
    BY <1>1, Numbers
  <1> HIDE DEF key
  <1>3. code \in Ascii
    BY <1>2 DEF Ascii
  <1> HIDE DEF code
  <1>4. CASE ~a.wonder \/ ~late
    <2>1. wonderHouseKey(a, late) = a
      BY <1>4 DEF wonderHouseKey
    <2> QED BY <2>1 DEF Same
  <1>5. CASE a.wonder /\ late /\ key = 69
    <2>1. wonderHouseKey(a, late) = [a EXCEPT !.wonder = FALSE]
      BY <1>5 DEF wonderHouseKey, key
    <2>2. [a EXCEPT !.wonder = FALSE] \in Typist
      BY DEF Typist
    <2>3. Same(a, [a EXCEPT !.wonder = FALSE])
      BY DEF Typist, Same
    <2> QED BY <2>1, <2>2, <2>3
  <1>6. CASE a.wonder /\ late /\ key # 69
    <2>1. wonderHouseKey(a, late) = [[a EXCEPT !.at = @ + 1] EXCEPT !.in = code]
      BY <1>6 DEF wonderHouseKey, key, code
    <2>2. a.at + 1 \in 1 .. Len(wonderHouseKeyData)
      BY <1>1, <1>6, Numbers DEF key
    <2>3. \A n \in 1 .. Len(wonderHouseKeyData) : [a EXCEPT !.at = n] \in Typist
      BY DEF Typist
    <2>4. \A b \in Typist : [b EXCEPT !.in = code] \in Typist
      BY <1>3 DEF Typist
    <2>5. Same(a, [[a EXCEPT !.at = @ + 1] EXCEPT !.in = code])
      BY DEF Typist, Same
    <2> QED BY <2>1, <2>2, <2>3, <2>4, <2>5
  <1> QED BY <1>4, <1>5, <1>6

(* Whichever source is asked, it changes the text to type alone.           *)
LEMMA SourceKey ==
  ASSUME NEW a \in Typist, NEW late
  PROVE  InKeyCode(a, late) \in Typist /\ Same(a, InKeyCode(a, late))
  <1> DEFINE s == checkSerialKey(a)
             serial == IF a.in # 0 THEN a ELSE [s EXCEPT !.in = s.serial]
             i2c == IF serial.in # 0 THEN serial ELSE checkI2cKeyboard(serial)
  <1>1. s \in Typist /\ Same(a, s)
    BY SerialKey
  <1> HIDE DEF s
  <1>2. serial \in Typist /\ Same(a, serial)
    <2>1. s.serial \in Ascii
      BY <1>1 DEF Typist
    <2>2. \A c \in Ascii : [s EXCEPT !.in = c] \in Typist
      BY <1>1 DEF Typist
    <2>3. \A c : Same(a, [s EXCEPT !.in = c])
      BY <1>1 DEF Typist, Same
    <2> QED BY <2>1, <2>2, <2>3 DEF Same
  <1> HIDE DEF serial
  <1>3. i2c \in Typist /\ Same(a, i2c)
    BY <1>2, I2cKey DEF Same
  <1> HIDE DEF i2c
  <1>4. InKeyCode(a, late) = IF i2c.in # 0 THEN i2c ELSE wonderHouseKey(i2c, late)
    BY DEF InKeyCode, s, serial, i2c
  <1> QED BY <1>3, <1>4, ScriptKey DEF Same

----------------------------------------------------------------------------
(* The joypad: what it does to the text, and to the matrix unless there is *)
(* none.                                                                   *)
LEMMA JoyPad ==
  ASSUME NEW a \in Typist, NEW jy, NEW buttonA, NEW buttonB
  PROVE  LET q == checkJoyPad(a, jy, buttonA, buttonB)
         IN /\ q \in Typist
            /\ q.pre = a.pre /\ q.count = a.count /\ q.delay = a.delay
            /\ q.mode = a.mode /\ q.in = a.in
            /\ jy.x = 0 => q = a
  <1> DEFINE Kept(b) == /\ b \in Typist /\ b.pre = a.pre /\ b.count = a.count
                        /\ b.delay = a.delay /\ b.mode = a.mode /\ b.in = a.in
             d == Directions(a, jy.x, jy.y)
             ta == Text(d, <<32, 49, 67>>)
             aa == Button(d, "A", buttonA, ta)
             b1 == IF buttonB = 1 THEN Text(aa, <<51, 83>>) ELSE aa
             p == IF b1.ex = <<>> THEN [b1 EXCEPT !.ex = <<115>>, !.cr = TRUE] ELSE b1
  <1>1. Kept(d)
    <2> DEFINE on == Beyond(jy.x, jy.y) \ a.pushed
               off == Within(jy.x, jy.y) \cap a.pushed
               pushes == (a.pushed \cup on) \ off
               keys == (a.down \cup {Codes[c] : c \in on}) \ {Codes[c] : c \in off}
    <2>1. pushes \in SUBSET Names
      <3>1. on \subseteq Names
        BY DEF Beyond, Codes, Names
      <3>2. a.pushed \subseteq Names
        BY DEF Typist
      <3> QED BY <3>1, <3>2
    <2>2. keys \in SUBSET Matrix
      <3>1. \A c \in DOMAIN Codes : Codes[c] \in Matrix
        BY KeyRanges DEF Codes
      <3>2. on \subseteq DOMAIN Codes
        BY DEF Beyond
      <3>3. a.down \subseteq Matrix
        BY DEF Typist
      <3> QED BY <3>1, <3>2, <3>3
    <2>3. d = [[a EXCEPT !.pushed = pushes] EXCEPT !.down = keys]
      BY DEF Directions
    <2> HIDE DEF pushes, keys
    <2>4. [a EXCEPT !.pushed = pushes] \in Typist
      BY <2>1 DEF Typist
    <2>5. \A b \in Typist : [b EXCEPT !.down = keys] \in Typist
      BY <2>2 DEF Typist
    <2>6. LET q == [[a EXCEPT !.pushed = pushes] EXCEPT !.down = keys]
          IN /\ q.pre = a.pre /\ q.count = a.count
             /\ q.delay = a.delay /\ q.mode = a.mode /\ q.in = a.in
      BY DEF Typist
    <2> QED BY <2>3, <2>4, <2>5, <2>6
  <1> HIDE DEF d
  <1>2. ASSUME NEW b, Kept(b), NEW text \in Seq(Ascii)
        PROVE  Kept([b EXCEPT !.ex = text])
    <2>1. [b EXCEPT !.ex = text] \in Typist
      BY <1>2 DEF Typist
    <2> QED BY <1>2, <2>1 DEF Typist
  <1>3. ASSUME NEW b, Kept(b), NEW text \in Seq(Ascii)
        PROVE  Kept(Text(b, text))
    BY <1>2, <1>3 DEF Text
  <1>4. ASSUME NEW b, Kept(b), NEW name \in Names, NEW value, NEW q, Kept(q)
        PROVE  Kept(Button(b, name, value, q))
    <2>1. ASSUME NEW c, Kept(c), NEW P \in SUBSET Names
          PROVE  Kept([c EXCEPT !.pushed = P])
      <3>1. [c EXCEPT !.pushed = P] \in Typist
        BY <2>1 DEF Typist
      <3> QED BY <2>1, <3>1 DEF Typist
    <2>2. b.pushed \ {name} \in SUBSET Names /\ q.pushed \cup {name} \in SUBSET Names
      BY <1>4 DEF Typist
    <2>3. /\ Kept([q EXCEPT !.pushed = @ \cup {name}])
          /\ Kept([b EXCEPT !.pushed = @ \ {name}])
      BY <1>4, <2>1, <2>2
    <2>4. Button(b, name, value, q) \in {[q EXCEPT !.pushed = @ \cup {name}],
                                         [b EXCEPT !.pushed = @ \ {name}], b}
      BY DEF Button
    <2> HIDE DEF Kept
    <2> QED BY <1>4, <2>3, <2>4
  <1>5. Kept(ta)
    BY <1>1, <1>3, Texts
  <1>6. Kept(aa)
    BY <1>1, <1>4, <1>5 DEF Names
  <1> HIDE DEF ta, aa
  <1>7. Kept(b1)
    BY <1>3, <1>6, Texts
  <1> HIDE DEF b1
  <1>8. Kept(p)
    <2>1. Kept([b1 EXCEPT !.ex = <<115>>])
      BY <1>2, <1>7, Texts
    <2>2. \A b : Kept(b) => Kept([b EXCEPT !.cr = TRUE])
      BY DEF Typist
    <2>3. [b1 EXCEPT !.ex = <<115>>, !.cr = TRUE] = [[b1 EXCEPT !.ex = <<115>>] EXCEPT !.cr = TRUE]
      OBVIOUS
    <2> QED BY <1>7, <2>1, <2>2, <2>3
  <1> HIDE DEF p
  <1>9. Kept(Button(b1, "Press", jy.press, p))
    BY <1>4, <1>7, <1>8 DEF Names
  <1>10. checkJoyPad(a, jy, buttonA, buttonB)
           = IF a.mode # 700 \/ jy.x = 0 THEN a ELSE Button(b1, "Press", jy.press, p)
    BY DEF checkJoyPad, d, ta, aa, b1, p
  <1> QED BY <1>9, <1>10

----------------------------------------------------------------------------
(* keyCheck: no key is down, or a stroke is.  Of a stroke with shift, the  *)
(* key may still have to come; only in its first round.                    *)
Idle(a) == a.down = {} /\ a.pre = NoKey /\ a.count = 0 /\ a.delay = 0
Shown(a) == \/ a.down = {Shift}
            \/ a.pre \in Matrix /\ a.down \in {{a.pre}, {Shift, a.pre}}
Stroke(a) ==
  /\ a.pre # NoKey /\ a.count < HoldCount /\ Shown(a)
  /\ a.delay # 0 => a.delay = a.pre /\ a.count = 0 /\ a.down = {Shift}
Fresh(a) == Stroke(a) /\ a.count = 0

(* mz_keydown_sub presses one key of the matrix, or none.                  *)
LEMMA KeyDown ==
  ASSUME NEW a \in Typist, NEW code
  PROVE  LET q == mz_keydown_sub(a, code)
         IN /\ q \in Typist /\ q.down = a.down \cup ({code} \cap Matrix)
            /\ q.pre = a.pre /\ q.count = a.count /\ q.delay = a.delay
            /\ q.mode = a.mode /\ q.in = a.in
  <1> DEFINE keys == a.down \cup ({code} \cap Matrix)
  <1>1. keys \in SUBSET Matrix
    BY DEF Typist
  <1> HIDE DEF keys
  <1>2. [a EXCEPT !.down = keys] \in Typist
    BY <1>1 DEF Typist
  <1>3. mz_keydown_sub(a, code) = [a EXCEPT !.down = keys]
    BY DEF mz_keydown_sub, keys
  <1>4. /\ [a EXCEPT !.down = keys].down = keys /\ [a EXCEPT !.down = keys].pre = a.pre
        /\ [a EXCEPT !.down = keys].count = a.count /\ [a EXCEPT !.down = keys].delay = a.delay
        /\ [a EXCEPT !.down = keys].mode = a.mode /\ [a EXCEPT !.down = keys].in = a.in
    BY DEF Typist
  <1> QED BY <1>2, <1>3, <1>4 DEF keys

(* mz_keyup_sub releases one key of the matrix, or none.                   *)
LEMMA KeyUp ==
  ASSUME NEW a \in Typist, NEW code
  PROVE  LET q == mz_keyup_sub(a, code)
         IN /\ q \in Typist /\ q.down = a.down \ {code}
            /\ q.pre = a.pre /\ q.count = a.count /\ q.delay = a.delay
            /\ q.mode = a.mode /\ q.in = a.in
  <1> DEFINE keys == a.down \ {code}
  <1>1. keys \in SUBSET Matrix
    BY DEF Typist
  <1> HIDE DEF keys
  <1>2. [a EXCEPT !.down = keys] \in Typist
    BY <1>1 DEF Typist
  <1>3. mz_keyup_sub(a, code) = [a EXCEPT !.down = keys]
    BY DEF mz_keyup_sub, keys
  <1>4. /\ [a EXCEPT !.down = keys].down = keys /\ [a EXCEPT !.down = keys].pre = a.pre
        /\ [a EXCEPT !.down = keys].count = a.count /\ [a EXCEPT !.down = keys].delay = a.delay
        /\ [a EXCEPT !.down = keys].mode = a.mode /\ [a EXCEPT !.down = keys].in = a.in
    BY DEF Typist
  <1> QED BY <1>2, <1>3, <1>4 DEF keys

(* The key of a stroke and its delay are set.                              *)
LEMMA KeyIs ==
  ASSUME NEW a \in Typist, NEW code \in KeyCodes
  PROVE  LET q == [a EXCEPT !.pre = code]
             r == [a EXCEPT !.pre = code, !.delay = code]
         IN /\ q \in Typist /\ q.down = a.down /\ q.pre = code /\ q.count = a.count
            /\ q.delay = a.delay /\ q.mode = a.mode /\ q.in = a.in
            /\ r \in Typist /\ r.down = a.down /\ r.pre = code /\ r.count = a.count
            /\ r.delay = code /\ r.mode = a.mode /\ r.in = a.in
  <1> DEFINE q == [a EXCEPT !.pre = code]
             r == [a EXCEPT !.pre = code, !.delay = code]
  <1>1. q \in Typist
    BY DEF Typist
  <1>2. \A b \in Typist : [b EXCEPT !.delay = code] \in Typist
    BY DEF Typist
  <1>3. r = [q EXCEPT !.delay = code]
    OBVIOUS
  <1>4. r \in Typist
    BY <1>1, <1>2, <1>3
  <1>5. /\ q.down = a.down /\ q.pre = code /\ q.count = a.count
        /\ q.delay = a.delay /\ q.mode = a.mode /\ q.in = a.in
        /\ r.down = a.down /\ r.pre = code /\ r.count = a.count
        /\ r.delay = code /\ r.mode = a.mode /\ r.in = a.in
    BY DEF Typist
  <1> QED BY <1>1, <1>4, <1>5

(* A pass of keyCheck that holds a key counts, and presses a delayed one.  *)
LEMMA HeldDoes ==
  ASSUME NEW a \in Typist
  PROVE  LET q == Held(a)
         IN /\ q \in Typist /\ q.pre = a.pre /\ q.count = a.count + 1
            /\ q.delay = 0 /\ q.mode = a.mode /\ q.in = a.in
            /\ q.down = IF a.delay # 0 THEN a.down \cup ({a.delay} \cap Matrix) ELSE a.down
  <1> DEFINE t == IF a.delay # 0 THEN mz_keydown_sub(a, a.delay) ELSE a
             u == [t EXCEPT !.delay = 0]
             q == [u EXCEPT !.count = t.count + 1]
  <1>1. /\ t \in Typist /\ t.pre = a.pre /\ t.count = a.count /\ t.mode = a.mode
        /\ t.in = a.in
        /\ t.down = IF a.delay # 0 THEN a.down \cup ({a.delay} \cap Matrix) ELSE a.down
    BY KeyDown
  <1>2. Held(a) = q
    BY DEF Held
  <1> HIDE DEF t
  <1>3. u \in Typist
    <2>1. \A n \in KeyCodes : [t EXCEPT !.delay = n] \in Typist
      BY <1>1 DEF Typist
    <2> QED BY <2>1, KeyRanges
  <1>4. q \in Typist
    <2>1. t.count + 1 \in Nat
      BY <1>1 DEF Typist
    <2>2. \A n \in Nat : [u EXCEPT !.count = n] \in Typist
      BY <1>3 DEF Typist
    <2> QED BY <2>1, <2>2
  <1>5. /\ q.pre = t.pre /\ q.count = t.count + 1 /\ q.delay = 0 /\ q.mode = t.mode
        /\ q.in = t.in /\ q.down = t.down
    BY <1>1 DEF Typist
  <1> HIDE DEF q
  <1> QED BY <1>1, <1>2, <1>4, <1>5

(* The pass that ends a stroke releases its key and SHIFT.                 *)
LEMMA ReleasedDoes ==
  ASSUME NEW a \in Typist
  PROVE  LET q == Released(a)
         IN /\ q \in Typist /\ q.pre = NoKey /\ q.count = 0
            /\ q.delay = a.delay /\ q.mode = a.mode /\ q.in = a.in
            /\ q.down = a.down \ {a.pre, Shift}
  <1> DEFINE t == mz_keyup_sub(mz_keyup_sub(a, a.pre), Shift)
             u == [t EXCEPT !.pre = NoKey]
             q == [u EXCEPT !.count = 0]
  <1>1. /\ t \in Typist /\ t.delay = a.delay /\ t.mode = a.mode /\ t.in = a.in
        /\ t.down = a.down \ {a.pre, Shift}
    BY KeyUp
  <1>2. Released(a) = q
    BY DEF Released
  <1> HIDE DEF t
  <1>3. u \in Typist
    BY <1>1 DEF Typist
  <1>4. q \in Typist
    <2>1. \A n \in Nat : [u EXCEPT !.count = n] \in Typist
      BY <1>3 DEF Typist
    <2> QED BY <2>1
  <1>5. /\ q.pre = NoKey /\ q.count = 0 /\ q.delay = t.delay /\ q.mode = t.mode
        /\ q.in = t.in /\ q.down = t.down
    BY <1>1 DEF Typist
  <1> HIDE DEF q
  <1> QED BY <1>1, <1>2, <1>4, <1>5

(* A stroke begins with one key, and with SHIFT before it.                 *)
LEMMA PressDoes ==
  ASSUME NEW a \in Typist, NEW code \in Matrix
  PROVE  LET q == Press(a, code)
         IN /\ q \in Typist /\ q.count = a.count /\ q.mode = a.mode /\ q.in = a.in
            /\ Idle(a) => Fresh(q)
  <1> DEFINE t == mz_keydown_sub(a, code)
             q == [t EXCEPT !.pre = code]
  <1>1. /\ t \in Typist /\ t.down = a.down \cup ({code} \cap Matrix)
        /\ t.count = a.count /\ t.delay = a.delay /\ t.mode = a.mode /\ t.in = a.in
    BY KeyDown
  <1>2. Press(a, code) = q
    BY DEF Press
  <1> HIDE DEF t
  <1>3. /\ q \in Typist /\ q.down = t.down /\ q.pre = code /\ q.count = t.count
        /\ q.delay = t.delay /\ q.mode = t.mode /\ q.in = t.in
    <2>1. code \in KeyCodes
      BY KeyRanges
    <2> QED BY <1>1, <2>1, KeyIs
  <1> HIDE DEF q
  <1>4. Idle(a) => Fresh(q)
    <2> SUFFICES ASSUME Idle(a) PROVE Fresh(q)
      OBVIOUS
    <2>1. q.down = {q.pre} /\ q.pre = code /\ q.count = 0 /\ q.delay = 0
      BY <1>1, <1>3 DEF Idle
    <2> QED BY <2>1, KeyRanges, Numbers DEF Fresh, Stroke, Shown
  <1> QED BY <1>1, <1>2, <1>3, <1>4

(* SHIFT and BREAK are a stroke as well.                                   *)
LEMMA SendBreakDoes ==
  ASSUME NEW a \in Typist
  PROVE  LET q == SendBreak(a)
         IN /\ q \in Typist /\ q.count = a.count /\ q.in = a.in
            /\ Idle(a) => Fresh(q)
  <1> DEFINE code == IF a.mode = 700 THEN 135 ELSE ak_tbl_s[80][3]
             t == mz_keydown_sub(mz_keydown_sub(a, Shift), code)
             u == [t EXCEPT !.pre = code]
             q == [u EXCEPT !.brk = FALSE]
  <1>1. code \in Matrix /\ code \in KeyCodes
    <2>1. ak_tbl_s[80][3] \in Matrix
      BY TableAssumption
    <2>2. 135 \in Matrix
      BY KeyRanges
    <2>3. code \in Matrix
      BY <2>1, <2>2
    <2> HIDE DEF code
    <2> QED BY <2>3, KeyRanges
  <1>2. SendBreak(a) = q
    BY DEF SendBreak
  <1> HIDE DEF code
  <1>3. /\ t \in Typist /\ t.down = a.down \cup {Shift, code} /\ t.count = a.count
        /\ t.delay = a.delay /\ t.in = a.in
    <2>1. {Shift} \cap Matrix = {Shift} /\ {code} \cap Matrix = {code}
      BY <1>1, KeyRanges
    <2> QED BY <2>1, KeyDown
  <1> HIDE DEF t
  <1>4. /\ u \in Typist /\ u.down = t.down /\ u.pre = code /\ u.count = t.count
        /\ u.delay = t.delay /\ u.in = t.in
    BY <1>1, <1>3, KeyIs
  <1> HIDE DEF u
  <1>5. /\ q \in Typist /\ q.down = u.down /\ q.pre = u.pre /\ q.count = u.count
        /\ q.delay = u.delay /\ q.in = u.in
    BY <1>4 DEF Typist
  <1> HIDE DEF q
  <1>6. Idle(a) => Fresh(q)
    <2> SUFFICES ASSUME Idle(a) PROVE Fresh(q)
      OBVIOUS
    <2>1. q.down = {Shift, q.pre} /\ q.pre = code /\ q.count = 0 /\ q.delay = 0
      BY <1>3, <1>4, <1>5 DEF Idle
    <2> QED BY <1>1, <2>1, KeyRanges, Numbers DEF Fresh, Stroke, Shown
  <1> QED BY <1>2, <1>3, <1>4, <1>5, <1>6

(* A code of the table begins a stroke or is not a key.                    *)
LEMMA TypedDoes ==
  ASSUME NEW a \in Typist, NEW key \in Ascii
  PROVE  LET q == Typed(a, key)
         IN /\ q \in Typist /\ q.count = a.count /\ q.in = a.in
            /\ Idle(a) => Idle(q) \/ Fresh(q)
  <1> DEFINE code == ak_tbl[a.mode][key]
             shifted == ak_tbl_s[a.mode][key]
             t == mz_keydown_sub(a, Shift)
             q == [t EXCEPT !.pre = shifted, !.delay = shifted]
  <1>1. code \in KeyCodes /\ shifted \in KeyCodes
    BY TableAssumption DEF Typist
  <1>2. CASE code = None
    <2>1. Typed(a, key) = a
      BY <1>2 DEF Typed, None, Shift
    <2> QED BY <2>1
  <1>3. CASE code # None /\ code = Shift
    <2>1. Typed(a, key) = q
      BY <1>3 DEF Typed
    <2> HIDE DEF shifted
    <2>2. /\ t \in Typist /\ t.down = a.down \cup {Shift} /\ t.count = a.count
          /\ t.in = a.in
      <3>1. {Shift} \cap Matrix = {Shift}
        BY KeyRanges
      <3> QED BY <3>1, KeyDown
    <2> HIDE DEF t
    <2>3. /\ q \in Typist /\ q.down = t.down /\ q.pre = shifted /\ q.count = t.count
          /\ q.delay = shifted /\ q.in = t.in
      BY <1>1, <2>2, KeyIs
    <2> HIDE DEF q
    <2>4. Idle(a) => Fresh(q)
      <3> SUFFICES ASSUME Idle(a) PROVE Fresh(q)
        OBVIOUS
      <3>1. q.down = {Shift} /\ q.pre = shifted /\ q.count = 0 /\ q.delay = q.pre
        BY <2>2, <2>3 DEF Idle
      <3> QED BY <1>1, <3>1, KeyRanges, Numbers DEF Fresh, Stroke, Shown
    <2> QED BY <2>1, <2>2, <2>3, <2>4
  <1>4. CASE code # None /\ code # Shift
    <2>1. Typed(a, key) = Press(a, code)
      BY <1>4 DEF Typed
    <2>2. code \in Matrix
      BY <1>1, <1>4 DEF KeyCodes
    <2> HIDE DEF code
    <2> QED BY <2>1, <2>2, PressDoes
  <1> QED BY <1>2, <1>3, <1>4

(* The next code of a text begins a stroke or is not a key.                *)
LEMMA FromTextDoes ==
  ASSUME NEW a \in Typist, a.in = 0, NEW late
  PROVE  LET q == FromText(a, late)
         IN /\ q \in Typist /\ q.count = a.count /\ q.in = 0
            /\ Idle(a) => Idle(q) \/ Fresh(q)
  <1> DEFINE c == Head(a.ex)
             t == [a EXCEPT !.ex = Tail(@)]
             entered == IF a.cr THEN [a EXCEPT !.in = 13, !.cr = FALSE] ELSE a
             source == InKeyCode(entered, late)
             r == [source EXCEPT !.in = 0]
  <1>1. CASE a.ex # <<>>
    <2>1. c \in Ascii /\ Tail(a.ex) \in Seq(Ascii)
      BY <1>1 DEF Typist
    <2> HIDE DEF c
    <2>2. /\ t \in Typist /\ t.count = a.count /\ t.in = 0
          /\ Idle(a) => Idle(t)
      <3>1. \A text \in Seq(Ascii) : [a EXCEPT !.ex = text] \in Typist
        BY DEF Typist
      <3>2. \A text : /\ [a EXCEPT !.ex = text].count = a.count
                      /\ [a EXCEPT !.ex = text].in = a.in
                      /\ Idle(a) => Idle([a EXCEPT !.ex = text])
        BY DEF Typist, Idle
      <3> QED BY <2>1, <3>1, <3>2
    <2>3. FromText(a, late) \in {Press(t, 134), Press(t, Shift), Typed(t, c)}
      BY <1>1 DEF FromText, c
    <2> HIDE DEF t
    <2>4. 134 \in Matrix /\ Shift \in Matrix
      BY KeyRanges
    <2>5. \A q \in {Press(t, 134), Press(t, Shift), Typed(t, c)} :
            q \in Typist /\ q.count = t.count /\ q.in = t.in /\ (Idle(t) => Idle(q) \/ Fresh(q))
      <3>1. /\ Typed(t, c) \in Typist /\ Typed(t, c).count = t.count
            /\ Typed(t, c).in = t.in
            /\ (Idle(t) => Idle(Typed(t, c)) \/ Fresh(Typed(t, c)))
        BY <2>1, <2>2, TypedDoes
      <3>2. \A code \in Matrix :
              /\ Press(t, code) \in Typist /\ Press(t, code).count = t.count
              /\ Press(t, code).in = t.in
              /\ (Idle(t) => Fresh(Press(t, code)))
        BY <2>2, PressDoes
      <3> QED BY <2>4, <3>1, <3>2
    <2> QED BY <2>2, <2>3, <2>5
  <1>2. CASE a.ex = <<>>
    <2>1. entered \in Typist /\ Same(a, entered)
      <3>1. 13 \in Ascii
        BY DEF Ascii
      <3>2. \A n \in Ascii : [a EXCEPT !.in = n] \in Typist
        BY DEF Typist
      <3>3. ASSUME NEW b \in Typist PROVE [b EXCEPT !.cr = FALSE] \in Typist
        BY DEF Typist
      <3>4. [a EXCEPT !.in = 13, !.cr = FALSE] = [[a EXCEPT !.in = 13] EXCEPT !.cr = FALSE]
        OBVIOUS
      <3>5. Same(a, [a EXCEPT !.in = 13, !.cr = FALSE]) /\ Same(a, a)
        BY DEF Typist, Same
      <3> QED BY <3>1, <3>2, <3>3, <3>4, <3>5
    <2> HIDE DEF entered
    <2>2. source \in Typist /\ Same(a, source)
      BY <2>1, SourceKey DEF Same
    <2>3. FromText(a, late) = IF source.in = 0 THEN source ELSE Typed(r, source.in)
      BY <1>2 DEF FromText, entered
    <2> HIDE DEF source
    <2>4. /\ r \in Typist /\ r.in = 0 /\ Same(a, r)
      <3>1. 0 \in Ascii
        BY DEF Ascii
      <3>2. \A n \in Ascii : [source EXCEPT !.in = n] \in Typist
        BY <2>2 DEF Typist
      <3>3. r.in = 0 /\ Same(a, r)
        BY <2>2 DEF Typist, Same
      <3> QED BY <3>1, <3>2, <3>3
    <2> HIDE DEF r
    <2>5. source.in \in Ascii
      BY <2>2 DEF Typist
    <2>6. (Idle(a) => Idle(source)) /\ (Idle(a) => Idle(r))
      BY <2>2, <2>4 DEF Same, Idle
    <2>7. source.count = a.count /\ r.count = a.count
      BY <2>2, <2>4 DEF Same
    <2>8. CASE source.in = 0
      BY <2>2, <2>3, <2>6, <2>7, <2>8
    <2>9. CASE source.in # 0
      BY <2>3, <2>4, <2>5, <2>6, <2>7, <2>9, TypedDoes
    <2> QED BY <2>8, <2>9
  <1> QED BY <1>1, <1>2

(* keyCheck keeps the types, and ends a stroke in time.                    *)
LEMMA KeyCheckTypes ==
  ASSUME NEW a \in Typist, a.in = 0, a.count < HoldCount,
         NEW jy, NEW buttonA, NEW buttonB, NEW late
  PROVE  LET q == keyCheck(a, jy, buttonA, buttonB, late)
         IN q \in Typist /\ q.in = 0 /\ q.count < HoldCount
  <1> DEFINE kept == IF a.pre # NoKey THEN Held(a) ELSE a
             t == IF a.pre # NoKey THEN Released(kept) ELSE a
             j == checkJoyPad(t, jy, buttonA, buttonB)
             q == keyCheck(a, jy, buttonA, buttonB, late)
  <1>1. /\ kept \in Typist /\ kept.in = 0
        /\ a.pre # NoKey => kept.count = a.count + 1
    BY HeldDoes
  <1>2. t \in Typist /\ t.in = 0 /\ t.count < HoldCount
    <2> HIDE DEF kept
    <2> QED BY <1>1, ReleasedDoes, Numbers
  <1>3. CASE a.pre # NoKey /\ HoldsOn(a)
    <2>1. q = kept
      BY <1>3 DEF keyCheck
    <2> HIDE DEF kept
    <2> QED BY <1>1, <1>3, <2>1 DEF HoldsOn
  <1>4. CASE ~(a.pre # NoKey /\ HoldsOn(a)) /\ t.brk
    <2>1. q = SendBreak(t)
      BY <1>4 DEF keyCheck
    <2> HIDE DEF t
    <2> QED BY <1>2, <2>1, SendBreakDoes
  <1>5. CASE ~(a.pre # NoKey /\ HoldsOn(a)) /\ ~t.brk
    <2>1. q = FromText(j, late)
      BY <1>5 DEF keyCheck
    <2> HIDE DEF t
    <2>2. j \in Typist /\ j.in = 0 /\ j.count = t.count
      BY <1>2, JoyPad
    <2> HIDE DEF j
    <2> QED BY <1>2, <2>1, <2>2, FromTextDoes
  <1> QED BY <1>3, <1>4, <1>5

(* A round of a stroke, or between two.                                    *)
Mid(a, b) ==
  /\ Stroke(a) /\ a.count + 1 < HoldCount /\ Stroke(b) /\ b.count = a.count + 1
  /\ \/ b.down = a.down
     \/ a.count = 0 /\ a.down = {Shift} /\ b.pre \in Matrix /\ b.down = {Shift, b.pre}
StrokeStep(a, b) ==
  \/ b.down = a.down /\ b.pre = a.pre /\ b.count = a.count
  \/ Idle(a) /\ (Idle(b) \/ Fresh(b))
  \/ Stroke(a) /\ a.count + 1 >= HoldCount /\ (Idle(b) \/ Fresh(b))
  \/ Mid(a, b)

(* With nothing else pressing keys, keyCheck types strokes one after the   *)
(* other.                                                                  *)
LEMMA KeyCheckStrokes ==
  ASSUME NEW a \in Typist, a.in = 0, Idle(a) \/ Stroke(a),
         NEW jy, jy.x = 0, NEW buttonA, NEW buttonB, NEW late
  PROVE  LET q == keyCheck(a, jy, buttonA, buttonB, late)
         IN StrokeStep(a, q) /\ (Idle(q) \/ Stroke(q))
  <1> DEFINE kept == IF a.pre # NoKey THEN Held(a) ELSE a
             t == IF a.pre # NoKey THEN Released(kept) ELSE a
             j == checkJoyPad(t, jy, buttonA, buttonB)
             q == keyCheck(a, jy, buttonA, buttonB, late)
  <1>1. /\ kept \in Typist /\ kept.in = 0 /\ kept.pre = a.pre
        /\ a.pre # NoKey =>
             /\ kept.count = a.count + 1 /\ kept.delay = 0
             /\ kept.down = IF a.delay # 0 THEN a.down \cup ({a.delay} \cap Matrix) ELSE a.down
    BY HeldDoes
  <1>2. t \in Typist /\ t.in = 0
    <2> HIDE DEF kept
    <2> QED BY <1>1, ReleasedDoes
  <1>3. Idle(t)
    <2>1. CASE a.pre = NoKey
      BY <2>1 DEF Stroke
    <2>2. CASE a.pre # NoKey
      <3> HIDE DEF kept
      <3>1. Stroke(a)
        BY <2>2 DEF Idle
      <3>2. kept.down \subseteq {a.pre, Shift}
        BY <1>1, <2>2, <3>1 DEF Stroke, Shown
      <3>3. /\ t.pre = NoKey /\ t.count = 0 /\ t.delay = kept.delay
            /\ t.down = kept.down \ {a.pre, Shift}
        BY <1>1, <2>2, ReleasedDoes
      <3> HIDE DEF t
      <3> QED BY <1>1, <2>2, <3>2, <3>3 DEF Idle
    <2> QED BY <2>1, <2>2
  <1>4. CASE a.pre # NoKey /\ HoldsOn(a)
    <2>1. q = kept
      BY <1>4 DEF keyCheck
    <2> HIDE DEF kept
    <2>2. Stroke(a) /\ a.count \in Nat /\ a.count + 1 < HoldCount
      BY <1>4 DEF Idle, Typist, HoldsOn
    <2>3. /\ q.pre = a.pre /\ q.count = a.count + 1 /\ q.delay = 0 /\ q.pre # NoKey
      BY <1>1, <1>4, <2>1
    <2>4. \/ q.down = a.down
          \/ a.count = 0 /\ a.down = {Shift} /\ q.pre \in Matrix /\ q.down = {Shift, q.pre}
      <3>1. CASE a.delay = 0
        BY <1>1, <1>4, <2>1, <3>1
      <3>2. CASE a.delay # 0 /\ a.pre \in Matrix
        <4>1. a.delay = a.pre /\ a.count = 0 /\ a.down = {Shift}
          BY <2>2, <3>2 DEF Stroke
        <4>2. {a.delay} \cap Matrix = {a.pre}
          BY <3>2, <4>1
        <4> QED BY <1>1, <1>4, <2>1, <2>3, <3>2, <4>1, <4>2
      <3>3. CASE a.delay # 0 /\ a.pre \notin Matrix
        <4>1. a.delay = a.pre
          BY <2>2, <3>3 DEF Stroke
        <4>2. a.down \cup ({a.delay} \cap Matrix) = a.down
          BY <3>3, <4>1
        <4> QED BY <1>1, <1>4, <2>1, <3>3, <4>2
      <3> QED BY <3>1, <3>2, <3>3
    <2>5. Shown(q)
      <3>1. CASE q.down = a.down
        BY <2>2, <2>3, <3>1 DEF Stroke, Shown
      <3>2. CASE q.pre \in Matrix /\ q.down = {Shift, q.pre}
        BY <3>2 DEF Shown
      <3> QED BY <2>4, <3>1, <3>2
    <2>6. Stroke(q)
      BY <2>2, <2>3, <2>5 DEF Stroke
    <2> QED BY <2>2, <2>3, <2>4, <2>6 DEF StrokeStep, Mid
  <1>5. CASE ~(a.pre # NoKey /\ HoldsOn(a))
    <2>1. Idle(q) \/ Fresh(q)
      <3>1. j = t
        BY <1>2, JoyPad
      <3>2. q = IF t.brk THEN SendBreak(t) ELSE FromText(j, late)
        BY <1>5 DEF keyCheck
      <3> HIDE DEF t, j
      <3>3. Idle(SendBreak(t)) \/ Fresh(SendBreak(t))
        BY <1>2, <1>3, SendBreakDoes
      <3>4. Idle(FromText(t, late)) \/ Fresh(FromText(t, late))
        BY <1>2, <1>3, FromTextDoes
      <3> QED BY <3>1, <3>2, <3>3, <3>4
    <2>2. Idle(a) \/ (Stroke(a) /\ a.count + 1 >= HoldCount)
      <3>1. a.count \in Nat
        BY DEF Typist
      <3>2. HoldCount \in Nat
        BY Numbers
      <3>3. a.pre # NoKey => a.count + 1 >= HoldCount
        BY <1>5, <3>1, <3>2 DEF HoldsOn
      <3>4. Stroke(a) => a.pre # NoKey
        BY DEF Stroke
      <3> QED BY <3>3, <3>4
    <2> QED BY <2>1, <2>2 DEF StrokeStep, Fresh
  <1> QED BY <1>4, <1>5

(* The keyboards' reports touch nothing of keyCheck but the matrix.        *)
LEMMA KeyboardDoes ==
  ASSUME NEW a \in Typist, NEW shift, NEW key \in Nat
  PROVE  LET q == keyboard(a, shift, key)
         IN q \in Typist /\ q.in = a.in /\ q.count = a.count
  <1> DEFINE s == IF shift THEN mz_keydown_sub(a, Shift) ELSE mz_keyup_sub(a, Shift)
             up == IF IsHidKey(a.last) THEN mz_keyup_sub(s, hid_to_emu[a.mode][a.last]) ELSE s
             dn == IF IsHidKey(key) THEN mz_keydown_sub(up, hid_to_emu[a.mode][key]) ELSE up
             q == [dn EXCEPT !.last = key]
  <1>1. s \in Typist /\ s.in = a.in /\ s.count = a.count
    BY KeyDown, KeyUp
  <1> HIDE DEF s
  <1>2. up \in Typist /\ up.in = a.in /\ up.count = a.count
    BY <1>1, KeyUp
  <1> HIDE DEF up
  <1>3. dn \in Typist /\ dn.in = a.in /\ dn.count = a.count
    BY <1>2, KeyDown
  <1> HIDE DEF dn
  <1>4. q \in Typist
    BY <1>3 DEF Typist
  <1>5. q.in = dn.in /\ q.count = dn.count
    BY <1>3 DEF Typist
  <1>6. keyboard(a, shift, key) = IF key = a.last THEN s ELSE q
    BY DEF keyboard, s, up, dn
  <1> HIDE DEF q
  <1> QED BY <1>1, <1>3, <1>4, <1>5, <1>6

----------------------------------------------------------------------------
(* The main loop, the menus and the world outside.                         *)
Counters == {"bursts", "joy", "cards", "fingers", "plugs", "fails", "writes", "menus",
             "resets"}

(* In a scenario of typing nothing but keyCheck works the matrix.          *)
OnlyTyping ==
  /\ may.joy = 0 /\ may.fingers = 0 /\ may.plugs = 0 /\ may.resets = 0
  /\ joy = Centre /\ held = NothingHeld /\ usb = NoUsb /\ reports = <<>>

MayInv == may \in Scenario
KeysInv == k \in Typist /\ k.in = 0 /\ k.count < HoldCount
WorldInv == held \in HidStates \cup {NothingHeld} /\ reports \in Seq(HidStates)
MenuInv == index \in Nat /\ (InMenu => index < Rows)
ScreenInv == vram \in Screens /\ drawing \in 0 .. Strips
StrokeInv == Typing => OnlyTyping /\ (Idle(k) \/ Stroke(k))
IInv == MayInv /\ KeysInv /\ WorldInv /\ MenuInv /\ ScreenInv /\ StrokeInv

(* What every step does: it keeps the scenario, and moves by a stroke.     *)
Moves == may'.kind = may.kind /\ (Typing => StrokeStep(k, k'))

(* An input that happens is one fewer to come.                             *)
LEMMA SpendDoes ==
  ASSUME NEW what \in Counters, MayInv, Spend(what)
  PROVE  /\ MayInv' /\ may'.kind = may.kind /\ may[what] > 0
         /\ \A w \in Counters : may[w] = 0 => may'[w] = 0
  <1>1. \A w \in Counters : may[w] \in Nat
    BY DEF MayInv, Scenario, Counters
  <1>2. may[what] > 0 /\ may' = [may EXCEPT ![what] = @ - 1]
    BY DEF Spend
  <1>3. may[what] - 1 \in Nat
    BY <1>1, <1>2
  <1>4. \A n \in Nat : [may EXCEPT ![what] = n] \in Scenario
    BY DEF MayInv, Scenario, Counters
  <1>5. may' \in Scenario
    BY <1>2, <1>3, <1>4
  <1>6. may'.kind = may.kind
    BY <1>2 DEF MayInv, Scenario, Counters
  <1>7. \A w \in Counters : may[w] = 0 => may'[w] = 0
    BY <1>2 DEF MayInv, Scenario, Counters
  <1> QED BY <1>2, <1>5, <1>6, <1>7 DEF MayInv

(* What draws and what asks for it keep the types of the screen.           *)
LEMMA ScreenTypes ==
  ASSUME ScreenInv,
         UNCHANGED screenVars \/ Writes \/ update_scrn \/ MenuShown
           \/ MenuClosed(FALSE) \/ MenuClosed(TRUE) \/ Thread
  PROVE  ScreenInv'
  <1>1. \A s \in Strip, p \in Pictures : [vram EXCEPT ![s] = p] \in Screens
    BY DEF ScreenInv, Screens
  <1>2. Blank(Cleared) \in Screens
    BY StripAssumption DEF Blank, Screens
  <1>3. CASE UNCHANGED screenVars
    BY <1>3 DEF screenVars, ScreenInv
  <1>4. CASE Writes
    BY <1>1, <1>4 DEF Writes, ScreenInv
  <1>5. CASE update_scrn \/ MenuShown
    BY <1>5 DEF update_scrn, MenuShown, ScreenInv
  <1>6. CASE MenuClosed(FALSE) \/ MenuClosed(TRUE)
    BY <1>2, <1>6 DEF MenuClosed, ScreenInv
  <1>7. CASE Thread
    BY <1>7, StripAssumption DEF Thread, ThreadStarts, ThreadDraws, NextStrip, ScreenInv
  <1> QED BY <1>3, <1>4, <1>5, <1>6, <1>7

(* A step that leaves the stroke as it is.                                 *)
SameStroke == /\ k'.down = k.down /\ k'.pre = k.pre /\ k'.count = k.count
              /\ k'.delay = k.delay /\ k'.in = k.in
OtherInputs == UNCHANGED <<joy, held, usb, reports>>

(* A step that leaves the keys alone keeps what is known of the stroke.    *)
LEMMA KeepsStroke ==
  ASSUME IInv, MayInv', may'.kind = may.kind, k' \in Typist, SameStroke,
         Typing => OnlyTyping'
  PROVE  KeysInv' /\ StrokeInv' /\ Moves
  <1>1. KeysInv'
    BY DEF IInv, KeysInv, SameStroke
  <1>2. Typing' <=> Typing
    BY DEF Typing
  <1>3. (Idle(k) \/ Stroke(k)) => (Idle(k') \/ Stroke(k'))
    BY DEF SameStroke, Idle, Stroke, Shown
  <1>4. StrokeInv'
    BY <1>2, <1>3 DEF IInv, StrokeInv
  <1>5. Moves
    BY DEF Moves, StrokeStep, SameStroke
  <1> QED BY <1>1, <1>4, <1>5

(* What is left alone when nothing is spent, and when something is.        *)
LEMMA NothingSpent ==
  ASSUME IInv, UNCHANGED may, OtherInputs
  PROVE  MayInv' /\ WorldInv' /\ may'.kind = may.kind /\ (Typing => OnlyTyping')
  BY DEF IInv, MayInv, WorldInv, StrokeInv, OnlyTyping, OtherInputs

(* Inputs that press no keys leave a typist alone at the keyboard.         *)
LEMMA SpentTyping ==
  ASSUME IInv, NEW what \in Counters, Spend(what), Typing, OtherInputs
  PROVE  OnlyTyping'
  BY SpendDoes DEF IInv, StrokeInv, OnlyTyping, OtherInputs, Counters

(* Inputs from outside keep the invariant and move through the menu as it  *)
(* allows.                                                                 *)
LEMMA OutsideStep ==
  ASSUME IInv, Outside
  PROVE  IInv' /\ Moves
  <1>1. MenuInv' /\ ScreenInv'
    BY ScreenTypes DEF IInv, MenuInv, Outside, InMenu
  <1>2. k \in Typist
    BY DEF IInv, KeysInv
  <1>3. CASE SerialComes
    <2>1. "bursts" \in Counters /\ Spend("bursts") /\ OtherInputs
      BY <1>3 DEF SerialComes, Counters, OtherInputs
    <2>2. MayInv' /\ may'.kind = may.kind /\ (Typing => OnlyTyping')
      BY <2>1, SpendDoes, SpentTyping DEF IInv
    <2>3. PICK burst \in may.sent : k' = [k EXCEPT !.rx = k.rx \o burst]
      BY <1>3 DEF SerialComes
    <2>4. k.rx \o burst \in Seq(Ascii)
      <3>1. burst \in Seq(Ascii)
        BY <2>3 DEF IInv, MayInv, Scenario
      <3>2. k.rx \in Seq(Ascii)
        BY <1>2 DEF Typist
      <3> QED BY <3>1, <3>2
    <2>5. k' \in Typist /\ SameStroke
      <3>1. \A text \in Seq(Ascii) : [k EXCEPT !.rx = text] \in Typist
        BY <1>2 DEF Typist
      <3>2. SameStroke
        BY <1>2, <2>3 DEF Typist, SameStroke
      <3> QED BY <2>3, <2>4, <3>1, <3>2
    <2>6. WorldInv'
      BY <2>1 DEF IInv, WorldInv, OtherInputs
    <2> QED BY <1>1, <2>2, <2>5, <2>6, KeepsStroke DEF IInv
  <1>4. CASE CardPressed
    <2>1. "cards" \in Counters /\ Spend("cards") /\ OtherInputs
      BY <1>4 DEF CardPressed, Counters, OtherInputs
    <2>2. MayInv' /\ may'.kind = may.kind /\ (Typing => OnlyTyping')
      BY <2>1, SpendDoes, SpentTyping DEF IInv
    <2>3. PICK card \in Cards : k' = [k EXCEPT !.card = card]
      BY <1>4 DEF CardPressed
    <2>5. k' \in Typist /\ SameStroke
      <3>1. [k EXCEPT !.card = card] \in Typist
        BY <1>2 DEF Typist
      <3>2. SameStroke
        BY <1>2, <2>3 DEF Typist, SameStroke
      <3> QED BY <2>3, <3>1, <3>2
    <2>6. WorldInv'
      BY <2>1 DEF IInv, WorldInv, OtherInputs
    <2> QED BY <1>1, <2>2, <2>5, <2>6, KeepsStroke DEF IInv
  <1>5. CASE JoyMoves \/ KeyboardMoves \/ Plugged
    <2>1. UNCHANGED k
      BY <1>5 DEF JoyMoves, KeyboardMoves, Plugged
    <2>2. PICK what \in {"joy", "fingers", "plugs"} : Spend(what)
      BY <1>5 DEF JoyMoves, KeyboardMoves, Plugged
    <2>3. what \in Counters
      BY DEF Counters
    <2>4. MayInv' /\ may'.kind = may.kind /\ may[what] > 0
      BY <2>2, <2>3, SpendDoes DEF IInv
    <2>5. ~Typing
      BY <2>4 DEF IInv, StrokeInv, OnlyTyping
    <2>6. WorldInv'
      <3>1. held' \in HidStates \cup {NothingHeld}
        BY <1>5 DEF JoyMoves, KeyboardMoves, Plugged, IInv, WorldInv
      <3>2. reports \in Seq(HidStates)
        BY DEF IInv, WorldInv
      <3>3. CASE KeyboardMoves
        <4>1. held' \in HidStates
          BY <3>3 DEF KeyboardMoves
        <4>2. Append(reports, held') \in Seq(HidStates)
          BY <3>2, <4>1
        <4> QED BY <3>1, <3>2, <3>3, <4>2 DEF KeyboardMoves, WorldInv
      <3>4. CASE JoyMoves \/ Plugged
        BY <3>1, <3>2, <3>4 DEF JoyMoves, Plugged, WorldInv
      <3> QED BY <1>5, <3>3, <3>4
    <2>7. SameStroke /\ k' \in Typist
      BY <1>2, <2>1 DEF SameStroke
    <2> QED BY <1>1, <2>4, <2>5, <2>6, <2>7, KeepsStroke DEF IInv
  <1> QED BY <1>3, <1>4, <1>5 DEF Outside

(* The turns of the main loop stay in the menu's phase.                    *)
LEMMA TurnKeepsMenu ==
  ASSUME IInv, NEW phase \in DOMAIN After, Turn(phase), UNCHANGED index
  PROVE  MenuInv'
  <1>1. pc' \in {"execute", "draw", "keys", "keyboard", "buttons"}
    BY DEF Turn, After
  <1> QED BY <1>1 DEF IInv, MenuInv, InMenu

(* The steps of the loop that do not look at the keys.                     *)
LEMMA PlainStep ==
  ASSUME IInv, Execute \/ scrn_draw \/ NoButton
  PROVE  IInv' /\ Moves
  <1>1. MenuInv'
    <2>1. {"execute", "draw", "buttons"} \subseteq DOMAIN After
      BY DEF After
    <2> QED BY <2>1, TurnKeepsMenu DEF Execute, scrn_draw, NoButton
  <1>2. ScreenInv'
    BY ScreenTypes DEF IInv, Execute, scrn_draw, NoButton
  <1>3. k' \in Typist /\ SameStroke /\ OtherInputs
    BY DEF Execute, scrn_draw, NoButton, SameStroke, OtherInputs, IInv, KeysInv
  <1>4. MayInv' /\ WorldInv' /\ may'.kind = may.kind /\ (Typing => OnlyTyping')
    <2>1. CASE UNCHANGED may
      BY <1>3, <2>1, NothingSpent
    <2>2. CASE Spend("writes")
      <3>1. "writes" \in Counters
        BY DEF Counters
      <3> QED BY <1>3, <2>2, <3>1, SpendDoes, SpentTyping DEF IInv, WorldInv, OtherInputs
    <2> QED BY <2>1, <2>2 DEF Execute, scrn_draw, NoButton
  <1> QED BY <1>1, <1>2, <1>3, <1>4, KeepsStroke DEF IInv

(* keyCheck as a step of the loop.                                         *)
LEMMA KeysStep ==
  ASSUME IInv, Keys
  PROVE  IInv' /\ Moves
  <1>1. MenuInv'
    BY TurnKeepsMenu DEF Keys, After
  <1>2. ScreenInv'
    BY ScreenTypes DEF IInv, Keys
  <1>3. MayInv' /\ WorldInv' /\ may'.kind = may.kind /\ (Typing => OnlyTyping')
    BY NothingSpent DEF Keys, OtherInputs
  <1>4. PICK buttonA \in 0 .. 2, buttonB \in 0 .. 2, late \in BOOLEAN :
          k' = keyCheck(k, joy, buttonA, buttonB, late)
    BY DEF Keys
  <1>5. k \in Typist /\ k.in = 0 /\ k.count < HoldCount
    BY DEF IInv, KeysInv
  <1>6. KeysInv'
    BY <1>4, <1>5, KeyCheckTypes DEF KeysInv
  <1>7. Typing => StrokeStep(k, k') /\ (Idle(k') \/ Stroke(k'))
    <2> SUFFICES ASSUME Typing PROVE StrokeStep(k, k') /\ (Idle(k') \/ Stroke(k'))
      OBVIOUS
    <2>1. joy.x = 0 /\ (Idle(k) \/ Stroke(k))
      BY DEF IInv, StrokeInv, OnlyTyping, Centre
    <2> QED BY <1>4, <1>5, <2>1, KeyCheckStrokes
  <1>8. Typing' <=> Typing
    BY <1>3 DEF Typing
  <1> QED BY <1>1, <1>2, <1>3, <1>6, <1>7, <1>8 DEF IInv, StrokeInv, Moves

(* Nothing is plugged in where there is only typing.                       *)
LEMMA NoUsbDoes ==
  ASSUME usb = NoUsb
  PROVE  /\ Opened = usb /\ ~Completes(Opened) /\ Completed(Opened) = usb /\ ~Asks(usb)
         /\ Polled(usb, FALSE) = usb
  <1>1. /\ usb.news = NoDevice /\ usb.flight = FALSE /\ usb.in = NoDevice
    BY DEF NoUsb
  <1>2. Opened = usb
    BY <1>1 DEF Opened
  <1> QED BY <1>1, <1>2 DEF Completes, Completed, Asks, Polled

(* The USB keyboard's events as a step of the loop.                        *)
LEMMA KeyboardStep ==
  ASSUME IInv, Keyboard
  PROVE  IInv' /\ Moves
  <1>1. MenuInv'
    BY TurnKeepsMenu DEF Keyboard, After
  <1>2. ScreenInv'
    BY ScreenTypes DEF IInv, Keyboard
  <1>3. k \in Typist /\ k.in = 0 /\ k.count < HoldCount
    BY DEF IInv, KeysInv
  <1>4. \A h \in HidStates \cup {NothingHeld} : h.key \in Nat
    BY ConsoleAssumption DEF NothingHeld
  <1>5. held \in HidStates \cup {NothingHeld} /\ held' = held /\ joy' = joy
    BY DEF IInv, WorldInv, Keyboard
  <1>6. MayInv' /\ may'.kind = may.kind /\ (\A w \in Counters : may[w] = 0 => may'[w] = 0)
    <2>1. CASE UNCHANGED may
      BY <2>1 DEF IInv, MayInv
    <2>2. CASE Spend("fails")
      <3>1. "fails" \in Counters
        BY DEF Counters
      <3> QED BY <2>2, <3>1, SpendDoes DEF IInv
    <2> QED BY <2>1, <2>2 DEF Keyboard, UsbKeyboard, gui_hid, NoReport
  <1>7. WorldInv' /\ KeysInv'
    <2>1. CASE UsbKeyboard
      <3>1. k' \in {keyboard(k, held.shift, held.key), k} /\ reports' = reports
        BY <2>1 DEF UsbKeyboard
      <3> QED BY <1>3, <1>4, <1>5, <3>1, KeyboardDoes DEF IInv, WorldInv, KeysInv
    <2>2. CASE gui_hid
      <3>1. reports \in Seq(HidStates) /\ reports # <<>>
        BY <2>2 DEF gui_hid, IInv, WorldInv
      <3>2. Head(reports) \in HidStates /\ Tail(reports) \in Seq(HidStates)
        BY <3>1
      <3>3. KeysInv'
        BY <1>3, <1>4, <2>2, <3>2, KeyboardDoes DEF gui_hid, KeysInv
      <3>4. WorldInv'
        BY <1>5, <2>2, <3>2 DEF gui_hid, WorldInv
      <3> QED BY <3>3, <3>4
    <2>3. CASE NoReport
      BY <1>3, <1>5, <2>3 DEF NoReport, IInv, WorldInv, KeysInv
    <2> QED BY <2>1, <2>2, <2>3 DEF Keyboard
  <1>8. ASSUME Typing PROVE k' = k /\ OnlyTyping'
    <2>1. OnlyTyping
      BY <1>8 DEF IInv, StrokeInv
    <2>2. UNCHANGED <<k, usb, reports>>
      <3>1. CASE UsbKeyboard
        BY <2>1, <3>1, NoUsbDoes DEF UsbKeyboard, OnlyTyping
      <3>2. CASE gui_hid \/ NoReport
        BY <2>1, <3>2 DEF gui_hid, NoReport, OnlyTyping
      <3> QED BY <3>1, <3>2 DEF Keyboard
    <2>3. /\ may'.joy = 0 /\ may'.fingers = 0 /\ may'.plugs = 0 /\ may'.resets = 0
      BY <1>6, <2>1 DEF OnlyTyping, Counters
    <2> QED BY <1>5, <2>1, <2>2, <2>3 DEF OnlyTyping
  <1>9. StrokeInv' /\ Moves
    <2>1. Typing' <=> Typing
      BY <1>6 DEF Typing
    <2>2. Typing => k' = k /\ OnlyTyping' /\ (Idle(k) \/ Stroke(k))
      BY <1>8 DEF IInv, StrokeInv
    <2> QED BY <1>6, <2>1, <2>2 DEF StrokeInv, Moves, StrokeStep
  <1> QED BY <1>1, <1>2, <1>6, <1>7, <1>9 DEF IInv

(* Opening a menu and moving in it.                                        *)
LEMMA MoveStep ==
  ASSUME IInv, MenuOpens \/ Down \/ Up
  PROVE  IInv' /\ Moves
  <1>1. Files \in Nat /\ Files > 0
    BY ConsoleAssumption
  <1>2. MenuInv'
    <2>1. CASE MenuOpens
      BY <1>1, <2>1 DEF MenuOpens, MenuInv, Rows, MenuItems
    <2>2. CASE Down \/ Up
      BY <1>1, <2>2 DEF Down, Up, IInv, MenuInv, InMenu, Rows, MenuItems
    <2> QED BY <2>1, <2>2
  <1>3. ScreenInv'
    BY ScreenTypes DEF IInv, MenuOpens, Down, Up
  <1>4. k' \in Typist /\ SameStroke /\ OtherInputs
    BY DEF MenuOpens, Down, Up, SameStroke, OtherInputs, IInv, KeysInv
  <1>5. MayInv' /\ WorldInv' /\ may'.kind = may.kind /\ (Typing => OnlyTyping')
    <2>1. CASE UNCHANGED may
      BY <1>4, <2>1, NothingSpent
    <2>2. CASE Spend("menus")
      <3>1. "menus" \in Counters
        BY DEF Counters
      <3> QED BY <1>4, <2>2, <3>1, SpendDoes, SpentTyping DEF IInv, WorldInv, OtherInputs
    <2> QED BY <2>1, <2>2 DEF MenuOpens, Down, Up
  <1> QED BY <1>2, <1>3, <1>4, <1>5, KeepsStroke DEF IInv

(* The choice in the menu as a step of the loop.                           *)
LEMMA SelectStep ==
  ASSUME IInv, Select
  PROVE  IInv' /\ Moves
  <1>1. OtherInputs /\ index' = index
    BY DEF Select, OtherInputs
  <1>2. MenuInv'
    BY DEF Select, Back, ResetMz, Setting, WonderHouse, Input, Load, Return, Stay,
           IInv, MenuInv, InMenu, Rows
  <1>3. ScreenInv'
    BY ScreenTypes DEF Select, Back, ResetMz, Setting, WonderHouse, Input, Load, Return,
                       Stay, IInv
  <1>4. k \in Typist /\ k.in = 0 /\ k.count < HoldCount
    BY DEF IInv, KeysInv
  <1>5. CASE ResetMz
    <2>1. "resets" \in Counters /\ Spend("resets")
      BY <1>5 DEF ResetMz, Counters
    <2>2. MayInv' /\ may'.kind = may.kind /\ may["resets"] > 0
      BY <2>1, SpendDoes DEF IInv
    <2>3. ~Typing /\ ~Typing'
      BY <2>2 DEF IInv, StrokeInv, OnlyTyping, Typing
    <2>4. KeysInv'
      <3>1. PICK mode \in {k.mode, RomMode[index]} :
              k' = mz_keyport_init([k EXCEPT !.mode = mode])
        BY <1>5 DEF ResetMz
      <3>2. mode \in Modes
        BY <1>4, <1>5, ConsoleAssumption DEF ResetMz, Typist
      <3>3. [k EXCEPT !.mode = mode] \in Typist
        BY <1>4, <3>2 DEF Typist
      <3>4. \A b \in Typist : /\ [b EXCEPT !.down = {}] \in Typist
                              /\ [b EXCEPT !.down = {}].in = b.in
                              /\ [b EXCEPT !.down = {}].count = b.count
        BY DEF Typist
      <3>5. [k EXCEPT !.mode = mode].in = k.in /\ [k EXCEPT !.mode = mode].count = k.count
        BY <1>4 DEF Typist
      <3> QED BY <1>4, <3>1, <3>3, <3>4, <3>5 DEF mz_keyport_init, KeysInv
    <2>5. WorldInv'
      BY <1>1 DEF IInv, WorldInv, OtherInputs
    <2> QED BY <1>2, <1>3, <2>2, <2>3, <2>4, <2>5 DEF IInv, StrokeInv, Moves
  <1>6. CASE Back \/ Setting \/ WonderHouse \/ Input \/ Load
    <2>1. UNCHANGED may
      BY <1>6 DEF Back, Setting, WonderHouse, Input, Load
    <2>2. MayInv' /\ WorldInv' /\ may'.kind = may.kind /\ (Typing => OnlyTyping')
      BY <1>1, <2>1, NothingSpent
    <2>3. k' \in Typist /\ SameStroke
      <3>1. CASE Back \/ Setting \/ Load
        BY <1>4, <3>1 DEF Back, Setting, Load, SameStroke
      <3>2. CASE WonderHouse
        <4> DEFINE n == IF k.wonder THEN k.at ELSE 1
                   q == [k EXCEPT !.wonder = ~k.wonder]
        <4>1. k' = [q EXCEPT !.at = n]
          BY <3>2 DEF WonderHouse
        <4>2. n \in 1 .. Len(wonderHouseKeyData)
          <5>1. k.at \in 1 .. Len(wonderHouseKeyData)
            BY <1>4 DEF Typist
          <5>2. 1 \in 1 .. Len(wonderHouseKeyData)
            BY Numbers
          <5> QED BY <5>1, <5>2
        <4> HIDE DEF n
        <4>3. q \in Typist
          <5>1. \A b \in BOOLEAN : [k EXCEPT !.wonder = b] \in Typist
            BY <1>4 DEF Typist
          <5>2. (~k.wonder) \in BOOLEAN
            OBVIOUS
          <5> QED BY <5>1, <5>2
        <4>4. [q EXCEPT !.at = n] \in Typist
          <5>1. \A b \in Typist, i \in 1 .. Len(wonderHouseKeyData) :
                  [b EXCEPT !.at = i] \in Typist
            BY DEF Typist
          <5> QED BY <4>2, <4>3, <5>1
        <4>5. SameStroke
          BY <1>4, <4>1 DEF Typist, SameStroke
        <4> QED BY <4>1, <4>4, <4>5
      <3>3. CASE Input
        <4>1. \A text \in Seq(Ascii) : [k EXCEPT !.ex = text] \in Typist
          BY <1>4 DEF Typist
        <4>2. [k EXCEPT !.cr = TRUE] \in Typist
          BY <1>4 DEF Typist
        <4>3. k' = [k EXCEPT !.cr = TRUE] \/ \E text \in Seq(Ascii) : k' = [k EXCEPT !.ex = text]
          <5>1. \A i \in 9 .. 11 : <<<<48>>, <<49>>, <<50>>>>[i - 8] \in Seq(Ascii)
            <6>1. \A i \in 9 .. 11 : i - 8 = 1 \/ i - 8 = 2 \/ i - 8 = 3
              OBVIOUS
            <6>2. /\ <<<<48>>, <<49>>, <<50>>>>[1] = <<48>>
                  /\ <<<<48>>, <<49>>, <<50>>>>[2] = <<49>>
                  /\ <<<<48>>, <<49>>, <<50>>>>[3] = <<50>>
              OBVIOUS
            <6> DEFINE texts == <<<<48>>, <<49>>, <<50>>>>
            <6>3. texts[1] \in Seq(Ascii) /\ texts[2] \in Seq(Ascii) /\ texts[3] \in Seq(Ascii)
              BY <6>2, Texts
            <6> HIDE DEF texts
            <6>4. \A i \in 9 .. 11 : texts[i - 8] \in Seq(Ascii)
              BY <6>1, <6>3
            <6> QED BY <6>4 DEF texts
          <5>2. CASE index = 12
            BY <3>3, <5>2 DEF Input
          <5>3. CASE index # 12
            <6>1. index \in 9 .. 11 /\ k' = [k EXCEPT !.ex = <<<<48>>, <<49>>, <<50>>>>[index - 8]]
              BY <3>3, <5>3 DEF Input
            <6> QED BY <5>1, <6>1
          <5> QED BY <5>2, <5>3
        <4>4. SameStroke
          BY <1>4, <4>3 DEF Typist, SameStroke
        <4> QED BY <4>1, <4>2, <4>3, <4>4
      <3> QED BY <1>6, <3>1, <3>2, <3>3
    <2> QED BY <1>2, <1>3, <2>2, <2>3, KeepsStroke DEF IInv
  <1> QED BY <1>5, <1>6 DEF Select

(* Drawing changes neither keys nor menu.                                  *)
LEMMA StillStep ==
  ASSUME IInv, Drawing \/ UNCHANGED vars
  PROVE  IInv' /\ Moves
  <1>1. /\ k' = k /\ UNCHANGED <<index, pc, may>> /\ OtherInputs
        /\ (Thread \/ UNCHANGED screenVars)
    BY DEF Drawing, vars, OtherInputs
  <1>2. MenuInv' /\ ScreenInv'
    BY <1>1, ScreenTypes DEF IInv, MenuInv, InMenu, Rows
  <1>3. k' \in Typist /\ SameStroke
    BY <1>1 DEF SameStroke, IInv, KeysInv
  <1> QED BY <1>1, <1>2, <1>3, NothingSpent, KeepsStroke DEF IInv

(* Every step keeps the invariant and moves through the menu as it allows. *)
LEMMA Step ==
  ASSUME IInv, [Next]_vars
  PROVE  IInv' /\ Moves
  BY OutsideStep, PlainStep, KeysStep, KeyboardStep, MoveStep, SelectStep, StillStep
     DEF Next, Loop

(* The invariant holds at the start.                                       *)
LEMMA Start ==
  ASSUME Init
  PROVE  IInv
  <1>1. PICK mode \in Modes : k = NewKeys(mode)
    BY DEF Init
  <1>2. KeysInv
    <2>1. /\ 0 \in 0 .. I2cEvery - 1 /\ 1 \in 1 .. Len(wonderHouseKeyData)
          /\ 0 \in KeyCodes /\ 0 \in Ascii /\ <<>> \in Seq(Ascii)
      BY Numbers, KeyRanges, Texts DEF Ascii
    <2>2. NewKeys(mode) \in Typist
      BY <2>1 DEF NewKeys, Typist
    <2>3. NewKeys(mode).in = 0 /\ NewKeys(mode).count = 0
      BY DEF NewKeys
    <2> QED BY <1>1, <2>2, <2>3, Numbers DEF KeysInv
  <1>3. MayInv
    BY ConsoleAssumption DEF Init, MayInv
  <1>4. WorldInv /\ MenuInv
    BY DEF Init, WorldInv, MenuInv, InMenu
  <1>5. ScreenInv
    BY StripAssumption DEF Init, ScreenInit, ScreenInv, Blank, Screens
  <1>6. StrokeInv
    <2>1. Idle(k)
      BY <1>1 DEF NewKeys, Idle
    <2>2. Typing => OnlyTyping
      BY ConsoleAssumption DEF Init, Typing, OnlyTyping
    <2> QED BY <2>1, <2>2 DEF StrokeInv
  <1> QED BY <1>2, <1>3, <1>4, <1>5, <1>6 DEF IInv

(* Every run of the console keeps the invariant.                           *)
THEOREM ConsoleInvariance == Spec => []IInv
  <1>1. Init => IInv
    BY Start
  <1>2. IInv /\ [Next]_vars => IInv'
    BY Step
  <1> QED BY <1>1, <1>2, PTL DEF Spec

(* The globals of the keys keep their types and the row selected is one on *)
(* offer, whatever works the matrix and whichever menu is open.            *)
THEOREM ConsoleTypes == Spec => []TypeOK
  <1>1. IInv => TypeOK
    <2> SUFFICES ASSUME IInv PROVE TypeOK
      OBVIOUS
    <2>1. /\ k.down \subseteq Matrix /\ k.pre \in KeyCodes \cup {NoKey} /\ k.count \in Nat
          /\ k.delay \in KeyCodes /\ k.serial \in Ascii /\ k.i2c \in 0 .. I2cEvery - 1
          /\ k.at \in 1 .. Len(wonderHouseKeyData) /\ k.mode \in Modes
      BY DEF IInv, KeysInv, Typist
    <2>2. k.count \in 0 .. HoldCount - 1 /\ k.in = 0
      BY <2>1, Numbers DEF IInv, KeysInv
    <2>3. k.pre \in Bytes \cup {NoKey} /\ k.delay \in Bytes /\ k.serial \in Bytes
      <3>1. Ascii \subseteq Bytes /\ KeyCodes \subseteq Bytes
        BY KeyRanges DEF Bytes, Ascii
      <3> QED BY <2>1, <3>1
    <2>4. Range(reports) \subseteq HidStates
      BY DEF IInv, WorldInv, Range
    <2> QED BY <2>1, <2>2, <2>3, <2>4 DEF TypeOK, IInv, WorldInv, MenuInv, ScreenInv
  <1> QED BY <1>1, ConsoleInvariance, PTL

(* A round of keyCheck in which typing moves on is a step of Keystrokes.   *)
LEMMA StrokeMaps ==
  ASSUME IInv, IInv', Moves
  PROVE  [Strokes!Next]_Strokes!vars
  <1> DEFINE matrix == IF Typing THEN k.down ELSE {}
             left == IF Typing /\ k.pre # NoKey THEN HoldCount - k.count ELSE 0
  <1>1. Typing' <=> Typing
    BY DEF Moves, Typing
  <1>2. CASE ~Typing
    BY <1>1, <1>2 DEF Strokes!vars
  <1>3. CASE Typing
    <2>1. matrix = k.down /\ matrix' = k'.down
      BY <1>1, <1>3
    <2>2. /\ left = IF k.pre # NoKey THEN HoldCount - k.count ELSE 0
          /\ left' = IF k'.pre # NoKey THEN HoldCount - k'.count ELSE 0
      BY <1>1, <1>3
    <2>3. HoldCount \in Nat /\ HoldCount > 0 /\ k.count \in Nat /\ k.count < HoldCount
      BY Numbers DEF IInv, KeysInv, Typist
    <2>4. ASSUME Fresh(k') PROVE left' = HoldCount /\ matrix' \in Strokes!Strokes
      <3>1. left' = HoldCount
        BY <2>2, <2>3, <2>4 DEF Fresh, Stroke
      <3>2. k'.down = {Shift} \/ (k'.pre \in Matrix /\ k'.down \in {{k'.pre}, {Shift, k'.pre}})
        BY <2>4 DEF Fresh, Stroke, Shown
      <3>3. k'.down \in Strokes!Strokes
        BY <3>2, KeyRanges DEF Strokes!Strokes
      <3> QED BY <2>1, <3>1, <3>3
    <2>5. ASSUME Idle(k') PROVE left' = 0 /\ matrix' = {}
      BY <2>1, <2>2, <2>5 DEF Idle
    <2>6. StrokeStep(k, k')
      BY <1>3 DEF Moves
    <2>7. CASE k'.down = k.down /\ k'.pre = k.pre /\ k'.count = k.count
      <3>1. matrix' = matrix /\ left' = left
        BY <2>1, <2>2, <2>7
      <3> QED BY <3>1 DEF Strokes!vars
    <2>8. CASE Idle(k) /\ (Idle(k') \/ Fresh(k'))
      <3>1. left = 0 /\ matrix = {}
        BY <2>1, <2>2, <2>8 DEF Idle
      <3> HIDE DEF left, matrix
      <3>2. CASE Idle(k')
        BY <2>5, <3>1, <3>2 DEF Strokes!vars, left, matrix
      <3>3. CASE Fresh(k')
        BY <2>4, <3>1, <3>3 DEF Strokes!Next, Strokes!Begin, left, matrix
      <3> QED BY <2>8, <3>2, <3>3
    <2>9. CASE Stroke(k) /\ k.count + 1 >= HoldCount /\ (Idle(k') \/ Fresh(k'))
      <3>1. left = 1
        BY <2>2, <2>3, <2>9 DEF Stroke
      <3>2. CASE Idle(k')
        BY <2>5, <3>1, <3>2 DEF Strokes!Next, Strokes!Lift
      <3>3. CASE Fresh(k')
        BY <2>4, <3>1, <3>3 DEF Strokes!Next, Strokes!Begin
      <3> QED BY <2>9, <3>2, <3>3
    <2>10. CASE Mid(k, k')
      <3>1. /\ k.pre # NoKey /\ k'.pre # NoKey /\ k'.count = k.count + 1
            /\ k.count + 1 < HoldCount
        BY <2>10 DEF Mid, Stroke
      <3>2. left = HoldCount - k.count /\ left > 1 /\ left' = left - 1
        BY <2>2, <2>3, <3>1
      <3>3. CASE k'.down = k.down
        BY <2>1, <3>2, <3>3 DEF Strokes!Next, Strokes!Hold
      <3>4. CASE /\ k.count = 0 /\ k.down = {Shift} /\ k'.pre \in Matrix
                 /\ k'.down = {Shift, k'.pre}
        <4>1. left = HoldCount
          BY <2>3, <3>2, <3>4
        <4> QED BY <2>1, <3>2, <3>4, <4>1 DEF Strokes!Next, Strokes!ShiftedKey
      <3> QED BY <2>10, <3>3, <3>4 DEF Mid
    <2> QED BY <2>6, <2>7, <2>8, <2>9, <2>10 DEF StrokeStep
  <1> QED BY <1>2, <1>3

(* Where only keyCheck works the matrix, the program is shown whole        *)
(* strokes, one after another.                                             *)
THEOREM WholeStrokes == Spec => StrokeSpec
  <1>1. Init => Strokes!Init
    <2> SUFFICES ASSUME Init PROVE Strokes!Init
      OBVIOUS
    <2>1. PICK mode \in Modes : k = NewKeys(mode)
      BY DEF Init
    <2>2. k.down = {} /\ k.pre = NoKey
      BY <2>1 DEF NewKeys
    <2> QED BY <2>2 DEF Strokes!Init
  <1>2. IInv /\ IInv' /\ [Next]_vars => [Strokes!Next]_Strokes!vars
    BY Step, StrokeMaps
  <1> QED BY <1>1, <1>2, ConsoleInvariance, PTL DEF Spec, StrokeSpec, Strokes!Spec
=============================================================================
