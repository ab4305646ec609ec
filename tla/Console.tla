------------------------------ MODULE Console ------------------------------
(***************************************************************************)
(* The main loop of Mzmain.cpp around the CPU: it lets the program run,    *)
(* asks for the screen, looks at the keys and at the USB or Bluetooth      *)
(* keyboard, and opens the two menus.  Beside it run the drawing thread    *)
(* (Screen) and the world outside: a terminal, a joypad, I2C and HID       *)
(* keyboards, which may do as much as the scenario (may) allows.           *)
(***************************************************************************)
EXTENDS KeyScan, Screen, FiniteSets, SequencesExt

CONSTANTS Scenarios,    \* what may happen, and how often
          RomMode,      \* the machine of the monitor ROM of a menu item
          Files,        \* number of tape images in the directory
          HasUp,        \* whether the board has a button that goes up
          Bursts,       \* what a terminal sends at a time, in some scenario
          JoyPositions, \* x, y and press of a joypad; x = 0 without one
          Cards,        \* keys of the I2C keyboards
          HidStates     \* what is held on a HID keyboard: shift and a key

Scenario ==
  [kind : STRING, keyboard : STRING, screen : BOOLEAN, sent : SUBSET Seq(Ascii),
   bursts : Nat, joy : Nat, cards : Nat, fingers : Nat, plugs : Nat, fails : Nat,
   writes : Nat, menus : Nat, resets : Nat, items : SUBSET Nat]

\* Terminals and I2C keyboards send characters and the keys keyCheck knows.
\* In a scenario of kind typing only keyCheck works the matrix.
ASSUME ConsoleAssumption ==
  /\ Scenarios \subseteq Scenario
  /\ \A s \in Scenarios : s.kind = "typing" =>
       s.joy = 0 /\ s.fingers = 0 /\ s.plugs = 0 /\ s.resets = 0
  /\ Files \in Nat \ {0} /\ RomMode \in [1 .. 4 -> Modes]
  /\ HidStates \subseteq [shift : BOOLEAN, key : Nat]
  /\ Cards \subseteq [kb : {"CARDKB", "FACES"}, code : Bytes]
  /\ \A c \in Cards : c.code \in Ascii \cup DOMAIN Special(c.kb) \/ IsEscape(c)

VARIABLES k,            \* the globals of the keys (KeyScan)
          joy,          \* where the joypad stands
          held,         \* what is held on the HID keyboard
          usb,          \* the globals of the USB keyboard, and its transfer
          reports,      \* Bluetooth reports hid_get has still to return
          index,        \* selectIndex of the menu that is open
          pc,           \* where the main loop is
          may           \* what may still happen

vars == <<k, joy, held, usb, reports, index, pc, may, screenVars>>
NothingHeld == [shift |-> FALSE, key |-> 0]
NoDevice == 0
Centre == [x |-> 0, y |-> 0, press |-> 0]

\* plugged: the device in the socket; news: one the client is to be told of;
\* device: Device_Handle; in: the device of KeyboardIn (isKeyboardReady);
\* polling: isKeyboardPolling; flight: the transfer is really under way;
\* seen: what the keyboard last reported.
NoUsb == [plugged |-> NoDevice, news |-> NoDevice, device |-> NoDevice, in |-> NoDevice,
          polling |-> FALSE, flight |-> FALSE, seen |-> NothingHeld]

Init ==
  /\ may \in Scenarios
  /\ \E mode \in Modes : k = NewKeys(mode)
  /\ joy = Centre /\ held = NothingHeld /\ usb = NoUsb /\ reports = <<>>
  /\ index = 0 /\ pc = "execute"
  /\ ScreenInit

Spend(what) == may[what] > 0 /\ may' = [may EXCEPT ![what] = @ - 1]

\* The round of the main loop.
After == [execute |-> "draw", draw |-> "keys", keys |-> "keyboard",
          keyboard |-> "buttons", buttons |-> "execute"]
Turn(phase) == pc = phase /\ pc' = After[phase]

-----------------------------------------------------------------------------
(* The world outside.  What it does is seen no earlier than the main loop  *)
(* looks, so it moves while the program runs.                              *)

SerialComes ==
  /\ Spend("bursts") /\ \E burst \in may.sent : k' = [k EXCEPT !.rx = @ \o burst]
  /\ UNCHANGED <<joy, held, usb, reports>>
JoyMoves ==
  /\ Spend("joy") /\ joy' \in JoyPositions \cup {Centre}
  /\ UNCHANGED <<k, held, usb, reports>>
CardPressed ==
  /\ Spend("cards") /\ \E card \in Cards : k' = [k EXCEPT !.card = card]
  /\ UNCHANGED <<joy, held, usb, reports>>
KeyboardMoves ==
  /\ Spend("fingers") /\ held' \in HidStates \ {held}
  /\ may.keyboard = "bluetooth" \/ usb.plugged # NoDevice
  /\ reports' = IF may.keyboard = "bluetooth" THEN Append(reports, held') ELSE reports
  /\ UNCHANGED <<k, joy, usb>>
\* A keyboard that is plugged in is a new device to the host.
Plugged ==
  /\ Spend("plugs") /\ held' = NothingHeld
  /\ usb' = IF usb.plugged # NoDevice THEN [usb EXCEPT !.plugged = NoDevice]
            ELSE [usb EXCEPT !.plugged = may.plugs, !.news = may.plugs, !.seen = NothingHeld]
  /\ UNCHANGED <<k, joy, reports>>

Outside ==
  /\ pc = "execute"
  /\ (SerialComes \/ JoyMoves \/ CardPressed \/ KeyboardMoves \/ Plugged)
  /\ UNCHANGED <<index, pc, screenVars>>

-----------------------------------------------------------------------------
(* A round of the main loop.                                               *)

Execute ==
  /\ Turn("execute")
  /\ \/ Spend("writes") /\ Writes
     \/ UNCHANGED <<may, screenVars>>
  /\ UNCHANGED <<k, joy, held, usb, reports, index>>

\* scrn_draw compares the time with a variable that has no value yet: the
\* screen is asked for or not.
scrn_draw ==
  /\ Turn("draw")
  /\ \/ may.screen /\ update_scrn
     \/ UNCHANGED screenVars
  /\ UNCHANGED <<k, joy, held, usb, reports, index, may>>

Keys ==
  /\ Turn("keys")
  /\ \E buttonA, buttonB \in 0 .. 2, late \in BOOLEAN :
       k' = keyCheck(k, joy, buttonA, buttonB, late)
  /\ UNCHANGED <<joy, held, usb, reports, index, may, screenVars>>

\* usbh_task: a new device is opened; its endpoint becomes KeyboardIn if
\* there is none yet.
Opened ==
  IF usb.news = NoDevice THEN usb
  ELSE [usb EXCEPT !.news = NoDevice, !.device = usb.news,
                   !.in = IF @ = NoDevice THEN usb.news ELSE @]

\* keyboard_transfer_cb: the transfer of a device that is gone fails.
Gone(u) == u.in # u.plugged
Completes(u) == u.flight /\ (Gone(u) \/ u.seen # held)
Completed(u) ==
  IF ~Completes(u) THEN u
  ELSE [u EXCEPT !.flight = FALSE, !.polling = @ /\ u.device # u.in,
                 !.seen = IF Gone(u) THEN @ ELSE held]

\* Mutant: a keyboard is not asked again when it has said something.
AsksOnce(u) == u.in # NoDevice /\ ~u.polling /\ u.seen = NothingHeld
Asks(u) == u.in # NoDevice /\ ~u.polling

\* The keyboard is asked again; whether that failed is not looked at.
Polled(u, fails) ==
  IF ~Asks(u) THEN u ELSE [u EXCEPT !.polling = TRUE, !.flight = ~fails /\ ~Gone(u)]

UsbKeyboard ==
  /\ may.keyboard = "usb" /\ UNCHANGED reports
  /\ \/ usb' = Polled(Completed(Opened), FALSE) /\ UNCHANGED may
     \/ Asks(Completed(Opened)) /\ Spend("fails") /\ usb' = Polled(Completed(Opened), TRUE)
  /\ k' = IF Completes(Opened) /\ ~Gone(Opened) /\ Opened.device = Opened.in
          THEN keyboard(k, held.shift, held.key) ELSE k

\* gui_hid: one report a round.
gui_hid ==
  /\ may.keyboard = "bluetooth" /\ reports # <<>>
  /\ reports' = Tail(reports)
  /\ k' = keyboard(k, Head(reports).shift, Head(reports).key)
  /\ UNCHANGED <<usb, may>>

NoReport == may.keyboard # "usb" /\ reports = <<>> /\ UNCHANGED <<k, usb, reports, may>>

Keyboard ==
  /\ Turn("keyboard")
  /\ (UsbKeyboard \/ gui_hid \/ NoReport)
  /\ UNCHANGED <<joy, held, index, screenVars>>

NoButton ==
  /\ Turn("buttons")
  /\ UNCHANGED <<k, joy, held, usb, reports, index, may, screenVars>>

MenuOpens ==
  /\ pc = "buttons" /\ Spend("menus") /\ pc' \in {"menu", "files"}
  /\ index' = 0 /\ MenuShown
  /\ UNCHANGED <<k, joy, held, usb, reports>>

Loop == Execute \/ scrn_draw \/ Keys \/ Keyboard \/ NoButton

-----------------------------------------------------------------------------
(* The menus: systemMenu and selectMzt.  Row 0 is [BACK]; the scenario says *)
(* which rows may be selected.                                             *)

MenuItems == 14
Rows == IF pc = "menu" THEN MenuItems ELSE Files + 1
InMenu == pc \in {"menu", "files"}

\* Mutant: the list is taken for one longer than it is.
DownPastLast ==
  /\ InMenu /\ index' = IF index > Rows - 1 THEN 0 ELSE index + 1
  /\ UNCHANGED <<k, joy, held, usb, reports, pc, may, screenVars>>
Down ==
  /\ InMenu /\ index' = IF index + 1 > Rows - 1 THEN 0 ELSE index + 1
  /\ UNCHANGED <<k, joy, held, usb, reports, pc, may, screenVars>>

\* From the first row up: in the menu to the last one, in the list of files
\* to the last but one.
Up ==
  /\ InMenu /\ HasUp
  /\ index' = IF index > 0 THEN index - 1
              ELSE IF pc = "menu" THEN MenuItems - 1 ELSE Files - 1
  /\ UNCHANGED <<k, joy, held, usb, reports, pc, may, screenVars>>

Return(cleared) == pc' = "execute" /\ MenuClosed(cleared)
Stay == UNCHANGED <<pc, screenVars>>

Back == index = 0 /\ Return(FALSE) /\ UNCHANGED <<k, may>>

\* A ROM that cannot be read leaves the one before, and its machine.
ResetMz ==
  /\ pc = "menu" /\ index \in 1 .. 4 /\ Spend("resets")
  /\ \E mode \in {k.mode, RomMode[index]} : k' = mz_keyport_init([k EXCEPT !.mode = mode])
  /\ Return(TRUE)

\* SOUND, SET MZTtoMEMORY, SAVE MZT Image and PCG change nothing that is
\* modelled here; the menu stays.
Setting ==
  /\ pc = "menu" /\ index \in {5, 6, 7, 13} /\ Stay
  /\ UNCHANGED <<k, may>>

WonderHouse ==
  /\ pc = "menu" /\ index = 8 /\ Return(FALSE)
  /\ k' = [k EXCEPT !.wonder = ~@, !.at = IF k.wonder THEN @ ELSE 1]
  /\ UNCHANGED may

Input ==
  /\ pc = "menu" /\ index \in 9 .. 12 /\ Return(FALSE)
  /\ k' = IF index = 12 THEN [k EXCEPT !.cr = TRUE]
          ELSE [k EXCEPT !.ex = <<<<48>>, <<49>>, <<50>>>>[index - 8]]
  /\ UNCHANGED may

\* The image goes to memory or to the tape deck (Cmt): nothing here.
Load ==
  /\ pc = "files" /\ index > 0 /\ Return(FALSE)
  /\ UNCHANGED <<k, may>>

Select ==
  /\ InMenu /\ index \in may.items
  /\ (Back \/ ResetMz \/ Setting \/ WonderHouse \/ Input \/ Load)
  /\ UNCHANGED <<joy, held, usb, reports, index>>

-----------------------------------------------------------------------------
Drawing == Thread /\ UNCHANGED <<k, joy, held, usb, reports, index, pc, may>>

Next == Outside \/ Loop \/ MenuOpens \/ Down \/ Up \/ Select \/ Drawing

\* The main loop and the thread go on; nobody has to leave a menu.
Goes == \E phase \in DOMAIN After : Turn(phase)
Fairness == WF_pc(Goes) /\ WF_vars(Drawing)

Spec == Init /\ [][Next]_vars /\ Fairness
-----------------------------------------------------------------------------
(* Properties.                                                             *)

\* The variables have their types; the row selected is one on offer.
TypeOK ==
  /\ k.down \subseteq Matrix /\ k.pre \in Bytes \cup {NoKey} /\ k.count \in 0 .. HoldCount - 1
  /\ k.delay \in Bytes /\ k.serial \in Bytes /\ k.i2c \in 0 .. I2cEvery - 1
  /\ k.at \in 1 .. Len(wonderHouseKeyData) /\ k.mode \in Modes /\ k.in = 0
  /\ held \in HidStates \cup {NothingHeld} /\ Range(reports) \subseteq HidStates
  /\ index \in Nat /\ (InMenu => index < Rows)
  /\ vram \in Screens /\ drawing \in 0 .. Strips

\* As long as only keyCheck works the matrix, what the program sees are
\* strokes: whichever of the four sources a key comes from and whatever
\* they do meanwhile, it is held for HoldCount rounds, shift comes a round
\* before it, and both go up together.
Typing == may.kind = "typing"
Strokes == INSTANCE Keystrokes
  WITH Keys <- Matrix, Rounds <- HoldCount,
       matrix <- IF Typing THEN k.down ELSE {},
       left <- IF Typing /\ k.pre # NoKey THEN HoldCount - k.count ELSE 0
StrokeSpec == Strokes!Spec

\* The key of the byte the terminal sent first goes down, unless a menu is
\* opened or a joypad is there (whose buttons, never read, may type for
\* ever).  ! of the MZ-80 is left out: its key has code 0, which keyCheck
\* takes for no key.
KeyOf(byte, mode) ==
  IF ak_tbl[mode][byte] = Shift THEN ak_tbl_s[mode][byte] ELSE ak_tbl[mode][byte]
Typable(byte) == \A mode \in Modes :
  ak_tbl[mode][byte] \in Matrix /\ KeyOf(byte, mode) \in Matrix \ {0}
TypedComesOut == \A burst \in Bursts :
  Typable(burst[1]) =>
    (k.rx # <<>> /\ k.rx[1] = burst[1])
      ~> (KeyOf(burst[1], k.mode) \in k.down \/ InMenu \/ joy.x # 0)

\* The keyboard has been heard: no submit failed and it was not replaced.
Heard == ~usb.polling \/ usb.flight

\* When all fingers are off all keys and nobody types, no key stays down.
\* (A serial line types its last key for ever: it must have ended with a
\* byte that is none.  A stick must have been let go before it is
\* unplugged.)
Quiet ==
  /\ ~InMenu /\ held = NothingHeld /\ joy.x = 0 /\ k.pushed = {} /\ Heard
  /\ k.serial = 0 /\ k.rx = <<>> /\ k.card = NoCard /\ ~k.wonder
QuietAtLast == <>[]Quiet => <>[](k.down = {})

\* What is held on a HID keyboard is down for as long as it is held, if it
\* is the only thing in use.
Wanted(h) == (IF h.shift THEN {Shift} ELSE {})
               \cup (IF IsHidKey(h.key) THEN {hid_to_emu[k.mode][h.key]} \cap Matrix ELSE {})
Alone == k.pre = NoKey /\ k.pushed = {} /\ ~InMenu /\ Heard
KeyboardFollowed == \A h \in HidStates :
  ([]Alone /\ <>[](held = h)) => <>[](k.down = Wanted(h))

\* What the video RAM holds when the screen is asked for is shown, unless
\* the program writes again or a menu opens.
ScreenCatchesUp == asked ~> (shown = vram \/ ~asked)
=============================================================================
