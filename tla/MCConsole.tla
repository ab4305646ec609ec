------------------------------ MODULE MCConsole ------------------------------
(* A small console: entries of the key tables of both machines, a script   *)
(* of one line, and nine scenarios, in each of which some devices are used.*)
EXTENDS Console

Table(n, entries) == [b \in 0 .. n |-> IF b \in DOMAIN entries THEN entries[b] ELSE 255]
MC_ak_tbl ==
  (80 :> Table(127, (97 :> 64) @@ (65 :> 128) @@ (33 :> 128) @@ (49 :> 0) @@ (32 :> 145)
            @@ (115 :> 80) @@ (51 :> 1) @@ (48 :> 20) @@ (50 :> 16) @@ (13 :> 132)
            @@ (17 :> 146) @@ (18 :> 128) @@ (67 :> 128) @@ (83 :> 128)))
  @@ (700 :> Table(127, (97 :> 71) @@ (65 :> 128) @@ (33 :> 128) @@ (49 :> 87) @@ (32 :> 100)
            @@ (115 :> 37) @@ (51 :> 85) @@ (48 :> 99) @@ (50 :> 86) @@ (13 :> 0)
            @@ (17 :> 116) @@ (18 :> 117) @@ (67 :> 128) @@ (83 :> 128)))
MC_ak_tbl_s ==
  (80 :> Table(127, (3 :> 147) @@ (65 :> 64) @@ (33 :> 0) @@ (18 :> 146) @@ (67 :> 97) @@ (83 :> 80)))
  @@ (700 :> Table(127, (65 :> 71) @@ (33 :> 87) @@ (67 :> 69) @@ (83 :> 37)))
MC_hid_to_emu ==
  (80 :> Table(231, (4 :> 64) @@ (5 :> 98))) @@ (700 :> Table(231, (4 :> 71) @@ (5 :> 70)))

MC_Script == <<97, 115, 10, 69>>
MC_RomMode == <<700, 80, 700, 80>>
MC_Bursts == {<<97>>, <<65, 97>>, <<33>>, <<27>>, <<27, 91, 65>>, <<10>>}
MC_Joy == {[x |-> 40, y |-> 200, press |-> 1], [x |-> 200, y |-> 40, press |-> 0],
           [x |-> 80, y |-> 160, press |-> 0]}
MC_Cards == {[kb |-> "CARDKB", code |-> 181], [kb |-> "FACES", code |-> 175]}
MC_Hid == {[shift |-> s, key |-> c] : s \in BOOLEAN, c \in {0, 4, 240}}

Nothing == [kind |-> "", keyboard |-> "none", screen |-> FALSE, bursts |-> 0, sent |-> {}, joy |-> 0,
            cards |-> 0, fingers |-> 0, plugs |-> 0, fails |-> 0, writes |-> 0,
            menus |-> 0, resets |-> 0, items |-> {}]
MC_Scenarios ==
  { [Nothing EXCEPT !.kind = "typing", !.bursts = 1, !.sent = MC_Bursts, !.cards = 1],
    [Nothing EXCEPT !.kind = "typing", !.bursts = 2, !.sent = MC_Bursts],
    [Nothing EXCEPT !.kind = "typing", !.menus = 1, !.items = 0 .. 14 \ 1 .. 4],
    [Nothing EXCEPT !.kind = "joypad", !.joy = 2],
    [Nothing EXCEPT !.kind = "usb", !.keyboard = "usb", !.plugs = 3, !.fingers = 3,
                    !.fails = 1],
    [Nothing EXCEPT !.kind = "bluetooth", !.keyboard = "bluetooth", !.fingers = 3],
    [Nothing EXCEPT !.kind = "both", !.keyboard = "bluetooth", !.fingers = 2,
                    !.bursts = 1, !.sent = {<<65, 97>>, <<27>>}],
    [Nothing EXCEPT !.kind = "reset", !.bursts = 1, !.sent = {<<65, 97>>},
                    !.menus = 1, !.resets = 1, !.items = {0, 2, 3}],
    [Nothing EXCEPT !.kind = "screen", !.screen = TRUE, !.writes = 2, !.menus = 1,
                    !.resets = 1, !.items = {0, 1}] }
=============================================================================
