------------------------------- MODULE MCPit --------------------------------
(***************************************************************************)
(* Small instance of Pit: bytes of one bit; the program loads and reads    *)
(* counters 1 and 2 a byte or two at a time, and latches counter 2.        *)
(***************************************************************************)
EXTENDS Pit

MCCommands == {<<1, 2, 3>>, <<1, 2, 1>>, <<2, 0, 3>>, <<2, 4, 2>>, <<2, 0, 0>>}
MCStrobeCommands == {<<1, 2, 1>>, <<2, 4, 1>>}
=============================================================================
