------------------------------ MODULE MCTimer -------------------------------
(***************************************************************************)
(* Small instance of TimerInterrupt: the program sets the timer, a byte to *)
(* a counter, and turns interrupts on and off; reads are in MCPit.         *)
(***************************************************************************)
EXTENDS TimerInterrupt

MCCommands == {<<1, 2, 1>>, <<2, 0, 1>>}
MCProgram ==
  {Instr("command", c) : c \in MCCommands}
    \cup {Instr("write", w) : w \in {<<1, 2>>, <<2, 1>>}}
    \cup {Instr("im", <<1>>)}
    \cup {Instr(op, <<>>) : op \in {"ei", "di", "retn", "halt", "other"}}
=============================================================================
