----------------------------- MODULE MCMemBank ------------------------------
(***************************************************************************)
(* Small instance of MemBank: two bytes to a page, one of them cleared by  *)
(* a reset; a page of every bank that is switched; an image that runs over *)
(* D000H; at most MaxStores changes of the buffer, one reset among them.   *)
(***************************************************************************)
EXTENDS MemBank

CONSTANT MaxStores

VARIABLES stores, resets

MCAccessed == {0, 26, 27, 28}
MCImages == {<<51, 3>>}

MCInit == Init /\ stores = 0 /\ resets = 0

MCNext ==
  \/ /\ \/ \E port \in 224 .. 228 : Z80_Out(port)
        \/ \E p \in Accessed, o \in Offset : Z80_RDMEM(p, o)
        \/ TapeStartsOrStops
     /\ UNCHANGED <<stores, resets>>
  \/ /\ stores < MaxStores
     /\ \/ \E p \in Accessed, o \in Offset, v \in Byte : Z80_WRMEM(p, o, v)
        \/ \E i \in Images, v \in Byte : setMztToMemory(i[1], i[2], v)
     /\ stores' = stores + 1
     /\ UNCHANGED resets
  \/ /\ stores < MaxStores /\ resets = 0
     /\ \E n \in 0 .. 2, v \in Byte : LoadRomAndReset(n, v)
     /\ stores' = stores + 1 /\ resets' = 1

MCSpec == MCInit /\ [][MCNext]_<<vars, stores, resets>>
=============================================================================
