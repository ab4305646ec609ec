---------------------------- MODULE BoundedFifo -----------------------------
(***************************************************************************)
(* What the users of a packet queue may rely on: packets come out in the   *)
(* order they went in, each once and unchanged; a packet is refused only   *)
(* when Size of them are waiting, and a reader is told that there is none  *)
(* only when none is waiting.  PacketQ implements this with two cursors    *)
(* that run freely over a ring.                                            *)
(***************************************************************************)
EXTENDS Sequences, Naturals

CONSTANTS Packet, Size

VARIABLES
  waiting,  \* the packets, oldest first
  result    \* what the last call returned

vars == <<waiting, result>>

Refused == [ok |-> FALSE, packet |-> {}]
Accepted == [ok |-> TRUE, packet |-> {}]
Given(p) == [ok |-> TRUE, packet |-> {p}]

Init == waiting = <<>> /\ result = Refused

Put(p) ==
  \/ /\ Len(waiting) < Size
     /\ waiting' = Append(waiting, p)
     /\ result' = Accepted
  \/ /\ Len(waiting) = Size
     /\ result' = Refused
     /\ UNCHANGED waiting

Take ==
  \/ /\ waiting # <<>>
     /\ result' = Given(Head(waiting))
     /\ waiting' = Tail(waiting)
  \/ /\ waiting = <<>>
     /\ result' = Refused
     /\ UNCHANGED waiting

Next == Take \/ \E p \in Packet : Put(p)

Spec == Init /\ [][Next]_vars
=============================================================================
