------------------------------ MODULE PacketQ -------------------------------
(***************************************************************************)
(* The queue of hci_server.cpp that carries packets between the Bluetooth  *)
(* controller's task and the main loop, and L2CAP data to its reader: a    *)
(* ring of QSIZE slots and two 32-bit cursors that are never reset.  Each  *)
(* operation runs under the queue's mutex.                                 *)
(***************************************************************************)
EXTENDS Integers

CONSTANTS
  Packet,  \* the packets
  QSIZE,   \* 32: slots of the ring
  Wide,    \* 2^32: values of a cursor
  Nothing  \* what an unused slot holds

ASSUME QueueAssumption ==
  /\ QSIZE \in Nat \ {0} /\ Wide \in Nat /\ QSIZE < Wide
  /\ Nothing \notin Packet

VARIABLES
  readAt, writeAt,  \* _read, _write
  data,             \* _data
  aborted,          \* an assert has failed
  result            \* what the last call returned

vars == <<readAt, writeAt, data, aborted, result>>

Refused == [ok |-> FALSE, packet |-> {}]
Accepted == [ok |-> TRUE, packet |-> {}]
Given(p) == [ok |-> TRUE, packet |-> {p}]

(* `& (QSIZE-1)`                                                           *)
Slot(i) == i % QSIZE
Next32(i) == (i + 1) % Wide
Distance == (writeAt - readAt) % Wide

(* The assert of read; write adds that the ring does not hold too much.    *)
CursorsInOrder == readAt <= writeAt

\* Mutant: a full ring takes one more packet.
FullLate == Distance > QSIZE

Full == Distance = QSIZE

Abort(assertion) ==
  /\ ~assertion /\ aborted' = TRUE
  /\ UNCHANGED <<readAt, writeAt, data, result>>

write(p) ==
  /\ ~aborted
  /\ \/ Abort(CursorsInOrder /\ Distance <= QSIZE)
     \/ /\ CursorsInOrder /\ Full
        /\ result' = Refused
        /\ UNCHANGED <<readAt, writeAt, data, aborted>>
     \/ /\ CursorsInOrder /\ Distance <= QSIZE /\ ~Full
        /\ data' = [data EXCEPT ![Slot(writeAt)] = p]
        /\ writeAt' = Next32(writeAt)
        /\ result' = Accepted
        /\ UNCHANGED <<readAt, aborted>>

\* Mutant: the cursor moves before the slot is read.
ReadAhead ==
  /\ ~aborted
  /\ \/ Abort(CursorsInOrder)
     \/ /\ readAt = writeAt
        /\ result' = Refused
        /\ UNCHANGED <<readAt, writeAt, data, aborted>>
     \/ /\ readAt < writeAt
        /\ result' = Given(data[Slot(readAt + 1)])
        /\ readAt' = Next32(readAt)
        /\ UNCHANGED <<writeAt, data, aborted>>

read ==
  /\ ~aborted
  /\ \/ Abort(CursorsInOrder)
     \/ /\ readAt = writeAt
        /\ result' = Refused
        /\ UNCHANGED <<readAt, writeAt, data, aborted>>
     \/ /\ readAt < writeAt
        /\ result' = Given(data[Slot(readAt)])
        /\ readAt' = Next32(readAt)
        /\ UNCHANGED <<writeAt, data, aborted>>

Init ==
  /\ readAt = 0 /\ writeAt = 0
  /\ data = [i \in 0 .. QSIZE - 1 |-> Nothing]
  /\ aborted = FALSE
  /\ result = Refused

Next == read \/ \E p \in Packet : write(p)

Spec == Init /\ [][Next]_vars

----------------------------------------------------------------------------
(* Types, and a slot that a reader can reach holds a packet.               *)
TypeOK ==
  /\ readAt \in 0 .. Wide - 1 /\ writeAt \in 0 .. Wide - 1
  /\ data \in [0 .. QSIZE - 1 -> Packet \cup {Nothing}]
  /\ aborted \in BOOLEAN
  /\ result \in [ok : BOOLEAN, packet : {{}} \cup {{p} : p \in Packet}]

(* The asserts of read and write hold as long as fewer than 2^32 packets   *)
(* have been written: they can fail only at the write that wraps _write    *)
(* around, and never because the ring holds too much.                      *)
OnlyWrapAborts ==
  /\ Distance <= QSIZE
  /\ aborted => writeAt = 0 /\ readAt # 0

(* The ring and its cursors are a bounded first-in-first-out queue: none   *)
(* of its packets is lost, repeated, reordered or changed when the ring is *)
(* full, when it goes round and when the cursors wrap.                     *)
Fifo == INSTANCE BoundedFifo WITH
  Size <- QSIZE,
  waiting <- [i \in 1 .. Distance |-> data[Slot(readAt + i - 1)]]
FifoSpec == Fifo!Spec
=============================================================================
