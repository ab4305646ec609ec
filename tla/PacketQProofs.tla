--------------------------- MODULE PacketQProofs ----------------------------
(***************************************************************************)
(* Proofs about PacketQ, for every ring size and cursor width.  Until      *)
(* _write wraps, the cursors are ordinary numbers at most QSIZE apart; the *)
(* write that wraps it leaves the queue in order once more, and every call *)
(* after it aborts.                                                        *)
(***************************************************************************)
EXTENDS PacketQ, SequenceTheorems, TLAPS

(* Where the waiting packets end, had _write not wrapped.                  *)
End == IF readAt <= writeAt THEN writeAt ELSE Wide

Cursors ==
  /\ End - readAt \in 0 .. QSIZE
  /\ readAt <= writeAt \/ (writeAt = 0 /\ readAt # 0)
  /\ aborted => writeAt = 0 /\ readAt # 0
  /\ \A i \in readAt .. End - 1 : data[Slot(i)] \in Packet

IInv == TypeOK /\ Cursors

(* The sequence of waiting packets the refinement mapping reads off.       *)
Waiting == [i \in 1 .. Distance |-> data[Slot(readAt + i - 1)]]

----------------------------------------------------------------------------
(* The cursor masked by QSIZE - 1 is an index of the array.                *)
LEMMA SlotRange ==
  ASSUME NEW i \in Nat PROVE Slot(i) \in 0 .. QSIZE - 1
BY QueueAssumption DEF Slot

(* Numbers less than QSIZE apart have slots of their own.                  *)
LEMMA SlotsDiffer ==
  ASSUME NEW i \in Nat, NEW j \in Nat, i < j, j - i < QSIZE
  PROVE  Slot(i) # Slot(j)
<1> DEFINE a == i \div QSIZE  b == j \div QSIZE
<1>1. /\ a \in Nat /\ b \in Nat
      /\ i = (QSIZE * a) + (i % QSIZE)
      /\ j = (QSIZE * b) + (j % QSIZE)
  BY QueueAssumption
<1>2. SUFFICES ASSUME i % QSIZE = j % QSIZE PROVE FALSE
  BY DEF Slot
<1> HIDE DEF a, b
<1>3. j - i = QSIZE * (b - a)
  BY <1>1, <1>2, QueueAssumption
<1>4. CASE b - a <= 0
  BY <1>1, <1>3, <1>4, QueueAssumption
<1>5. CASE b - a >= 1
  BY <1>1, <1>3, <1>5, QueueAssumption
<1> QED BY <1>1, <1>4, <1>5

(* The distance of the cursors, which the code computes modulo 2^32.       *)
LEMMA DistanceFrom ==
  ASSUME NEW r \in 0 .. Wide - 1, NEW w \in 0 .. Wide - 1, r <= w \/ (w = 0 /\ r # 0)
  PROVE  (w - r) % Wide = (IF r <= w THEN w ELSE Wide) - r
<1>1. Wide \in Nat /\ Wide > 0
  BY QueueAssumption
<1>2. CASE r <= w
  BY <1>1, <1>2
<1>3. CASE ~(r <= w)
  <2>1. w = 0 /\ r \in 1 .. Wide - 1
    BY <1>1, <1>3
  <2>2. 0 - r = Wide * (-1) + (Wide - r) /\ Wide - r \in 0 .. Wide - 1
    BY <2>1, <1>1
  <2>3. (0 - r) % Wide = Wide - r
    BY <2>1, <2>2, <1>1
  <2> QED BY <2>1, <2>3, <1>3
<1> QED BY <1>2, <1>3

(* The difference of the cursors is the number of packets between them,    *)
(* wrapped or not.                                                         *)
LEMMA DistanceIs ==
  ASSUME IInv PROVE Distance = End - readAt
BY DistanceFrom DEF IInv, TypeOK, Cursors, Distance, End

(* The same after a step.                                                  *)
LEMMA DistanceIsNext ==
  ASSUME IInv' PROVE Distance' = End' - readAt'
BY DistanceFrom DEF IInv, TypeOK, Cursors, Distance, End

(* The queue starts empty.                                                 *)
LEMMA InitInv == Init => IInv
<1> SUFFICES ASSUME Init PROVE IInv
  OBVIOUS
<1>1. TypeOK
  <2>1. result \in [ok : BOOLEAN, packet : {{}} \cup {{p} : p \in Packet}]
    BY DEF Init, Refused
  <2>2. data \in [0 .. QSIZE - 1 -> Packet \cup {Nothing}]
    BY DEF Init
  <2>3. readAt \in 0 .. Wide - 1 /\ writeAt \in 0 .. Wide - 1
    BY QueueAssumption DEF Init
  <2>4. aborted \in BOOLEAN
    BY DEF Init
  <2> QED BY <2>1, <2>2, <2>3, <2>4 DEF TypeOK
<1>2. Cursors
  BY QueueAssumption DEF Init, Cursors, End
<1> QED BY <1>1, <1>2 DEF IInv

----------------------------------------------------------------------------
(* A call whose assert fails changes nothing else, and finds _write at 0.  *)
LEMMA AbortInv ==
  ASSUME IInv, ~CursorsInOrder, aborted' = TRUE,
         UNCHANGED <<readAt, writeAt, data, result>>
  PROVE  IInv'
BY DEF IInv, TypeOK, Cursors, End, CursorsInOrder, Slot

(* The assert about the size of the ring never fails.                      *)
LEMMA NeverTooMuch == IInv => Distance <= QSIZE
BY DistanceIs, QueueAssumption DEF IInv, Cursors

(* A packet stored in a queue that is not full overwrites none that waits. *)
LEMMA StoreInv ==
  ASSUME IInv, NEW p \in Packet, ~aborted, CursorsInOrder, ~Full,
         data' = [data EXCEPT ![Slot(writeAt)] = p],
         writeAt' = Next32(writeAt), result' = Accepted,
         UNCHANGED <<readAt, aborted>>
  PROVE  /\ IInv'
         /\ End' = writeAt + 1
         /\ \A i \in readAt .. writeAt - 1 : data'[Slot(i)] = data[Slot(i)]
         /\ data'[Slot(writeAt)] = p
<1>1. /\ readAt \in Nat /\ writeAt \in Nat /\ Wide \in Nat /\ QSIZE \in Nat
      /\ readAt <= writeAt /\ writeAt <= Wide - 1
      /\ End = writeAt /\ writeAt - readAt <= QSIZE - 1
  BY DistanceIs, QueueAssumption DEF IInv, TypeOK, Cursors, End, CursorsInOrder, Full
<1>2. Slot(writeAt) \in 0 .. QSIZE - 1
  BY <1>1, SlotRange
<1>3. data \in [0 .. QSIZE - 1 -> Packet \cup {Nothing}]
  BY DEF IInv, TypeOK
<1>4. data'[Slot(writeAt)] = p
  BY <1>2, <1>3
<1>5. \A i \in readAt .. writeAt - 1 : data'[Slot(i)] = data[Slot(i)]
  <2> SUFFICES ASSUME NEW i \in readAt .. writeAt - 1
               PROVE  data'[Slot(i)] = data[Slot(i)]
    OBVIOUS
  <2>1. i \in Nat /\ i < writeAt /\ writeAt - i < QSIZE
    BY <1>1
  <2>2. Slot(i) # Slot(writeAt) /\ Slot(i) \in 0 .. QSIZE - 1
    BY <2>1, <1>1, SlotsDiffer, SlotRange
  <2> QED BY <2>2, <1>3
<1>6. writeAt' \in 0 .. Wide - 1 /\ End' = writeAt + 1
      /\ (readAt <= writeAt' \/ (writeAt' = 0 /\ readAt # 0))
  <2>1. CASE writeAt < Wide - 1
    <3>1. (writeAt + 1) % Wide = writeAt + 1
      BY <2>1, <1>1
    <3> QED BY <3>1, <2>1, <1>1 DEF End, Next32
  <2>2. CASE writeAt = Wide - 1
    <3>1. (writeAt + 1) % Wide = 0
      BY <2>2, <1>1, QueueAssumption
    <3>2. readAt > 0
      BY <2>2, <1>1, QueueAssumption
    <3> QED BY <3>1, <3>2, <2>2, <1>1, QueueAssumption DEF End, Next32
  <2> QED BY <2>1, <2>2, <1>1
<1>7. TypeOK'
  <2>1. data' \in [0 .. QSIZE - 1 -> Packet \cup {Nothing}]
    BY <1>3, <1>2
  <2> QED BY <2>1, <1>6 DEF IInv, TypeOK, Accepted
<1>8. Cursors'
  <2>1. ASSUME NEW i \in readAt .. writeAt PROVE data'[Slot(i)] \in Packet
    <3>1. CASE i = writeAt
      BY <3>1, <1>4
    <3>2. CASE i \in readAt .. writeAt - 1
      BY <3>2, <1>5, <1>1 DEF IInv, Cursors
    <3> QED BY <3>1, <3>2, <1>1
  <2>2. (\A i \in readAt .. End - 1 : data[Slot(i)] \in Packet)'
    BY <2>1, <1>6, <1>1 DEF Slot
  <2> QED BY <2>2, <1>6, <1>1, QueueAssumption DEF Cursors
<1> QED BY <1>4, <1>5, <1>6, <1>7, <1>8 DEF IInv

(* A packet taken moves the reading cursor up to the writing one at most.  *)
LEMMA TakeInv ==
  ASSUME IInv, ~aborted, readAt < writeAt,
         result' = Given(data[Slot(readAt)]), readAt' = Next32(readAt),
         UNCHANGED <<writeAt, data, aborted>>
  PROVE  IInv' /\ readAt' = readAt + 1 /\ End = writeAt /\ End' = writeAt
<1>1. /\ readAt \in Nat /\ writeAt \in Nat /\ Wide \in Nat /\ QSIZE \in Nat
      /\ writeAt <= Wide - 1 /\ End = writeAt /\ writeAt - readAt <= QSIZE
  BY QueueAssumption DEF IInv, TypeOK, Cursors, End
<1>2. (readAt + 1) % Wide = readAt + 1
  BY <1>1
<1>3. readAt' = readAt + 1 /\ End' = writeAt
  BY <1>1, <1>2 DEF Next32, End
<1>4. data[Slot(readAt)] \in Packet
  BY <1>1 DEF IInv, Cursors
<1>5. TypeOK'
  BY <1>1, <1>3, <1>4 DEF IInv, TypeOK, Given
<1>6. Cursors'
  <2>1. \A i \in readAt + 1 .. writeAt - 1 : data[Slot(i)] \in Packet
    BY <1>1 DEF IInv, Cursors
  <2>2. (\A i \in readAt .. End - 1 : data[Slot(i)] \in Packet)'
    BY <2>1, <1>3 DEF Slot
  <2> QED BY <2>2, <1>1, <1>3 DEF IInv, Cursors
<1> QED BY <1>1, <1>3, <1>5, <1>6 DEF IInv

(* A refusal changes nothing of the queue.                                 *)
LEMMA RefuseInv ==
  ASSUME IInv, result' = Refused, UNCHANGED <<readAt, writeAt, data, aborted>>
  PROVE  IInv'
BY DEF IInv, TypeOK, Cursors, End, Slot, Refused

(* write and read keep the invariant.                                      *)
LEMMA NextInv == IInv /\ [Next]_vars => IInv'
<1> SUFFICES ASSUME IInv, [Next]_vars PROVE IInv'
  OBVIOUS
<1>1. ASSUME NEW p \in Packet, write(p) PROVE IInv'
  <2>1. CASE Abort(CursorsInOrder /\ Distance <= QSIZE)
    BY <2>1, AbortInv, NeverTooMuch DEF Abort
  <2>2. CASE CursorsInOrder /\ Full /\ result' = Refused
             /\ UNCHANGED <<readAt, writeAt, data, aborted>>
    BY <2>2, RefuseInv
  <2>3. CASE /\ CursorsInOrder /\ Distance <= QSIZE /\ ~Full
             /\ data' = [data EXCEPT ![Slot(writeAt)] = p]
             /\ writeAt' = Next32(writeAt) /\ result' = Accepted
             /\ UNCHANGED <<readAt, aborted>>
    BY <2>3, <1>1, StoreInv DEF write
  <2> QED BY <1>1, <2>1, <2>2, <2>3 DEF write
<1>2. CASE read
  <2>1. CASE Abort(CursorsInOrder)
    BY <2>1, AbortInv DEF Abort
  <2>2. CASE result' = Refused /\ UNCHANGED <<readAt, writeAt, data, aborted>>
    BY <2>2, RefuseInv
  <2>3. CASE /\ readAt < writeAt /\ result' = Given(data[Slot(readAt)])
             /\ readAt' = Next32(readAt) /\ UNCHANGED <<writeAt, data, aborted>>
    BY <2>3, <1>2, TakeInv DEF read
  <2> QED BY <1>2, <2>1, <2>2, <2>3 DEF read
<1>3. CASE UNCHANGED vars
  BY <1>3 DEF vars, IInv, TypeOK, Cursors, End, Slot
<1> QED BY <1>1, <1>2, <1>3 DEF Next

----------------------------------------------------------------------------
(* The inductive invariant of the queue.                                   *)
THEOREM Invariance == Spec => []IInv
BY InitInv, NextInv, PTL DEF Spec

(* The types hold for every ring size and cursor width; a slot that is     *)
(* read always holds a packet.                                             *)
THEOREM TypeCorrect == Spec => []TypeOK
<1>1. IInv => TypeOK
  BY DEF IInv
<1> QED BY <1>1, Invariance, PTL

(* The asserts in read and write hold until _write wraps around.           *)
THEOREM AssertsHold == Spec => []OnlyWrapAborts
<1>1. IInv => OnlyWrapAborts
  BY NeverTooMuch DEF IInv, Cursors, OnlyWrapAborts
<1> QED BY <1>1, Invariance, PTL

----------------------------------------------------------------------------
(* What a stretch of the ring holds is a sequence of packets.              *)
LEMMA Stretch ==
  ASSUME NEW r \in Nat, NEW e \in Nat, r <= e, NEW d,
         \A i \in r .. e - 1 : d[Slot(i)] \in Packet
  PROVE  LET s == [i \in 1 .. e - r |-> d[Slot(r + i - 1)]]
         IN  s \in Seq(Packet) /\ Len(s) = e - r
<1> DEFINE s == [i \in 1 .. e - r |-> d[Slot(r + i - 1)]]
<1>1. \A i \in 1 .. e - r : d[Slot(r + i - 1)] \in Packet
  <2> SUFFICES ASSUME NEW i \in 1 .. e - r PROVE d[Slot(r + i - 1)] \in Packet
    OBVIOUS
  <2>1. r + i - 1 \in r .. e - 1
    OBVIOUS
  <2> QED BY <2>1
<1>2. s \in [1 .. e - r -> Packet] /\ e - r \in Nat
  BY <1>1
<1> QED BY <1>2

(* The packets that wait are those between the cursors.                    *)
LEMMA WaitingIs ==
  ASSUME IInv
  PROVE  /\ Waiting = [i \in 1 .. End - readAt |-> data[Slot(readAt + i - 1)]]
         /\ Waiting \in Seq(Packet)
         /\ Len(Waiting) = End - readAt /\ End - readAt \in 0 .. QSIZE
<1>1. readAt \in Nat /\ End \in Nat /\ End - readAt \in 0 .. QSIZE /\ readAt <= End
  BY QueueAssumption DEF IInv, TypeOK, Cursors, End
<1>2. Waiting = [i \in 1 .. End - readAt |-> data[Slot(readAt + i - 1)]]
  BY DistanceIs DEF Waiting
<1>3. \A i \in readAt .. End - 1 : data[Slot(i)] \in Packet
  BY DEF IInv, Cursors
<1> QED BY <1>1, <1>2, <1>3, Stretch

(* The same after a step.                                                  *)
LEMMA WaitingIsNext ==
  ASSUME IInv'
  PROVE  /\ Waiting' = [i \in 1 .. End' - readAt' |-> data'[Slot(readAt' + i - 1)]]
         /\ Waiting' \in Seq(Packet)
         /\ Len(Waiting') = End' - readAt'
<1>1. readAt' \in Nat /\ End' \in Nat /\ readAt' <= End'
  BY QueueAssumption DEF IInv, TypeOK, Cursors, End
<1>2. Waiting' = [i \in 1 .. End' - readAt' |-> data'[Slot(readAt' + i - 1)]]
  BY DistanceIsNext DEF Waiting, Slot
<1>3. \A i \in readAt' .. End' - 1 : data'[Slot(i)] \in Packet
  BY DEF IInv, Cursors, Slot
<1> QED BY <1>1, <1>2, <1>3, Stretch

(* A packet stored is last of those that wait.                             *)
LEMMA StoreRefines ==
  ASSUME IInv, NEW p \in Packet, ~aborted, CursorsInOrder, ~Full,
         data' = [data EXCEPT ![Slot(writeAt)] = p],
         writeAt' = Next32(writeAt), result' = Accepted,
         UNCHANGED <<readAt, aborted>>
  PROVE  Waiting' = Append(Waiting, p) /\ Len(Waiting) < QSIZE
<1>1. IInv' /\ End' = writeAt + 1 /\ data'[Slot(writeAt)] = p
      /\ \A i \in readAt .. writeAt - 1 : data'[Slot(i)] = data[Slot(i)]
  BY StoreInv
<1>2. readAt \in Nat /\ writeAt \in Nat /\ readAt <= writeAt /\ End = writeAt
  BY QueueAssumption DEF IInv, TypeOK, CursorsInOrder, End
<1>3. /\ Waiting = [i \in 1 .. writeAt - readAt |-> data[Slot(readAt + i - 1)]]
      /\ Len(Waiting) = writeAt - readAt /\ Waiting \in Seq(Packet)
  BY <1>2, WaitingIs
<1>4. /\ Waiting' = [i \in 1 .. writeAt + 1 - readAt |-> data'[Slot(readAt + i - 1)]]
      /\ Len(Waiting') = writeAt + 1 - readAt /\ Waiting' \in Seq(Packet)
  <2>1. IInv' /\ End' = writeAt + 1 /\ readAt' = readAt
    BY <1>1
  <2>2. /\ Waiting' = [i \in 1 .. End' - readAt' |-> data'[Slot(readAt' + i - 1)]]
        /\ Waiting' \in Seq(Packet) /\ Len(Waiting') = End' - readAt'
    BY <2>1, WaitingIsNext
  <2> QED BY <2>1, <2>2, <1>2
<1>5. Len(Waiting) < QSIZE
  BY <1>2, <1>3, DistanceIs, WaitingIs, QueueAssumption DEF Full
<1>6. \A i \in 1 .. Len(Waiting) : Waiting'[i] = Waiting[i]
  <2> SUFFICES ASSUME NEW i \in 1 .. writeAt - readAt PROVE Waiting'[i] = Waiting[i]
    BY <1>3
  <2>1. readAt + i - 1 \in readAt .. writeAt - 1 /\ i \in 1 .. writeAt + 1 - readAt
    BY <1>2
  <2> QED BY <2>1, <1>1, <1>3, <1>4
<1>7. Waiting'[Len(Waiting) + 1] = p
  <2>1. /\ writeAt - readAt + 1 \in 1 .. writeAt + 1 - readAt
        /\ readAt + (writeAt - readAt + 1) - 1 = writeAt
    BY <1>2
  <2> QED BY <2>1, <1>1, <1>3, <1>4
<1>8. Waiting' = Append(Waiting, p)
  <2> DEFINE s == Waiting'  t == Append(Waiting, p)
  <2>1. /\ t \in Seq(Packet) /\ Len(t) = Len(Waiting) + 1
        /\ \A i \in 1 .. Len(Waiting) : t[i] = Waiting[i]
        /\ t[Len(Waiting) + 1] = p
    <3>1. Waiting \in Seq(Packet) /\ p \in Packet
      BY <1>3
    <3> QED BY <3>1, AppendProperties
  <2>2. s \in Seq(Packet) /\ Len(s) = Len(Waiting) + 1 /\ Len(Waiting) \in Nat
    BY <1>2, <1>3, <1>4
  <2>3. \A i \in 1 .. Len(s) : s[i] = t[i]
    BY <2>1, <2>2, <1>6, <1>7
  <2> HIDE DEF s, t
  <2>4. s = t
    BY <2>1, <2>2, <2>3, SeqEqual
  <2> QED BY <2>4 DEF s, t
<1> QED BY <1>5, <1>8

(* The packet taken is the first of those that wait.                       *)
LEMMA TakeRefines ==
  ASSUME IInv, ~aborted, readAt < writeAt,
         result' = Given(data[Slot(readAt)]), readAt' = Next32(readAt),
         UNCHANGED <<writeAt, data, aborted>>
  PROVE  Waiting # <<>> /\ Head(Waiting) = data[Slot(readAt)] /\ Waiting' = Tail(Waiting)
<1>1. IInv' /\ readAt' = readAt + 1 /\ End = writeAt /\ End' = writeAt
  BY TakeInv
<1>2. readAt \in Nat /\ writeAt \in Nat
  BY QueueAssumption DEF IInv, TypeOK
<1>3. /\ Waiting = [i \in 1 .. writeAt - readAt |-> data[Slot(readAt + i - 1)]]
      /\ Len(Waiting) = writeAt - readAt /\ Waiting \in Seq(Packet)
  BY <1>1, WaitingIs
<1>4. /\ Waiting' = [i \in 1 .. writeAt - (readAt + 1) |-> data[Slot(readAt + 1 + i - 1)]]
      /\ Len(Waiting') = writeAt - (readAt + 1) /\ Waiting' \in Seq(Packet)
  BY <1>1, WaitingIsNext
<1>5. Waiting # <<>> /\ Waiting[1] = data[Slot(readAt)]
  <2>1. 1 \in 1 .. writeAt - readAt /\ readAt + 1 - 1 = readAt
    BY <1>2
  <2>2. Len(Waiting) # 0
    BY <1>2, <1>3
  <2>3. Waiting # <<>>
    BY <2>2, EmptySeq
  <2> QED BY <2>1, <2>3, <1>3
<1>6. \A i \in 1 .. Len(Waiting) - 1 : Waiting'[i] = Waiting[i + 1]
  <2> SUFFICES ASSUME NEW i \in 1 .. writeAt - readAt - 1 PROVE Waiting'[i] = Waiting[i + 1]
    BY <1>3
  <2>1. /\ i + 1 \in 1 .. writeAt - readAt /\ i \in 1 .. writeAt - (readAt + 1)
        /\ readAt + (i + 1) - 1 = readAt + 1 + i - 1
    BY <1>2
  <2> QED BY <2>1, <1>3, <1>4
<1>7. Waiting' = Tail(Waiting)
  <2> DEFINE s == Waiting'  t == Tail(Waiting)
  <2>1. /\ t \in Seq(Packet) /\ Len(t) = Len(Waiting) - 1
        /\ \A i \in 1 .. Len(t) : t[i] = Waiting[i + 1]
    BY <1>3, <1>5, HeadTailProperties
  <2>2. s \in Seq(Packet) /\ Len(s) = Len(Waiting) - 1
    BY <1>2, <1>3, <1>4
  <2>3. \A i \in 1 .. Len(s) : s[i] = t[i]
    BY <2>1, <2>2, <1>6
  <2> HIDE DEF s, t
  <2>4. s = t
    BY <2>1, <2>2, <2>3, SeqEqual
  <2> QED BY <2>4 DEF s, t
<1>8. Head(Waiting) = Waiting[1]
  BY <1>3, <1>5
<1> QED BY <1>5, <1>7, <1>8

(* Where cursors and array stay, the same packets wait.                    *)
LEMMA SameWaiting ==
  ASSUME UNCHANGED <<readAt, writeAt, data>> PROVE Waiting' = Waiting
BY DEF Waiting, Distance, Slot

(* Equal cursors mean that nothing waits.                                  *)
LEMMA EmptyIs ==
  ASSUME IInv, readAt = writeAt PROVE Waiting = <<>>
<1>1. Waiting \in Seq(Packet) /\ Len(Waiting) = 0
  BY WaitingIs DEF End, IInv, TypeOK
<1> QED BY <1>1

(* available() of QSIZE means that QSIZE packets wait.                     *)
LEMMA FullIs ==
  ASSUME IInv, Full PROVE Len(Waiting) = QSIZE
BY WaitingIs, DistanceIs DEF Full

(* write and read are the operations of a first-in first-out queue.        *)
LEMMA StepRefines ==
  ASSUME IInv, [Next]_vars
  PROVE  [Fifo!Next]_<<Waiting, result>>
<1>1. ASSUME NEW p \in Packet, write(p) PROVE [Fifo!Next]_<<Waiting, result>>
  <2>1. CASE Abort(CursorsInOrder /\ Distance <= QSIZE)
    BY <2>1, SameWaiting DEF Abort
  <2>2. CASE CursorsInOrder /\ Full /\ result' = Refused
             /\ UNCHANGED <<readAt, writeAt, data, aborted>>
    <3>1. Fifo!Put(p)
      BY <2>2, FullIs, SameWaiting DEF Fifo!Put, Fifo!Refused, Refused, Waiting
    <3> QED BY <3>1 DEF Fifo!Next
  <2>3. CASE /\ CursorsInOrder /\ Distance <= QSIZE /\ ~Full
             /\ data' = [data EXCEPT ![Slot(writeAt)] = p]
             /\ writeAt' = Next32(writeAt) /\ result' = Accepted
             /\ UNCHANGED <<readAt, aborted>>
    <3>1. Waiting' = Append(Waiting, p) /\ Len(Waiting) < QSIZE
      BY <2>3, <1>1, StoreRefines DEF write
    <3>2. Fifo!Put(p)
      BY <3>1, <2>3 DEF Fifo!Put, Fifo!Accepted, Accepted, Waiting
    <3> QED BY <3>2 DEF Fifo!Next
  <2> QED BY <1>1, <2>1, <2>2, <2>3 DEF write
<1>2. CASE read
  <2>1. CASE Abort(CursorsInOrder)
    BY <2>1, SameWaiting DEF Abort
  <2>2. CASE readAt = writeAt /\ result' = Refused
             /\ UNCHANGED <<readAt, writeAt, data, aborted>>
    <3>1. Fifo!Take
      BY <2>2, EmptyIs, SameWaiting DEF Fifo!Take, Fifo!Refused, Refused, Waiting
    <3> QED BY <3>1 DEF Fifo!Next
  <2>3. CASE /\ readAt < writeAt /\ result' = Given(data[Slot(readAt)])
             /\ readAt' = Next32(readAt) /\ UNCHANGED <<writeAt, data, aborted>>
    <3>1. Waiting # <<>> /\ Head(Waiting) = data[Slot(readAt)] /\ Waiting' = Tail(Waiting)
      BY <2>3, <1>2, TakeRefines DEF read
    <3>2. Fifo!Take
      BY <3>1, <2>3 DEF Fifo!Take, Fifo!Given, Given, Waiting
    <3> QED BY <3>2 DEF Fifo!Next
  <2> QED BY <1>2, <2>1, <2>2, <2>3 DEF read
<1>3. CASE UNCHANGED vars
  BY <1>3, SameWaiting DEF vars
<1> QED BY <1>1, <1>2, <1>3 DEF Next

(* The ring is a bounded first-in-first-out queue, for every ring size and *)
(* cursor width.                                                           *)
THEOREM Refinement == Spec => FifoSpec
<1>1. Init => Fifo!Init
  <2> SUFFICES ASSUME Init PROVE Fifo!Init
    OBVIOUS
  <2>1. IInv /\ readAt = writeAt
    BY InitInv DEF Init
  <2> QED BY <2>1, EmptyIs DEF Init, Fifo!Init, Fifo!Refused, Refused, Waiting
<1>2. IInv /\ [Next]_vars => [Fifo!Next]_(Fifo!vars)
  BY StepRefines DEF Fifo!vars, Waiting
<1> QED BY <1>1, <1>2, Invariance, PTL DEF Spec, FifoSpec, Fifo!Spec
=============================================================================
