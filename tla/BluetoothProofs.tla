-------------------------- MODULE BluetoothProofs --------------------------
(***************************************************************************)
(* Theorems about Bluetooth, for every set of devices, every scenario and  *)
(* every capacity of the queues.  Types, sockets and slots are right with  *)
(* packets lost at a full queue; links and handles agree while both queues *)
(* have room.                                                              *)
(***************************************************************************)
EXTENDS Bluetooth, FiniteSetTheorems, WellFoundedInduction, TLAPS

(* What packets and the objects of the host are made of.  Only a first     *)
(* fragment for channel 1 is a command for certain.                        *)
Cids == {n \in Nat : n >= FirstCid}
Sids == Cids \cup {0}
Control == [cmd : Commands, psm : Psms, scid : Sids,
            status : {"success", "pending", "refused"}]
Load == Control \cup {"MORE", "LAST"} \cup [from : Devices, n : Nat, kind : ReportKinds]
RxAcl == {p \in [evt : {"ACL"}, handle : Handles, from : Devices, first : BOOLEAN,
                 size : Nat, into : Nat, load : Load] :
            p.first /\ p.into = 1 => p.load \in Control}
DeviceEvents == {"INQUIRY_RESULT", "CONNECTION_REQUEST", "CONNECTION_COMP", "RMT_NAME",
                 "LINK_KEY_REQUEST", "PIN_CODE_REQUEST", "LINK_KEY_NOTIFICATION",
                 "AUTH_COMP", "DISCONNECTION_COMP"}
RxDevice == {p \in [evt : DeviceEvents, dev : Devices, arg : Handles \cup {0}] :
               p.evt = "DISCONNECTION_COMP" => p.arg \in Handles}
RxQuiet == RxAcl \cup RxDevice
             \cup [evt : {"INQUIRY_COMP"}, dev : {"none"}, arg : {0}]
RxPacket == RxQuiet \cup [evt : {"COMMAND_COMPLETE"}, dev : {"none"}, arg : HandshakeSteps]

Data == {"SEARCH", "LED", "ASK_STATUS", "INIT_EXTENSION", "SELECT_REPORT", "READ_TYPE",
         "NO_ENCRYPTION"}
DeviceOps == {"CREATE_CONNECTION", "ACCEPT_CONNECTION_REQUEST", "REMOTE_NAME_REQUEST",
              "AUTHENTICATION_REQUESTED", "LINK_KEY_REQUEST_REPLY",
              "LINK_KEY_REQUEST_NEG_REPLY", "PIN_CODE_REQUEST_REPLY"}
TxAcl == {p \in [op : {"ACL"}, handle : Links, cmd : Commands \cup Data,
                 psm : Psms \cup {NoEnd}, scid : Sids] :
            p.cmd = "CONN_REQ" => p.psm \in Psms}
AddressOps == DeviceOps \ {"AUTHENTICATION_REQUESTED"}
TxAuth == [op : {"AUTHENTICATION_REQUESTED"}, dev : Devices, handle : Links]
TxQuiet == TxAcl \cup TxAuth \cup [op : AddressOps, dev : Devices]
             \cup [op : {"INQUIRY"}, dev : {"none"}]
TxPacket == TxQuiet \cup [op : HandshakeSteps, dev : {"none"}]

Socket == [psm : Psms, dcid : Psms \cup {NoEnd}, q : Seq(Load), state : SocketStates]
SocketMap == UNION {[S -> Socket] : S \in SUBSET Cids}
Device == [known : BOOLEAN, handle : Links, seen : SUBSET Commands, held : Nat, size : Nat,
           into : Nat, sockets : SocketMap]
Input == [state : InputStates, reconnect : BOOLEAN, sdp : Sids, control : Sids,
          interrupt : Sids, handler : Sids, wii : WiiSlots \cup {NoSlot}]
SlotFlags == {"wiimote", "nunchuk", "extension_read", "encryption_disabled"}
Fields == [bt : [Devices -> Device], cid : Cids, tx : Seq(TxPacket),
           inp : [Devices -> Input], hids : Seq(Devices), keys : SUBSET Devices,
           state : (SUBSET Flags) \cup {NotSent}, slots : [WiiSlots -> SUBSET SlotFlags],
           kept : Seq(RxAcl)]

(* Before HCI_RESET is sent the host has asked for no handshake.           *)
Host == {h \in Fields : Len(h.tx) <= QSIZE /\ (h.state = NotSent => h.tx \in Seq(TxQuiet))}

(* The ids a device has a claim to: its sockets and those it remembers.    *)
(* No two devices have a claim to the same id.                             *)
Ids(i) == {i.sdp, i.control, i.interrupt, i.handler} \ {0}
Claims(h, d) == Sockets(h, d) \cup Ids(h.inp[d])
Own(h) == /\ \A d \in Devices : Claims(h, d) \subseteq FirstCid .. h.cid - 1
          /\ \A d, e \in Devices : d # e => Claims(h, d) \cap Claims(h, e) = {}

(* What a call that is about device d does to the ids: those d gets are    *)
(* new.  Nearly all calls leave the slots of the remotes alone.            *)
Grows(h, g, d) ==
  /\ g.cid >= h.cid
  /\ \A e \in Devices : Claims(g, e) \subseteq Claims(h, e) \cup
                                               IF e = d THEN h.cid .. g.cid - 1 ELSE {}
SameSlots(h, g) == /\ g.slots = h.slots /\ g.hids = h.hids
                   /\ \A e \in Devices : g.inp[e].wii = h.inp[e].wii
Claimed(h, g, d) == /\ g \in Host /\ Grows(h, g, d) /\ SameSlots(h, g)
                    /\ (g.state = NotSent => h.state = NotSent)

(* What a call does to the handles: it forgets no device and no connection *)
(* it has asked for, asks only for connections to devices it knows, and    *)
(* changes a handle only to mark such a connection.                        *)
Handle(h, e) == h.bt[e].handle
Creates(h, e) == \E k \in DOMAIN h.tx : h.tx[k].op = "CREATE_CONNECTION" /\ h.tx[k].dev = e
Calling(h, e) == h.bt[e].known /\ (Creates(h, e) \/ Len(h.tx) >= QSIZE)
Tracks(h, g) ==
  /\ Len(g.tx) >= Len(h.tx)
  /\ \A e \in Devices :
       /\ h.bt[e].known => g.bt[e].known
       /\ Creates(h, e) => Creates(g, e)
       /\ Creates(g, e) => Creates(h, e) \/ g.bt[e].known
       /\ \/ Handle(g, e) = Handle(h, e)
          \/ Handle(h, e) = NoHandle /\ Handle(g, e) = 0 /\ Calling(g, e)

(* Only a linked device has data to read, and only it has a slot.          *)
Waits(b) == \E s \in DOMAIN b.sockets : b.sockets[s].q # <<>>
DataLinked(h) == \A e \in Devices : Waits(h.bt[e]) => Handle(h, e) \in Handles
SlotsLinked(h) == \A e \in Devices : h.inp[e].wii # NoSlot => Handle(h, e) \in Handles
Feeds(h, g) == DataLinked(h) =>
  DataLinked(g) /\ (SlotsLinked(h) => SlotsLinked(g))

Effect(h, g, d) == Claimed(h, g, d) /\ Tracks(h, g) /\ Feeds(h, g)

----------------------------------------------------------------------------
(* Induction: a set of numbers has a least one, since the intervals that   *)
(* end in its members are finite, and finite sets are well-founded.        *)
LEMMA Least ==
  ASSUME NEW S \in SUBSET Nat, S # {}
  PROVE  \E m \in S : \A n \in S : m <= n
  <1>. DEFINE T == {0 .. n : n \in S}
              R == StrictSubsetOrdering(Nat)
  <1>1. T \subseteq FiniteSubsetsOf(Nat) /\ T # {}
    <2>1. \A n \in Nat : IsFiniteSet(0 .. n) /\ 0 .. n \subseteq Nat
      BY FS_Interval
    <2>2. QED
      BY <2>1 DEF FiniteSubsetsOf
  <1>2. IsWellFoundedOn(R, FiniteSubsetsOf(Nat))
    BY FS_StrictSubsetOrderingWellFounded
  <1>3. PICK x \in T : \A y \in T : <<y, x>> \notin R
    <2>. HIDE DEF T, R
    <2>1. QED
      BY <1>1, <1>2, WFMin
  <1>4. PICK m \in S : x = 0 .. m
    BY <1>3
  <1>5. ASSUME NEW n \in S, n < m PROVE FALSE
    <2>1. 0 .. n \subseteq 0 .. m /\ m \in 0 .. m /\ m \notin 0 .. n
      BY <1>5
    <2>2. 0 .. n \in SUBSET Nat /\ 0 .. m \in SUBSET Nat
      OBVIOUS
    <2>3. <<0 .. n, 0 .. m>> \in R
      BY <2>1, <2>2 DEF StrictSubsetOrdering
    <2>4. QED
      BY <2>3, <1>3, <1>4
  <1>6. QED
    BY <1>5

(* A set that contains 0 and with a number the next contains all of them.  *)
LEMMA Induction ==
  ASSUME NEW S, 0 \in S, \A n \in Nat : n \in S => n + 1 \in S
  PROVE  Nat \subseteq S
  <1>1. SUFFICES ASSUME Nat \ S # {} PROVE FALSE
    OBVIOUS
  <1>2. PICK m \in Nat \ S : \A n \in Nat \ S : m <= n
    BY <1>1, Least
  <1>3. m - 1 \in Nat /\ m - 1 \in S
    BY <1>2
  <1>4. QED
    BY <1>2, <1>3

(* A loop: if every pass stays in X, there is the sequence of its states,  *)
(* and any such sequence stays in X.                                       *)
Passes(s, n, X, x, F) == /\ s \in [0 .. n -> X] /\ s[0] = x
                         /\ \A k \in 1 .. n : s[k] = F[<<s[k - 1], k>>]

(* A loop of n passes over the states X has a state after each pass.       *)
LEMMA LoopStates ==
  ASSUME NEW n \in Nat, NEW X, NEW x \in X, NEW F \in [X \X Nat -> X]
  PROVE  \E s : Passes(s, n, X, x, F)
  <1>. DEFINE P(m, s) == s[0] = x /\ \A k \in 1 .. m : s[k] = F[<<s[k - 1], k>>]
              S == {m \in Nat : \E s \in [0 .. m -> X] : P(m, s)}
  <1>1. 0 \in S
    <2>1. P(0, [k \in 0 .. 0 |-> x]) /\ [k \in 0 .. 0 |-> x] \in [0 .. 0 -> X]
      OBVIOUS
    <2>2. QED
      BY <2>1
  <1>2. ASSUME NEW m \in Nat, m \in S PROVE m + 1 \in S
    <2>1. PICK s \in [0 .. m -> X] : P(m, s)
      BY <1>2
    <2>. DEFINE y == F[<<s[m], m + 1>>]
                t == [k \in 0 .. m + 1 |-> IF k = m + 1 THEN y ELSE s[k]]
    <2>2. y \in X
      OBVIOUS
    <2>3. t \in [0 .. m + 1 -> X] /\ t[m + 1] = y /\ \A k \in 0 .. m : t[k] = s[k]
      BY <2>2
    <2>4. P(m + 1, t)
      <3>. HIDE DEF t
      <3>1. t[0] = x
        BY <2>1, <2>3
      <3>2. ASSUME NEW k \in 1 .. m + 1 PROVE t[k] = F[<<t[k - 1], k>>]
        <4>1. k - 1 \in 0 .. m /\ t[k - 1] = s[k - 1]
          BY <2>3
        <4>2. CASE k = m + 1
          BY <4>1, <4>2, <2>3
        <4>3. CASE k \in 1 .. m
          <5>1. t[k] = s[k]
            BY <4>3, <2>3
          <5>2. QED
            BY <4>1, <4>3, <5>1, <2>1
        <4>4. QED
          BY <4>2, <4>3, <1>2
      <3>3. QED
        BY <3>1, <3>2
    <2>5. m + 1 \in Nat /\ \E r \in [0 .. m + 1 -> X] : P(m + 1, r)
      <3>. HIDE DEF P, t
      <3>1. QED
        BY <2>3, <2>4
    <2>6. QED
      BY <2>5
  <1>3. n \in S
    BY <1>1, <1>2, Induction
  <1>4. QED
    BY <1>3 DEF Passes

(* What every pass of a loop keeps holds after the last.                   *)
LEMMA LoopStays ==
  ASSUME NEW n \in Nat, NEW X, NEW s, s[0] \in X,
         \A k \in 1 .. n : s[k - 1] \in X => s[k] \in X
  PROVE  s[n] \in X
  <1>. DEFINE S == {m \in Nat : m <= n => s[m] \in X}
  <1>1. 0 \in S
    OBVIOUS
  <1>2. ASSUME NEW m \in Nat, m \in S PROVE m + 1 \in S
    <2>1. ASSUME m + 1 <= n PROVE s[m + 1] \in X
      BY <1>2, <2>1
    <2>2. QED
      BY <2>1
  <1>3. n \in S
    BY <1>1, <1>2, Induction
  <1>4. QED
    BY <1>3

----------------------------------------------------------------------------
(* The types, taken apart and put together.                                *)

(* The maps of sockets: no socket at all, and any set of ids.              *)
LEMMA SocketMaps ==
  /\ <<>> \in SocketMap /\ DOMAIN <<>> = {}
  /\ \A f \in SocketMap : DOMAIN f \in SUBSET Cids /\ f \in [DOMAIN f -> Socket]
  /\ \A S \in SUBSET Cids : \A f \in [S -> Socket] : f \in SocketMap /\ DOMAIN f = S
  <1>1. <<>> \in [{} -> Socket] /\ DOMAIN <<>> = {}
    OBVIOUS
  <1>2. QED
    BY <1>1 DEF SocketMap

(* The fields of the host.                                                 *)
LEMMA HostParts ==
  ASSUME NEW h \in Host
  PROVE  /\ h \in Fields /\ h.bt \in [Devices -> Device] /\ h.cid \in Cids
         /\ h.tx \in Seq(TxPacket) /\ Len(h.tx) <= QSIZE
         /\ h.inp \in [Devices -> Input] /\ h.hids \in Seq(Devices)
         /\ h.keys \in SUBSET Devices /\ h.state \in (SUBSET Flags) \cup {NotSent}
         /\ h.slots \in [WiiSlots -> SUBSET SlotFlags] /\ h.kept \in Seq(RxAcl)
         /\ (h.state = NotSent => h.tx \in Seq(TxQuiet))
  BY DEF Host, Fields

(* The fields of a BTDevice and of its sockets.                            *)
LEMMA DeviceParts ==
  ASSUME NEW h \in Host, NEW d \in Devices
  PROVE  /\ h.bt[d] \in Device /\ h.bt[d].known \in BOOLEAN /\ h.bt[d].handle \in Links
         /\ h.bt[d].seen \in SUBSET Commands /\ h.bt[d].held \in Nat /\ h.bt[d].size \in Nat
         /\ h.bt[d].into \in Nat /\ h.bt[d].sockets \in SocketMap
         /\ Sockets(h, d) = DOMAIN h.bt[d].sockets /\ Sockets(h, d) \in SUBSET Cids
         /\ \A s \in Sockets(h, d) : h.bt[d].sockets[s] \in Socket
  <1>1. h.bt[d] \in Device
    BY HostParts
  <1>2. h.bt[d].sockets \in SocketMap
    BY <1>1 DEF Device
  <1>3. QED
    BY <1>1, <1>2, SocketMaps DEF Device, Sockets

(* The fields of an InputDevice.                                           *)
LEMMA InputParts ==
  ASSUME NEW h \in Host, NEW d \in Devices
  PROVE  /\ h.inp[d] \in Input /\ h.inp[d].state \in InputStates
         /\ h.inp[d].reconnect \in BOOLEAN /\ h.inp[d].sdp \in Sids
         /\ h.inp[d].control \in Sids /\ h.inp[d].interrupt \in Sids
         /\ h.inp[d].handler \in Sids /\ h.inp[d].wii \in WiiSlots \cup {NoSlot}
  <1>1. h.inp[d] \in Input
    BY HostParts
  <1>2. QED
    BY <1>1 DEF Input

(* A packet put into a queue is queued or lost: it never overfills it.     *)
LEMMA QueuedType ==
  ASSUME NEW T, NEW q \in Seq(T), NEW p \in T
  PROVE  /\ Queued(q, p) \in Seq(T) /\ (Len(q) <= QSIZE => Len(Queued(q, p)) <= QSIZE)
         /\ Len(Queued(q, p)) <= Len(q) + 1
  <1>1. Len(q) \in Nat /\ QSIZE \in Nat /\ Append(q, p) \in Seq(T) /\ Len(Append(q, p)) = Len(q) + 1
    BY QueueAssumption
  <1>2. QED
    BY <1>1 DEF Queued

----------------------------------------------------------------------------
(* Effects of calls: they add up, and one of them keeps what is wanted.    *)

(* What calls do to the handles adds up.                                   *)
LEMMA TracksTrans ==
  ASSUME NEW h \in Host, NEW g \in Host, NEW f \in Host, Tracks(h, g), Tracks(g, f)
  PROVE  Tracks(h, f)
  <1>1. Len(h.tx) \in Nat /\ Len(g.tx) \in Nat /\ Len(f.tx) \in Nat /\ QSIZE \in Nat
    BY HostParts, QueueAssumption
  <1>2. Len(g.tx) >= Len(h.tx) /\ Len(f.tx) >= Len(g.tx)
    BY DEF Tracks
  <1>3. Len(f.tx) >= Len(h.tx) /\ (Len(g.tx) >= QSIZE => Len(f.tx) >= QSIZE)
    BY <1>1, <1>2
  <1>4. ASSUME NEW e \in Devices
        PROVE  /\ h.bt[e].known => f.bt[e].known
               /\ Creates(h, e) => Creates(f, e)
               /\ Creates(f, e) => Creates(h, e) \/ f.bt[e].known
               /\ \/ Handle(f, e) = Handle(h, e)
                  \/ Handle(h, e) = NoHandle /\ Handle(f, e) = 0 /\ Calling(f, e)
    <2>1. /\ h.bt[e].known => g.bt[e].known
          /\ Creates(h, e) => Creates(g, e)
          /\ Creates(g, e) => Creates(h, e) \/ g.bt[e].known
          /\ \/ Handle(g, e) = Handle(h, e)
             \/ Handle(h, e) = NoHandle /\ Handle(g, e) = 0 /\ Calling(g, e)
      BY DEF Tracks
    <2>2. /\ g.bt[e].known => f.bt[e].known
          /\ Creates(g, e) => Creates(f, e)
          /\ Creates(f, e) => Creates(g, e) \/ f.bt[e].known
          /\ \/ Handle(f, e) = Handle(g, e)
             \/ Handle(g, e) = NoHandle /\ Handle(f, e) = 0 /\ Calling(f, e)
      BY DEF Tracks
    <2>3. Calling(g, e) => Calling(f, e)
      BY <1>3, <2>2 DEF Calling
    <2>4. 0 # NoHandle
      BY DEF NoHandle
    <2>5. QED
      BY <2>1, <2>2, <2>3, <2>4
  <1>5. QED
    BY <1>3, <1>4 DEF Tracks

(* A call that leaves the handles and the queue alone.                     *)
LEMMA TracksSame ==
  ASSUME NEW h \in Host, NEW g, g.tx = h.tx,
         \A e \in Devices : /\ g.bt[e].known = h.bt[e].known
                             /\ g.bt[e].handle = h.bt[e].handle
  PROVE  Tracks(h, g)
  <1>1. Len(h.tx) \in Nat
    BY HostParts
  <1>2. QED
    BY <1>1 DEF Tracks, Handle, Creates

(* Two calls about device d, one after the other, are one about d.         *)
LEMMA ClaimedTrans ==
  ASSUME NEW h \in Host, NEW d, NEW g, NEW f, Claimed(h, g, d), Claimed(g, f, d)
  PROVE  Claimed(h, f, d)
  <1>1. h.cid \in Nat /\ g.cid \in Nat /\ f.cid \in Nat
    BY HostParts DEF Claimed, Cids
  <1>2. g.cid >= h.cid /\ f.cid >= g.cid
    BY DEF Claimed, Grows
  <1>3. h.cid .. g.cid - 1 \subseteq h.cid .. f.cid - 1 /\ g.cid .. f.cid - 1 \subseteq h.cid .. f.cid - 1
    BY <1>1, <1>2
  <1>4. Grows(h, f, d)
    <2>1. f.cid >= h.cid
      BY <1>1, <1>2
    <2>2. ASSUME NEW e \in Devices
          PROVE  Claims(f, e) \subseteq Claims(h, e) \cup IF e = d THEN h.cid .. f.cid - 1 ELSE {}
      <3>1. Claims(g, e) \subseteq Claims(h, e) \cup IF e = d THEN h.cid .. g.cid - 1 ELSE {}
        BY DEF Claimed, Grows
      <3>2. Claims(f, e) \subseteq Claims(g, e) \cup IF e = d THEN g.cid .. f.cid - 1 ELSE {}
        BY DEF Claimed, Grows
      <3>3. QED
        BY <3>1, <3>2, <1>3
    <2>3. QED
      BY <2>1, <2>2 DEF Grows
  <1>5. QED
    BY <1>4 DEF Claimed, SameSlots

(* The effects of two calls about device d, one after the other, add up.   *)
LEMMA EffectTrans ==
  ASSUME NEW h \in Host, NEW d, NEW g, NEW f, Effect(h, g, d), Effect(g, f, d)
  PROVE  Effect(h, f, d)
  <1>1. Claimed(h, f, d) /\ g \in Host /\ f \in Host
    BY ClaimedTrans DEF Effect, Claimed
  <1>2. QED
    BY <1>1, TracksTrans DEF Effect, Feeds

(* To do nothing is a call about any device.                               *)
LEMMA EffectSame ==
  ASSUME NEW h \in Host, NEW d
  PROVE  Effect(h, h, d)
  <1>1. h.cid \in Nat
    BY HostParts DEF Cids
  <1>2. QED
    BY <1>1, TracksSame DEF Effect, Claimed, Grows, SameSlots, Feeds

(* A call about a device gives it no id that another one claims: the ids   *)
(* it adds are those handed out during the call.                           *)
LEMMA EffectOwn ==
  ASSUME NEW h \in Host, NEW d, NEW g \in Host, Grows(h, g, d), Own(h)
  PROVE  Own(g)
  <1>1. h.cid \in Nat /\ g.cid \in Nat /\ g.cid >= h.cid /\ h.cid >= FirstCid
    BY HostParts DEF Cids, Grows
  <1>2. FirstCid .. h.cid - 1 \subseteq FirstCid .. g.cid - 1
        /\ h.cid .. g.cid - 1 \subseteq FirstCid .. g.cid - 1
        /\ FirstCid .. h.cid - 1 \cap h.cid .. g.cid - 1 = {}
    BY <1>1 DEF FirstCid
  <1>3. ASSUME NEW e \in Devices
        PROVE  /\ Claims(g, e) \subseteq Claims(h, e) \cup IF e = d THEN h.cid .. g.cid - 1 ELSE {}
               /\ Claims(h, e) \subseteq FirstCid .. h.cid - 1
    BY DEF Grows, Own
  <1>4. ASSUME NEW e \in Devices PROVE Claims(g, e) \subseteq FirstCid .. g.cid - 1
    BY <1>2, <1>3
  <1>5. ASSUME NEW e \in Devices, NEW f \in Devices, e # f
        PROVE  Claims(g, e) \cap Claims(g, f) = {}
    <2>1. Claims(h, e) \cap Claims(h, f) = {}
      BY <1>5 DEF Own
    <2>2. QED
      BY <2>1, <1>2, <1>3, <1>5
  <1>6. QED
    BY <1>4, <1>5 DEF Own

(* A packet put into the queue is behind the others, or lost.              *)
LEMMA QueuedOrder ==
  ASSUME NEW h, NEW g, NEW p, h.tx \in Seq(TxPacket), g.tx = Queued(h.tx, p)
  PROVE  /\ Len(g.tx) >= Len(h.tx)
         /\ \A e : Creates(h, e) => Creates(g, e)
         /\ \A e : Creates(g, e) => Creates(h, e) \/ (p.op = "CREATE_CONNECTION" /\ p.dev = e)
         /\ p.op = "CREATE_CONNECTION" => Creates(g, p.dev) \/ Len(g.tx) >= QSIZE
  <1>1. Len(h.tx) \in Nat /\ QSIZE \in Nat
    BY QueueAssumption
  <1>2. CASE Len(h.tx) >= QSIZE
    BY <1>1, <1>2 DEF Queued, Creates
  <1>3. CASE Len(h.tx) < QSIZE
    <2>. DEFINE n == Len(h.tx)
                q == Append(h.tx, p)
    <2>1. g.tx = q
      BY <1>3 DEF Queued
    <2>2. /\ DOMAIN q = 1 .. n + 1 /\ DOMAIN h.tx = 1 .. n /\ Len(q) = n + 1
          /\ q[n + 1] = p /\ \A k \in 1 .. n : q[k] = h.tx[k]
      OBVIOUS
    <2>3. 1 .. n + 1 = (1 .. n) \cup {n + 1} /\ n + 1 >= n
      BY <1>1
    <2>. HIDE DEF q, n
    <2>4. QED
      BY <2>1, <2>2, <2>3 DEF Creates, n
  <1>4. QED
    BY <1>1, <1>2, <1>3

(* Putting a packet into the queue, a device, an input device.             *)
LEMMA PutPacket ==
  ASSUME NEW h \in Host, NEW p \in TxPacket, p \in TxQuiet \/ h.state # NotSent
  PROVE  LET g == [h EXCEPT !.tx = Queued(h.tx, p)]
         IN /\ g \in Host /\ \A d : Claimed(h, g, d)
            /\ (p.op = "CREATE_CONNECTION" => h.bt[p.dev].known) => \A d : Effect(h, g, d)
            /\ g.tx = Queued(h.tx, p) /\ g.bt = h.bt /\ g.inp = h.inp /\ g.cid = h.cid /\ g.state = h.state
  <1>. DEFINE q == Queued(h.tx, p)
              g == [h EXCEPT !.tx = q]
  <1>1. q \in Seq(TxPacket) /\ Len(q) <= QSIZE
    BY HostParts, QueuedType
  <1>2. h.state = NotSent => q \in Seq(TxQuiet)
    BY HostParts, QueuedType
  <1>. HIDE DEF q
  <1>3. g \in Fields
    BY <1>1, HostParts DEF Fields
  <1>4. /\ g.bt = h.bt /\ g.inp = h.inp /\ g.cid = h.cid /\ g.state = h.state /\ g.tx = q
        /\ g.slots = h.slots /\ g.hids = h.hids
    BY HostParts DEF Fields
  <1>5. g \in Host
    BY <1>1, <1>2, <1>3, <1>4 DEF Host
  <1>6. h.cid \in Nat
    BY HostParts DEF Cids
  <1>. HIDE DEF g
  <1>7. ASSUME NEW d PROVE Claimed(h, g, d)
    BY <1>4, <1>5, <1>6 DEF Claimed, Grows, SameSlots, Claims, Sockets, Ids
  <1>8. ASSUME p.op = "CREATE_CONNECTION" => h.bt[p.dev].known PROVE Tracks(h, g)
    <2>1. /\ Len(g.tx) >= Len(h.tx)
          /\ \A e : Creates(h, e) => Creates(g, e)
          /\ \A e : Creates(g, e) => Creates(h, e) \/ (p.op = "CREATE_CONNECTION" /\ p.dev = e)
      BY <1>4, HostParts, QueuedOrder DEF q
    <2>2. QED
      BY <1>4, <1>8, <2>1 DEF Tracks, Handle
  <1>9. Feeds(h, g)
    BY <1>4 DEF Feeds, DataLinked, SlotsLinked, Waits, Handle
  <1>10. QED
    BY <1>4, <1>5, <1>7, <1>8, <1>9 DEF q, g, Effect

(* A change of a BTDevice that leaves the handle as it is, and gives data  *)
(* only to a device that is linked.                                        *)
Stays(b, old) == /\ b.known = old.known /\ b.handle = old.handle
                 /\ Waits(b) => Waits(old) \/ b.handle \in Handles

(* A change of a BTDevice that opens no socket.                            *)
LEMMA PutDevice ==
  ASSUME NEW h \in Host, NEW d \in Devices, NEW b \in Device,
         DOMAIN b.sockets \subseteq Sockets(h, d)
  PROVE  LET g == [h EXCEPT !.bt[d] = b]
         IN /\ g \in Host /\ \A e : Claimed(h, g, e)
            /\ Stays(b, h.bt[d]) => \A e : Effect(h, g, e)
            /\ g.bt[d] = b /\ g.inp = h.inp /\ g.cid = h.cid /\ g.state = h.state
            /\ g.tx = h.tx /\ g.hids = h.hids
            /\ \A e \in Devices \ {d} : g.bt[e] = h.bt[e]
  <1>. DEFINE bt == [h.bt EXCEPT ![d] = b]
              g == [h EXCEPT !.bt = bt]
  <1>0. h \in Fields /\ h.bt \in [Devices -> Device]
    BY HostParts
  <1>1. bt \in [Devices -> Device] /\ bt[d] = b /\ \A e \in Devices \ {d} : bt[e] = h.bt[e]
    BY <1>0
  <1>. HIDE DEF bt
  <1>2. g \in Fields
    BY <1>0, <1>1 DEF Fields
  <1>3. /\ g.bt = bt /\ g.inp = h.inp /\ g.cid = h.cid /\ g.state = h.state /\ g.tx = h.tx
        /\ g.slots = h.slots /\ g.hids = h.hids
    BY HostParts DEF Fields
  <1>4. g \in Host
    BY <1>2, <1>3, HostParts DEF Host
  <1>5. h.cid \in Nat
    BY HostParts DEF Cids
  <1>6. \A e \in Devices : Claims(g, e) \subseteq Claims(h, e)
    <2>. HIDE DEF g
    <2>1. QED
      BY <1>1, <1>3 DEF Claims, Sockets, Ids
  <1>. HIDE DEF g
  <1>7. ASSUME NEW e PROVE Claimed(h, g, e)
    BY <1>3, <1>4, <1>5, <1>6 DEF Claimed, Grows, SameSlots
  <1>8. ASSUME Stays(b, h.bt[d]) PROVE Tracks(h, g) /\ Feeds(h, g)
    <2>1. \A e \in Devices : g.bt[e].known = h.bt[e].known /\ g.bt[e].handle = h.bt[e].handle
      BY <1>1, <1>3, <1>8 DEF Stays
    <2>2. Tracks(h, g)
      BY <1>3, <2>1, TracksSame
    <2>3. Feeds(h, g)
      BY <1>1, <1>3, <1>8, <2>1 DEF Feeds, DataLinked, SlotsLinked, Stays, Handle
    <2>4. QED
      BY <2>2, <2>3
  <1>9. QED
    BY <1>1, <1>3, <1>4, <1>7, <1>8 DEF bt, g, Effect

(* A change of an InputDevice that remembers no new id.                    *)
LEMMA PutInput ==
  ASSUME NEW h \in Host, NEW d \in Devices, NEW i \in Input,
         Ids(i) \subseteq Claims(h, d), i.wii = h.inp[d].wii
  PROVE  LET g == [h EXCEPT !.inp[d] = i]
         IN /\ g \in Host /\ \A e : Effect(h, g, e)
            /\ g.bt = h.bt /\ g.inp[d] = i /\ g.cid = h.cid /\ g.state = h.state
  <1>. DEFINE inp == [h.inp EXCEPT ![d] = i]
              g == [h EXCEPT !.inp = inp]
  <1>0. h \in Fields /\ h.inp \in [Devices -> Input]
    BY HostParts
  <1>1. inp \in [Devices -> Input] /\ inp[d] = i /\ \A e \in Devices \ {d} : inp[e] = h.inp[e]
    BY <1>0
  <1>. HIDE DEF inp
  <1>2. g \in Fields
    BY <1>0, <1>1 DEF Fields
  <1>3. /\ g.inp = inp /\ g.bt = h.bt /\ g.cid = h.cid /\ g.state = h.state /\ g.tx = h.tx
        /\ g.slots = h.slots /\ g.hids = h.hids
    BY HostParts DEF Fields
  <1>4. g \in Host
    BY <1>2, <1>3, HostParts DEF Host
  <1>5. h.cid \in Nat
    BY HostParts DEF Cids
  <1>6. \A e \in Devices : Claims(g, e) \subseteq Claims(h, e) /\ g.inp[e].wii = h.inp[e].wii
    <2>. HIDE DEF g
    <2>1. QED
      BY <1>1, <1>3 DEF Claims, Sockets
  <1>. HIDE DEF g
  <1>7. Tracks(h, g) /\ Feeds(h, g)
    BY <1>3, <1>6, TracksSame DEF Feeds, DataLinked, SlotsLinked, Handle
  <1>8. ASSUME NEW e PROVE Effect(h, g, e)
    BY <1>3, <1>4, <1>5, <1>6, <1>7 DEF Effect, Claimed, Grows, SameSlots
  <1>9. QED
    BY <1>1, <1>3, <1>4, <1>8 DEF inp, g

(* The fields that neither the ids nor the slots depend on.                *)
LEMMA PutRest ==
  ASSUME NEW h \in Host
  PROVE  /\ \A s \in (SUBSET Flags) \cup {NotSent} : (s = NotSent => h.state = NotSent) =>
              LET g == [h EXCEPT !.state = s]
              IN g \in Host /\ g.state = s /\ g.bt = h.bt /\ g.hids = h.hids
                 /\ \A d : Effect(h, g, d)
         /\ \A k \in Seq(RxAcl) : LET g == [h EXCEPT !.kept = k]
                                  IN g \in Host /\ g.state = h.state
                                     /\ \A d : Effect(h, g, d)
         /\ \A k \in SUBSET Devices : LET g == [h EXCEPT !.keys = k]
                                      IN g \in Host /\ g.state = h.state
                                         /\ \A d : Effect(h, g, d)
  <1>1. h.cid \in Nat
    BY HostParts DEF Cids
  <1>2. ASSUME NEW g \in Host, g.bt = h.bt, g.inp = h.inp, g.cid = h.cid, g.slots = h.slots,
               g.hids = h.hids, g.tx = h.tx, g.state = NotSent => h.state = NotSent, NEW d
        PROVE  Effect(h, g, d)
    <2>1. Tracks(h, g) /\ Feeds(h, g)
      BY <1>2, TracksSame DEF Feeds, DataLinked, SlotsLinked, Handle
    <2>2. QED
      BY <1>1, <1>2, <2>1 DEF Effect, Claimed, Grows, SameSlots, Claims, Sockets, Ids
  <1>3. ASSUME NEW s \in (SUBSET Flags) \cup {NotSent}, s = NotSent => h.state = NotSent
        PROVE  LET g == [h EXCEPT !.state = s]
               IN g \in Host /\ g.state = s /\ g.bt = h.bt /\ g.hids = h.hids
                  /\ \A d : Effect(h, g, d)
    <2>. DEFINE g == [h EXCEPT !.state = s]
    <2>1. g \in Fields
      BY HostParts DEF Fields
    <2>2. /\ g.bt = h.bt /\ g.inp = h.inp /\ g.cid = h.cid /\ g.slots = h.slots
          /\ g.hids = h.hids /\ g.state = s /\ g.tx = h.tx
      BY HostParts DEF Fields
    <2>3. g \in Host
      BY <2>1, <2>2, <1>3, HostParts DEF Host
    <2>. HIDE DEF g
    <2>4. QED
      BY <2>2, <2>3, <1>2, <1>3 DEF g
  <1>4. ASSUME NEW k \in Seq(RxAcl)
        PROVE  LET g == [h EXCEPT !.kept = k] IN g \in Host /\ g.state = h.state
                                             /\ \A d : Effect(h, g, d)
    <2>. DEFINE g == [h EXCEPT !.kept = k]
    <2>1. g \in Fields
      BY HostParts DEF Fields
    <2>2. /\ g.bt = h.bt /\ g.inp = h.inp /\ g.cid = h.cid /\ g.slots = h.slots
          /\ g.hids = h.hids /\ g.state = h.state /\ g.tx = h.tx
      BY HostParts DEF Fields
    <2>3. g \in Host
      BY <2>1, <2>2, HostParts DEF Host
    <2>. HIDE DEF g
    <2>4. QED
      BY <2>2, <2>3, <1>2 DEF g
  <1>5. ASSUME NEW k \in SUBSET Devices
        PROVE  LET g == [h EXCEPT !.keys = k] IN g \in Host /\ g.state = h.state
                                             /\ \A d : Effect(h, g, d)
    <2>. DEFINE g == [h EXCEPT !.keys = k]
    <2>1. g \in Fields
      BY HostParts DEF Fields
    <2>2. /\ g.bt = h.bt /\ g.inp = h.inp /\ g.cid = h.cid /\ g.slots = h.slots
          /\ g.hids = h.hids /\ g.state = h.state /\ g.tx = h.tx
      BY HostParts DEF Fields
    <2>3. g \in Host
      BY <2>1, <2>2, HostParts DEF Host
    <2>. HIDE DEF g
    <2>4. QED
      BY <2>2, <2>3, <1>2 DEF g
  <1>6. QED
    BY <1>3, <1>4, <1>5

----------------------------------------------------------------------------
(* L2cap: every operator maps a host to a host.                            *)

(* A call that only puts packets into the queue.                           *)
Speaks(h, g) == /\ g \in Host /\ \A d : Effect(h, g, d)
                /\ g.bt = h.bt /\ g.inp = h.inp /\ g.cid = h.cid /\ g.state = h.state

(* A signal or the data of a socket only goes into the queue.              *)
LEMMA SendAclSpeaks ==
  ASSUME NEW h \in Host, NEW d \in Devices, NEW cmd \in Commands \cup Data,
         NEW psm \in Psms \cup {NoEnd}, NEW scid \in Sids, cmd = "CONN_REQ" => psm \in Psms
  PROVE  Speaks(h, SendAcl(h, d, cmd, psm, scid))
  <1>. DEFINE p == [op |-> "ACL", handle |-> h.bt[d].handle,
                    cmd |-> cmd, psm |-> psm, scid |-> scid]
  <1>1. p \in TxAcl
    BY DeviceParts DEF TxAcl
  <1>2. p \in TxQuiet /\ p \in TxPacket /\ p.op # "CREATE_CONNECTION"
    BY <1>1 DEF TxQuiet, TxPacket
  <1>. HIDE DEF p
  <1>3. SendAcl(h, d, cmd, psm, scid) = [h EXCEPT !.tx = Queued(h.tx, p)]
    BY DEF SendAcl, p
  <1>4. QED
    BY <1>2, <1>3, PutPacket DEF Speaks

(* An HCI command only goes into the queue; the handshake's are queued     *)
(* only once the handshake has begun.                                      *)
LEMMA CmdSpeaks ==
  ASSUME NEW h \in Host
  PROVE  /\ \A d \in Devices, op \in AddressOps :
              op # "CREATE_CONNECTION" => Speaks(h, Cmd(h, op, d))
         /\ Speaks(h, Cmd(h, "INQUIRY", "none"))
         /\ h.state # NotSent => \A op \in HandshakeSteps : Speaks(h, Cmd(h, op, "none"))
  <1>1. ASSUME NEW d, NEW op, op # "CREATE_CONNECTION", [op |-> op, dev |-> d] \in TxQuiet
                 \/ ([op |-> op, dev |-> d] \in TxPacket /\ h.state # NotSent)
        PROVE  Speaks(h, Cmd(h, op, d))
    <2>. DEFINE p == [op |-> op, dev |-> d]
    <2>1. p \in TxPacket /\ (p \in TxQuiet \/ h.state # NotSent) /\ p.op # "CREATE_CONNECTION"
      BY <1>1 DEF TxPacket
    <2>2. Cmd(h, op, d) = [h EXCEPT !.tx = Queued(h.tx, p)]
      BY DEF Cmd
    <2>. HIDE DEF p
    <2>3. QED
      BY <2>1, <2>2, PutPacket DEF Speaks
  <1>2. \A d \in Devices, op \in AddressOps : [op |-> op, dev |-> d] \in TxQuiet
    BY DEF TxQuiet
  <1>3. [op |-> "INQUIRY", dev |-> "none"] \in TxQuiet
    BY DEF TxQuiet
  <1>4. \A op \in HandshakeSteps : [op |-> op, dev |-> "none"] \in TxPacket
    BY DEF TxPacket
  <1>5. QED
    BY <1>1, <1>2, <1>3, <1>4 DEF HandshakeSteps

(* So does the request to authenticate, which has the device's handle.     *)
LEMMA AskSpeaks ==
  ASSUME NEW h \in Host, NEW d \in Devices
  PROVE  Speaks(h, AskAuthentication(h, d))
  <1>. DEFINE p == [op |-> "AUTHENTICATION_REQUESTED", dev |-> d, handle |-> h.bt[d].handle]
  <1>1. p \in TxAuth
    BY DeviceParts DEF TxAuth
  <1>2. p \in TxQuiet /\ p \in TxPacket /\ p.op # "CREATE_CONNECTION"
    BY <1>1 DEF TxQuiet, TxPacket
  <1>3. AskAuthentication(h, d) = [h EXCEPT !.tx = Queued(h.tx, p)]
    BY DEF AskAuthentication
  <1>. HIDE DEF p
  <1>4. QED
    BY <1>2, <1>3, PutPacket DEF Speaks

(* Two calls that only queue packets, one after the other.                 *)
LEMMA SpeaksTwice ==
  ASSUME NEW h \in Host, NEW g, NEW f, Speaks(h, g), Speaks(g, f)
  PROVE  Speaks(h, f)
  BY EffectTrans DEF Speaks

(* A socket opened has the id that was next; nothing else gets one.        *)
LEMMA OpenEffect ==
  ASSUME NEW h \in Host, NEW d \in Devices, NEW psm \in Psms, NEW listen \in BOOLEAN
  PROVE  LET g == l2_open(h, d, psm, listen)
         IN /\ Effect(h, g, d) /\ g.cid = h.cid + 1 /\ g.inp = h.inp /\ g.state = h.state
            /\ Sockets(g, d) = Sockets(h, d) \cup {h.cid}
  <1>. DEFINE s == [psm |-> psm, dcid |-> NoEnd, q |-> <<>>,
                    state |-> IF listen THEN "LISTENING" ELSE "OPENING"]
              m == [i \in DOMAIN h.bt[d].sockets \cup {h.cid} |->
                      IF i = h.cid THEN s ELSE h.bt[d].sockets[i]]
              b == [h.bt[d] EXCEPT !.sockets = m]
              bt == [h.bt EXCEPT ![d] = b]
              g == [h EXCEPT !.cid = h.cid + 1, !.bt = bt]
              r == l2_open(h, d, psm, listen)
  <1>1. h.cid \in Nat /\ h.cid >= FirstCid /\ h.cid + 1 \in Cids
    BY HostParts DEF Cids, FirstCid
  <1>2. s \in Socket
    BY DEF Socket, SocketStates
  <1>3. m \in [Sockets(h, d) \cup {h.cid} -> Socket]
    BY <1>2, DeviceParts
  <1>4. m \in SocketMap /\ DOMAIN m = Sockets(h, d) \cup {h.cid}
    <2>1. Sockets(h, d) \cup {h.cid} \in SUBSET Cids
      BY HostParts, DeviceParts
    <2>. HIDE DEF m
    <2>2. QED
      BY <2>1, <1>3, SocketMaps
  <1>. HIDE DEF m
  <1>5. b \in Device /\ b.sockets = m
    BY <1>4, DeviceParts DEF Device
  <1>. HIDE DEF b
  <1>6. bt \in [Devices -> Device] /\ bt[d] = b /\ \A e \in Devices \ {d} : bt[e] = h.bt[e]
    BY <1>5, HostParts
  <1>. HIDE DEF bt
  <1>7. g \in Fields
    BY <1>1, <1>6, HostParts DEF Fields
  <1>8. /\ g.bt = bt /\ g.inp = h.inp /\ g.cid = h.cid + 1 /\ g.state = h.state /\ g.tx = h.tx
        /\ g.slots = h.slots /\ g.hids = h.hids
    BY HostParts DEF Fields
  <1>9. g \in Host
    BY <1>7, <1>8, HostParts DEF Host
  <1>10. g = [h EXCEPT !.cid = @ + 1,
                     !.bt[d].sockets = [i \in DOMAIN @ \cup {h.cid} |->
                                          IF i = h.cid THEN s ELSE @[i]]]
    BY HostParts DEF Fields, bt, b, m
  <1>11. r = IF listen THEN g ELSE SendAcl(g, d, "CONN_REQ", psm, h.cid)
    <2>. HIDE DEF g
    <2>1. QED
      BY <1>10 DEF l2_open
  <1>. HIDE DEF g, r
  <1>12. Sockets(g, d) = Sockets(h, d) \cup {h.cid}
    BY <1>4, <1>5, <1>6, <1>8 DEF Sockets
  <1>13. Grows(h, g, d)
    <2>1. h.cid .. g.cid - 1 = {h.cid}
      BY <1>1, <1>8
    <2>2. \A e \in Devices \ {d} : Sockets(g, e) = Sockets(h, e)
      BY <1>6, <1>8 DEF Sockets
    <2>3. \A e \in Devices : Claims(g, e) \subseteq Claims(h, e) \cup IF e = d THEN {h.cid} ELSE {}
      BY <1>8, <1>12, <2>2 DEF Claims, Ids
    <2>4. QED
      BY <1>1, <1>8, <2>1, <2>3 DEF Grows
  <1>14. Effect(h, g, d)
    <2>1. b.known = h.bt[d].known /\ b.handle = h.bt[d].handle
      BY DeviceParts DEF b, Device
    <2>2. Waits(b) => Waits(h.bt[d])
      <3>1. \A k \in DOMAIN m : m[k].q # <<>> =>
              k \in DOMAIN h.bt[d].sockets /\ h.bt[d].sockets[k].q # <<>>
        BY <1>4, DeviceParts DEF m, s
      <3>2. QED
        BY <1>5, <3>1 DEF Waits
    <2>3. \A e \in Devices : /\ g.bt[e].known = h.bt[e].known /\ g.bt[e].handle = h.bt[e].handle
                             /\ Waits(g.bt[e]) => Waits(h.bt[e])
      BY <1>6, <1>8, <2>1, <2>2
    <2>4. Tracks(h, g)
      BY <1>8, <2>3, TracksSame
    <2>5. Feeds(h, g)
      BY <1>8, <2>3 DEF Feeds, DataLinked, SlotsLinked, Handle
    <2>6. QED
      BY <1>8, <1>9, <1>13, <2>4, <2>5 DEF Effect, Claimed, SameSlots
  <1>15. Speaks(g, SendAcl(g, d, "CONN_REQ", psm, h.cid))
    BY <1>9, <1>1, SendAclSpeaks DEF Commands, Sids, Cids
  <1>16. CASE listen
    BY <1>8, <1>11, <1>12, <1>14, <1>16 DEF r
  <1>17. CASE ~listen
    <2>1. r = SendAcl(g, d, "CONN_REQ", psm, h.cid)
      BY <1>11, <1>17
    <2>2. Speaks(g, r) /\ Sockets(r, d) = Sockets(g, d)
      BY <2>1, <1>15 DEF Speaks, Sockets
    <2>3. Effect(h, r, d)
      BY <2>2, <1>14, EffectTrans DEF Speaks
    <2>4. QED
      BY <2>2, <2>3, <1>8, <1>12 DEF Speaks, r
  <1>18. QED
    BY <1>16, <1>17

(* A call that opens no socket and leaves the input devices alone.         *)
Keeps(h, g) == /\ g \in Host /\ \A d : Effect(h, g, d)
               /\ g.inp = h.inp /\ g.state = h.state

(* Calls that open no socket and touch no InputDevice, in a row.           *)
LEMMA KeepsTrans ==
  /\ \A h \in Host : Keeps(h, h)
  /\ \A h \in Host : \A g, f : Keeps(h, g) /\ Keeps(g, f) => Keeps(h, f)
  /\ \A h \in Host : \A g, f : Speaks(h, g) /\ Keeps(g, f) => Keeps(h, f)
  /\ \A h \in Host : \A g, f : Keeps(h, g) /\ Speaks(g, f) => Keeps(h, f)
  /\ \A h \in Host : \A g : Speaks(h, g) => Keeps(h, g)
  <1>1. \A h \in Host : Keeps(h, h)
    BY EffectSame DEF Keeps
  <1>2. \A h \in Host : \A g, f : Keeps(h, g) /\ Keeps(g, f) => Keeps(h, f)
    BY EffectTrans DEF Keeps
  <1>3. \A h \in Host : \A g : Speaks(h, g) => Keeps(h, g) /\ g \in Host
    BY DEF Keeps, Speaks
  <1>4. \A h \in Host : \A g : Keeps(h, g) => g \in Host
    BY DEF Keeps
  <1>5. QED
    BY <1>1, <1>2, <1>3, <1>4

(* A change of a BTDevice that opens no socket, for the calls of L2CAP.    *)
LEMMA DeviceKeeps ==
  ASSUME NEW h \in Host, NEW d \in Devices, NEW b \in Device, Stays(b, h.bt[d]),
         DOMAIN b.sockets \subseteq Sockets(h, d)
  PROVE  LET g == [h EXCEPT !.bt[d] = b]
         IN Keeps(h, g) /\ g.bt[d] = b /\ Sockets(g, d) = DOMAIN b.sockets
  BY PutDevice DEF Keeps, Sockets

(* A change of a socket that exists opens none.                            *)
LEMMA SocketKeeps ==
  ASSUME NEW h \in Host, NEW d \in Devices, NEW i \in Sockets(h, d), NEW s \in Socket,
         s.q = <<>> \/ h.bt[d].sockets[i].q # <<>> \/ h.bt[d].handle \in Handles
  PROVE  LET g == [h EXCEPT !.bt[d].sockets[i] = s]
         IN Keeps(h, g) /\ Sockets(g, d) = Sockets(h, d) /\ g.bt[d].sockets[i] = s
  <1>. DEFINE m == [h.bt[d].sockets EXCEPT ![i] = s]
              b == [h.bt[d] EXCEPT !.sockets = m]
  <1>1. m \in [Sockets(h, d) -> Socket] /\ m[i] = s
        /\ \A k \in Sockets(h, d) \ {i} : m[k] = h.bt[d].sockets[k]
    BY DeviceParts, SocketMaps DEF Sockets
  <1>2. m \in SocketMap /\ DOMAIN m = Sockets(h, d)
    <2>. HIDE DEF m
    <2>1. QED
      BY <1>1, DeviceParts, SocketMaps
  <1>. HIDE DEF m
  <1>3. b \in Device /\ b.sockets = m /\ b.known = h.bt[d].known /\ b.handle = h.bt[d].handle
    BY <1>2, DeviceParts DEF Device
  <1>. HIDE DEF b
  <1>4. [h EXCEPT !.bt[d].sockets[i] = s] = [h EXCEPT !.bt[d] = b]
    BY DEF b, m
  <1>5. Stays(b, h.bt[d])
    BY <1>1, <1>2, <1>3 DEF Stays, Waits, Sockets
  <1>. DEFINE g == [h EXCEPT !.bt[d] = b]
  <1>6. Keeps(h, g) /\ g.bt[d] = b /\ Sockets(g, d) = DOMAIN b.sockets
    BY <1>2, <1>3, <1>5, DeviceKeeps
  <1>. HIDE DEF g
  <1>7. Keeps(h, g) /\ Sockets(g, d) = Sockets(h, d) /\ g.bt[d].sockets[i] = s
    BY <1>1, <1>2, <1>3, <1>6
  <1>8. QED
    BY <1>4, <1>7 DEF g

(* The fields of a socket, and the values they may take.                   *)
LEMMA SocketParts ==
  ASSUME NEW h \in Host, NEW d \in Devices, NEW i \in Sockets(h, d)
  PROVE  LET s == h.bt[d].sockets[i]
         IN /\ s \in Socket /\ s.psm \in Psms /\ s.dcid \in Psms \cup {NoEnd}
            /\ s.q \in Seq(Load) /\ s.state \in SocketStates /\ i \in Sids /\ i \in Nat
            /\ \A x \in Psms \cup {NoEnd} :
                 [s EXCEPT !.dcid = x] \in Socket /\ [s EXCEPT !.dcid = x].q = s.q
            /\ \A x \in SocketStates :
                 [s EXCEPT !.state = x] \in Socket /\ [s EXCEPT !.state = x].q = s.q
            /\ \A x \in Seq(Load) : [s EXCEPT !.q = x] \in Socket /\ [s EXCEPT !.q = x].q = x
  <1>1. h.bt[d].sockets[i] \in Socket /\ i \in Cids
    BY DeviceParts
  <1>2. QED
    BY <1>1 DEF Socket, Sids, Cids

(* The three things that happen to a socket.                               *)
LEMMA SocketChanges ==
  ASSUME NEW h \in Host, NEW d \in Devices, NEW i \in Sockets(h, d)
  PROVE  /\ \A x \in Psms \cup {NoEnd} : LET g == [h EXCEPT !.bt[d].sockets[i].dcid = x]
              IN Keeps(h, g) /\ Sockets(g, d) = Sockets(h, d)
         /\ \A x \in SocketStates : LET g == [h EXCEPT !.bt[d].sockets[i].state = x]
              IN Keeps(h, g) /\ Sockets(g, d) = Sockets(h, d)
         /\ \A x \in Seq(Load) : LET g == [h EXCEPT !.bt[d].sockets[i].q = x]
              IN h.bt[d].sockets[i].q # <<>> \/ h.bt[d].handle \in Handles =>
                   Keeps(h, g) /\ Sockets(g, d) = Sockets(h, d)
  <1>. DEFINE s == h.bt[d].sockets[i]
  <1>1. ASSUME NEW x \in Psms \cup {NoEnd}
        PROVE  LET g == [h EXCEPT !.bt[d].sockets[i].dcid = x]
               IN Keeps(h, g) /\ Sockets(g, d) = Sockets(h, d)
    <2>1. [h EXCEPT !.bt[d].sockets[i].dcid = x]
            = [h EXCEPT !.bt[d].sockets[i] = [s EXCEPT !.dcid = x]]
      OBVIOUS
    <2>. DEFINE t == [s EXCEPT !.dcid = x]
    <2>2. t \in Socket /\ t.q = s.q
      BY SocketParts
    <2>3. t.q = <<>> \/ s.q # <<>>
      BY <2>2
    <2>. HIDE DEF t
    <2>4. Keeps(h, [h EXCEPT !.bt[d].sockets[i] = t])
          /\ Sockets([h EXCEPT !.bt[d].sockets[i] = t], d) = Sockets(h, d)
      BY <2>2, <2>3, SocketKeeps
    <2>5. QED
      BY <2>1, <2>4 DEF t
  <1>2. ASSUME NEW x \in SocketStates
        PROVE  LET g == [h EXCEPT !.bt[d].sockets[i].state = x]
               IN Keeps(h, g) /\ Sockets(g, d) = Sockets(h, d)
    <2>1. [h EXCEPT !.bt[d].sockets[i].state = x]
            = [h EXCEPT !.bt[d].sockets[i] = [s EXCEPT !.state = x]]
      OBVIOUS
    <2>. DEFINE t == [s EXCEPT !.state = x]
    <2>2. t \in Socket /\ t.q = s.q
      BY SocketParts
    <2>3. t.q = <<>> \/ s.q # <<>>
      BY <2>2
    <2>. HIDE DEF t
    <2>4. Keeps(h, [h EXCEPT !.bt[d].sockets[i] = t])
          /\ Sockets([h EXCEPT !.bt[d].sockets[i] = t], d) = Sockets(h, d)
      BY <2>2, <2>3, SocketKeeps
    <2>5. QED
      BY <2>1, <2>4 DEF t
  <1>3. ASSUME NEW x \in Seq(Load), h.bt[d].sockets[i].q # <<>> \/ h.bt[d].handle \in Handles
        PROVE  LET g == [h EXCEPT !.bt[d].sockets[i].q = x]
               IN Keeps(h, g) /\ Sockets(g, d) = Sockets(h, d)
    <2>1. [h EXCEPT !.bt[d].sockets[i].q = x]
            = [h EXCEPT !.bt[d].sockets[i] = [s EXCEPT !.q = x]]
      OBVIOUS
    <2>. DEFINE t == [s EXCEPT !.q = x]
    <2>2. t \in Socket
      BY SocketParts
    <2>. HIDE DEF t
    <2>3. Keeps(h, [h EXCEPT !.bt[d].sockets[i] = t])
          /\ Sockets([h EXCEPT !.bt[d].sockets[i] = t], d) = Sockets(h, d)
      BY <1>3, <2>2, SocketKeeps
    <2>4. QED
      BY <2>1, <2>3 DEF t
  <1>4. QED
    BY <1>1, <1>2, <1>3

(* delete_socket only removes a socket.                                    *)
LEMMA ForgottenKeeps ==
  ASSUME NEW h \in Host, NEW d \in Devices, NEW i
  PROVE  Keeps(h, Forgotten(h, d, i))
  <1>. DEFINE m == [k \in DOMAIN h.bt[d].sockets \ {i} |-> h.bt[d].sockets[k]]
              b == [h.bt[d] EXCEPT !.sockets = m]
  <1>1. m \in [Sockets(h, d) \ {i} -> Socket]
        /\ \A k \in DOMAIN m : k \in DOMAIN h.bt[d].sockets /\ m[k] = h.bt[d].sockets[k]
    BY DeviceParts
  <1>2. m \in SocketMap /\ DOMAIN m \subseteq Sockets(h, d)
    <2>1. Sockets(h, d) \ {i} \in SUBSET Cids
      BY DeviceParts
    <2>. HIDE DEF m
    <2>2. QED
      BY <1>1, <2>1, SocketMaps
  <1>. HIDE DEF m
  <1>3. b \in Device /\ b.sockets = m /\ b.known = h.bt[d].known /\ b.handle = h.bt[d].handle
    BY <1>2, DeviceParts DEF Device
  <1>. HIDE DEF b
  <1>4. Forgotten(h, d, i) = [h EXCEPT !.bt[d] = b]
    BY DEF Forgotten, b, m
  <1>5. Stays(b, h.bt[d])
    BY <1>1, <1>3 DEF Stays, Waits
  <1>6. QED
    BY <1>2, <1>3, <1>4, <1>5, DeviceKeeps

(* The device that get_device_by_socket finds has the socket.              *)
LEMMA OwnerOf ==
  ASSUME NEW h \in Host, NEW i, HasSocket(h, i)
  PROVE  LET d == get_device_by_socket(h, i)
         IN d \in Devices /\ i \in Sockets(h, d) /\ get_socket(h, i) = h.bt[d].sockets[i]
  <1>1. get_device_by_socket(h, i) \in Owners(h, i)
    BY DEF HasSocket, get_device_by_socket
  <1>2. QED
    BY <1>1 DEF Owners, get_socket

(* l2_close, with its signal to the other end, opens no socket.            *)
LEMMA CloseKeeps ==
  ASSUME NEW h \in Host, NEW i, NEW this_end \in BOOLEAN
  PROVE  Keeps(h, l2_close(h, i, this_end))
  <1>1. CASE ~HasSocket(h, i)
    BY <1>1, KeepsTrans DEF l2_close
  <1>2. CASE HasSocket(h, i)
    <2>. DEFINE d == get_device_by_socket(h, i)
                s == get_socket(h, i)
                g == IF this_end /\ s.state = "OPEN"
                     THEN SendAcl(h, d, "DISCONN_REQ", s.dcid, i) ELSE h
    <2>1. d \in Devices /\ i \in Sids /\ s.dcid \in Psms \cup {NoEnd}
      BY <1>2, OwnerOf, SocketParts
    <2>2. l2_close(h, i, this_end) = Forgotten(g, d, i)
      BY <1>2 DEF l2_close
    <2>. HIDE DEF d, s
    <2>3. Speaks(h, SendAcl(h, d, "DISCONN_REQ", s.dcid, i))
      BY <2>1, SendAclSpeaks DEF Commands
    <2>4. Keeps(h, g) /\ g \in Host
      BY <2>3, KeepsTrans DEF Keeps
    <2>. HIDE DEF g
    <2>5. Keeps(g, Forgotten(g, d, i))
      BY <2>1, <2>4, ForgottenKeeps
    <2>6. QED
      BY <2>2, <2>4, <2>5, KeepsTrans
  <1>3. QED
    BY <1>1, <1>2

(* l2_send only queues a packet, if the socket is there.                   *)
LEMMA SendSpeaks ==
  ASSUME NEW h \in Host, NEW i, NEW what \in Data
  PROVE  Speaks(h, l2_send(h, i, what))
  <1>1. CASE ~HasSocket(h, i)
    <2>1. Speaks(h, h)
      BY EffectSame DEF Speaks
    <2>2. QED
      BY <1>1, <2>1 DEF l2_send
  <1>2. CASE HasSocket(h, i)
    <2>. DEFINE d == get_device_by_socket(h, i)
                s == get_socket(h, i)
    <2>1. d \in Devices /\ i \in Sids /\ s.dcid \in Psms \cup {NoEnd}
      BY <1>2, OwnerOf, SocketParts
    <2>2. l2_send(h, i, what) = SendAcl(h, d, what, s.dcid, i)
      BY <1>2 DEF l2_send
    <2>. HIDE DEF d, s
    <2>3. what # "CONN_REQ"
      BY DEF Data
    <2>4. QED
      BY <2>1, <2>2, <2>3, SendAclSpeaks
  <1>3. QED
    BY <1>1, <1>2

(* l2_recv only takes from the queue of the socket.                        *)
LEMMA RecvKeeps ==
  ASSUME NEW h \in Host, NEW i
  PROVE  Keeps(h, l2_recv(h, i))
  <1>1. CASE ~Waiting(h, i)
    BY <1>1, KeepsTrans DEF l2_recv
  <1>2. CASE Waiting(h, i)
    <2>. DEFINE d == get_device_by_socket(h, i)
                t == Tail(h.bt[d].sockets[i].q)
    <2>1. HasSocket(h, i) /\ get_socket(h, i).q # <<>>
      BY <1>2 DEF Waiting
    <2>2. d \in Devices /\ i \in Sockets(h, d) /\ h.bt[d].sockets[i].q # <<>>
      BY <2>1, OwnerOf
    <2>3. t \in Seq(Load)
      BY <2>2, SocketParts
    <2>4. l2_recv(h, i) = [h EXCEPT !.bt[d].sockets[i].q = t]
      BY <1>2 DEF l2_recv
    <2>. HIDE DEF d, t
    <2>5. QED
      BY <2>2, <2>3, <2>4, SocketChanges
  <1>3. QED
    BY <1>1, <1>2

(* BTDevice.disconnect deletes the sockets and opens none; the device has  *)
(* no handle then.                                                         *)
LEMMA DisconnectClaimed ==
  ASSUME NEW h \in Host, NEW d \in Devices
  PROVE  LET g == disconnect_all(h, d)
         IN /\ \A e : Claimed(h, g, e)
            /\ g.bt[d] = [h.bt[d] EXCEPT !.sockets = <<>>, !.handle = NoHandle, !.seen = {}]
            /\ g.tx = h.tx /\ g.inp = h.inp /\ g.hids = h.hids
            /\ \A e \in Devices \ {d} : g.bt[e] = h.bt[e]
  <1>. DEFINE b == [h.bt[d] EXCEPT !.sockets = <<>>, !.handle = NoHandle, !.seen = {}]
  <1>1. <<>> \in SocketMap /\ NoHandle \in Links /\ {} \in SUBSET Commands
    BY SocketMaps DEF Links
  <1>. DEFINE empty == <<>>
  <1>2. b \in Device /\ b.sockets = <<>>
    <2>1. h.bt[d] \in Device
      BY DeviceParts
    <2>2. [h.bt[d] EXCEPT !.sockets = empty, !.handle = NoHandle, !.seen = {}] \in Device
      <3>. HIDE DEF empty
      <3>1. empty \in SocketMap
        BY <1>1 DEF empty
      <3>2. QED
        BY <1>1, <2>1, <3>1 DEF Device
    <2>3. b.sockets = <<>>
      BY <2>1 DEF Device
    <2>4. QED
      BY <2>2, <2>3
  <1>3. disconnect_all(h, d) = [h EXCEPT !.bt[d] = b]
    BY HostParts DEF Fields, disconnect_all
  <1>4. DOMAIN b.sockets \subseteq Sockets(h, d)
    BY <1>2, SocketMaps
  <1>. DEFINE c == b
  <1>5. c \in Device /\ DOMAIN c.sockets \subseteq Sockets(h, d)
    BY <1>2, <1>4
  <1>. HIDE DEF c
  <1>6. LET g == [h EXCEPT !.bt[d] = c]
        IN /\ \A e : Claimed(h, g, e)
           /\ g.bt[d] = c /\ g.tx = h.tx /\ g.inp = h.inp /\ g.hids = h.hids
           /\ \A e \in Devices \ {d} : g.bt[e] = h.bt[e]
    BY <1>5, PutDevice
  <1>7. QED
    BY <1>3, <1>6 DEF c

(* The command last seen is noted; the sockets stay.                       *)
LEMMA MarkedKeeps ==
  ASSUME NEW h \in Host, NEW d \in Devices, NEW cmd \in Commands
  PROVE  LET g == Marked(h, d, cmd) IN Keeps(h, g) /\ Sockets(g, d) = Sockets(h, d)
  <1>. DEFINE b == [h.bt[d] EXCEPT !.seen = h.bt[d].seen \cup {cmd}]
  <1>1. b \in Device /\ b.sockets = h.bt[d].sockets /\ Stays(b, h.bt[d])
    BY DeviceParts DEF Device, Stays, Waits
  <1>2. Marked(h, d, cmd) = [h EXCEPT !.bt[d] = b]
    BY DEF Marked
  <1>. HIDE DEF b
  <1>3. QED
    BY <1>1, <1>2, DeviceKeeps, DeviceParts

(* check_open only changes the state of the socket.                        *)
LEMMA CheckKeeps ==
  ASSUME NEW h \in Host, NEW d \in Devices, NEW i
  PROVE  Keeps(h, check_open(h, d, i))
  <1>1. i \in Sockets(h, d) => Keeps(h, [h EXCEPT !.bt[d].sockets[i].state = "OPEN"])
    BY SocketChanges DEF SocketStates
  <1>2. QED
    BY <1>1, KeepsTrans DEF check_open, FoundOpen

(* The fields of a signal.                                                 *)
LEMMA ControlParts ==
  ASSUME NEW c \in Control
  PROVE  /\ c.cmd \in Commands /\ c.psm \in Psms /\ c.psm \in Psms \cup {NoEnd}
         /\ c.scid \in Sids
  BY DEF Control

(* The handler of a connection response opens no socket.                   *)
LEMMA ConnRspKeeps ==
  ASSUME NEW h \in Host, NEW d \in Devices, NEW c \in Control
  PROVE  Keeps(h, ConnRsp(h, d, c))
  <1>. DEFINE i == c.scid
              g == [h EXCEPT !.bt[d].sockets[i].dcid = c.psm]
              f == [h EXCEPT !.bt[d].sockets[i].state = "CLOSED"]
  <1>1. CASE i \notin Sockets(h, d)
    BY <1>1, KeepsTrans DEF ConnRsp
  <1>2. CASE i \in Sockets(h, d)
    <2>1. Keeps(h, g)
      BY <1>2, ControlParts, SocketChanges
    <2>2. Keeps(h, f)
      BY <1>2, SocketChanges DEF SocketStates
    <2>3. g \in Host
      BY <2>1 DEF Keeps
    <2>. HIDE DEF g, f
    <2>4. Speaks(g, SendAcl(g, d, "CONF_REQ", c.psm, c.scid))
      BY <2>3, ControlParts, SendAclSpeaks DEF Commands
    <2>5. Keeps(h, SendAcl(g, d, "CONF_REQ", c.psm, c.scid))
      BY <2>1, <2>4, KeepsTrans
    <2>6. Keeps(h, h)
      BY KeepsTrans
    <2>7. QED
      BY <1>2, <2>2, <2>5, <2>6 DEF ConnRsp, g, f
  <1>3. QED
    BY <1>1, <1>2

(* The handler of a configuration request opens no socket.                 *)
LEMMA ConfReqKeeps ==
  ASSUME NEW h \in Host, NEW d \in Devices, NEW c \in Control
  PROVE  Keeps(h, ConfReq(h, d, c))
  <1>. DEFINE psm == h.bt[d].sockets[c.scid].dcid
              g == SendAcl(h, d, "CONF_RSP", psm, c.scid)
  <1>1. CASE c.scid \notin Sockets(h, d)
    BY <1>1, KeepsTrans DEF ConfReq
  <1>2. CASE c.scid \in Sockets(h, d)
    <2>1. psm \in Psms \cup {NoEnd} /\ c.scid \in Sids
      BY <1>2, SocketParts
    <2>. HIDE DEF psm
    <2>2. Speaks(h, g)
      BY <2>1, SendAclSpeaks DEF Commands
    <2>. HIDE DEF g
    <2>3. Keeps(g, check_open(g, d, c.scid))
      BY <2>2, CheckKeeps DEF Speaks
    <2>4. ConfReq(h, d, c) = check_open(g, d, c.scid)
      BY <1>2 DEF ConfReq, g, psm
    <2>5. QED
      BY <2>2, <2>3, <2>4, KeepsTrans
  <1>3. QED
    BY <1>1, <1>2

(* The handler of a disconnection request opens no socket.                 *)
LEMMA DisconnReqKeeps ==
  ASSUME NEW h \in Host, NEW d \in Devices, NEW c \in Control
  PROVE  Keeps(h, DisconnReq(h, d, c))
  <1>. DEFINE g == IF c.scid \in Sockets(h, d) THEN Forgotten(h, d, c.scid) ELSE h
  <1>1. Keeps(h, g) /\ g \in Host
    BY ForgottenKeeps, KeepsTrans DEF Keeps
  <1>2. DisconnReq(h, d, c) = SendAcl(g, d, "DISCONN_RSP", c.psm, c.scid)
    BY DEF DisconnReq
  <1>. HIDE DEF g
  <1>3. Speaks(g, SendAcl(g, d, "DISCONN_RSP", c.psm, c.scid))
    BY <1>1, ControlParts, SendAclSpeaks DEF Commands
  <1>4. QED
    BY <1>1, <1>2, <1>3, KeepsTrans

(* One socket that listened for the channel is given its other end.        *)
LEMMA AcceptedKeeps ==
  ASSUME NEW h \in Host, NEW d \in Devices, NEW psm \in Psms, NEW i \in Sockets(h, d)
  PROVE  LET f == Accepted(h, d, psm, i) IN Keeps(h, f) /\ Sockets(f, d) = Sockets(h, d)
  <1>. DEFINE g == SendAcl(h, d, "CONN_RSP", psm, i)
              s == [g.bt[d].sockets[i] EXCEPT !.state = "OPENING", !.dcid = psm]
              k == [g EXCEPT !.bt[d].sockets[i] = s]
              f == SendAcl(k, d, "CONF_REQ", psm, i)
  <1>1. i \in Sids
    BY SocketParts
  <1>2. Speaks(h, g) /\ g \in Host /\ Sockets(g, d) = Sockets(h, d)
    BY <1>1, SendAclSpeaks DEF Commands, Speaks, Sockets
  <1>. HIDE DEF g
  <1>3. g.bt[d].sockets[i] \in Socket /\ g.bt[d].sockets \in [Sockets(g, d) -> Socket]
        /\ g.bt \in [Devices -> Device]
    BY <1>2, DeviceParts, SocketMaps, HostParts
  <1>4. s \in Socket /\ s.q = g.bt[d].sockets[i].q
    BY <1>3 DEF Socket, SocketStates
  <1>5. Accepted(h, d, psm, i) = f
    <2>1. [g EXCEPT !.bt[d].sockets[i].state = "OPENING", !.bt[d].sockets[i].dcid = psm] = k
      <3>. DEFINE m == [g.bt[d].sockets EXCEPT ![i].state = "OPENING"]
                  b == [g.bt[d] EXCEPT !.sockets = m]
                  bt == [g.bt EXCEPT ![d] = b]
      <3>1. [m EXCEPT ![i].dcid = psm] = [g.bt[d].sockets EXCEPT ![i] = s]
        BY <1>2, <1>3
      <3>2. g.bt[d] \in Device
        BY <1>3
      <3>. HIDE DEF m
      <3>3. [b EXCEPT !.sockets[i].dcid = psm]
              = [g.bt[d] EXCEPT !.sockets = [g.bt[d].sockets EXCEPT ![i] = s]]
        BY <3>1, <3>2 DEF Device
      <3>. HIDE DEF b
      <3>4. [bt EXCEPT ![d].sockets[i].dcid = psm]
              = [g.bt EXCEPT ![d] = [g.bt[d] EXCEPT !.sockets = [g.bt[d].sockets EXCEPT ![i] = s]]]
        BY <3>3, <1>3
      <3>. HIDE DEF bt
      <3>5. [[g EXCEPT !.bt = bt] EXCEPT !.bt[d].sockets[i].dcid = psm] = k
        BY <3>4, <1>2, HostParts DEF Fields
      <3>6. QED
        BY <3>5 DEF m, b, bt
    <2>. HIDE DEF k
    <2>2. QED
      BY <2>1 DEF Accepted, g
  <1>. HIDE DEF s
  <1>6. Keeps(g, k) /\ k \in Host /\ Sockets(k, d) = Sockets(g, d)
    BY <1>2, <1>4, SocketKeeps DEF Keeps
  <1>. HIDE DEF k
  <1>7. Speaks(k, f) /\ Sockets(f, d) = Sockets(k, d)
    BY <1>1, <1>6, SendAclSpeaks DEF Commands, Speaks, Sockets
  <1>. HIDE DEF f
  <1>8. Keeps(h, f)
    BY <1>2, <1>6, <1>7, KeepsTrans
  <1>9. QED
    BY <1>2, <1>5, <1>6, <1>7, <1>8

(* The loop over the sockets that a connection request is for opens none:  *)
(* every pass of it keeps the sockets of the device.                       *)
LEMMA ConnReqKeeps ==
  ASSUME NEW h \in Host, NEW d \in Devices, NEW c \in Control
  PROVE  Keeps(h, ConnReq(h, d, c))
  <1>. DEFINE n == h.cid - FirstCid
              X == {g \in Host : Keeps(h, g) /\ Sockets(g, d) = Sockets(h, d)}
              Asks(k) == /\ FirstCid + k - 1 \in Sockets(h, d)
                            /\ h.bt[d].sockets[FirstCid + k - 1].psm = c.psm
              Pass(g, k) == IF Asks(k) THEN Accepted(g, d, c.psm, FirstCid + k - 1) ELSE g
              F == [a \in X \X Nat |-> Pass(a[1], a[2])]
              after == CHOOSE s : s = [k \in 0 .. n |->
                LET i == FirstCid + k - 1 IN
                CASE k = 0 -> h
                  [] k > 0 /\ i \in Sockets(h, d) /\ h.bt[d].sockets[i].psm = c.psm ->
                       Accepted(s[k - 1], d, c.psm, i)
                  [] OTHER -> s[k - 1]]
  <1>1. n \in Nat
    BY HostParts DEF Cids, FirstCid
  <1>2. h \in X
    BY KeepsTrans
  <1>3. ASSUME NEW g \in X, NEW k \in Nat PROVE Pass(g, k) \in X
    <2>1. CASE ~Asks(k)
      BY <2>1
    <2>2. CASE Asks(k)
      <3>. DEFINE f == Accepted(g, d, c.psm, FirstCid + k - 1)
      <3>1. Keeps(g, f) /\ Sockets(f, d) = Sockets(g, d)
        BY <2>2, ControlParts, AcceptedKeeps
      <3>. HIDE DEF f
      <3>2. Keeps(h, f) /\ f \in Host
        BY <3>1, KeepsTrans DEF Keeps
      <3>3. QED
        BY <2>2, <3>1, <3>2 DEF f
    <2>3. QED
      BY <2>1, <2>2
  <1>4. F \in [X \X Nat -> X]
    <2>. HIDE DEF Pass, X
    <2>1. QED
      BY <1>3
  <1>5. PICK s : Passes(s, n, X, h, F)
    <2>. HIDE DEF F, X, n
    <2>1. QED
      BY <1>1, <1>2, <1>4, LoopStates
  <1>6. ASSUME NEW k \in 1 .. n PROVE s[k] = Pass(s[k - 1], k)
    <2>1. k - 1 \in 0 .. n /\ k \in Nat
      BY <1>1
    <2>2. s[k - 1] \in X
      <3>. HIDE DEF X, n
      <3>1. QED
        BY <1>5, <2>1 DEF Passes
    <2>. HIDE DEF Pass, X
    <2>3. QED
      BY <1>5, <2>1, <2>2 DEF Passes
  <1>7. s = [k \in 0 .. n |->
                LET i == FirstCid + k - 1 IN
                CASE k = 0 -> h
                  [] k > 0 /\ i \in Sockets(h, d) /\ h.bt[d].sockets[i].psm = c.psm ->
                       Accepted(s[k - 1], d, c.psm, i)
                  [] OTHER -> s[k - 1]]
    BY <1>1, <1>5, <1>6 DEF Passes
  <1>8. after = [k \in 0 .. n |->
                LET i == FirstCid + k - 1 IN
                CASE k = 0 -> h
                  [] k > 0 /\ i \in Sockets(h, d) /\ h.bt[d].sockets[i].psm = c.psm ->
                       Accepted(after[k - 1], d, c.psm, i)
                  [] OTHER -> after[k - 1]]
    BY <1>7
  <1>9. ConnReq(h, d, c) = after[n]
    BY DEF ConnReq
  <1>. HIDE DEF after
  <1>10. after[0] \in X
    <2>1. after[0] = h
      BY <1>1, <1>8
    <2>. HIDE DEF X
    <2>2. QED
      BY <1>2, <2>1
  <1>11. ASSUME NEW k \in 1 .. n, after[k - 1] \in X PROVE after[k] \in X
    <2>1. after[k] = Pass(after[k - 1], k)
      BY <1>1, <1>8
    <2>. HIDE DEF X, Pass
    <2>2. QED
      BY <1>3, <1>11, <2>1
  <1>12. after[n] \in X
    <2>. HIDE DEF X, n
    <2>1. QED
      BY <1>1, <1>10, <1>11, LoopStays
  <1>13. QED
    BY <1>9, <1>12

(* BTDevice.control, whatever the signal, opens no socket.                 *)
LEMMA ControlKeeps ==
  ASSUME NEW h \in Host, NEW d \in Devices, NEW c \in Control
  PROVE  Keeps(h, control(h, d, c))
  <1>. DEFINE g == Marked(h, d, c.cmd)
  <1>1. Keeps(h, g) /\ g \in Host
    BY ControlParts, MarkedKeeps DEF Keeps
  <1>2. control(h, d, c) =
          CASE c.cmd = "CONN_RSP" -> ConnRsp(g, d, c)
            [] c.cmd = "CONF_RSP" -> check_open(g, d, c.scid)
            [] c.cmd = "CONF_REQ" -> ConfReq(g, d, c)
            [] c.cmd = "DISCONN_REQ" -> DisconnReq(g, d, c)
            [] c.cmd = "DISCONN_RSP" -> l2_close(g, c.scid, TRUE)
            [] c.cmd = "CONN_REQ" -> ConnReq(g, d, c)
    BY DEF control
  <1>. HIDE DEF g
  <1>3. /\ Keeps(g, ConnRsp(g, d, c)) /\ Keeps(g, check_open(g, d, c.scid))
        /\ Keeps(g, ConfReq(g, d, c)) /\ Keeps(g, DisconnReq(g, d, c))
        /\ Keeps(g, l2_close(g, c.scid, TRUE)) /\ Keeps(g, ConnReq(g, d, c))
    BY <1>1, ConnRspKeeps, CheckKeeps, ConfReqKeeps, DisconnReqKeeps, CloseKeeps, ConnReqKeeps
  <1>4. Keeps(g, control(h, d, c))
    BY <1>2, <1>3, ControlParts DEF Commands
  <1>5. QED
    BY <1>1, <1>4, KeepsTrans

(* The fields of a fragment received.                                      *)
LEMMA RxAclParts ==
  ASSUME NEW p \in RxAcl
  PROVE  /\ p.handle \in Handles /\ p.first \in BOOLEAN /\ p.size \in Nat /\ p.into \in Nat
         /\ p.load \in Load /\ (p.first /\ p.into = 1 => p.load \in Control)
  BY DEF RxAcl

(* A fragment added to what is held changes no socket.                     *)
LEMMA AssembledKeeps ==
  ASSUME NEW h \in Host, NEW d \in Devices, NEW p \in RxAcl
  PROVE  LET g == Assembled(h, d, p)
         IN /\ Keeps(h, g) /\ Sockets(g, d) = Sockets(h, d)
            /\ g.bt[d].handle = h.bt[d].handle /\ (p.first => g.bt[d].into = p.into)
  <1>. DEFINE held == h.bt[d].held + 1
              size == IF p.first THEN p.size ELSE h.bt[d].size
              into == IF p.first THEN p.into ELSE h.bt[d].into
              b == [h.bt[d] EXCEPT !.held = held, !.size = size, !.into = into]
              g == [h EXCEPT !.bt[d] = b]
  <1>1. h.bt[d] \in Device
    BY DeviceParts
  <1>2. b \in Device /\ b.sockets = h.bt[d].sockets /\ (p.first => b.into = p.into)
        /\ Stays(b, h.bt[d]) /\ b.handle = h.bt[d].handle
    <2>1. held \in Nat /\ size \in Nat /\ into \in Nat /\ (p.first => into = p.into)
      BY DeviceParts, RxAclParts
    <2>. HIDE DEF held, size, into
    <2>2. QED
      BY <1>1, <2>1 DEF Device, Stays, Waits
  <1>3. Assembled(h, d, p) = g
    BY DEF Assembled
  <1>. HIDE DEF b
  <1>4. Keeps(h, g) /\ g.bt[d] = b /\ Sockets(g, d) = DOMAIN b.sockets
    BY <1>2, DeviceKeeps, DeviceParts
  <1>. HIDE DEF g
  <1>5. QED
    BY <1>2, <1>3, <1>4, DeviceParts

(* BTDevice.data: neither a signal nor the data of a socket opens one.     *)
LEMMA DataKeeps ==
  ASSUME NEW h \in Host, NEW d \in Devices, NEW p \in RxAcl, h.bt[d].handle \in Handles
  PROVE  Keeps(h, data(h, d, p))
  <1>. DEFINE g == Assembled(h, d, p)
              b == [g.bt[d] EXCEPT !.held = 0]
              done == [g EXCEPT !.bt[d] = b]
              whole == g.bt[d].held = g.bt[d].size
              i == g.bt[d].into
              q == Queued(done.bt[d].sockets[i].q, p.load)
              f == [done EXCEPT !.bt[d].sockets[i].q = q]
  <1>1. Keeps(h, g) /\ g \in Host /\ (p.first => i = p.into) /\ g.bt[d].handle \in Handles
    BY AssembledKeeps DEF Keeps
  <1>2. data(h, d, p) = CASE ~whole -> g
                          [] whole /\ i = 1 /\ p.first -> control(done, d, p.load)
                          [] whole /\ i \in Sockets(g, d) -> f
                          [] OTHER -> done
    BY DEF data
  <1>. HIDE DEF g
  <1>3. b \in Device /\ b.sockets = g.bt[d].sockets /\ Stays(b, g.bt[d])
        /\ b.handle = g.bt[d].handle
    BY <1>1, DeviceParts DEF Device, Stays, Waits
  <1>. HIDE DEF b
  <1>4. Keeps(g, done) /\ done \in Host /\ Sockets(done, d) = Sockets(g, d)
        /\ done.bt[d].handle \in Handles
    <2>1. Sockets(g, d) = DOMAIN g.bt[d].sockets
      BY <1>1, DeviceParts
    <2>2. Keeps(g, done) /\ Sockets(done, d) = DOMAIN b.sockets /\ done.bt[d] = b
      BY <1>1, <1>3, <2>1, DeviceKeeps
    <2>3. QED
      BY <1>1, <1>3, <2>1, <2>2 DEF Keeps
  <1>5. Sockets(g, d) \in SUBSET Cids
    BY <1>1, DeviceParts
  <1>. HIDE DEF done
  <1>6. ASSUME i = 1, p.first PROVE Keeps(done, control(done, d, p.load))
    <2>1. p.load \in Control
      BY <1>1, <1>6, RxAclParts
    <2>2. QED
      BY <1>4, <2>1, ControlKeeps
  <1>7. ASSUME i \in Sockets(g, d) PROVE Keeps(done, f) /\ i # 1
    <2>1. i \in Sockets(done, d)
      BY <1>4, <1>7
    <2>2. q \in Seq(Load)
      BY <1>4, <2>1, SocketParts, RxAclParts, QueuedType
    <2>. HIDE DEF q
    <2>3. Keeps(done, f)
      <3>1. done.bt[d].handle \in Handles /\ done \in Host
        BY <1>4
      <3>. DEFINE j == i
      <3>2. j \in Sockets(done, d)
        BY <2>1
      <3>. HIDE DEF j
      <3>3. Keeps(done, [done EXCEPT !.bt[d].sockets[j].q = q])
        BY <2>2, <3>1, <3>2, SocketChanges
      <3>4. QED
        BY <3>3, Zenon DEF j
    <2>4. i # 1
      <3>1. i \in Cids /\ 1 \notin Cids
        BY <1>5, <1>7 DEF Cids, FirstCid
      <3>2. QED
        BY <3>1
    <2>5. QED
      BY <2>3, <2>4
  <1>8. Keeps(g, g) /\ Keeps(g, done)
    BY <1>1, <1>4, KeepsTrans
  <1>. HIDE DEF f, i, whole
  <1>9. Keeps(g, data(h, d, p))
    <2>1. CASE ~whole
      BY <1>2, <1>8, <2>1
    <2>2. CASE whole /\ i = 1 /\ p.first
      <3>1. data(h, d, p) = control(done, d, p.load)
        BY <1>2, <1>7, <2>2
      <3>2. QED
        BY <3>1, <1>1, <1>4, <1>6, <2>2, KeepsTrans
    <2>3. CASE whole /\ i \in Sockets(g, d)
      <3>1. data(h, d, p) = f
        BY <1>2, <1>7, <2>3
      <3>2. QED
        BY <3>1, <1>1, <1>4, <1>7, <2>3, KeepsTrans
    <2>4. QED
      BY <1>2, <1>8, <2>1, <2>2, <2>3
  <1>10. QED
    BY <1>1, <1>9, KeepsTrans

----------------------------------------------------------------------------
(* HidHost: the callbacks that leave the slots of the remotes alone.       *)

(* A call with which no device gets an id.                                 *)
Minor(h, g) == /\ g \in Host /\ \A d : Effect(h, g, d)
               /\ (g.state = NotSent => h.state = NotSent)

(* Calls that give no device an id, in a row, and after one that does.     *)
LEMMA MinorTrans ==
  /\ \A h \in Host : Minor(h, h)
  /\ \A h \in Host : \A g : Keeps(h, g) \/ Speaks(h, g) => Minor(h, g)
  /\ \A h \in Host : \A g, f : Minor(h, g) /\ Minor(g, f) => Minor(h, f)
  /\ \A h \in Host : \A g, f : \A d : Effect(h, g, d) /\ Minor(g, f) => Effect(h, f, d)
  BY EffectSame, EffectTrans DEF Minor, Keeps, Speaks, Effect

(* A change of an input device that gives it no new id.                    *)
LEMMA InputMinor ==
  ASSUME NEW h \in Host, NEW d \in Devices, NEW i \in Input,
         Ids(i) \subseteq Claims(h, d), i.wii = h.inp[d].wii
  PROVE  Minor(h, [h EXCEPT !.inp[d] = i])
  BY PutInput DEF Minor

(* The state and the reconnect flag of an InputDevice hold no id.          *)
LEMMA OldIds ==
  ASSUME NEW h \in Host, NEW d \in Devices
  PROVE  /\ \A x \in InputStates : Minor(h, [h EXCEPT !.inp[d].state = x])
         /\ \A x \in BOOLEAN : Minor(h, [h EXCEPT !.inp[d].reconnect = x])
         /\ \A x \in InputStates, y \in BOOLEAN :
              Minor(h, [h EXCEPT !.inp[d].reconnect = y, !.inp[d].state = x])
  <1>1. h.inp[d] \in Input
    BY InputParts
  <1>2. ASSUME NEW x \in InputStates PROVE Minor(h, [h EXCEPT !.inp[d].state = x])
    <2>. DEFINE i == [h.inp[d] EXCEPT !.state = x]
    <2>1. i \in Input /\ i.wii = h.inp[d].wii /\ Ids(i) = Ids(h.inp[d])
      BY <1>1 DEF Input, Ids
    <2>2. [h EXCEPT !.inp[d].state = x] = [h EXCEPT !.inp[d] = i]
      OBVIOUS
    <2>. HIDE DEF i
    <2>3. QED
      BY <2>1, <2>2, InputMinor DEF Claims
  <1>3. ASSUME NEW x \in BOOLEAN PROVE Minor(h, [h EXCEPT !.inp[d].reconnect = x])
    <2>. DEFINE i == [h.inp[d] EXCEPT !.reconnect = x]
    <2>1. i \in Input /\ i.wii = h.inp[d].wii /\ Ids(i) = Ids(h.inp[d])
      BY <1>1 DEF Input, Ids
    <2>2. [h EXCEPT !.inp[d].reconnect = x] = [h EXCEPT !.inp[d] = i]
      OBVIOUS
    <2>. HIDE DEF i
    <2>3. QED
      BY <2>1, <2>2, InputMinor DEF Claims
  <1>4. ASSUME NEW x \in InputStates, NEW y \in BOOLEAN
        PROVE  Minor(h, [h EXCEPT !.inp[d].reconnect = y, !.inp[d].state = x])
    <2>. DEFINE i == [h.inp[d] EXCEPT !.reconnect = y, !.state = x]
    <2>1. i \in Input /\ i.wii = h.inp[d].wii /\ Ids(i) = Ids(h.inp[d])
      BY <1>1 DEF Input, Ids
    <2>2. [h EXCEPT !.inp[d].reconnect = y, !.inp[d].state = x] = [h EXCEPT !.inp[d] = i]
      BY HostParts DEF Fields
    <2>. HIDE DEF i
    <2>3. QED
      BY <2>1, <2>2, InputMinor DEF Claims
  <1>5. QED
    BY <1>2, <1>3, <1>4

(* InputDevice.connect asks the controller, which the device waits for,    *)
(* and gives no id.                                                        *)
LEMMA ConnectMinor ==
  ASSUME NEW h \in Host, NEW d \in Devices, h.bt[d].known
  PROVE  Minor(h, connect(h, d))
  <1>. DEFINE g == [h EXCEPT !.inp[d].reconnect = FALSE, !.inp[d].state = "CONNECT"]
              b == [g.bt[d] EXCEPT !.seen = {}, !.handle = 0]
              f == [g EXCEPT !.bt[d] = b]
              r == Cmd(f, "CREATE_CONNECTION", d)
  <1>1. Minor(h, g) /\ g \in Host /\ g.bt[d].known
    <2>1. Minor(h, g) /\ g \in Host
      BY OldIds DEF InputStates, Minor
    <2>. HIDE DEF g
    <2>2. Tracks(h, g)
      BY <2>1 DEF Minor, Effect
    <2>3. QED
      BY <2>1, <2>2 DEF Tracks
  <1>2. connect(h, d) = Connecting(g, d)
    BY DEF connect
  <1>. HIDE DEF g
  <1>3. g.bt[d] \in Device /\ 0 \in Links
    BY <1>1, DeviceParts DEF Links
  <1>4. /\ b \in Device /\ b.sockets = g.bt[d].sockets /\ b.known = g.bt[d].known
        /\ b.handle = 0
    BY <1>3 DEF Device
  <1>5. Connecting(g, d) = IF g.bt[d].handle # NoHandle THEN g ELSE r
    <2>1. [g EXCEPT !.bt[d].seen = {}, !.bt[d].handle = 0] = f
      BY <1>1, HostParts DEF Fields
    <2>. HIDE DEF f
    <2>2. QED
      BY <2>1 DEF Connecting
  <1>. HIDE DEF b
  <1>6. /\ f \in Host /\ \A e : Claimed(g, f, e)
        /\ f.bt[d] = b /\ f.inp = g.inp /\ f.tx = g.tx
        /\ \A e \in Devices \ {d} : f.bt[e] = g.bt[e]
    <2>1. DOMAIN b.sockets \subseteq Sockets(g, d)
      BY <1>4 DEF Sockets
    <2>2. QED
      BY <1>1, <1>4, <2>1, PutDevice
  <1>. HIDE DEF f
  <1>. DEFINE p == [op |-> "CREATE_CONNECTION", dev |-> d]
              q == Queued(f.tx, p)
  <1>7. /\ \A e : Effect(f, r, e)
        /\ r.bt = f.bt /\ r.inp = f.inp /\ r.tx = q
    <2>1. p \in TxQuiet /\ p \in TxPacket /\ f.bt[p.dev].known
      BY <1>1, <1>4, <1>6 DEF TxQuiet, TxPacket, DeviceOps, AddressOps
    <2>2. r = [f EXCEPT !.tx = q]
      BY DEF Cmd
    <2>. HIDE DEF p, q
    <2>3. LET x == [f EXCEPT !.tx = Queued(f.tx, p)]
          IN (\A e : Effect(f, x, e)) /\ x.bt = f.bt /\ x.inp = f.inp /\ x.tx = Queued(f.tx, p)
      BY <1>6, <2>1, PutPacket
    <2>4. QED
      BY <2>2, <2>3 DEF q
  <1>. HIDE DEF r
  <1>8. ASSUME g.bt[d].handle = NoHandle PROVE Minor(g, r)
    <2>1. \A e : Claimed(g, r, e)
      BY <1>1, <1>6, <1>7, ClaimedTrans DEF Effect
    <2>2. Creates(r, d) \/ Len(r.tx) >= QSIZE
      <3>1. p.op = "CREATE_CONNECTION" /\ p.dev = d /\ f.tx \in Seq(TxPacket)
        BY <1>6, HostParts
      <3>. HIDE DEF p
      <3>2. QED
        BY <1>7, <3>1, QueuedOrder
    <2>3. \A e \in Devices : Creates(f, e) <=> Creates(g, e)
      BY <1>6 DEF Creates
    <2>4. Tracks(g, r)
      <3>1. ASSUME NEW e \in Devices
            PROVE  /\ g.bt[e].known => r.bt[e].known
                   /\ Creates(g, e) => Creates(r, e)
                   /\ Creates(r, e) => Creates(g, e) \/ r.bt[e].known
                   /\ \/ Handle(r, e) = Handle(g, e)
                      \/ Handle(g, e) = NoHandle /\ Handle(r, e) = 0 /\ Calling(r, e)
        <4>1. /\ Creates(f, e) => Creates(r, e)
              /\ Creates(r, e) => Creates(f, e) \/ r.bt[e].known
          BY <1>7 DEF Effect, Tracks
        <4>2. CASE e = d
          BY <1>1, <1>4, <1>6, <1>7, <1>8, <2>2, <2>3, <4>1, <4>2 DEF Handle, Calling
        <4>3. CASE e # d
          BY <1>6, <1>7, <2>3, <4>1, <4>3 DEF Handle
        <4>4. QED
          BY <4>2, <4>3
      <3>2. Len(r.tx) >= Len(g.tx)
        BY <1>6, <1>7 DEF Effect, Tracks
      <3>3. QED
        BY <3>1, <3>2 DEF Tracks
    <2>5. Feeds(g, r)
      <3>1. \A e \in Devices : /\ Waits(r.bt[e]) => Waits(g.bt[e])
                               /\ r.inp[e].wii = g.inp[e].wii
        BY <1>4, <1>6, <1>7 DEF Waits
      <3>2. \A e \in Devices : Handle(g, e) \in Handles => Handle(r, e) = Handle(g, e)
        BY <1>6, <1>7, <1>8, HandleAssumption DEF Handle, NoHandle
      <3>3. DataLinked(g) => DataLinked(r)
        BY <3>1, <3>2 DEF DataLinked
      <3>4. SlotsLinked(g) => SlotsLinked(r)
        BY <3>1, <3>2 DEF SlotsLinked
      <3>5. QED
        BY <3>3, <3>4 DEF Feeds
    <2>6. QED
      BY <2>1, <2>4, <2>5 DEF Minor, Effect, Claimed
  <1>9. Minor(g, g)
    BY <1>1, MinorTrans
  <1>10. QED
    BY <1>1, <1>2, <1>5, <1>8, <1>9, MinorTrans

(* InputDevice.connection_request gives no id.                             *)
LEMMA ConnectionRequestMinor ==
  ASSUME NEW h \in Host, NEW d \in Devices
  PROVE  Minor(h, connection_request(h, d))
  <1>. DEFINE g == [h EXCEPT !.inp[d].reconnect = TRUE]
  <1>1. Minor(h, g) /\ g \in Host
    BY OldIds DEF Minor
  <1>2. connection_request(h, d) = Cmd(g, "ACCEPT_CONNECTION_REQUEST", d)
    BY DEF connection_request
  <1>. HIDE DEF g
  <1>3. Speaks(g, Cmd(g, "ACCEPT_CONNECTION_REQUEST", d))
    BY <1>1, CmdSpeaks DEF DeviceOps, AddressOps
  <1>4. QED
    BY <1>1, <1>2, <1>3, MinorTrans

(* The two HID channels are opened with new ids, which the device then     *)
(* remembers.                                                              *)
LEMMA OpenHidEffect ==
  ASSUME NEW h \in Host, NEW d \in Devices, NEW listen \in BOOLEAN
  PROVE  Effect(h, OpenHid(h, d, listen), d)
  <1>. DEFINE g == l2_open(h, d, "control", listen)
              f == l2_open(g, d, "interrupt", listen)
              i == [f.inp[d] EXCEPT !.control = h.cid, !.interrupt = g.cid]
              r == [f EXCEPT !.inp[d] = i]
  <1>1. Effect(h, g, d) /\ g \in Host /\ Sockets(g, d) = Sockets(h, d) \cup {h.cid}
    BY OpenEffect DEF Psms, Effect, Claimed
  <1>2. h.cid \in Sids /\ h.cid \in Sockets(g, d)
    BY <1>1, HostParts DEF Sids
  <1>3. OpenHid(h, d, listen) = [f EXCEPT !.inp[d].control = h.cid, !.inp[d].interrupt = g.cid]
    BY DEF OpenHid
  <1>. HIDE DEF g
  <1>4. Effect(g, f, d) /\ f \in Host /\ Sockets(f, d) = Sockets(g, d) \cup {g.cid}
    BY <1>1, OpenEffect DEF Psms, Effect, Claimed
  <1>5. g.cid \in Sids
    BY <1>1, HostParts DEF Sids
  <1>. HIDE DEF f
  <1>6. f.inp[d] \in Input /\ f.inp \in [Devices -> Input]
    BY <1>4, HostParts
  <1>7. i \in Input /\ i.wii = f.inp[d].wii
        /\ Ids(i) \subseteq Ids(f.inp[d]) \cup {h.cid, g.cid}
    BY <1>2, <1>5, <1>6 DEF Input, Ids
  <1>8. OpenHid(h, d, listen) = r
    BY <1>3, <1>4, <1>6, HostParts DEF Fields
  <1>9. Ids(i) \subseteq Claims(f, d)
    BY <1>1, <1>2, <1>4, <1>7 DEF Claims
  <1>. HIDE DEF i
  <1>10. Minor(f, r)
    BY <1>4, <1>7, <1>9, InputMinor
  <1>. HIDE DEF r
  <1>11. QED
    BY <1>1, <1>4, <1>8, <1>10, EffectTrans DEF Minor

(* InputDevice.connection_complete may open the SDP socket.                *)
LEMMA ConnectionCompleteEffect ==
  ASSUME NEW h \in Host, NEW d \in Devices
  PROVE  Effect(h, connection_complete(h, d), d)
  <1>. DEFINE g == IF h.inp[d].reconnect THEN OpenHid(h, d, TRUE) ELSE h
              f == [g EXCEPT !.inp[d].state = "READING_NAME"]
              r == Cmd(f, "REMOTE_NAME_REQUEST", d)
  <1>1. Effect(h, g, d) /\ g \in Host
    BY OpenHidEffect, EffectSame DEF Effect, Claimed
  <1>2. connection_complete(h, d) = r
    BY DEF connection_complete
  <1>. HIDE DEF g
  <1>3. Minor(g, f) /\ f \in Host
    BY <1>1, OldIds DEF InputStates, Minor
  <1>. HIDE DEF f
  <1>4. Minor(f, r)
    BY <1>3, CmdSpeaks, MinorTrans DEF DeviceOps, AddressOps
  <1>. HIDE DEF r
  <1>5. QED
    BY <1>1, <1>2, <1>3, <1>4, MinorTrans

(* The request to authenticate gives no id.                                *)
LEMMA AuthenticateMinor ==
  ASSUME NEW h \in Host, NEW d \in Devices
  PROVE  Minor(h, Authenticate(h, d))
  <1>. DEFINE g == IF h.bt[d].handle # NoHandle THEN AskAuthentication(h, d) ELSE h
              f == [g EXCEPT !.inp[d].state = "AUTHENTICATING"]
  <1>1. Minor(h, AskAuthentication(h, d))
    BY AskSpeaks, MinorTrans
  <1>2. Minor(h, g) /\ g \in Host
    BY <1>1, MinorTrans DEF Minor
  <1>3. Authenticate(h, d) = f
    BY DEF Authenticate
  <1>. HIDE DEF g
  <1>4. Minor(g, f)
    BY <1>2, OldIds DEF InputStates
  <1>. HIDE DEF f
  <1>5. QED
    BY <1>2, <1>3, <1>4, MinorTrans

(* InputDevice.remote_name_response may open the SDP socket.               *)
LEMMA RemoteNameEffect ==
  ASSUME NEW h \in Host, NEW d \in Devices
  PROVE  Effect(h, remote_name_response(h, d), d)
  <1>. DEFINE g == [h EXCEPT !.inp[d].state = "OPENING"]
              f == l2_open(h, d, "sdp", FALSE)
              i == [f.inp[d] EXCEPT !.sdp = h.cid, !.state = "READING_SDP"]
              r == [f EXCEPT !.inp[d] = i]
  <1>1. Effect(h, g, d)
    BY OldIds DEF InputStates, Minor
  <1>2. Effect(h, Authenticate(h, d), d)
    BY AuthenticateMinor DEF Minor
  <1>3. Effect(h, f, d) /\ f \in Host /\ Sockets(f, d) = Sockets(h, d) \cup {h.cid}
    BY OpenEffect DEF Psms, Effect, Claimed
  <1>4. remote_name_response(h, d) =
          IF h.inp[d].reconnect THEN g
          ELSE IF d \in h.keys THEN Authenticate(h, d)
          ELSE [f EXCEPT !.inp[d].sdp = h.cid, !.inp[d].state = "READING_SDP"]
    BY InputParts DEF remote_name_response
  <1>. HIDE DEF f, g
  <1>5. f.inp[d] \in Input /\ h.cid \in Sids
    BY <1>3, HostParts DEF Sids
  <1>6. i \in Input /\ i.wii = f.inp[d].wii /\ Ids(i) \subseteq Ids(f.inp[d]) \cup {h.cid}
    BY <1>5 DEF Input, Ids, InputStates
  <1>7. [f EXCEPT !.inp[d].sdp = h.cid, !.inp[d].state = "READING_SDP"] = r
    BY <1>3, HostParts DEF Fields
  <1>8. Ids(i) \subseteq Claims(f, d)
    BY <1>3, <1>6 DEF Claims
  <1>. HIDE DEF i
  <1>9. Minor(f, r)
    BY <1>3, <1>6, <1>8, InputMinor
  <1>. HIDE DEF r
  <1>10. Effect(h, r, d)
    BY <1>3, <1>9, MinorTrans
  <1>11. QED
    BY <1>1, <1>2, <1>4, <1>7, <1>10

(* InputDevice.authentication_complete may open the HID channels.          *)
LEMMA AuthenticationCompleteEffect ==
  ASSUME NEW h \in Host, NEW d \in Devices
  PROVE  Effect(h, authentication_complete(h, d), d)
  BY OpenHidEffect, EffectSame DEF authentication_complete

(* InputDevice.socket_changed gives no id.                                 *)
LEMMA SocketChangedMinor ==
  ASSUME NEW h \in Host, NEW d \in Devices, NEW s
  PROVE  Minor(h, socket_changed(h, d, s))
  <1>. DEFINE i == [h.inp[d] EXCEPT !.handler = s]
              g == [h EXCEPT !.inp[d].handler = s]
  <1>1. CASE s = h.inp[d].sdp
    <2>1. h.inp[d] \in Input /\ s \in Sids
      BY <1>1, InputParts
    <2>2. i \in Input /\ i.wii = h.inp[d].wii /\ Ids(i) \subseteq Ids(h.inp[d])
      BY <1>1, <2>1 DEF Input, Ids
    <2>3. g = [h EXCEPT !.inp[d] = i]
      OBVIOUS
    <2>. HIDE DEF i
    <2>4. Minor(h, g) /\ g \in Host
      <3>1. Minor(h, [h EXCEPT !.inp[d] = i])
        BY <2>2, InputMinor DEF Claims
      <3>2. QED
        BY <2>3, <3>1 DEF Minor
    <2>5. socket_changed(h, d, s) = h \/ socket_changed(h, d, s) = l2_send(g, s, "SEARCH")
      BY DEF socket_changed, SdpSearch
    <2>. HIDE DEF g
    <2>6. Speaks(g, l2_send(g, s, "SEARCH"))
      BY <2>4, SendSpeaks DEF Data
    <2>7. Minor(h, l2_send(g, s, "SEARCH"))
      BY <2>4, <2>6, MinorTrans
    <2>8. QED
      BY <2>5, <2>7, MinorTrans
  <1>2. CASE s # h.inp[d].sdp
    BY <1>2, MinorTrans DEF socket_changed
  <1>3. QED
    BY <1>1, <1>2

(* InputDevice.update_sdp may close the SDP socket, and gives no id.       *)
LEMMA UpdateSdpMinor ==
  ASSUME NEW h \in Host, NEW d \in Devices
  PROVE  Minor(h, update_sdp(h, d))
  <1>. DEFINE s == h.inp[d].handler
              k == l2_recv(h, s)
              g == SdpAnswered(h, s)
              f == l2_close(g, g.inp[d].sdp, TRUE)
              i == [f.inp[d] EXCEPT !.handler = 0, !.sdp = 0]
              r == [f EXCEPT !.inp[d] = i]
              a == Authenticate(r, d)
  <1>1. Keeps(h, k) /\ k \in Host
    BY RecvKeeps DEF Keeps
  <1>2. Keeps(h, g) /\ g \in Host
    <2>. HIDE DEF s
    <2>1. g = k \/ g = l2_send(k, s, "SEARCH")
      BY DEF SdpAnswered, SdpSearch
    <2>. HIDE DEF k
    <2>2. Speaks(k, l2_send(k, s, "SEARCH"))
      BY <1>1, SendSpeaks DEF Data
    <2>. HIDE DEF g
    <2>3. Keeps(h, g)
      BY <1>1, <2>1, <2>2, KeepsTrans
    <2>4. QED
      BY <2>3 DEF Keeps
  <1>3. update_sdp(h, d) \in {h, g, Authenticate([f EXCEPT !.inp[d].handler = 0, !.inp[d].sdp = 0], d)}
    <2>. HIDE DEF g
    <2>1. QED
      BY DEF update_sdp, g
  <1>. HIDE DEF g
  <1>4. Keeps(g, f) /\ f \in Host
    BY <1>2, CloseKeeps DEF Keeps
  <1>. HIDE DEF f
  <1>5. f.inp[d] \in Input
    BY <1>4, InputParts
  <1>6. i \in Input /\ i.wii = f.inp[d].wii /\ Ids(i) \subseteq Ids(f.inp[d])
    BY <1>5 DEF Input, Ids, Sids
  <1>7. [f EXCEPT !.inp[d].handler = 0, !.inp[d].sdp = 0] = r
    BY <1>4, HostParts DEF Fields
  <1>. HIDE DEF i
  <1>8. Minor(f, r) /\ r \in Host
    <2>1. Minor(f, r)
      BY <1>4, <1>6, InputMinor DEF Claims
    <2>2. QED
      BY <2>1 DEF Minor
  <1>. HIDE DEF r
  <1>9. Minor(r, a)
    BY <1>8, AuthenticateMinor
  <1>. HIDE DEF a
  <1>10. Minor(h, g) /\ Minor(h, f) /\ Minor(h, r) /\ Minor(h, a) /\ Minor(h, h)
    BY <1>2, <1>4, <1>8, <1>9, MinorTrans
  <1>11. QED
    BY <1>3, <1>7, <1>10 DEF a

----------------------------------------------------------------------------
(* HidHost: the slots of the remotes.                                      *)

(* A device with a slot is one of _devices, the slot says so, and no other *)
(* device has it.                                                          *)
SlotsOK(h) ==
  /\ \A d \in Devices : h.inp[d].wii # NoSlot =>
       Found(h, d) /\ "wiimote" \in h.slots[h.inp[d].wii]
  /\ \A i \in WiiSlots : h.slots[i] # {} => \E d \in Devices : h.inp[d].wii = i
  /\ \A d, e \in Devices : d # e /\ h.inp[d].wii # NoSlot => h.inp[e].wii # h.inp[d].wii

(* Only a device HCI knows is one of _devices, is called or has a handle.  *)
KnownOK(h) == \A d \in Devices :
  Found(h, d) \/ Creates(h, d) \/ Handle(h, d) # NoHandle => h.bt[d].known
Good(h) == h \in Host /\ Own(h) /\ SlotsOK(h) /\ KnownOK(h)

(* What a call leaves when it adds no device to _devices, and when only    *)
(* linked devices have data or a slot after it as before.                  *)
Serves(h, g) == /\ Good(g) /\ g.hids = h.hids /\ (g.state = NotSent => h.state = NotSent)
                /\ Tracks(h, g)
Attends(h, g) == Serves(h, g) /\ Feeds(h, g)

(* A device that is known stays known, and it takes one that is known to   *)
(* be called or to get a handle.                                           *)
LEMMA TracksKnown ==
  ASSUME NEW h, NEW g, KnownOK(h), Tracks(h, g), g.hids = h.hids
  PROVE  KnownOK(g)
  BY DEF KnownOK, Tracks, Found, Handle, Calling

(* Calls that keep the invariant, in a row; a call about one device is one *)
(* of them.                                                                *)
LEMMA ServesTrans ==
  /\ \A h : Good(h) => Attends(h, h)
  /\ \A h, g, f : Good(h) /\ Serves(h, g) /\ Serves(g, f) => Serves(h, f)
  /\ \A h, g, f : Good(h) /\ Attends(h, g) /\ Attends(g, f) => Attends(h, f)
  /\ \A h, g, d : Good(h) /\ Effect(h, g, d) => Attends(h, g)
  /\ \A h, g : Good(h) /\ Minor(h, g) => Attends(h, g)
  <1>1. ASSUME NEW h, NEW g, NEW d, Good(h), Effect(h, g, d)
        PROVE  Attends(h, g)
    <2>1. Own(g) /\ g \in Host
      BY <1>1, EffectOwn DEF Good, Effect, Claimed
    <2>2. SlotsOK(g)
      BY <1>1 DEF Good, SlotsOK, Effect, Claimed, SameSlots, Found
    <2>3. KnownOK(g)
      BY <1>1, TracksKnown DEF Good, Effect, Claimed, SameSlots
    <2>4. QED
      BY <2>1, <2>2, <2>3, <1>1 DEF Attends, Serves, Good, Effect, Claimed, SameSlots
  <1>2. ASSUME NEW h, Good(h) PROVE Effect(h, h, h)
    BY <1>2, EffectSame DEF Good
  <1>3. ASSUME NEW h, NEW g, NEW f, Good(h), Serves(h, g), Serves(g, f) PROVE Serves(h, f)
    BY <1>3, TracksTrans DEF Serves, Good
  <1>4. QED
    BY <1>1, <1>2, <1>3 DEF Attends, Feeds, Minor

Slotted(h, d, i, S) == [h EXCEPT !.inp[d] = i, !.slots = S]

(* A change of the slots and of the slot of one InputDevice.               *)
LEMMA PutSlots ==
  ASSUME NEW h \in Host, Own(h), NEW d \in Devices, NEW i \in Input,
         Ids(i) \subseteq Claims(h, d), NEW S \in [WiiSlots -> SUBSET SlotFlags]
  PROVE  LET g == Slotted(h, d, i, S)
         IN /\ g \in Host /\ Own(g) /\ g.hids = h.hids /\ g.state = h.state /\ g.slots = S
            /\ g.inp[d] = i /\ \A e \in Devices \ {d} : g.inp[e] = h.inp[e]
            /\ g.bt = h.bt /\ Tracks(h, g)
  <1>. DEFINE inp == [h.inp EXCEPT ![d] = i]
              g == [h EXCEPT !.inp = inp, !.slots = S]
  <1>0. h \in Fields /\ h.inp \in [Devices -> Input]
    BY HostParts
  <1>1. inp \in [Devices -> Input] /\ inp[d] = i /\ \A e \in Devices \ {d} : inp[e] = h.inp[e]
    BY <1>0
  <1>. HIDE DEF inp
  <1>2. g \in Fields
    BY <1>0, <1>1 DEF Fields
  <1>3. /\ g.inp = inp /\ g.bt = h.bt /\ g.cid = h.cid /\ g.state = h.state /\ g.tx = h.tx
        /\ g.slots = S /\ g.hids = h.hids
    BY HostParts DEF Fields
  <1>4. g \in Host
    BY <1>2, <1>3, HostParts DEF Host
  <1>5. h.cid \in Nat
    BY HostParts DEF Cids
  <1>6. \A e \in Devices : Claims(g, e) \subseteq Claims(h, e)
    <2>. HIDE DEF g
    <2>1. QED
      BY <1>1, <1>3 DEF Claims, Sockets
  <1>7. Grows(h, g, d)
    <2>. HIDE DEF g
    <2>1. QED
      BY <1>3, <1>5, <1>6 DEF Grows
  <1>8. Own(g)
    <2>. HIDE DEF g
    <2>1. QED
      BY <1>4, <1>7, EffectOwn
  <1>9. Slotted(h, d, i, S) = g
    BY DEF Slotted, inp
  <1>10. g.inp[d] = i /\ \A e \in Devices \ {d} : g.inp[e] = h.inp[e]
    <2>. HIDE DEF g
    <2>1. QED
      BY <1>1, <1>3
  <1>11. Tracks(h, g)
    <2>. HIDE DEF g
    <2>1. QED
      BY <1>3, TracksSame
  <1>12. QED
    <2>. HIDE DEF g
    <2>1. QED
      BY <1>3, <1>4, <1>8, <1>9, <1>10, <1>11

(* The slot a remote has is one of wii_states.                             *)
LEMMA SlotOf ==
  ASSUME NEW h \in Host, NEW d \in Devices, h.inp[d].wii # NoSlot
  PROVE  /\ h.inp[d].wii \in WiiSlots /\ h.slots[h.inp[d].wii] \in SUBSET SlotFlags
         /\ NoSlot \notin WiiSlots
  <1>1. h.inp[d].wii \in WiiSlots
    BY InputParts
  <1>2. NoSlot \notin WiiSlots
    BY ClassAssumption DEF NoSlot
  <1>3. QED
    BY <1>1, <1>2, HostParts

(* A device that is closed gives its slot back.                            *)
LEMMA DisconnectionServes ==
  ASSUME NEW h, Good(h), NEW d \in Devices
  PROVE  LET g == disconnection_complete(h, d)
         IN /\ Attends(h, g) /\ g.inp[d].wii = NoSlot
            /\ \A e \in Devices \ {d} : g.inp[e].wii = h.inp[e].wii
  <1>. DEFINE i == h.inp[d]
              f == l2_close(h, i.sdp, TRUE)
              k == l2_close(f, i.control, TRUE)
              g == l2_close(k, i.interrupt, TRUE)
              j == [i EXCEPT !.reconnect = FALSE, !.interrupt = 0, !.control = 0,
                             !.state = "CLOSED", !.wii = NoSlot]
              S == IF i.wii = NoSlot THEN g.slots ELSE [g.slots EXCEPT ![i.wii] = {}]
              r == Slotted(g, d, j, S)
  <1>1. h \in Host
    BY DEF Good
  <1>2. i \in Input /\ i.wii \in WiiSlots \cup {NoSlot} /\ NoSlot \notin WiiSlots
    BY <1>1, InputParts, ClassAssumption DEF NoSlot
  <1>3. disconnection_complete(h, d) = r
    <2>. HIDE DEF g
    <2>1. QED
      BY DEF disconnection_complete, Slotted, g, k, f
  <1>4. j \in Input /\ j.wii = NoSlot /\ Ids(j) \subseteq Ids(i)
    BY <1>2 DEF Input, Ids, Sids, InputStates
  <1>5. Keeps(h, g)
    <2>1. Keeps(h, f) /\ f \in Host
      BY <1>1, CloseKeeps DEF Keeps
    <2>. HIDE DEF f
    <2>2. Keeps(f, k) /\ k \in Host
      BY <2>1, CloseKeeps DEF Keeps
    <2>. HIDE DEF k
    <2>3. Keeps(k, g)
      BY <2>2, CloseKeeps
    <2>. HIDE DEF g
    <2>4. QED
      BY <1>1, <2>1, <2>2, <2>3, KeepsTrans
  <1>. HIDE DEF g, j
  <1>6. Effect(h, g, d) /\ g.inp = h.inp /\ g.slots = h.slots /\ g.hids = h.hids /\ g \in Host
    BY <1>5 DEF Keeps, Effect, Claimed, SameSlots
  <1>7. Attends(h, g) /\ Serves(h, g) /\ Good(g) /\ Own(g)
    BY <1>6, ServesTrans DEF Attends, Serves, Good
  <1>8. S \in [WiiSlots -> SUBSET SlotFlags]
    BY <1>6, HostParts
  <1>9. Ids(j) \subseteq Claims(g, d)
    BY <1>4, <1>6 DEF Claims
  <1>10. \A n \in WiiSlots : S[n] = IF n = i.wii THEN {} ELSE h.slots[n]
    BY <1>2, <1>6, <1>1, HostParts
  <1>. HIDE DEF S
  <1>11. /\ r \in Host /\ Own(r) /\ r.hids = h.hids /\ r.state = g.state /\ r.slots = S
         /\ r.inp[d] = j /\ \A e \in Devices \ {d} : r.inp[e] = h.inp[e]
         /\ r.bt = g.bt /\ Tracks(g, r)
    <2>1. /\ r \in Host /\ Own(r) /\ r.hids = g.hids /\ r.state = g.state /\ r.slots = S
          /\ r.inp[d] = j /\ \A e \in Devices \ {d} : r.inp[e] = g.inp[e]
          /\ r.bt = g.bt /\ Tracks(g, r)
      BY <1>4, <1>6, <1>7, <1>8, <1>9, PutSlots
    <2>. HIDE DEF r
    <2>2. QED
      BY <1>6, <2>1
  <1>. HIDE DEF r
  <1>12. SlotsOK(h)
    BY DEF Good
  <1>13. ASSUME NEW e \in Devices, r.inp[e].wii # NoSlot
         PROVE  /\ Found(r, e) /\ "wiimote" \in r.slots[r.inp[e].wii]
                /\ e # d /\ r.inp[e].wii = h.inp[e].wii /\ h.inp[e].wii # i.wii
                /\ h.inp[e].wii \in WiiSlots
    <2>1. e # d /\ r.inp[e] = h.inp[e]
      BY <1>4, <1>11, <1>13
    <2>2. h.inp[e].wii # i.wii /\ h.inp[e].wii \in WiiSlots
      BY <1>1, <1>12, <1>13, <2>1, SlotOf DEF SlotsOK
    <2>3. QED
      BY <2>1, <2>2, <1>10, <1>11, <1>12, <1>13 DEF SlotsOK, Found
  <1>14. ASSUME NEW n \in WiiSlots, r.slots[n] # {} PROVE \E e \in Devices : r.inp[e].wii = n
    <2>1. n # i.wii /\ h.slots[n] # {}
      BY <1>10, <1>11, <1>14
    <2>2. PICK e \in Devices : h.inp[e].wii = n
      BY <1>12, <2>1 DEF SlotsOK
    <2>3. QED
      BY <2>1, <2>2, <1>11
  <1>15. SlotsOK(r)
    <2>1. \A e, e2 \in Devices : e # e2 /\ r.inp[e].wii # NoSlot => r.inp[e2].wii # r.inp[e].wii
      <3>1. SUFFICES ASSUME NEW e \in Devices, NEW e2 \in Devices, e # e2,
                            r.inp[e].wii # NoSlot, r.inp[e2].wii = r.inp[e].wii
                     PROVE  FALSE
        OBVIOUS
      <3>2. h.inp[e].wii = h.inp[e2].wii /\ h.inp[e].wii # NoSlot
        BY <3>1, <1>13
      <3>3. QED
        BY <3>1, <3>2, <1>12 DEF SlotsOK
    <2>2. QED
      BY <2>1, <1>13, <1>14 DEF SlotsOK
  <1>16. Feeds(h, r)
    <2>1. Feeds(g, r)
      BY <1>4, <1>6, <1>11 DEF Feeds, DataLinked, SlotsLinked, Handle
    <2>2. QED
      BY <1>7, <2>1 DEF Attends, Feeds
  <1>17. KnownOK(r)
    BY <1>6, <1>7, <1>11, TracksKnown DEF Good
  <1>18. Tracks(h, r)
    BY <1>1, <1>6, <1>7, <1>11, TracksTrans DEF Serves
  <1>19. QED
    BY <1>3, <1>4, <1>7, <1>11, <1>15, <1>16, <1>17, <1>18 DEF Attends, Serves, Good

(* The least of a set of slots is one of them.                             *)
LEMMA LeastFree ==
  ASSUME NEW S \in SUBSET Nat, S # {}
  PROVE  Min(S) \in S /\ \A n \in S : Min(S) <= n
  BY Least DEF Min

(* A remote takes a slot that nobody has.                                  *)
LEMMA FindServes ==
  ASSUME NEW h, Good(h), NEW d \in Devices, Found(h, d)
  PROVE  LET g == find_slot(h, d)
         IN Serves(h, g) /\ (Handle(h, d) \in Handles => Attends(h, g))
  <1>. DEFINE i == Min(FreeSlots(h))
              j == [h.inp[d] EXCEPT !.wii = i]
              S == [h.slots EXCEPT ![i] = {"wiimote"}]
              g == Slotted(h, d, j, S)
              f == l2_send(g, h.inp[d].interrupt, "LED")
              r == l2_send(f, h.inp[d].interrupt, "ASK_STATUS")
  <1>1. CASE h.inp[d].wii # NoSlot \/ FreeSlots(h) = {}
    BY <1>1, ServesTrans DEF find_slot, Attends
  <1>2. CASE h.inp[d].wii = NoSlot /\ FreeSlots(h) # {}
    <2>1. h \in Host /\ Own(h) /\ SlotsOK(h)
      BY DEF Good
    <2>2. i \in WiiSlots /\ h.slots[i] = {} /\ NoSlot \notin WiiSlots
      <3>1. FreeSlots(h) \in SUBSET Nat /\ NoSlot \notin WiiSlots
        <4>1. WiiSlots \subseteq Nat /\ FreeSlots(h) \subseteq WiiSlots
          BY ClassAssumption DEF FreeSlots
        <4>2. NoSlot \notin Nat
          BY DEF NoSlot
        <4>3. QED
          BY <4>1, <4>2
      <3>2. i \in FreeSlots(h)
        BY <1>2, <3>1, LeastFree
      <3>3. QED
        BY <3>1, <3>2 DEF FreeSlots
    <2>3. find_slot(h, d) = r
      <3>1. [h EXCEPT !.slots[i] = {"wiimote"}, !.inp[d].wii = i] = g
        BY <2>1, HostParts DEF Fields, Slotted
      <3>. HIDE DEF g, i
      <3>2. QED
        BY <1>2, <3>1 DEF find_slot, i
    <2>. HIDE DEF i
    <2>4. j \in Input /\ j.wii = i /\ Ids(j) = Ids(h.inp[d])
      BY <2>1, <2>2, InputParts DEF Input, Ids
    <2>5. S \in [WiiSlots -> SUBSET SlotFlags]
          /\ \A n \in WiiSlots : S[n] = IF n = i THEN {"wiimote"} ELSE h.slots[n]
      BY <2>1, <2>2, HostParts DEF SlotFlags
    <2>. HIDE DEF j, S
    <2>6. Ids(j) \subseteq Claims(h, d)
      BY <2>4 DEF Claims
    <2>7. /\ g \in Host /\ Own(g) /\ g.hids = h.hids /\ g.state = h.state /\ g.slots = S
          /\ g.inp[d] = j /\ \A e \in Devices \ {d} : g.inp[e] = h.inp[e]
          /\ g.bt = h.bt /\ Tracks(h, g)
      BY <2>1, <2>4, <2>5, <2>6, PutSlots
    <2>. HIDE DEF g
    <2>8. ASSUME NEW e \in Devices \ {d}, h.inp[e].wii # NoSlot
          PROVE  /\ h.inp[e].wii \in WiiSlots /\ h.inp[e].wii # i
                 /\ "wiimote" \in h.slots[h.inp[e].wii] /\ Found(h, e)
      BY <2>1, <2>2, <2>8, SlotOf DEF SlotsOK
    <2>9. SlotsOK(g)
      <3>1. ASSUME NEW e \in Devices, g.inp[e].wii # NoSlot
            PROVE  Found(g, e) /\ "wiimote" \in g.slots[g.inp[e].wii]
        <4>1. CASE e = d
          BY <2>2, <2>4, <2>5, <2>7, <4>1 DEF Found
        <4>2. CASE e # d
          BY <2>5, <2>7, <2>8, <3>1, <4>2 DEF Found
        <4>3. QED
          BY <4>1, <4>2
      <3>2. ASSUME NEW n \in WiiSlots, g.slots[n] # {} PROVE \E e \in Devices : g.inp[e].wii = n
        <4>1. CASE n = i
          BY <2>4, <2>7, <4>1
        <4>2. CASE n # i
          <5>1. PICK e \in Devices : h.inp[e].wii = n
            BY <2>1, <2>5, <2>7, <3>2, <4>2 DEF SlotsOK
          <5>2. e # d
            BY <1>2, <2>2, <5>1
          <5>3. QED
            BY <5>1, <5>2, <2>7
        <4>3. QED
          BY <4>1, <4>2
      <3>3. ASSUME NEW e \in Devices, NEW e2 \in Devices, e # e2, g.inp[e].wii # NoSlot,
                   g.inp[e2].wii = g.inp[e].wii
            PROVE  FALSE
        <4>1. CASE e = d
          BY <4>1, <3>3, <2>4, <2>7, <2>8, <2>2
        <4>2. CASE e2 = d
          BY <4>2, <3>3, <2>4, <2>7, <2>8, <2>2
        <4>3. CASE e # d /\ e2 # d
          BY <4>3, <3>3, <2>1, <2>7 DEF SlotsOK
        <4>4. QED
          BY <4>1, <4>2, <4>3
      <3>4. QED
        BY <3>1, <3>2, <3>3 DEF SlotsOK
    <2>10. Serves(h, g) /\ (Handle(h, d) \in Handles => Attends(h, g))
      <3>1. KnownOK(g)
        BY <2>7, TracksKnown DEF Good
      <3>2. Handle(h, d) \in Handles => Feeds(h, g)
        BY <2>7 DEF Feeds, DataLinked, SlotsLinked, Handle
      <3>3. QED
        BY <2>7, <2>9, <3>1, <3>2 DEF Attends, Serves, Good
    <2>11. Minor(g, r)
      <3>1. Speaks(g, f) /\ f \in Host
        BY <2>7, SendSpeaks DEF Data, Speaks
      <3>. HIDE DEF f
      <3>2. Speaks(f, r)
        BY <3>1, SendSpeaks DEF Data
      <3>. HIDE DEF r
      <3>3. QED
        BY <2>7, <3>1, <3>2, MinorTrans
    <2>. HIDE DEF r
    <2>12. QED
      <3>1. Attends(g, r) /\ Serves(g, r)
        BY <2>10, <2>11, ServesTrans DEF Serves, Attends
      <3>2. QED
        BY <2>3, <2>10, <3>1, ServesTrans
  <1>3. QED
    BY <1>1, <1>2

(* The flags of a slot that is taken change, but for "wiimote".            *)
LEMMA FlagsServe ==
  ASSUME NEW h, Good(h), NEW d \in Devices, h.inp[d].wii # NoSlot,
         NEW F \in SUBSET SlotFlags, "wiimote" \in F
  PROVE  Attends(h, [h EXCEPT !.slots[h.inp[d].wii] = F])
  <1>. DEFINE i == h.inp[d].wii
              S == [h.slots EXCEPT ![i] = F]
              g == Slotted(h, d, h.inp[d], S)
  <1>1. h \in Host /\ Own(h) /\ SlotsOK(h)
    BY DEF Good
  <1>2. i \in WiiSlots /\ h.inp[d] \in Input
    BY <1>1, SlotOf, InputParts
  <1>3. S \in [WiiSlots -> SUBSET SlotFlags]
        /\ \A n \in WiiSlots : S[n] = IF n = i THEN F ELSE h.slots[n]
    BY <1>1, <1>2, HostParts
  <1>4. [h EXCEPT !.slots[i] = F] = g
    <2>1. [h.inp EXCEPT ![d] = h.inp[d]] = h.inp
      BY <1>1, HostParts
    <2>2. QED
      BY <2>1, <1>1, HostParts DEF Fields, Slotted
  <1>. HIDE DEF S
  <1>5. /\ g \in Host /\ Own(g) /\ g.hids = h.hids /\ g.state = h.state /\ g.slots = S
        /\ g.inp[d] = h.inp[d] /\ \A e \in Devices \ {d} : g.inp[e] = h.inp[e]
        /\ g.bt = h.bt /\ Tracks(h, g)
    BY <1>1, <1>2, <1>3, PutSlots DEF Claims
  <1>. HIDE DEF g
  <1>6. \A e \in Devices : g.inp[e] = h.inp[e]
    BY <1>5
  <1>7. SlotsOK(g)
    <2>1. ASSUME NEW e \in Devices, g.inp[e].wii # NoSlot
          PROVE  Found(g, e) /\ "wiimote" \in g.slots[g.inp[e].wii]
      BY <1>1, <1>3, <1>5, <1>6, <2>1, SlotOf DEF SlotsOK, Found
    <2>2. ASSUME NEW n \in WiiSlots, g.slots[n] # {} PROVE \E e \in Devices : g.inp[e].wii = n
      <3>1. CASE n = i
        BY <1>6, <3>1
      <3>2. CASE n # i
        BY <1>1, <1>3, <1>5, <1>6, <2>2, <3>2 DEF SlotsOK
      <3>3. QED
        BY <3>1, <3>2
    <2>3. QED
      BY <1>1, <1>6, <2>1, <2>2 DEF SlotsOK
  <1>8. KnownOK(g) /\ Feeds(h, g)
    BY <1>5, <1>6, TracksKnown DEF Good, Feeds, DataLinked, SlotsLinked, Handle
  <1>9. QED
    BY <1>4, <1>5, <1>7, <1>8 DEF Attends, Serves, Good

(* wii_report changes only flags of the remote's own slot.                 *)
LEMMA ReportServes ==
  ASSUME NEW h, Good(h), NEW d \in Devices, h.inp[d].wii # NoSlot, NEW kind
  PROVE  Attends(h, WiiReport(h, d, kind))
  <1>. DEFINE f == h.slots[h.inp[d].wii]
              Say(what) == l2_send(h, h.inp[d].interrupt, what)
              With(what, F) == [Say(what) EXCEPT !.slots[h.inp[d].wii] = F]
  <1>1. h \in Host /\ f \in SUBSET SlotFlags /\ "wiimote" \in f
    BY SlotOf DEF Good, SlotsOK
  <1>2. ASSUME NEW what \in Data
        PROVE  Attends(h, Say(what)) /\ Say(what).inp = h.inp
    <2>1. Speaks(h, Say(what))
      BY <1>1, SendSpeaks
    <2>. HIDE DEF Say
    <2>2. Attends(h, Say(what))
      BY <1>1, <2>1, MinorTrans, ServesTrans
    <2>3. QED
      BY <2>1, <2>2 DEF Speaks
  <1>3. ASSUME NEW what \in Data, NEW F \in SUBSET SlotFlags, "wiimote" \in F
        PROVE  Attends(h, With(what, F))
    <2>. DEFINE g == Say(what)
    <2>1. Attends(h, g) /\ g.inp = h.inp /\ Good(g)
      BY <1>2 DEF Attends, Serves
    <2>. HIDE DEF g
    <2>2. Attends(g, [g EXCEPT !.slots[g.inp[d].wii] = F])
      BY <2>1, <1>3, FlagsServe
    <2>3. Attends(h, [g EXCEPT !.slots[h.inp[d].wii] = F])
      BY <2>1, <2>2, ServesTrans
    <2>4. QED
      BY <2>3 DEF g
  <1>4. Attends(h, h)
    BY ServesTrans
  <1>5. /\ f \ Extensions \in SUBSET SlotFlags
        /\ (f \ Extensions) \cup {"nunchuk"} \in SUBSET SlotFlags
        /\ f \cup {"extension_read"} \in SUBSET SlotFlags
        /\ f \cup {"encryption_disabled"} \in SUBSET SlotFlags
        /\ "wiimote" \in f \ Extensions
    BY <1>1 DEF SlotFlags, Extensions
  <1>6. WiiReport(h, d, kind) =
          CASE kind = "status_plugged" -> Say("INIT_EXTENSION")
            [] kind = "status" -> With("SELECT_REPORT", f \ Extensions)
            [] kind = "memory" -> With("SELECT_REPORT", (f \ Extensions) \cup {"nunchuk"})
            [] kind = "written" /\ "extension_read" \notin f ->
                 With("READ_TYPE", f \cup {"extension_read"})
            [] kind = "written" /\ "extension_read" \in f /\ "encryption_disabled" \notin f ->
                 With("NO_ENCRYPTION", f \cup {"encryption_disabled"})
            [] kind = "core" -> Say("SELECT_REPORT")
            [] OTHER -> h
    BY DEF WiiReport
  <1>7. /\ Attends(h, Say("INIT_EXTENSION")) /\ Attends(h, Say("SELECT_REPORT"))
        /\ Attends(h, With("SELECT_REPORT", f \ Extensions))
        /\ Attends(h, With("SELECT_REPORT", (f \ Extensions) \cup {"nunchuk"}))
        /\ Attends(h, With("READ_TYPE", f \cup {"extension_read"}))
        /\ Attends(h, With("NO_ENCRYPTION", f \cup {"encryption_disabled"}))
    <2>. HIDE DEF Say, With
    <2>1. QED
      BY <1>1, <1>2, <1>3, <1>5 DEF Data
  <1>. HIDE DEF Say, With, f
  <1>8. QED
    BY <1>4, <1>6, <1>7

(* The HID handler of a remote takes a slot first and then reads the       *)
(* report.                                                                 *)
LEMMA WiiServes ==
  ASSUME NEW h, Good(h), NEW d \in Devices, Found(h, d), NEW kind
  PROVE  LET r == wii_hid(h, d, kind)
         IN Serves(h, r) /\ (Handle(h, d) \in Handles => Attends(h, r))
  <1>. DEFINE g == find_slot(h, d)
  <1>1. Serves(h, g) /\ (Handle(h, d) \in Handles => Attends(h, g)) /\ Good(g)
    BY FindServes DEF Serves
  <1>2. wii_hid(h, d, kind) \in {g, h} \/
          (g.inp[d].wii # NoSlot /\ wii_hid(h, d, kind) = WiiReport(g, d, kind))
    BY DEF wii_hid
  <1>. HIDE DEF g
  <1>3. g.inp[d].wii # NoSlot => Attends(g, WiiReport(g, d, kind))
    BY <1>1, ReportServes
  <1>4. Attends(h, h)
    BY ServesTrans
  <1>5. CASE wii_hid(h, d, kind) \in {g, h}
    BY <1>1, <1>4, <1>5 DEF Attends
  <1>6. CASE g.inp[d].wii # NoSlot /\ wii_hid(h, d, kind) = WiiReport(g, d, kind)
    <2>. DEFINE r == WiiReport(g, d, kind)
    <2>. HIDE DEF r
    <2>1. Attends(g, r) /\ Serves(g, r)
      BY <1>3, <1>6 DEF Attends, r
    <2>2. QED
      BY <1>1, <1>6, <2>1, ServesTrans DEF r
  <1>7. QED
    BY <1>2, <1>5, <1>6

(* A device added to _devices starts with no id and no slot.               *)
LEMMA AddGood ==
  ASSUME NEW h, Good(h), NEW d \in Devices, h.bt[d].known
  PROVE  LET g == add_device(h, d)
         IN /\ Good(g) /\ (g.state = NotSent => h.state = NotSent)
            /\ Tracks(h, g) /\ Feeds(h, g)
  <1>. DEFINE hids == Append(h.hids, d)
              inp == [h.inp EXCEPT ![d] = NewInputDevice]
              g == [h EXCEPT !.hids = hids, !.inp = inp]
  <1>1. h \in Host /\ Own(h) /\ SlotsOK(h)
    BY DEF Good
  <1>2. CASE ~(d \in InputDevices /\ ~Found(h, d))
    BY <1>1, <1>2, TracksSame DEF add_device, Feeds
  <1>3. CASE d \in InputDevices /\ ~Found(h, d)
    <2>1. add_device(h, d) = g
      BY <1>3, <1>1, HostParts DEF add_device, Fields
    <2>2. NewInputDevice \in Input /\ Ids(NewInputDevice) = {} /\ NewInputDevice.wii = NoSlot
      BY DEF NewInputDevice, Input, Ids, InputStates, Sids
    <2>3. inp \in [Devices -> Input] /\ inp[d] = NewInputDevice
          /\ \A e \in Devices \ {d} : inp[e] = h.inp[e]
      BY <1>1, <2>2, HostParts
    <2>4. hids \in Seq(Devices) /\ Range(h.hids) \subseteq Range(hids)
          /\ Range(hids) \subseteq Range(h.hids) \cup {d}
      <3>1. h.hids \in Seq(Devices)
        BY <1>1, HostParts
      <3>. DEFINE n == Len(h.hids)
      <3>2. /\ hids \in Seq(Devices) /\ Len(hids) = n + 1 /\ n \in Nat
            /\ \A k \in 1 .. n : hids[k] = h.hids[k]
            /\ hids[n + 1] = d
        BY <3>1
      <3>3. DOMAIN hids = 1 .. n + 1 /\ DOMAIN h.hids = 1 .. n
        BY <3>1, <3>2
      <3>4. 1 .. n \subseteq 1 .. n + 1 /\ 1 .. n + 1 = (1 .. n) \cup {n + 1}
        BY <3>2
      <3>. HIDE DEF hids, n
      <3>5. QED
        BY <3>2, <3>3, <3>4 DEF Range
    <2>. HIDE DEF inp, hids
    <2>5. g \in Fields
      BY <1>1, <2>3, <2>4, HostParts DEF Fields
    <2>6. /\ g.inp = inp /\ g.bt = h.bt /\ g.cid = h.cid /\ g.state = h.state /\ g.tx = h.tx
          /\ g.slots = h.slots /\ g.hids = hids
      BY <1>1, HostParts DEF Fields
    <2>. HIDE DEF g
    <2>7. g \in Host
      BY <1>1, <2>5, <2>6, HostParts DEF Host
    <2>8. Own(g)
      <3>1. \A e \in Devices : Claims(g, e) \subseteq Claims(h, e)
        BY <2>2, <2>3, <2>6 DEF Claims, Sockets
      <3>2. h.cid \in Nat
        BY <1>1, HostParts DEF Cids
      <3>3. Grows(h, g, d)
        BY <2>6, <3>1, <3>2 DEF Grows
      <3>4. QED
        BY <1>1, <2>7, <3>3, EffectOwn
    <2>9. h.inp[d].wii = NoSlot
      BY <1>1, <1>3 DEF SlotsOK
    <2>10. \A e \in Devices : g.inp[e].wii = h.inp[e].wii
      BY <2>2, <2>3, <2>6, <2>9
    <2>11. SlotsOK(g)
      BY <1>1, <2>4, <2>6, <2>10 DEF SlotsOK, Found
    <2>12. Tracks(h, g) /\ Feeds(h, g)
      BY <1>1, <2>6, <2>10, TracksSame DEF Feeds, DataLinked, SlotsLinked, Handle
    <2>13. KnownOK(g)
      BY <2>4, <2>6 DEF Good, KnownOK, Found, Creates, Handle
    <2>14. QED
      BY <2>1, <2>6, <2>7, <2>8, <2>11, <2>12, <2>13 DEF Good
  <1>4. QED
    BY <1>2, <1>3

(* HIDSource.get: a round over the devices.                                *)
LEMMA ServicedServes ==
  ASSUME NEW h, Good(h), NEW d \in Devices
  PROVE  Attends(h, Serviced(h, d))
  <1>. DEFINE g == IF h.inp[d].interrupt # 0 /\ Gone(h, h.inp[d].interrupt)
                   THEN disconnection_complete(h, d) ELSE h
  <1>1. Attends(h, g) /\ Good(g) /\ g \in Host
    BY DisconnectionServes, ServesTrans DEF Attends, Serves, Good
  <1>2. Serviced(h, d) \in {g, update_sdp(g, d)}
    <2>. HIDE DEF g
    <2>1. QED
      BY DEF Serviced, g
  <1>. HIDE DEF g
  <1>3. Attends(g, update_sdp(g, d))
    BY <1>1, UpdateSdpMinor, ServesTrans
  <1>4. QED
    BY <1>1, <1>2, <1>3, ServesTrans

(* The loop of get over _devices keeps the invariant at every pass.        *)
LEMMA AllServicedServes ==
  ASSUME NEW h, Good(h), NEW n \in 0 .. Len(h.hids)
  PROVE  Attends(h, AllServiced(h, n))
  <1>. DEFINE X == {g \in Host : Attends(h, g)}
              Pass(g, k) == IF k \in 1 .. n THEN Serviced(g, h.hids[k]) ELSE g
              F == [a \in X \X Nat |-> Pass(a[1], a[2])]
              after == CHOOSE s : s = [k \in 0 .. n |->
                                         IF k = 0 THEN h ELSE Serviced(s[k - 1], h.hids[k])]
  <1>1. h \in X /\ h.hids \in Seq(Devices) /\ n \in Nat
    BY ServesTrans, HostParts DEF Good
  <1>2. \A k \in 1 .. n : h.hids[k] \in Devices
    BY <1>1
  <1>3. ASSUME NEW g \in X, NEW k \in Nat PROVE Pass(g, k) \in X
    <2>1. CASE k \notin 1 .. n
      BY <2>1
    <2>2. CASE k \in 1 .. n
      <3>. DEFINE f == Serviced(g, h.hids[k])
      <3>1. Attends(g, f)
        BY <1>2, <2>2, ServicedServes DEF Attends, Serves
      <3>. HIDE DEF f
      <3>2. Attends(h, f) /\ f \in Host
        BY <3>1, ServesTrans DEF Attends, Serves, Good
      <3>3. QED
        BY <2>2, <3>2 DEF f
    <2>3. QED
      BY <2>1, <2>2
  <1>4. F \in [X \X Nat -> X]
    <2>. HIDE DEF Pass, X
    <2>1. QED
      BY <1>3
  <1>5. PICK s : Passes(s, n, X, h, F)
    <2>. HIDE DEF F, X
    <2>1. QED
      BY <1>1, <1>4, LoopStates
  <1>6. ASSUME NEW k \in 1 .. n PROVE s[k] = Serviced(s[k - 1], h.hids[k])
    <2>1. k - 1 \in 0 .. n /\ k \in Nat
      BY <1>1
    <2>2. s[k - 1] \in X
      <3>. HIDE DEF X
      <3>1. QED
        BY <1>5, <2>1 DEF Passes
    <2>3. s[k] = Pass(s[k - 1], k)
      <3>. HIDE DEF Pass, X
      <3>1. QED
        BY <1>5, <2>1, <2>2 DEF Passes
    <2>4. QED
      BY <2>3
  <1>7. s = [k \in 0 .. n |-> IF k = 0 THEN h ELSE Serviced(s[k - 1], h.hids[k])]
    BY <1>1, <1>5, <1>6 DEF Passes
  <1>8. after = [k \in 0 .. n |-> IF k = 0 THEN h ELSE Serviced(after[k - 1], h.hids[k])]
    BY <1>7
  <1>9. AllServiced(h, n) = after[n]
    BY DEF AllServiced
  <1>. HIDE DEF after
  <1>10. after[0] \in X
    BY <1>1, <1>8
  <1>11. ASSUME NEW k \in 1 .. n, after[k - 1] \in X PROVE after[k] \in X
    <2>1. after[k] = Pass(after[k - 1], k) /\ k \in Nat
      BY <1>1, <1>8
    <2>. HIDE DEF X, Pass
    <2>2. QED
      BY <1>3, <1>11, <2>1
  <1>12. after[n] \in X
    <2>. HIDE DEF X
    <2>1. QED
      BY <1>1, <1>10, <1>11, LoopStays
  <1>13. QED
    BY <1>9, <1>12

(* HIDSource.get keeps the invariant.                                      *)
LEMMA GetGood ==
  ASSUME NEW h, Good(h)
  PROVE  Attends(h, get(h))
  <1>. DEFINE k == Min(Reporting(h))
              d == h.hids[k]
              g == AllServiced(h, k - 1)
              f == l2_recv(g, g.inp[d].interrupt)
              kind == Received(g, g.inp[d].interrupt).kind
  <1>0. h \in Host /\ Own(h)
    BY DEF Good
  <1>1. h.hids \in Seq(Devices) /\ Len(h.hids) \in Nat /\ DOMAIN h.hids = 1 .. Len(h.hids)
    BY HostParts DEF Good
  <1>2. CASE Reporting(h) = {}
    <2>1. get(h) = AllServiced(h, Len(h.hids)) /\ Len(h.hids) \in 0 .. Len(h.hids)
      BY <1>1, <1>2 DEF get
    <2>2. QED
      BY <2>1, AllServicedServes
  <1>3. CASE Reporting(h) # {}
    <2>1. k \in Reporting(h)
      <3>1. Reporting(h) \in SUBSET Nat
        BY <1>1 DEF Reporting
      <3>2. QED
        BY <1>3, <3>1, LeastFree
    <2>2. k \in 1 .. Len(h.hids) /\ k - 1 \in 0 .. Len(h.hids) /\ d \in Devices /\ Found(h, d)
      <3>1. k \in DOMAIN h.hids
        BY <2>1 DEF Reporting
      <3>. HIDE DEF k
      <3>2. k \in 1 .. Len(h.hids) /\ k - 1 \in 0 .. Len(h.hids)
        BY <1>1, <3>1
      <3>3. QED
        BY <1>1, <3>1, <3>2 DEF Found, Range
    <2>. DEFINE i == h.inp[d].interrupt
    <2>3. DataLinked(h) => Handle(h, d) \in Handles
      <3>1. i # 0 /\ Waiting(h, i)
        BY <2>1 DEF Reporting, HasReport
      <3>. HIDE DEF d
      <3>. DEFINE e == get_device_by_socket(h, i)
      <3>2. e \in Devices /\ i \in Sockets(h, e) /\ h.bt[e].sockets[i].q # <<>>
        BY <1>0, <3>1, OwnerOf DEF Waiting
      <3>. HIDE DEF e
      <3>3. i \in Claims(h, e) /\ i \in Claims(h, d)
        BY <2>2, <3>1, <3>2 DEF Claims, Ids
      <3>4. e = d
        BY <1>0, <2>2, <3>2, <3>3 DEF Own
      <3>5. Waits(h.bt[d])
        BY <3>2, <3>4 DEF Waits, Sockets
      <3>6. QED
        BY <2>2, <3>5 DEF DataLinked
    <2>. HIDE DEF k
    <2>4. Attends(h, g) /\ Serves(h, g) /\ Good(g) /\ g \in Host /\ Found(g, d)
      BY <2>2, AllServicedServes DEF Attends, Serves, Good, Found
    <2>5. get(h) = wii_hid(f, d, kind)
      BY <1>3 DEF get, k
    <2>. HIDE DEF g, d, kind
    <2>6. Attends(g, f)
      <3>1. Keeps(g, f)
        BY <2>4, RecvKeeps
      <3>. HIDE DEF f
      <3>2. QED
        BY <2>2, <2>4, <3>1, MinorTrans, ServesTrans
    <2>7. Serves(g, f) /\ Good(f) /\ Found(f, d)
      <3>. HIDE DEF f
      <3>1. QED
        BY <2>4, <2>6 DEF Attends, Serves, Found
    <2>. DEFINE r == wii_hid(f, d, kind)
    <2>. HIDE DEF f
    <2>8. Serves(f, r) /\ (Handle(f, d) \in Handles => Attends(f, r))
      BY <2>2, <2>7, WiiServes
    <2>. HIDE DEF r
    <2>9. Attends(h, f) /\ Serves(h, f)
      BY <2>4, <2>6, ServesTrans DEF Attends
    <2>10. Serves(h, r)
      BY <2>8, <2>9, ServesTrans
    <2>11. Feeds(h, r)
      <3>1. CASE ~DataLinked(h)
        BY <3>1 DEF Feeds
      <3>2. CASE DataLinked(h)
        <4>1. Handle(h, d) \in Handles /\ NoHandle \notin Handles
          BY <2>3, <3>2, HandleAssumption DEF NoHandle
        <4>2. Handle(f, d) = Handle(h, d)
          BY <2>2, <2>9, <4>1 DEF Serves, Tracks
        <4>3. QED
          BY <2>8, <2>9, <4>1, <4>2, ServesTrans DEF Attends
      <3>3. QED
        BY <3>1, <3>2
    <2>12. QED
      BY <2>5, <2>10, <2>11 DEF Attends, r
  <1>4. QED
    BY <1>2, <1>3

----------------------------------------------------------------------------
(* Bluetooth: the handling of events.                                      *)

(* The steps of the handshake change the set of flags alone.               *)
LEMMA FlagMinor ==
  ASSUME NEW h \in Host, h.state # NotSent
  PROVE  /\ \A f \in Flags : Minor(h, WithFlag(h, f))
         /\ \A op \in HandshakeSteps : Minor(h, Command(h, op))
         /\ Minor(h, start_inquiry(h))
         /\ \A g : Minor(h, g) => g \in Host /\ g.state # NotSent
  <1>1. \A g : Minor(h, g) => g \in Host /\ g.state # NotSent
    BY DEF Minor
  <1>2. ASSUME NEW g \in Host, g.state # NotSent, NEW f \in Flags
        PROVE  Minor(g, WithFlag(g, f)) /\ WithFlag(g, f).state # NotSent
    <2>. DEFINE s == g.state \cup {f}
    <2>1. s \in SUBSET Flags
      BY <1>2, HostParts
    <2>2. "-1" \notin Flags
      BY DEF Flags
    <2>3. s # NotSent
      BY <2>1, <2>2 DEF NotSent
    <2>4. WithFlag(g, f) = [g EXCEPT !.state = s]
      BY DEF WithFlag
    <2>. DEFINE k == [g EXCEPT !.state = s]
    <2>. HIDE DEF s
    <2>5. k \in Host /\ k.state = s /\ \A d : Effect(g, k, d)
      BY <1>2, <2>1, <2>3, PutRest
    <2>. HIDE DEF k
    <2>6. QED
      BY <2>3, <2>4, <2>5 DEF Minor, k
  <1>3. ASSUME NEW op \in HandshakeSteps PROVE Minor(h, Command(h, op))
    BY CmdSpeaks, MinorTrans DEF Command
  <1>4. Minor(h, start_inquiry(h))
    <2>. DEFINE g == WithFlag(h, "INQUIRY")
    <2>1. Minor(h, g) /\ g \in Host
      BY <1>2 DEF Flags, Minor
    <2>2. start_inquiry(h) \in {h, Cmd(g, "INQUIRY", "none")}
      BY DEF start_inquiry, Command
    <2>. HIDE DEF g
    <2>3. Minor(g, Cmd(g, "INQUIRY", "none"))
      BY <2>1, CmdSpeaks, MinorTrans
    <2>4. QED
      BY <2>1, <2>2, <2>3, MinorTrans
  <1>5. QED
    BY <1>1, <1>2, <1>3, <1>4

(* The handler of a completed command changes flags and queues the next    *)
(* command.                                                                *)
LEMMA CommandCompleteMinor ==
  ASSUME NEW h \in Host, h.state # NotSent, NEW op \in HandshakeSteps
  PROVE  Minor(h, CommandComplete(h, op))
  <1>. DEFINE Fit(g) == Minor(h, g) /\ g \in Host /\ g.state # NotSent
  <1>1. Fit(h)
    BY MinorTrans
  <1>2. ASSUME NEW g, Fit(g)
        PROVE  /\ \A f \in Flags : Fit(WithFlag(g, f))
               /\ \A o \in HandshakeSteps : Fit(Command(g, o))
               /\ Fit(start_inquiry(g))
    <2>1. \A k : Minor(g, k) => Fit(k)
      BY <1>2, FlagMinor, MinorTrans
    <2>. HIDE DEF Fit
    <2>2. g \in Host /\ g.state # NotSent
      BY <1>2 DEF Fit
    <2>3. QED
      BY <2>1, <2>2, FlagMinor
  <1>. HIDE DEF Fit
  <1>3. /\ Fit(WithFlag(Command(h, "READ_BUFFER_SIZE"), "RESET"))
        /\ Fit(WithFlag(Command(h, "READ_BD_ADDR"), "READ_BUFFER_SIZE"))
    BY <1>1, <1>2 DEF HandshakeSteps, Flags
  <1>4. Fit(Command(Command(WithFlag(h, "READ_BD_ADDR"), "WRITE_CLASS_OF_DEVICE"),
                    "WRITE_SCAN_ENABLE"))
    BY <1>1, <1>2 DEF HandshakeSteps, Flags
  <1>5. Fit(Command(start_inquiry(WithFlag(h, "INITED")), "WRITE_AUTH_ENABLE"))
    BY <1>1, <1>2 DEF HandshakeSteps, Flags
  <1>6. Fit(CommandComplete(h, op))
    BY <1>1, <1>3, <1>4, <1>5 DEF CommandComplete
  <1>7. QED
    BY <1>6 DEF Fit

(* add_device of the HCI server makes a BTDevice without sockets.          *)
LEMMA KnownMinor ==
  ASSUME NEW h \in Host, KnownOK(h), NEW d \in Devices
  PROVE  LET g == Known(h, d) IN Minor(h, g) /\ g.bt[d].known
  <1>1. CASE h.bt[d].known
    BY <1>1, MinorTrans DEF Known
  <1>2. CASE ~h.bt[d].known
    <2>. DEFINE b == NewDevice
                g == [h EXCEPT !.bt[d] = b]
    <2>1. b \in Device /\ DOMAIN b.sockets = {} /\ b.known /\ b.handle = NoHandle
      BY SocketMaps DEF NewDevice, Device, Links
    <2>. HIDE DEF b
    <2>2. /\ g \in Host /\ \A e : Claimed(h, g, e) /\ g.bt[d] = b /\ g.inp = h.inp /\ g.tx = h.tx
          /\ \A e \in Devices \ {d} : g.bt[e] = h.bt[e]
      BY <2>1, PutDevice
    <2>3. Known(h, d) = g
      BY <1>2 DEF Known, b
    <2>. HIDE DEF g
    <2>4. Handle(h, d) = NoHandle
      BY <1>2 DEF KnownOK
    <2>5. \A e \in Devices : Handle(g, e) = Handle(h, e) /\ (h.bt[e].known => g.bt[e].known)
                              /\ (Waits(g.bt[e]) => Waits(h.bt[e]))
      BY <2>1, <2>2, <2>4 DEF Handle, Waits
    <2>6. Len(h.tx) \in Nat
      BY HostParts
    <2>7. Tracks(h, g) /\ Feeds(h, g)
      BY <2>2, <2>5, <2>6 DEF Tracks, Feeds, DataLinked, SlotsLinked, Creates
    <2>8. QED
      BY <2>1, <2>2, <2>3, <2>7 DEF Minor, Effect, Claimed
  <1>3. QED
    BY <1>1, <1>2

(* The loop that calls every device after an inquiry gives no id.          *)
LEMMA InquiryCompMinor ==
  ASSUME NEW h \in Host, KnownOK(h)
  PROVE  Minor(h, InquiryComp(h))
  <1>. DEFINE n == Len(h.hids)
              x == [h EXCEPT !.state = @ \ {"INQUIRY"}]
              X == {g \in Host : Minor(h, g)}
              Pass(g, k) == IF k \in 1 .. n THEN connect(g, h.hids[k]) ELSE g
              F == [a \in X \X Nat |-> Pass(a[1], a[2])]
              after == CHOOSE s : s = [k \in 0 .. n |->
                                         IF k = 0 THEN x ELSE connect(s[k - 1], h.hids[k])]
  <1>1. n \in Nat /\ \A k \in 1 .. n : h.hids[k] \in Devices /\ h.bt[h.hids[k]].known
    <2>1. h.hids \in Seq(Devices)
      BY HostParts
    <2>2. \A k \in 1 .. n : h.hids[k] \in Devices /\ Found(h, h.hids[k])
      BY <2>1 DEF Found, Range
    <2>3. QED
      BY <2>1, <2>2 DEF KnownOK
  <1>2. x \in X
    <2>1. "-1" \notin Flags
      BY DEF Flags
    <2>2. /\ h.state \ {"INQUIRY"} \in (SUBSET Flags) \cup {NotSent}
          /\ h.state \ {"INQUIRY"} = NotSent => h.state = NotSent
      BY <2>1, HostParts DEF NotSent
    <2>3. QED
      BY <2>2, PutRest DEF Minor
  <1>. HIDE DEF x
  <1>3. ASSUME NEW g \in X, NEW k \in Nat PROVE Pass(g, k) \in X
    <2>1. CASE k \notin 1 .. n
      BY <2>1
    <2>2. CASE k \in 1 .. n
      <3>. DEFINE f == connect(g, h.hids[k])
      <3>1. Minor(g, f)
        <4>1. h.hids[k] \in Devices /\ Tracks(h, g)
          BY <1>1, <2>2 DEF Minor, Effect
        <4>2. g.bt[h.hids[k]].known
          BY <1>1, <2>2, <4>1 DEF Tracks
        <4>3. QED
          BY <4>1, <4>2, ConnectMinor
      <3>. HIDE DEF f
      <3>2. Minor(h, f) /\ f \in Host
        BY <3>1, MinorTrans DEF Minor
      <3>3. QED
        BY <2>2, <3>2 DEF f
    <2>3. QED
      BY <2>1, <2>2
  <1>4. F \in [X \X Nat -> X]
    <2>. HIDE DEF Pass, X
    <2>1. QED
      BY <1>3
  <1>5. PICK s : Passes(s, n, X, x, F)
    <2>. HIDE DEF F, X, n
    <2>1. QED
      BY <1>1, <1>2, <1>4, LoopStates
  <1>6. ASSUME NEW k \in 1 .. n PROVE s[k] = connect(s[k - 1], h.hids[k])
    <2>1. k - 1 \in 0 .. n /\ k \in Nat
      BY <1>1
    <2>2. s[k - 1] \in X
      <3>. HIDE DEF X, n
      <3>1. QED
        BY <1>5, <2>1 DEF Passes
    <2>3. s[k] = Pass(s[k - 1], k)
      <3>. HIDE DEF Pass, X
      <3>1. QED
        BY <1>5, <2>1, <2>2 DEF Passes
    <2>4. QED
      BY <2>3
  <1>7. s = [k \in 0 .. n |-> IF k = 0 THEN x ELSE connect(s[k - 1], h.hids[k])]
    BY <1>1, <1>5, <1>6 DEF Passes
  <1>8. after = [k \in 0 .. n |-> IF k = 0 THEN x ELSE connect(after[k - 1], h.hids[k])]
    BY <1>7
  <1>9. InquiryComp(h) = after[n]
    BY DEF InquiryComp, x
  <1>. HIDE DEF after
  <1>10. after[0] \in X
    <2>1. after[0] = x
      BY <1>1, <1>8
    <2>. HIDE DEF X
    <2>2. QED
      BY <1>2, <2>1
  <1>11. ASSUME NEW k \in 1 .. n, after[k - 1] \in X PROVE after[k] \in X
    <2>1. after[k] = Pass(after[k - 1], k) /\ k \in Nat
      BY <1>1, <1>8
    <2>. HIDE DEF X, Pass
    <2>2. QED
      BY <1>3, <1>11, <2>1
  <1>12. after[n] \in X
    <2>. HIDE DEF X, n
    <2>1. QED
      BY <1>1, <1>10, <1>11, LoopStays
  <1>13. QED
    BY <1>9, <1>12

(* The device that get_device_by_handle finds is one that has the handle.  *)
LEMMA HandleOf ==
  ASSUME NEW h, NEW handle, OnHandle(h, handle) # {}
  PROVE  LET d == get_device_by_handle(h, handle)
         IN d \in Devices /\ h.bt[d].known /\ Handle(h, d) = handle
  BY DEF OnHandle, get_device_by_handle, Handle

(* A fragment received gives no device an id, kept or handled.             *)
LEMMA AclMinor ==
  ASSUME NEW h \in Host, NEW p \in RxAcl
  PROVE  Minor(h, AclEvent(h, p))
  <1>. DEFINE d == get_device_by_handle(h, p.handle)
              g == acl(h, p)
              s == p.load.scid
  <1>1. CASE ~Matched(h, p)
    <2>1. AclEvent(h, p) = [h EXCEPT !.kept = <<p>>]
      BY <1>1 DEF AclEvent, acl
    <2>. DEFINE k == <<p>>
    <2>2. k \in Seq(RxAcl)
      OBVIOUS
    <2>. HIDE DEF k
    <2>3. Minor(h, [h EXCEPT !.kept = k])
      BY <2>2, PutRest DEF Minor
    <2>4. QED
      BY <2>1, <2>3 DEF k
  <1>2. CASE Matched(h, p)
    <2>1. d \in Devices /\ g = data(h, d, p) /\ h.bt[d].handle \in Handles
      BY <1>2, HandleOf, RxAclParts DEF Matched, acl, Handle
    <2>2. AclEvent(h, p) \in {g, socket_changed(g, d, s)}
      <3>. HIDE DEF g, d
      <3>1. QED
        BY DEF AclEvent, g, d
    <2>. HIDE DEF d, g, s
    <2>3. Keeps(h, g)
      BY <2>1, DataKeeps
    <2>4. Minor(h, g) /\ g \in Host
      BY <2>3, MinorTrans DEF Minor
    <2>5. Minor(g, socket_changed(g, d, s))
      BY <2>1, <2>4, SocketChangedMinor
    <2>6. QED
      BY <2>2, <2>4, <2>5, MinorTrans
  <1>3. QED
    BY <1>1, <1>2

(* The packet kept for a handle not known yet gives no device an id.       *)
LEMMA DongleMinor ==
  ASSUME NEW h \in Host
  PROVE  Minor(h, dongle_bug(h))
  <1>. DEFINE g == AclEvent(h, h.kept[1])
  <1>1. CASE h.kept = NothingKept
    BY <1>1, MinorTrans DEF dongle_bug
  <1>2. CASE h.kept # NothingKept
    <2>1. h.kept[1] \in RxAcl /\ NothingKept \in Seq(RxAcl)
      BY <1>2, HostParts DEF NothingKept
    <2>2. Minor(h, g) /\ g \in Host
      BY <2>1, AclMinor DEF Minor
    <2>3. dongle_bug(h) = [g EXCEPT !.kept = NothingKept]
      BY <1>2 DEF dongle_bug
    <2>. HIDE DEF g
    <2>4. Minor(g, [g EXCEPT !.kept = NothingKept])
      BY <2>1, <2>2, PutRest DEF Minor
    <2>5. QED
      BY <2>2, <2>3, <2>4, MinorTrans
  <1>3. QED
    BY <1>1, <1>2

(* The events that say what becomes of a connection set a handle first of  *)
(* all, or delete the device's sockets with it.                            *)
Relinked(h, p) ==
  CASE p.evt = "CONNECTION_COMP" /\ h.bt[p.dev].known ->
         [h EXCEPT !.bt[p.dev].handle = IF p.arg = 0 THEN NoHandle ELSE p.arg]
    [] p.evt = "DISCONNECTION_COMP" /\ OnHandle(h, p.arg) # {} ->
         disconnect_all(h, get_device_by_handle(h, p.arg))
    [] OTHER -> h

(* A handle that is set.                                                   *)
WithHandle(h, d, n) == [h EXCEPT !.bt[d].handle = n]

(* A host whose handle for one device has changed.                         *)
LEMMA PutHandle ==
  ASSUME NEW h \in Host, NEW d \in Devices, NEW n \in Links
  PROVE  LET g == [h EXCEPT !.bt[d].handle = n]
         IN /\ \A e : Claimed(h, g, e)
            /\ g.bt[d] = [h.bt[d] EXCEPT !.handle = n]
            /\ g.tx = h.tx /\ g.inp = h.inp /\ g.hids = h.hids
            /\ \A e \in Devices \ {d} : g.bt[e] = h.bt[e]
  <1>. DEFINE b == [h.bt[d] EXCEPT !.handle = n]
  <1>1. b \in Device /\ b.sockets = h.bt[d].sockets
    BY DeviceParts DEF Device
  <1>2. [h EXCEPT !.bt[d].handle = n] = [h EXCEPT !.bt[d] = b]
    OBVIOUS
  <1>. DEFINE c == b
  <1>3. c \in Device /\ DOMAIN c.sockets \subseteq Sockets(h, d)
    BY <1>1 DEF Sockets
  <1>. HIDE DEF c
  <1>4. LET g == [h EXCEPT !.bt[d] = c]
        IN /\ \A e : Claimed(h, g, e)
           /\ g.bt[d] = c /\ g.tx = h.tx /\ g.inp = h.inp /\ g.hids = h.hids
           /\ \A e \in Devices \ {d} : g.bt[e] = h.bt[e]
    BY <1>3, PutDevice
  <1>5. QED
    BY <1>2, <1>4 DEF c

(* A host whose handles change so is good as long as it knows the devices. *)
LEMMA ClaimedGood ==
  ASSUME NEW h, Good(h), NEW g, NEW d, Claimed(h, g, d), KnownOK(g)
  PROVE  Good(g) /\ (g.state = NotSent => h.state = NotSent)
  <1>1. Own(g) /\ g \in Host
    BY EffectOwn DEF Good, Claimed
  <1>2. SlotsOK(g)
    BY DEF Good, SlotsOK, Claimed, SameSlots, Found
  <1>3. QED
    BY <1>1, <1>2 DEF Good, Claimed

(* A connection completed or failed sets a handle ...                      *)
LEMMA CompRelinked ==
  ASSUME NEW h, Good(h), NEW d \in Devices, h.bt[d].known, NEW n \in Links,
         NEW g, g = WithHandle(h, d, n)
  PROVE  /\ Good(g) /\ (g.state = NotSent => h.state = NotSent)
         /\ g.bt[d] = [h.bt[d] EXCEPT !.handle = n] /\ Handle(g, d) = n
         /\ g.bt[d].known
         /\ g.tx = h.tx /\ g.inp = h.inp /\ \A e \in Devices \ {d} : g.bt[e] = h.bt[e]
  <1>1. h \in Host /\ KnownOK(h)
    BY DEF Good
  <1>2. /\ Claimed(h, g, d)
        /\ g.bt[d] = [h.bt[d] EXCEPT !.handle = n]
        /\ g.tx = h.tx /\ g.inp = h.inp /\ g.hids = h.hids
        /\ \A e \in Devices \ {d} : g.bt[e] = h.bt[e]
    <2>. DEFINE f == [h EXCEPT !.bt[d].handle = n]
    <2>1. /\ Claimed(h, f, d)
          /\ f.bt[d] = [h.bt[d] EXCEPT !.handle = n]
          /\ f.tx = h.tx /\ f.inp = h.inp /\ f.hids = h.hids
          /\ \A e \in Devices \ {d} : f.bt[e] = h.bt[e]
      BY <1>1, PutHandle
    <2>2. g = f
      BY DEF WithHandle
    <2>. HIDE DEF f
    <2>3. QED
      BY <2>1, <2>2
  <1>3. g.bt[d].known /\ Handle(g, d) = n
    BY <1>1, <1>2, DeviceParts DEF Device, Handle
  <1>4. KnownOK(g)
    <2>1. \A e \in Devices : (Found(g, e) <=> Found(h, e)) /\ (Creates(g, e) <=> Creates(h, e))
      BY <1>2 DEF Found, Creates
    <2>2. \A e \in Devices \ {d} : Handle(g, e) = Handle(h, e) /\ g.bt[e].known = h.bt[e].known
      BY <1>2 DEF Handle
    <2>3. QED
      BY <1>1, <1>3, <2>1, <2>2 DEF KnownOK
  <1>5. QED
    BY <1>2, <1>3, <1>4, ClaimedGood

(* ... and the end of one clears it.                                       *)
LEMMA DiscRelinked ==
  ASSUME NEW h, Good(h), NEW d \in Devices, h.bt[d].known
  PROVE  LET g == disconnect_all(h, d)
         IN /\ Good(g) /\ (g.state = NotSent => h.state = NotSent)
            /\ Handle(g, d) = NoHandle /\ ~Waits(g.bt[d]) /\ g.bt[d].known
            /\ g.tx = h.tx /\ g.inp = h.inp /\ g.hids = h.hids
            /\ \A e \in Devices \ {d} : g.bt[e] = h.bt[e]
  <1>. DEFINE g == disconnect_all(h, d)
  <1>1. h \in Host /\ KnownOK(h)
    BY DEF Good
  <1>2. /\ Claimed(h, g, d)
        /\ g.bt[d] = [h.bt[d] EXCEPT !.sockets = <<>>, !.handle = NoHandle, !.seen = {}]
        /\ g.tx = h.tx /\ g.inp = h.inp /\ g.hids = h.hids
        /\ \A e \in Devices \ {d} : g.bt[e] = h.bt[e]
    BY <1>1, DisconnectClaimed
  <1>. HIDE DEF g
  <1>3. g.bt[d].known /\ Handle(g, d) = NoHandle /\ ~Waits(g.bt[d])
    <2>1. h.bt[d] \in Device
      BY <1>1, DeviceParts
    <2>2. g.bt[d].known /\ g.bt[d].handle = NoHandle /\ g.bt[d].sockets = <<>>
      BY <1>2, <2>1 DEF Device
    <2>3. QED
      BY <2>2, SocketMaps DEF Handle, Waits
  <1>4. KnownOK(g)
    <2>1. \A e \in Devices : (Found(g, e) <=> Found(h, e)) /\ (Creates(g, e) <=> Creates(h, e))
      BY <1>2 DEF Found, Creates
    <2>2. \A e \in Devices \ {d} : Handle(g, e) = Handle(h, e) /\ g.bt[e].known = h.bt[e].known
      BY <1>2 DEF Handle
    <2>3. QED
      BY <1>1, <1>3, <2>1, <2>2 DEF KnownOK
  <1>5. QED
    BY <1>2, <1>3, <1>4, ClaimedGood DEF g

(* Whatever packet is received, the host stays good: every event's handler *)
(* is a call about one device, a loop over them, or add_device, after what *)
(* the event does to the handle.                                           *)
LEMMA HandledGood ==
  ASSUME NEW h, Good(h), NEW p \in RxPacket, p \in RxQuiet \/ h.state # NotSent
  PROVE  LET g == Handled(h, p)
             x == Relinked(h, p)
         IN /\ Good(g) /\ (g.state = NotSent => h.state = NotSent)
            /\ Tracks(x, g) /\ Feeds(x, g)
            /\ p.evt = "CONNECTION_REQUEST" => g.bt[p.dev].known
  <1>. DEFINE x == Relinked(h, p)
              Fit(g) == /\ Good(g) /\ (g.state = NotSent => h.state = NotSent)
                        /\ Tracks(x, g) /\ Feeds(x, g)
  <1>1. h \in Host /\ KnownOK(h)
    BY DEF Good
  <1>2. ASSUME Good(x) PROVE \A g, f : Fit(g) /\ Attends(g, f) => Fit(f)
    <2>1. ASSUME NEW g, NEW f, Fit(g), Attends(g, f) PROVE Fit(f)
      <3>. HIDE DEF x
      <3>1. Tracks(x, f)
        BY <1>2, <2>1, TracksTrans DEF Attends, Serves, Good
      <3>2. QED
        BY <2>1, <3>1 DEF Attends, Serves, Feeds
    <2>2. QED
      BY <2>1
  <1>3. ASSUME Good(x) PROVE \A g, f, d : Fit(g) /\ (Effect(g, f, d) \/ Minor(g, f)) => Fit(f)
    <2>. HIDE DEF x
    <2>1. QED
      BY <1>2, <1>3, ServesTrans
  <1>4. Good(x) /\ (x.state = NotSent => h.state = NotSent) => Fit(x)
    <2>. HIDE DEF x
    <2>1. QED
      BY TracksSame DEF Good, Feeds
  <1>5. \A g : Fit(g) => g \in Host /\ Good(g) /\ KnownOK(g)
    BY DEF Good
  <1>6. ASSUME x = h PROVE Fit(h) /\ \A f : Minor(h, f) => Fit(f)
    <2>. HIDE DEF x, Fit
    <2>1. QED
      BY <1>3, <1>4, <1>6
  <1>. HIDE DEF Fit, x
  <1>7. CASE p \in RxAcl
    <2>1. p.evt = "ACL" /\ x = h /\ Minor(h, AclEvent(h, p))
      BY <1>1, <1>7, AclMinor DEF RxAcl, Relinked, x
    <2>2. Fit(AclEvent(h, p))
      BY <1>6, <2>1
    <2>3. QED
      BY <2>1, <2>2 DEF Handled, Fit, x
  <1>8. CASE p \in [evt : {"INQUIRY_COMP"}, dev : {"none"}, arg : {0}]
    <2>1. p.evt = "INQUIRY_COMP" /\ x = h /\ Minor(h, InquiryComp(h))
      BY <1>1, <1>8, InquiryCompMinor DEF Relinked, x
    <2>2. Fit(InquiryComp(h))
      BY <1>6, <2>1
    <2>3. QED
      BY <2>1, <2>2 DEF Handled, Fit, x
  <1>9. CASE p \in [evt : {"COMMAND_COMPLETE"}, dev : {"none"}, arg : HandshakeSteps]
    <2>1. /\ p.evt = "COMMAND_COMPLETE" /\ p.arg \in HandshakeSteps /\ h.state # NotSent
          /\ x = h
      BY <1>9 DEF RxQuiet, RxAcl, RxDevice, DeviceEvents, Relinked, x
    <2>2. Fit(CommandComplete(h, p.arg))
      BY <1>1, <1>6, <2>1, CommandCompleteMinor
    <2>3. QED
      BY <2>1, <2>2 DEF Handled, Fit, x
  <1>10. CASE p \in RxDevice
    <2>. DEFINE d == p.dev
    <2>1. d \in Devices /\ p.arg \in Handles \cup {0} /\ p.evt \in DeviceEvents
      BY <1>10 DEF RxDevice
    <2>2. p.evt \notin {"CONNECTION_COMP", "DISCONNECTION_COMP"} => x = h
      BY DEF Relinked, x
    <2>. HIDE DEF d
    <2>. DEFINE k == Known(h, d)
                a == add_device(k, d)
                Plain == x = h
    <2>3. ASSUME Plain PROVE Fit(k) /\ Good(k) /\ k.bt[d].known
      BY <1>1, <1>5, <1>6, <2>1, <2>3, KnownMinor
    <2>4. ASSUME Plain PROVE Fit(a) /\ a.bt[d].known
      <3>. HIDE DEF k
      <3>1. Good(a) /\ (a.state = NotSent => k.state = NotSent) /\ Tracks(k, a) /\ Feeds(k, a)
        BY <2>1, <2>3, <2>4, AddGood
      <3>. HIDE DEF a
      <3>2. Tracks(x, a)
        BY <2>3, <2>4, <3>1, TracksTrans DEF Fit, Good
      <3>3. QED
        BY <2>1, <2>3, <2>4, <3>1, <3>2 DEF Fit, Feeds, Tracks
    <2>5. ASSUME Plain PROVE Fit(ConnectionRequest(h, d)) /\ ConnectionRequest(h, d).bt[d].known
      <3>1. Fit(a) /\ a \in Host /\ a.bt[d].known /\ Good(x)
        BY <1>5, <2>4, <2>5
      <3>2. ConnectionRequest(h, d) \in {a, connection_request(a, d)}
        BY DEF ConnectionRequest, ToDevice
      <3>. HIDE DEF a
      <3>3. Minor(a, connection_request(a, d))
        BY <2>1, <3>1, ConnectionRequestMinor
      <3>4. Tracks(a, connection_request(a, d))
        BY <2>1, <3>3 DEF Minor, Effect
      <3>5. connection_request(a, d).bt[d].known
        BY <2>1, <3>1, <3>4 DEF Tracks
      <3>6. QED
        BY <1>3, <3>1, <3>2, <3>3, <3>5
    <2>6. ASSUME p.evt = "CONNECTION_COMP" PROVE Fit(dongle_bug(ConnectionComplete(h, d, p.arg)))
      <3>. DEFINE g == ConnectionComplete(h, d, p.arg)
      <3>1. Good(x) /\ (x.state = NotSent => h.state = NotSent)
            /\ (g = x \/ g = connection_complete(x, d))
        <4>1. CASE ~h.bt[d].known
          BY <2>6, <4>1 DEF x, Relinked, ConnectionComplete, d
        <4>2. CASE h.bt[d].known
          <5>. DEFINE n == IF p.arg = 0 THEN NoHandle ELSE p.arg
                      y == [h EXCEPT !.bt[d].handle = n]
          <5>1. x = y
            BY <2>6, <4>2 DEF x, Relinked, d
          <5>2. g = y \/ g = connection_complete(y, d)
            BY <4>2 DEF ConnectionComplete, ToDevice
          <5>3. n \in Links
            BY <2>1 DEF Links
          <5>. HIDE DEF n
          <5>4. y = WithHandle(h, d, n)
            BY DEF WithHandle
          <5>. HIDE DEF y
          <5>5. /\ Good(y) /\ (y.state = NotSent => h.state = NotSent)
                /\ y.bt[d] = [h.bt[d] EXCEPT !.handle = n] /\ Handle(y, d) = n
                /\ y.bt[d].known
                /\ y.tx = h.tx /\ y.inp = h.inp /\ \A e \in Devices \ {d} : y.bt[e] = h.bt[e]
            BY <2>1, <4>2, <5>3, <5>4, CompRelinked
          <5>6. QED
            BY <5>1, <5>2, <5>5
        <4>3. QED
          BY <4>1, <4>2
      <3>. HIDE DEF g
      <3>2. Fit(x) /\ x \in Host
        BY <1>4, <1>5, <3>1
      <3>3. Effect(x, connection_complete(x, d), d)
        BY <2>1, <3>2, ConnectionCompleteEffect
      <3>4. Fit(g) /\ g \in Host
        BY <1>3, <1>5, <3>1, <3>2, <3>3
      <3>5. Minor(g, dongle_bug(g))
        BY <3>4, DongleMinor
      <3>6. QED
        BY <1>3, <2>1, <3>1, <3>4, <3>5 DEF g
    <2>7. ASSUME p.evt = "DISCONNECTION_COMP" PROVE Fit(DisconnectionComp(h, p.arg))
      <3>1. CASE OnHandle(h, p.arg) = {}
        <4>1. x = h
          BY <2>7, <3>1 DEF x, Relinked
        <4>2. QED
          BY <1>6, <3>1, <4>1 DEF DisconnectionComp
      <3>2. CASE OnHandle(h, p.arg) # {}
        <4>. DEFINE e == get_device_by_handle(h, p.arg)
                    g == disconnect_all(h, e)
        <4>1. e \in Devices /\ h.bt[e].known
          BY <3>2, HandleOf
        <4>2. DisconnectionComp(h, p.arg) \in {g, disconnection_complete(g, e)} /\ x = g
          BY <2>7, <3>2 DEF DisconnectionComp, ToDevice, x, Relinked
        <4>. HIDE DEF e
        <4>3. Good(g) /\ (g.state = NotSent => h.state = NotSent)
          BY <4>1, DiscRelinked
        <4>. HIDE DEF g
        <4>4. Fit(g) /\ Good(g)
          BY <1>4, <4>2, <4>3
        <4>5. Attends(g, disconnection_complete(g, e))
          BY <4>1, <4>4, DisconnectionServes
        <4>6. QED
          BY <1>2, <4>2, <4>4, <4>5
      <3>3. QED
        BY <3>1, <3>2
    <2>8. ASSUME Plain PROVE Fit(AuthComp(h, p.arg))
      <3>1. CASE OnHandle(h, p.arg) = {}
        BY <1>6, <2>8, <3>1 DEF AuthComp
      <3>2. CASE OnHandle(h, p.arg) # {}
        <4>. DEFINE e == get_device_by_handle(h, p.arg)
        <4>1. e \in Devices
          BY <3>2, HandleOf
        <4>2. AuthComp(h, p.arg) \in {h, authentication_complete(h, e)}
          BY <3>2 DEF AuthComp, ToDevice
        <4>. HIDE DEF e
        <4>3. Effect(h, authentication_complete(h, e), e)
          BY <1>1, <4>1, AuthenticationCompleteEffect
        <4>4. QED
          BY <1>3, <1>6, <2>8, <4>1, <4>2, <4>3
      <3>3. QED
        BY <3>1, <3>2
    <2>9. ASSUME Plain PROVE Fit(RemoteName(h, d))
      <3>1. RemoteName(h, d) \in {h, remote_name_response(h, d)}
        BY DEF RemoteName, ToDevice
      <3>2. Effect(h, remote_name_response(h, d), d)
        BY <1>1, <2>1, RemoteNameEffect
      <3>3. QED
        BY <1>3, <1>6, <2>1, <2>9, <3>1, <3>2
    <2>10. ASSUME Plain PROVE Fit(LinkKeyRequest(h, d)) /\ Fit(Cmd(h, "PIN_CODE_REQUEST_REPLY", d))
      <3>1. LinkKeyRequest(h, d) \in {h, Cmd(h, "LINK_KEY_REQUEST_REPLY", d),
                                      Cmd(h, "LINK_KEY_REQUEST_NEG_REPLY", d)}
        BY DEF LinkKeyRequest
      <3>2. \A op \in AddressOps : op # "CREATE_CONNECTION" => Fit(Cmd(h, op, d))
        BY <1>1, <1>6, <2>1, <2>10, CmdSpeaks, MinorTrans
      <3>3. QED
        BY <1>6, <2>10, <3>1, <3>2 DEF DeviceOps, AddressOps
    <2>11. ASSUME Plain PROVE Fit([h EXCEPT !.keys = @ \cup {d}])
      <3>1. h.keys \cup {d} \in SUBSET Devices
        BY <1>1, <2>1, HostParts
      <3>2. QED
        BY <1>1, <1>6, <2>11, <3>1, PutRest DEF Minor
    <2>12. Fit(Handled(h, p)) /\ (p.evt = "CONNECTION_REQUEST" => Handled(h, p).bt[d].known)
      BY <2>1, <2>2, <2>4, <2>5, <2>6, <2>7, <2>8, <2>9, <2>10, <2>11 DEF Handled, DeviceEvents, d
    <2>13. QED
      BY <2>12 DEF Fit, d, x
  <1>11. QED
    BY <1>7, <1>8, <1>9, <1>10 DEF RxPacket, RxQuiet

(* The events about a connection are those of devices.                     *)
LEMMA RxParts ==
  ASSUME NEW p \in RxPacket
  PROVE  /\ p.evt \in {"CONNECTION_COMP", "DISCONNECTION_COMP", "CONNECTION_REQUEST"} =>
              p.dev \in Devices /\ p.arg \in Handles \cup {0}
         /\ p.evt = "DISCONNECTION_COMP" => p.arg \in Handles
  <1>1. CASE p \in RxAcl
    <2>1. p.evt = "ACL"
      BY <1>1 DEF RxAcl
    <2>2. QED
      BY <2>1
  <1>2. CASE p \in RxDevice
    BY <1>2 DEF RxDevice
  <1>3. CASE p.evt \in {"INQUIRY_COMP", "COMMAND_COMPLETE"}
    BY <1>3
  <1>4. QED
    BY <1>1, <1>2, <1>3 DEF RxPacket, RxQuiet

(* Only a linked device has data or a slot, if that was so before, and if  *)
(* no connection is said to be complete, or to have failed, while there is *)
(* one: the end of a link deletes the device's sockets and its slot.       *)
LEMMA HandledFeeds ==
  ASSUME NEW h, Good(h), NEW p \in RxPacket, p \in RxQuiet \/ h.state # NotSent,
         DataLinked(h), SlotsLinked(h),
         p.evt = "CONNECTION_COMP" => Handle(h, p.dev) \notin Handles
  PROVE  DataLinked(Handled(h, p)) /\ SlotsLinked(Handled(h, p))
  <1>. DEFINE g == Handled(h, p)
              x == Relinked(h, p)
  <1>1. Tracks(x, g) /\ Feeds(x, g)
    BY HandledGood
  <1>2. ASSUME DataLinked(x), SlotsLinked(x) PROVE DataLinked(g) /\ SlotsLinked(g)
    <2>. HIDE DEF x, g
    <2>1. QED
      BY <1>1, <1>2 DEF Feeds
  <1>3. CASE p.evt = "CONNECTION_COMP" /\ h.bt[p.dev].known
    <2>. DEFINE d == p.dev
                n == IF p.arg = 0 THEN NoHandle ELSE p.arg
                y == [h EXCEPT !.bt[d].handle = n]
    <2>1. d \in Devices /\ n \in Links /\ h.bt[d].known /\ Handle(h, d) \notin Handles
      BY <1>3, RxParts DEF Links
    <2>2. x = y
      BY <1>3 DEF Relinked
    <2>. HIDE DEF d, n
    <2>3. /\ Good(y) /\ (y.state = NotSent => h.state = NotSent)
          /\ y.bt[d] = [h.bt[d] EXCEPT !.handle = n] /\ Handle(y, d) = n
          /\ y.bt[d].known
          /\ y.tx = h.tx /\ y.inp = h.inp /\ \A e \in Devices \ {d} : y.bt[e] = h.bt[e]
      <3>1. y = WithHandle(h, d, n)
        BY DEF WithHandle
      <3>. HIDE DEF y
      <3>2. QED
        BY <2>1, <3>1, CompRelinked
    <2>4. ~Waits(h.bt[d]) /\ h.inp[d].wii = NoSlot
      BY <2>1 DEF DataLinked, SlotsLinked
    <2>. HIDE DEF y
    <2>5. ~Waits(y.bt[d])
      <3>1. h.bt[d] \in Device
        BY <2>1, DeviceParts DEF Good
      <3>2. y.bt[d].sockets = h.bt[d].sockets
        BY <2>3, <3>1 DEF Device
      <3>3. QED
        BY <2>4, <3>2 DEF Waits
    <2>6. DataLinked(y)
      BY <2>3, <2>5 DEF DataLinked, Handle
    <2>7. SlotsLinked(y)
      BY <2>3, <2>4 DEF SlotsLinked, Handle
    <2>8. QED
      BY <1>2, <2>2, <2>6, <2>7
  <1>4. CASE p.evt = "DISCONNECTION_COMP" /\ OnHandle(h, p.arg) # {}
    <2>. DEFINE d == get_device_by_handle(h, p.arg)
                y == disconnect_all(h, d)
    <2>1. d \in Devices /\ h.bt[d].known
      BY <1>4, HandleOf
    <2>2. x = y /\ g = ToDevice(y, d, disconnection_complete(y, d))
      BY <1>4 DEF Relinked, Handled, DisconnectionComp
    <2>. HIDE DEF d
    <2>3. /\ Good(y) /\ ~Waits(y.bt[d]) /\ y.inp = h.inp /\ y.hids = h.hids
          /\ \A e \in Devices \ {d} : y.bt[e] = h.bt[e]
      BY <2>1, DiscRelinked
    <2>. HIDE DEF y, x, g
    <2>4. DataLinked(g)
      <3>1. DataLinked(y)
        BY <2>3 DEF DataLinked, Handle
      <3>2. QED
        BY <1>1, <2>2, <3>1 DEF Feeds
    <2>5. g.inp[d].wii = NoSlot /\ \A e \in Devices \ {d} : g.inp[e].wii = h.inp[e].wii
      <3>1. CASE Found(h, d)
        <4>1. g = disconnection_complete(y, d)
          BY <2>2, <2>3, <3>1 DEF ToDevice, Found
        <4>2. QED
          BY <2>1, <2>3, <4>1, DisconnectionServes
      <3>2. CASE ~Found(h, d)
        <4>1. g = y
          BY <2>2, <2>3, <3>2 DEF ToDevice, Found
        <4>2. h.inp[d].wii = NoSlot
          BY <2>1, <3>2 DEF Good, SlotsOK
        <4>3. QED
          BY <2>3, <4>1, <4>2
      <3>3. QED
        BY <3>1, <3>2
    <2>6. \A e \in Devices \ {d} : Handle(h, e) \in Handles => Handle(g, e) = Handle(h, e)
      <3>1. NoHandle \notin Handles
        BY HandleAssumption DEF NoHandle
      <3>2. \A e \in Devices \ {d} : Handle(y, e) = Handle(h, e)
        BY <2>3 DEF Handle
      <3>3. QED
        BY <1>1, <2>2, <3>1, <3>2 DEF Tracks
    <2>7. SlotsLinked(g)
      BY <2>5, <2>6 DEF SlotsLinked
    <2>8. QED
      BY <2>4, <2>7 DEF g
  <1>5. CASE ~(p.evt = "CONNECTION_COMP" /\ h.bt[p.dev].known)
             /\ ~(p.evt = "DISCONNECTION_COMP" /\ OnHandle(h, p.arg) # {})
    <2>1. x = h
      BY <1>5 DEF Relinked
    <2>2. QED
      BY <1>2, <2>1
  <1>6. QED
    BY <1>3, <1>4, <1>5

----------------------------------------------------------------------------
(* BtController: what it puts into the queue.                              *)

Chan == [scid : Sids, late : BOOLEAN, rest : BOOLEAN, wait : SUBSET Commands]
ChanMap == UNION {[S -> Chan] : S \in SUBSET Psms}
Link == {l \in [link : LinkStates, handle : Handles \cup {0}, called : BOOLEAN,
                asked : BOOLEAN, auth : {"no", "key", "pin"}, chan : ChanMap, sent : Nat,
                before : Nat] : l.link = "up" => l.handle \in Handles}
Air == air \in [Devices -> Link]

(* Without a handshake nothing completes one.                              *)
RxOK(q, state) == /\ q \in Seq(RxPacket) /\ Len(q) <= QSIZE
                  /\ (state = NotSent => q \in Seq(RxQuiet))

(* The least of two numbers is at most each.                               *)
LEMMA LeastOfTwo ==
  ASSUME NEW a \in Nat, NEW b \in Nat
  PROVE  Min({a, b}) \in Nat /\ Min({a, b}) <= a /\ Min({a, b}) <= b
  <1>1. {a, b} \in SUBSET Nat /\ {a, b} # {}
    OBVIOUS
  <1>2. QED
    BY <1>1, LeastFree

(* The events come in at the end of the queue, as far as there is room.    *)
LEMMA NotifyOK ==
  ASSUME NEW state, RxOK(rx, state), NEW ps,
         ps \in Seq(RxQuiet) \/ (ps \in Seq(RxPacket) /\ state # NotSent), Notify(ps)
  PROVE  RxOK(rx', state)
  <1>. DEFINE n == Min({Len(rx) + Len(ps), QSIZE})
  <1>1. \A T : rx \in Seq(T) /\ ps \in Seq(T) => rx' \in Seq(T) /\ Len(rx') <= QSIZE
    <2>1. SUFFICES ASSUME NEW T, rx \in Seq(T), ps \in Seq(T)
                   PROVE  rx' \in Seq(T) /\ Len(rx') <= QSIZE
      OBVIOUS
    <2>2. Len(rx) + Len(ps) \in Nat /\ QSIZE \in Nat
      BY <2>1, QueueAssumption
    <2>3. n \in Nat /\ n <= Len(rx) + Len(ps) /\ n <= QSIZE
      BY <2>2, LeastOfTwo
    <2>4. rx \o ps \in Seq(T) /\ Len(rx \o ps) = Len(rx) + Len(ps)
      BY <2>1
    <2>5. rx' = SubSeq(rx \o ps, 1, n)
      BY DEF Notify
    <2>. HIDE DEF n
    <2>6. QED
      BY <2>2, <2>3, <2>4, <2>5
  <1>2. \A q \in Seq(RxQuiet) : q \in Seq(RxPacket)
    BY DEF RxPacket
  <1>3. QED
    BY <1>1, <1>2 DEF RxOK

(* The fields of a link and of its channels.                               *)
LEMMA LinkParts ==
  ASSUME Air, NEW d \in Devices
  PROVE  LET l == air[d]
         IN /\ l \in Link /\ l.link \in LinkStates /\ l.handle \in Handles \cup {0}
            /\ l.called \in BOOLEAN /\ l.asked \in BOOLEAN /\ l.auth \in {"no", "key", "pin"}
            /\ l.chan \in ChanMap /\ l.sent \in Nat /\ l.before \in Nat
            /\ (IsUp(d) => l.handle \in Handles)
            /\ \A psm : HasChannel(d, psm) => psm \in Psms /\ Channel(d, psm) \in Chan
  <1>1. air[d] \in Link
    BY DEF Air
  <1>2. air[d].chan \in ChanMap
    BY <1>1 DEF Link
  <1>3. ASSUME NEW psm, HasChannel(d, psm) PROVE psm \in Psms /\ Channel(d, psm) \in Chan
    BY <1>2, <1>3 DEF ChanMap, HasChannel, Channel
  <1>4. QED
    BY <1>1, <1>3 DEF Link, IsUp

(* The fields of a channel and their changes.                              *)
LEMMA ChanParts ==
  ASSUME NEW c \in Chan
  PROVE  /\ c.scid \in Sids /\ c.late \in BOOLEAN /\ c.rest \in BOOLEAN /\ c.wait \in SUBSET Commands
         /\ \A x : [c EXCEPT !.wait = @ \ {x}] \in Chan
         /\ \A x : [c EXCEPT !.wait = @ \ {x}, !.late = FALSE] \in Chan
         /\ \A x \in BOOLEAN : [c EXCEPT !.rest = x] \in Chan
  BY DEF Chan

(* A channel as it is made has the type.                                   *)
LEMMA NewChannels ==
  /\ Asked \in Chan
  /\ \A s \in Sids, late \in BOOLEAN : Joined(s, late) \in Chan
  BY DEF Asked, Joined, Chan, Sids, Commands

(* An event has the type of those received; only a completed command       *)
(* belongs to the handshake.                                               *)
LEMMA EventType ==
  /\ \A evt \in DeviceEvents, d \in Devices, n \in Handles \cup {0} :
       (evt = "DISCONNECTION_COMP" => n \in Handles) => Event(evt, d, n) \in RxQuiet
  /\ Event("INQUIRY_COMP", "none", 0) \in RxQuiet
  /\ \A op \in HandshakeSteps : Event("COMMAND_COMPLETE", "none", op) \in RxPacket
  BY DEF Event, RxQuiet, RxDevice, RxPacket

(* Data of a device has the type of what is received, split or not.        *)
LEMMA PacketType ==
  ASSUME Air, NEW d \in Devices, IsUp(d), NEW into \in Sids, NEW load \in Load
  PROVE  LET p == Packet(d, into, load)
         IN p \in RxQuiet /\ [p EXCEPT !.size = 2] \in RxQuiet
            /\ [p EXCEPT !.size = 2, !.first = FALSE] \in RxQuiet
  <1>1. into \in Nat /\ into # 1 /\ air[d].handle \in Handles
    BY LinkParts DEF Sids, Cids, FirstCid
  <1>2. QED
    BY <1>1 DEF Packet, RxQuiet, RxAcl

(* A signal of a device has the type of what is received.                  *)
LEMMA SignalType ==
  ASSUME Air, NEW d \in Devices, NEW cmd \in Commands, NEW psm \in Psms, NEW scid \in Sids,
         NEW status \in {"success", "pending", "refused"}
  PROVE  LET p == Signal(d, cmd, psm, scid, status)
         IN (IsUp(d) => p \in RxQuiet) /\ \A n \in Handles : [p EXCEPT !.handle = n] \in RxQuiet
  <1>. DEFINE load == [cmd |-> cmd, psm |-> psm, scid |-> scid, status |-> status]
              P(k) == [evt |-> "ACL", handle |-> k, from |-> d, first |-> TRUE, size |-> 1,
                       into |-> 1, load |-> load]
  <1>1. load \in Control
    BY DEF Control
  <1>2. (IsUp(d) => air[d].handle \in Handles) /\ load \in Load
    BY <1>1, LinkParts DEF Load
  <1>3. Signal(d, cmd, psm, scid, status) = P(air[d].handle)
    BY DEF Signal, Packet
  <1>. HIDE DEF load
  <1>4. ASSUME NEW k \in Handles PROVE P(k) \in RxAcl
    BY <1>1, <1>2 DEF RxAcl
  <1>5. ASSUME NEW k, NEW n \in Handles PROVE [P(k) EXCEPT !.handle = n] \in RxAcl
    BY <1>1, <1>2 DEF RxAcl
  <1>. HIDE DEF P
  <1>6. QED
    BY <1>2, <1>3, <1>4, <1>5 DEF RxQuiet

(* A link changed is a link.                                               *)
LEMMA ChannelsType ==
  ASSUME Air, NEW d \in Devices, NEW psm \in Psms, NEW c \in Chan
  PROVE  /\ WithChannel(d, psm, c) \in [Devices -> Link]
         /\ WithoutChannel(d, psm) \in [Devices -> Link]
  <1>. DEFINE m == [p \in DOMAIN air[d].chan \cup {psm} |-> IF p = psm THEN c ELSE air[d].chan[p]]
              n == [p \in DOMAIN air[d].chan \ {psm} |-> air[d].chan[p]]
  <1>1. air[d] \in Link /\ air[d].chan \in ChanMap
    BY LinkParts
  <1>2. PICK S \in SUBSET Psms : air[d].chan \in [S -> Chan]
    BY <1>1 DEF ChanMap
  <1>3. m \in [S \cup {psm} -> Chan] /\ n \in [S \ {psm} -> Chan]
    BY <1>2
  <1>. HIDE DEF m, n
  <1>4. m \in ChanMap /\ n \in ChanMap
    <2>1. S \cup {psm} \in SUBSET Psms /\ S \ {psm} \in SUBSET Psms
      OBVIOUS
    <2>2. QED
      BY <1>3, <2>1 DEF ChanMap
  <1>5. [air[d] EXCEPT !.chan = m] \in Link /\ [air[d] EXCEPT !.chan = n] \in Link
    BY <1>1, <1>4 DEF Link
  <1>6. /\ WithChannel(d, psm, c) = [air EXCEPT ![d] = [air[d] EXCEPT !.chan = m]]
        /\ WithoutChannel(d, psm) = [air EXCEPT ![d] = [air[d] EXCEPT !.chan = n]]
    BY DEF WithChannel, WithoutChannel, m, n
  <1>7. QED
    BY <1>5, <1>6 DEF Air

(* What a step of the controller leaves.                                   *)
Fine(state) == Air' /\ may' \in May /\ RxOK(rx', state)

(* Sequences of at most two packets that are none of the handshake's.      *)
LEMMA Short ==
  /\ <<>> \in Seq(RxQuiet) /\ \A a \in RxQuiet : <<a>> \in Seq(RxQuiet)
  /\ \A a, b \in RxQuiet : <<a, b>> \in Seq(RxQuiet) /\ <<a>> \o <<b>> \in Seq(RxQuiet)
  /\ \A a \in RxQuiet : <<a>> \o <<>> \in Seq(RxQuiet) /\ <<>> \o <<a>> \in Seq(RxQuiet)
  <1>. DEFINE T == RxQuiet
  <1>1. \A a, b \in T : <<a>> \in Seq(T) /\ <<b>> \in Seq(T) /\ <<a, b>> \in Seq(T) /\ <<>> \in Seq(T)
    <2>. HIDE DEF T
    <2>1. QED
      OBVIOUS
  <1>2. \A x, y \in Seq(T) : x \o y \in Seq(T)
    <2>. HIDE DEF T
    <2>1. QED
      OBVIOUS
  <1>3. <<>> \in Seq(T)
    OBVIOUS
  <1>. HIDE DEF T
  <1>4. QED
    BY <1>1, <1>2, <1>3 DEF T

(* What the controller and the devices do is typed when what they send is. *)
LEMMA FineStep ==
  ASSUME Air, may \in May, NEW state, RxOK(rx, state)
  PROVE  /\ \A ps \in Seq(RxQuiet) : Notify(ps) => RxOK(rx', state)
         /\ \A d \in Devices, l \in Link, ps \in Seq(RxQuiet) : Turns(d, l, ps) => Fine(state)
         /\ UNCHANGED may => may' \in May
         /\ \A what \in {"calls", "drops", "fails", "closes", "asks", "overtakes", "more"} :
              Spends(what) => may' \in May
  <1>1. \A ps \in Seq(RxQuiet) : Notify(ps) => RxOK(rx', state)
    BY NotifyOK
  <1>2. ASSUME NEW d \in Devices, NEW l \in Link, NEW ps \in Seq(RxQuiet), Turns(d, l, ps)
        PROVE  Fine(state)
    <2>1. air' \in [Devices -> Link] /\ may' \in May /\ Notify(ps)
      BY <1>2 DEF Turns, Air
    <2>2. QED
      BY <1>1, <2>1 DEF Fine, Air
  <1>3. ASSUME NEW what \in {"calls", "drops", "fails", "closes", "asks", "overtakes", "more"},
               Spends(what)
        PROVE  may' \in May
    <2>1. may[what] \in Nat /\ may[what] > 0 /\ may' = [may EXCEPT ![what] = @ - 1]
      BY <1>3 DEF Spends, May
    <2>. DEFINE n == may[what] - 1
    <2>2. n \in Nat /\ may' = [may EXCEPT ![what] = n]
      BY <2>1
    <2>. HIDE DEF n
    <2>3. QED
      BY <2>2 DEF May
  <1>4. QED
    BY <1>1, <1>2, <1>3

(* The answers to the commands of authentication are typed.                *)
LEMMA TakenAuthOK ==
  ASSUME Air, may \in May, NEW state, RxOK(rx, state), NEW d \in Devices, NEW op, TakenAuth(d, op)
  PROVE  Fine(state)
  <1>. DEFINE l == air[d]
              comp == Event("AUTH_COMP", d, l.handle)
              Set(x) == [l EXCEPT !.auth = x]
  <1>1. l \in Link /\ l.handle \in Handles \cup {0}
    BY LinkParts
  <1>2. \A x \in {"no", "key", "pin"} : Set(x) \in Link
    BY <1>1 DEF Link
  <1>3. comp \in RxQuiet
        /\ \A evt \in DeviceEvents \ {"DISCONNECTION_COMP"} : Event(evt, d, 0) \in RxQuiet
    BY <1>1, EventType DEF DeviceEvents
  <1>4. /\ <<comp>> \in Seq(RxQuiet) /\ <<Event("LINK_KEY_REQUEST", d, 0)>> \in Seq(RxQuiet)
        /\ <<Event("PIN_CODE_REQUEST", d, 0)>> \in Seq(RxQuiet)
        /\ <<Event("LINK_KEY_NOTIFICATION", d, 0), comp>> \in Seq(RxQuiet)
    <2>. HIDE DEF comp
    <2>1. QED
      BY <1>3, Short DEF DeviceEvents
  <1>5. \/ Turns(d, Set("key"), <<Event("LINK_KEY_REQUEST", d, 0)>>)
        \/ Turns(d, Set("no"), <<comp>>)
        \/ Turns(d, Set("pin"), <<Event("PIN_CODE_REQUEST", d, 0)>>)
        \/ Turns(d, Set("no"), <<Event("LINK_KEY_NOTIFICATION", d, 0), comp>>)
        \/ Ignored
    BY DEF TakenAuth
  <1>6. Ignored => Fine(state)
    BY DEF Ignored, airVars, Fine, Air
  <1>. HIDE DEF comp, Set, l
  <1>7. QED
    BY <1>2, <1>4, <1>5, <1>6, FineStep

(* The fields of a packet sent, by what it is.                             *)
LEMMA TxParts ==
  ASSUME NEW p \in TxPacket
  PROVE  /\ p.op = "ACL" => /\ p \in TxAcl /\ p.handle \in Links /\ p.psm \in Psms \cup {NoEnd}
                            /\ p.scid \in Sids /\ (p.cmd = "CONN_REQ" => p.psm \in Psms)
         /\ p.op \in DeviceOps => p.dev \in Devices
         /\ p.op \in DeviceOps \cup {"INQUIRY", "ACL"} \cup HandshakeSteps
         /\ p.op \in HandshakeSteps => p \notin TxQuiet
  <1>1. CASE p \in TxAcl
    BY <1>1 DEF TxAcl, DeviceOps, HandshakeSteps
  <1>2. CASE p \in [op : AddressOps, dev : Devices] \/ p \in TxAuth
    <2>1. p.op \in DeviceOps /\ p.dev \in Devices
      BY <1>2 DEF AddressOps, TxAuth, DeviceOps
    <2>2. QED
      BY <2>1 DEF DeviceOps, HandshakeSteps
  <1>3. CASE p \in [op : {"INQUIRY"}, dev : {"none"}]
    <2>1. p.op = "INQUIRY"
      BY <1>3
    <2>2. QED
      BY <2>1 DEF DeviceOps, HandshakeSteps
  <1>4. CASE p \in [op : HandshakeSteps, dev : {"none"}]
    <2>1. p.op \in HandshakeSteps
      BY <1>4
    <2>2. QED
      BY <2>1 DEF DeviceOps, AddressOps, HandshakeSteps, TxQuiet, TxAcl, TxAuth
  <1>5. QED
    BY <1>1, <1>2, <1>3, <1>4 DEF TxPacket, TxQuiet

(* Who has a handle is a device.                                           *)
LEMMA Holder ==
  ASSUME NEW n, LinkOf(n) # {}
  PROVE  (CHOOSE e \in LinkOf(n) : TRUE) \in Devices
  BY DEF LinkOf

(* The answers to a command are typed: a command of the handshake is       *)
(* answered only after it began.                                           *)
LEMMA TakenCommandOK ==
  ASSUME Air, may \in May, NEW state, RxOK(rx, state), NEW p \in TxPacket, p.op # "ACL",
         p \in TxQuiet \/ state # NotSent, TakenCommand(p)
  PROVE  Fine(state)
  <1>. DEFINE d == p.dev
              l == air[d]
  <1>1. p.op \in DeviceOps \cup {"INQUIRY"} \cup HandshakeSteps
    BY TxParts
  <1>2. CASE p.op \in HandshakeSteps
    <2>. DEFINE e == Event("COMMAND_COMPLETE", "none", p.op)
    <2>1. state # NotSent /\ e \in RxPacket
      BY <1>2, TxParts, EventType
    <2>2. /\ Notify(<<e>>)
          /\ may' = [may EXCEPT !.scan = @ \/ p.op = "WRITE_SCAN_ENABLE"]
          /\ UNCHANGED air
      BY <1>2 DEF TakenCommand, HandshakeSteps
    <2>. HIDE DEF e
    <2>3. <<e>> \in Seq(RxPacket)
      <3>. DEFINE T == RxPacket
      <3>1. e \in T => <<e>> \in Seq(T)
        <4>. HIDE DEF T
        <4>1. QED
          OBVIOUS
      <3>2. QED
        BY <2>1, <3>1
    <2>4. RxOK(rx', state)
      BY <2>1, <2>2, <2>3, NotifyOK
    <2>5. may' \in May
      <3>. DEFINE b == may.scan \/ p.op = "WRITE_SCAN_ENABLE"
      <3>1. b \in BOOLEAN /\ may' = [may EXCEPT !.scan = b]
        BY <2>2
      <3>. HIDE DEF b
      <3>2. QED
        BY <3>1 DEF May
    <2>6. QED
      BY <2>2, <2>4, <2>5 DEF Fine, Air
  <1>3. CASE p.op = "INQUIRY"
    BY <1>3 DEF TakenCommand, HandshakeSteps, Fine, Air
  <1>4. CASE p.op \in DeviceOps
    <2>1. d \in Devices
      BY <1>4, TxParts
    <2>2. l \in Link
      BY <2>1, LinkParts
    <2>3. [l EXCEPT !.link = "paging"] \in Link /\ [l EXCEPT !.asked = TRUE] \in Link
      BY <2>2 DEF Link, LinkStates
    <2>4. \/ Turns(d, [l EXCEPT !.link = "paging"], <<>>)
          \/ Turns(d, [l EXCEPT !.asked = TRUE], <<>>)
          \/ \E e \in Devices : TakenAuth(e, p.op)
          \/ Ignored
      BY <1>4, <2>1, Holder DEF TakenCommand, DeviceOps, HandshakeSteps
    <2>5. Ignored => Fine(state)
      BY DEF Ignored, airVars, Fine, Air
    <2>. HIDE DEF d, l
    <2>6. QED
      BY <2>1, <2>3, <2>4, <2>5, Short, FineStep, TakenAuthOK
  <1>5. QED
    BY <1>1, <1>2, <1>3, <1>4

(* What a device does on one of its channels is typed.                     *)
LEMMA OnChannelOK ==
  ASSUME Air, may \in May, NEW state, RxOK(rx, state), NEW d \in Devices, NEW p, p.psm \in Psms,
         IsUp(d), NEW c \in Chan, NEW cmds \in Seq(Commands), OnChannel(d, p, c, cmds)
  PROVE  Fine(state)
  <1>. DEFINE ps == [k \in DOMAIN cmds |-> Signal(d, cmds[k], p.psm, c.scid, "success")]
  <1>1. air' = WithChannel(d, p.psm, c) /\ Notify(ps) /\ UNCHANGED may
    BY DEF OnChannel
  <1>2. Air'
    BY <1>1, ChannelsType DEF Air
  <1>3. ps \in Seq(RxQuiet)
    <2>1. DOMAIN cmds = 1 .. Len(cmds) /\ Len(cmds) \in Nat
      OBVIOUS
    <2>2. ASSUME NEW k \in 1 .. Len(cmds)
          PROVE  Signal(d, cmds[k], p.psm, c.scid, "success") \in RxQuiet
      <3>1. cmds[k] \in Commands
        OBVIOUS
      <3>. DEFINE x == cmds[k]
                  i == c.scid
                  q == p.psm
      <3>2. x \in Commands /\ i \in Sids /\ q \in Psms
        BY <3>1, ChanParts
      <3>. HIDE DEF x, i, q
      <3>3. Signal(d, x, q, i, "success") \in RxQuiet
        BY <3>2, SignalType
      <3>4. QED
        BY <3>3 DEF x, i, q
    <2>3. ps \in [1 .. Len(cmds) -> RxQuiet]
      BY <2>1, <2>2
    <2>. HIDE DEF ps
    <2>4. \A T, n, f : n \in Nat /\ f \in [1 .. n -> T] => f \in Seq(T)
      OBVIOUS
    <2>5. QED
      BY <2>1, <2>3, <2>4
  <1>. HIDE DEF ps
  <1>4. QED
    BY <1>1, <1>2, <1>3, FineStep DEF Fine

(* The answers to a connection request are typed.                          *)
LEMMA TakenConnReqOK ==
  ASSUME Air, may \in May, NEW state, RxOK(rx, state), NEW d \in Devices, NEW p,
         IsUp(d), p.psm \in Psms, p.scid \in Sids, TakenConnReq(d, p)
  PROVE  Fine(state)
  <1>. DEFINE Answer(cmd, status) == Signal(d, cmd, p.psm, p.scid, status)
  <1>1. \A cmd \in {"CONN_RSP", "CONF_REQ"}, status \in {"success", "refused"} :
          Answer(cmd, status) \in RxQuiet
    BY SignalType DEF Commands
  <1>. HIDE DEF Answer
  <1>2. CASE HasChannel(d, p.psm)
    <2>1. Turns(d, air[d], <<Answer("CONN_RSP", "refused")>>)
      BY <1>2 DEF TakenConnReq, Answer
    <2>2. air[d] \in Link
      BY LinkParts
    <2>3. QED
      BY <1>1, <2>1, <2>2, Short, FineStep
  <1>3. CASE ~HasChannel(d, p.psm)
    <2>1. PICK late \in BOOLEAN :
            /\ air' = WithChannel(d, p.psm, Joined(p.scid, late)) /\ UNCHANGED may
            /\ Notify(<<Answer("CONN_RSP", "success")>>
                      \o IF late THEN <<>> ELSE <<Answer("CONF_REQ", "success")>>)
      BY <1>3 DEF TakenConnReq, Answer
    <2>2. Air'
      BY <2>1, NewChannels, ChannelsType DEF Air
    <2>3. \E ps \in Seq(RxQuiet) : Notify(ps)
      <3>1. CASE late
        BY <1>1, <2>1, <3>1, Short
      <3>2. CASE ~late
        BY <1>1, <2>1, <3>2, Short
      <3>3. QED
        BY <3>1, <3>2
    <2>4. QED
      BY <2>1, <2>2, <2>3, FineStep DEF Fine
  <1>4. QED
    BY <1>2, <1>3

(* The answers to a signal or to data are typed.                           *)
LEMMA TakenAclOK ==
  ASSUME Air, may \in May, NEW state, RxOK(rx, state), NEW d \in Devices, NEW p \in TxPacket,
         IsUp(d), p.op = "ACL", TakenAcl(d, p)
  PROVE  Fine(state)
  <1>. DEFINE c == Channel(d, p.psm)
  <1>1. p.scid \in Sids /\ (p.cmd = "CONN_REQ" => p.psm \in Psms)
    BY TxParts
  <1>2. Ignored => Fine(state)
    BY DEF Ignored, airVars, Fine, Air
  <1>3. CASE p.cmd = "CONN_REQ"
    BY <1>1, <1>3, TakenConnReqOK DEF TakenAcl
  <1>4. CASE p.cmd # "CONN_REQ" /\ ~HasChannel(d, p.psm)
    BY <1>2, <1>4 DEF TakenAcl
  <1>5. CASE p.cmd # "CONN_REQ" /\ HasChannel(d, p.psm)
    <2>1. p.psm \in Psms /\ c \in Chan
      BY <1>5, LinkParts
    <2>2. c.scid \in Sids
      BY <2>1, ChanParts
    <2>. HIDE DEF c
    <2>3. CASE p.cmd = "CONN_RSP"
      <3>1. Ignored \/ OnChannel(d, p, Joined(p.scid, FALSE), <<"CONF_REQ">>)
        BY <1>5, <2>3 DEF TakenAcl, c
      <3>2. <<"CONF_REQ">> \in Seq(Commands)
        BY DEF Commands
      <3>3. QED
        BY <1>1, <1>2, <2>1, <3>1, <3>2, NewChannels, OnChannelOK
    <2>4. CASE p.cmd = "CONF_REQ"
      <3>. DEFINE x == [c EXCEPT !.wait = @ \ {"CONF_REQ"}, !.late = FALSE]
                  cmds == IF c.late THEN <<"CONF_RSP", "CONF_REQ">> ELSE <<"CONF_RSP">>
      <3>1. OnChannel(d, p, x, cmds)
        BY <1>5, <2>4 DEF TakenAcl, c
      <3>2. x \in Chan
        BY <2>1, ChanParts
      <3>3. cmds \in Seq(Commands)
        <4>1. "CONF_RSP" \in Commands /\ "CONF_REQ" \in Commands
          BY DEF Commands
        <4>2. <<"CONF_RSP", "CONF_REQ">> \in Seq(Commands) /\ <<"CONF_RSP">> \in Seq(Commands)
          BY <4>1
        <4>3. QED
          BY <4>2
      <3>. HIDE DEF x, cmds
      <3>4. QED
        BY <2>1, <3>1, <3>2, <3>3, OnChannelOK
    <2>5. CASE p.cmd = "CONF_RSP"
      <3>. DEFINE x == [c EXCEPT !.wait = @ \ {"CONF_RSP"}]
      <3>1. OnChannel(d, p, x, <<>>)
        BY <1>5, <2>5 DEF TakenAcl, c
      <3>2. x \in Chan
        BY <2>1, ChanParts
      <3>3. <<>> \in Seq(Commands)
        OBVIOUS
      <3>. HIDE DEF x
      <3>4. QED
        BY <2>1, <3>1, <3>2, <3>3, OnChannelOK
    <2>6. CASE p.cmd = "DISCONN_REQ"
      <3>. DEFINE e == Signal(d, "DISCONN_RSP", p.psm, p.scid, "success")
      <3>1. Notify(<<e>>) /\ air' = WithoutChannel(d, p.psm) /\ UNCHANGED may
        BY <1>5, <2>6 DEF TakenAcl
      <3>2. e \in RxQuiet
        BY <1>1, <2>1, SignalType DEF Commands
      <3>. HIDE DEF e
      <3>3. Air'
        BY <2>1, <3>1, ChannelsType DEF Air
      <3>4. QED
        BY <3>1, <3>2, <3>3, Short, FineStep DEF Fine
    <2>7. CASE p.cmd = "SEARCH" /\ p.psm = "sdp" /\ ~c.rest
      <3>. DEFINE e == [Packet(d, c.scid, "MORE") EXCEPT !.size = 2]
                  x == [c EXCEPT !.rest = TRUE]
      <3>1. Notify(<<e>>) /\ air' = WithChannel(d, "sdp", x) /\ UNCHANGED may
        BY <1>5, <2>7 DEF TakenAcl, c
      <3>2. e \in RxQuiet
        BY <2>2, PacketType DEF Load
      <3>3. x \in Chan /\ "sdp" \in Psms
        BY <2>1, ChanParts DEF Psms
      <3>. HIDE DEF e, x
      <3>4. Air'
        BY <3>1, <3>3, ChannelsType DEF Air
      <3>5. QED
        BY <3>1, <3>2, <3>4, Short, FineStep DEF Fine
    <2>8. CASE p.cmd \notin {"CONN_RSP", "CONF_REQ", "CONF_RSP", "DISCONN_REQ"}
               /\ ~(p.cmd = "SEARCH" /\ p.psm = "sdp" /\ ~c.rest)
      BY <1>2, <1>5, <2>8 DEF TakenAcl, c
    <2>9. QED
      BY <2>3, <2>4, <2>5, <2>6, <2>7, <2>8
  <1>6. QED
    BY <1>3, <1>4, <1>5

(* What the controller does with a packet of the host is typed.            *)
LEMMA TakenOK ==
  ASSUME Air, may \in May, NEW state, RxOK(rx, state), NEW p \in TxPacket,
         p \in TxQuiet \/ state # NotSent, Taken(p)
  PROVE  Fine(state)
  <1>1. CASE p.op # "ACL"
    BY <1>1, TakenCommandOK DEF Taken
  <1>2. CASE p.op = "ACL"
    <2>1. Ignored => Fine(state)
      BY DEF Ignored, airVars, Fine, Air
    <2>. DEFINE d == CHOOSE x \in LinkOf(p.handle) : TRUE
    <2>2. LinkOf(p.handle) # {} => d \in Devices /\ IsUp(d)
      BY DEF LinkOf
    <2>3. Ignored \/ (LinkOf(p.handle) # {} /\ TakenAcl(d, p))
      BY <1>2 DEF Taken
    <2>. HIDE DEF d
    <2>4. QED
      BY <1>2, <2>1, <2>2, <2>3, TakenAclOK
  <1>3. QED
    BY <1>1, <1>2

(* The controller answers and acts on its own.                             *)
LEMMA AnswersOK ==
  ASSUME Air, may \in May, NEW state, RxOK(rx, state), Answers
  PROVE  Fine(state)
  <1>1. ASSUME NEW e \in RxQuiet, Notify(<<e>>) PROVE RxOK(rx', state)
    BY <1>1, Short, FineStep
  <1>2. CASE InquiryResult
    <2>1. PICK d \in Devices : Notify(<<Event("INQUIRY_RESULT", d, 0)>>) /\ UNCHANGED <<air, may>>
      BY <1>2 DEF InquiryResult
    <2>2. Event("INQUIRY_RESULT", d, 0) \in RxQuiet
      BY EventType DEF DeviceEvents
    <2>3. QED
      BY <1>1, <2>1, <2>2 DEF Fine, Air
  <1>3. CASE InquiryComplete
    BY <1>1, <1>3, EventType DEF InquiryComplete, Fine, Air
  <1>4. ASSUME NEW d \in Devices, ConnectionMade(d) PROVE Fine(state)
    <2>1. PICK n \in Handles :
            /\ air' = [air EXCEPT ![d].link = "up", ![d].handle = n]
            /\ Notify(<<Event("CONNECTION_COMP", d, n)>>) /\ UNCHANGED may
      BY <1>4 DEF ConnectionMade
    <2>. DEFINE l == [air[d] EXCEPT !.link = "up", !.handle = n]
    <2>2. l \in Link
      <3>1. air[d] \in Link
        BY LinkParts
      <3>2. QED
        BY <3>1 DEF Link, LinkStates
    <2>3. air' = [air EXCEPT ![d] = l]
      BY <2>1 DEF Air
    <2>. HIDE DEF l
    <2>4. Air'
      BY <2>2, <2>3 DEF Air
    <2>5. Event("CONNECTION_COMP", d, n) \in RxQuiet
      BY EventType DEF DeviceEvents
    <2>6. QED
      BY <1>1, <2>1, <2>4, <2>5 DEF Fine
  <1>5. ASSUME NEW d \in Devices, NameRead(d) PROVE Fine(state)
    <2>. DEFINE l == [air[d] EXCEPT !.asked = FALSE]
    <2>1. /\ air' = [air EXCEPT ![d] = l] /\ UNCHANGED may
          /\ Notify(<<Event("RMT_NAME", d, 0)>>)
      BY <1>5 DEF NameRead
    <2>2. l \in Link
      <3>1. air[d] \in Link
        BY LinkParts
      <3>2. QED
        BY <3>1 DEF Link
    <2>. HIDE DEF l
    <2>3. Air'
      BY <2>1, <2>2 DEF Air
    <2>4. Event("RMT_NAME", d, 0) \in RxQuiet
      BY EventType DEF DeviceEvents
    <2>5. QED
      BY <1>1, <2>1, <2>3, <2>4 DEF Fine
  <1>6. ASSUME NEW d \in Devices, SdpAnswer(d) PROVE Fine(state)
    <2>. DEFINE c == Channel(d, "sdp")
                x == [c EXCEPT !.rest = FALSE]
    <2>1. PICK load \in {"LAST", "MORE"} :
            /\ IF load = "LAST" THEN UNCHANGED may ELSE Spends("more")
            /\ Notify(<<[Packet(d, c.scid, load) EXCEPT !.size = 2, !.first = FALSE]>>)
      BY <1>6 DEF SdpAnswer
    <2>2. air' = WithChannel(d, "sdp", x) /\ c \in Chan /\ "sdp" \in Psms
      BY <1>6, LinkParts DEF SdpAnswer, Answering
    <2>0. IsUp(d)
      BY <1>6 DEF SdpAnswer
    <2>3. x \in Chan /\ c.scid \in Sids
      BY <2>2, ChanParts
    <2>. HIDE DEF x
    <2>4. Air'
      BY <2>2, <2>3, ChannelsType DEF Air
    <2>5. [Packet(d, c.scid, load) EXCEPT !.size = 2, !.first = FALSE] \in RxQuiet
      <3>1. load \in Load
        BY DEF Load
      <3>. HIDE DEF c
      <3>2. QED
        BY <2>0, <2>3, <3>1, PacketType
    <2>6. may' \in May
      BY <2>1, FineStep
    <2>7. QED
      BY <1>1, <2>1, <2>4, <2>5, <2>6 DEF Fine
  <1>7. QED
    BY <1>2, <1>3, <1>4, <1>5, <1>6 DEF Answers

(* A link that went down has the type of a link.                           *)
LEMMA DownedType ==
  ASSUME NEW l \in Link
  PROVE  Downed(l) \in Link
  <1>1. <<>> \in ChanMap
    <2>1. <<>> \in [{} -> Chan]
      OBVIOUS
    <2>2. QED
      BY <2>1 DEF ChanMap
  <1>2. NoLink \in Link
    BY <1>1 DEF NoLink, Link, LinkStates
  <1>3. QED
    BY <1>2 DEF Downed, Link

(* What controller and devices do of their own accord is typed.            *)
LEMMA OwnAccordOK ==
  ASSUME Air, may \in May, NEW state, RxOK(rx, state), OwnAccord
  PROVE  Fine(state)
  <1>1. ASSUME NEW e \in RxQuiet, Notify(<<e>>) PROVE RxOK(rx', state)
    BY <1>1, Short, FineStep
  <1>2. ASSUME NEW d \in Devices, DataOvertakes(d) PROVE Fine(state)
    <2>. DEFINE m == [p \in {"control"} |-> Asked]
                s == Signal(d, "CONN_REQ", "control", 0, "success")
    <2>1. PICK n \in Handles :
            /\ air' = [air EXCEPT ![d].link = "up", ![d].handle = n, ![d].chan = m]
            /\ Notify(<<[s EXCEPT !.handle = n], Event("CONNECTION_COMP", d, n)>>)
            /\ Spends("overtakes")
      BY <1>2 DEF DataOvertakes
    <2>2. m \in ChanMap
      <3>1. m \in [{"control"} -> Chan] /\ {"control"} \in SUBSET Psms
        BY NewChannels DEF Psms
      <3>2. QED
        BY <3>1 DEF ChanMap
    <2>. HIDE DEF m
    <2>. DEFINE l == [air[d] EXCEPT !.link = "up", !.handle = n, !.chan = m]
    <2>3. l \in Link
      <3>1. air[d] \in Link
        BY LinkParts
      <3>2. QED
        BY <2>2, <3>1 DEF Link, LinkStates
    <2>4. air' = [air EXCEPT ![d] = l]
      BY <2>1 DEF Air
    <2>. HIDE DEF l
    <2>5. Air' /\ may' \in May
      BY <2>1, <2>3, <2>4, FineStep DEF Air
    <2>6. [s EXCEPT !.handle = n] \in RxQuiet /\ Event("CONNECTION_COMP", d, n) \in RxQuiet
      BY SignalType, EventType DEF Commands, Psms, Sids, DeviceEvents
    <2>. HIDE DEF s
    <2>7. <<[s EXCEPT !.handle = n], Event("CONNECTION_COMP", d, n)>> \in Seq(RxQuiet)
      BY <2>6, Short
    <2>8. QED
      BY <2>1, <2>5, <2>7, FineStep DEF Fine
  <1>3. ASSUME NEW d \in Devices, Calls(d) PROVE Fine(state)
    <2>. DEFINE l == [air[d] EXCEPT !.link = "calling", !.called = TRUE]
    <2>1. /\ air' = [air EXCEPT ![d].link = "calling", ![d].called = TRUE]
          /\ Spends("calls") /\ Notify(<<Event("CONNECTION_REQUEST", d, 0)>>)
      BY <1>3 DEF Calls
    <2>2. l \in Link
      <3>1. air[d] \in Link
        BY LinkParts
      <3>2. QED
        BY <3>1 DEF Link, LinkStates
    <2>3. air' = [air EXCEPT ![d] = l]
      BY <2>1 DEF Air
    <2>. HIDE DEF l
    <2>4. Air' /\ may' \in May
      BY <2>1, <2>2, <2>3, FineStep DEF Air
    <2>5. Event("CONNECTION_REQUEST", d, 0) \in RxQuiet
      BY EventType DEF DeviceEvents
    <2>6. QED
      BY <1>1, <2>1, <2>4, <2>5 DEF Fine
  <1>4. ASSUME NEW d \in Devices, ConnectionFails(d) PROVE Fine(state)
    <2>1. /\ air' = [air EXCEPT ![d] = Downed(air[d])]
          /\ Spends("fails") /\ Notify(<<Event("CONNECTION_COMP", d, 0)>>)
      BY <1>4 DEF ConnectionFails
    <2>2. Downed(air[d]) \in Link
      BY LinkParts, DownedType
    <2>3. Air' /\ may' \in May
      BY <2>1, <2>2, FineStep DEF Air
    <2>4. Event("CONNECTION_COMP", d, 0) \in RxQuiet
      BY EventType DEF DeviceEvents
    <2>5. QED
      BY <1>1, <2>1, <2>3, <2>4 DEF Fine
  <1>5. ASSUME NEW d \in Devices, Drops(d) PROVE Fine(state)
    <2>. DEFINE a == Event("AUTH_COMP", d, air[d].handle)
                e == Event("DISCONNECTION_COMP", d, air[d].handle)
    <2>1. /\ air' = [air EXCEPT ![d] = Downed(air[d])] /\ Spends("drops")
          /\ Notify((IF air[d].auth = "no" THEN <<>> ELSE <<a>>) \o <<e>>)
      BY <1>5 DEF Drops
    <2>2. Downed(air[d]) \in Link
      BY LinkParts, DownedType
    <2>3. Air' /\ may' \in May
      BY <2>1, <2>2, FineStep DEF Air
    <2>4. a \in RxQuiet /\ e \in RxQuiet
      <3>1. air[d].handle \in Handles
        BY <1>5, LinkParts DEF Drops
      <3>2. QED
        BY <3>1, EventType DEF DeviceEvents
    <2>. HIDE DEF a, e
    <2>5. \E ps \in Seq(RxQuiet) : Notify(ps)
      <3>1. CASE air[d].auth = "no"
        BY <2>1, <2>4, <3>1, Short
      <3>2. CASE air[d].auth # "no"
        BY <2>1, <2>4, <3>2, Short
      <3>3. QED
        BY <3>1, <3>2
    <2>6. QED
      BY <2>3, <2>5, FineStep DEF Fine
  <1>6. ASSUME NEW d \in Devices, Reports(d) PROVE Fine(state)
    <2>. DEFINE c == Channel(d, "interrupt")
                n == air[d].sent + 1
                l == [air[d] EXCEPT !.sent = n]
    <2>1. PICK k \in may.kinds : Notify(<<Packet(d, c.scid, [from |-> d, n |-> n, kind |-> k])>>)
      BY <1>6 DEF Reports
    <2>2. air' = [air EXCEPT ![d] = l] /\ UNCHANGED may /\ c.scid \in Sids /\ IsUp(d)
      BY <1>6, LinkParts, ChanParts DEF Reports, Usable
    <2>3. n \in Nat /\ k \in ReportKinds
      BY LinkParts DEF May
    <2>. HIDE DEF c, n
    <2>4. Air'
      <3>1. air[d] \in Link
        BY LinkParts
      <3>2. l \in Link
        BY <2>3, <3>1 DEF Link
      <3>. HIDE DEF l
      <3>3. QED
        BY <2>2, <3>2 DEF Air
    <2>. DEFINE load == [from |-> d, n |-> n, kind |-> k]
    <2>5. load \in Load
      BY <2>3 DEF Load
    <2>. HIDE DEF load
    <2>6. Packet(d, c.scid, load) \in RxQuiet
      BY <2>2, <2>5, PacketType
    <2>7. Notify(<<Packet(d, c.scid, load)>>)
      BY <2>1 DEF load
    <2>8. QED
      BY <1>1, <2>2, <2>4, <2>6, <2>7 DEF Fine
  <1>7. ASSUME NEW d \in Devices, NEW psm \in Psms, AsksChannel(d, psm) PROVE Fine(state)
    <2>. DEFINE e == Signal(d, "CONN_REQ", psm, 0, "success")
    <2>1. air' = WithChannel(d, psm, Asked) /\ Spends("asks") /\ Notify(<<e>>)
      BY <1>7 DEF AsksChannel
    <2>2. Air' /\ may' \in May
      BY <2>1, NewChannels, ChannelsType, FineStep DEF Air
    <2>3. e \in RxQuiet
      BY <1>7, SignalType DEF Commands, Sids, AsksChannel
    <2>. HIDE DEF e
    <2>4. QED
      BY <1>1, <2>1, <2>2, <2>3 DEF Fine
  <1>8. ASSUME NEW d \in Devices, NEW psm \in Psms, ClosesChannel(d, psm) PROVE Fine(state)
    <2>. DEFINE i == Channel(d, psm).scid
                e == Signal(d, "DISCONN_REQ", psm, i, "success")
    <2>1. air' = WithoutChannel(d, psm) /\ Spends("closes") /\ Notify(<<e>>)
      BY <1>8 DEF ClosesChannel
    <2>2. i \in Sids /\ Asked \in Chan
      BY <1>8, LinkParts, ChanParts, NewChannels DEF ClosesChannel, Usable
    <2>3. Air' /\ may' \in May
      BY <2>1, <2>2, ChannelsType, FineStep DEF Air
    <2>. HIDE DEF i
    <2>4. e \in RxQuiet
      BY <1>8, <2>2, SignalType DEF Commands, ClosesChannel
    <2>. HIDE DEF e
    <2>5. QED
      BY <1>1, <2>1, <2>3, <2>4 DEF Fine
  <1>9. QED
    BY <1>2, <1>3, <1>4, <1>5, <1>6, <1>7, <1>8 DEF OwnAccord

----------------------------------------------------------------------------
(* The inductive invariant.                                                *)
Sound == /\ Air /\ may \in May /\ Good(host) /\ RxOK(rx, host.state)
         /\ pc \in {"send", "receive", "get"}

(* The invariant holds at the start, where nothing was sent.               *)
LEMMA SoundInit == Init => Sound
  <1>. SUFFICES ASSUME Init PROVE Sound
    OBVIOUS
  <1>1. <<>> \in [{} -> Chan] /\ DOMAIN <<>> = {}
    OBVIOUS
  <1>2. NoLink \in Link
    BY <1>1 DEF NoLink, Link, LinkStates, ChanMap
  <1>3. Air /\ may \in May /\ pc \in {"send", "receive", "get"}
    BY <1>2, ScenarioAssumption DEF Init, Air
  <1>4. RxOK(rx, host.state)
    BY QueueAssumption DEF Init, RxOK
  <1>5. UnknownDevice \in Device /\ DOMAIN UnknownDevice.sockets = {}
    BY SocketMaps DEF UnknownDevice, NewDevice, Device, Links
  <1>6. NewInputDevice \in Input /\ Ids(NewInputDevice) = {} /\ NewInputDevice.wii = NoSlot
    BY DEF NewInputDevice, Input, Ids, InputStates, Sids
  <1>7. /\ host.bt = [d \in Devices |-> UnknownDevice] /\ host.cid = FirstCid /\ host.tx = <<>>
        /\ host.inp = [d \in Devices |-> NewInputDevice] /\ host.state = NotSent
        /\ host.slots = [i \in WiiSlots |-> {}]
    BY DEF Init
  <1>8. host \in Fields
    <2>. DEFINE bt == [d \in Devices |-> UnknownDevice]
                inp == [d \in Devices |-> NewInputDevice]
                keys == {d \in Devices : may.paired[d]}
                slots == [i \in WiiSlots |-> {}]
    <2>1. /\ bt \in [Devices -> Device] /\ inp \in [Devices -> Input] /\ keys \in SUBSET Devices
          /\ slots \in [WiiSlots -> SUBSET SlotFlags] /\ FirstCid \in Cids
          /\ \A T : <<>> \in Seq(T)
      BY <1>5, <1>6 DEF Cids, FirstCid
    <2>2. host = [bt |-> bt, cid |-> FirstCid, tx |-> <<>>, inp |-> inp, hids |-> <<>>,
                  keys |-> keys, state |-> NotSent, slots |-> slots, kept |-> <<>>]
      BY DEF Init, NothingKept
    <2>. HIDE DEF bt, inp, keys, slots
    <2>3. QED
      BY <2>1, <2>2 DEF Fields
  <1>9. host \in Host
    <2>1. <<>> \in Seq(TxQuiet) /\ Len(<<>>) = 0
      OBVIOUS
    <2>2. host.tx \in Seq(TxQuiet) /\ Len(host.tx) <= QSIZE
      BY <1>7, <2>1, QueueAssumption
    <2>3. FirstCid \in Cids
      BY DEF Cids, FirstCid
    <2>4. QED
      BY <1>7, <1>8, <2>2, <2>3 DEF Host
  <1>10. \A d \in Devices : Claims(host, d) = {}
    BY <1>5, <1>6, <1>7 DEF Claims, Sockets
  <1>11. Own(host)
    BY <1>10 DEF Own
  <1>12. SlotsOK(host)
    BY <1>6, <1>7 DEF SlotsOK
  <1>13. KnownOK(host)
    <2>1. host.hids = <<>> /\ DOMAIN <<>> = {}
      BY DEF Init
    <2>2. \A d \in Devices : ~Found(host, d) /\ ~Creates(host, d)
      BY <1>7, <2>1 DEF Found, Range, Creates
    <2>3. \A d \in Devices : Handle(host, d) = NoHandle
      BY <1>7 DEF Handle, UnknownDevice, NewDevice
    <2>4. QED
      BY <2>2, <2>3 DEF KnownOK
  <1>14. QED
    BY <1>3, <1>4, <1>9, <1>11, <1>12, <1>13 DEF Sound, Good

(* The handshake begins: nothing of the host changes but the queue.        *)
LEMMA ReadyAttends ==
  ASSUME Good(host), ready_to_send
  PROVE  Attends(host, host') /\ host'.state = {}
  <1>. DEFINE g == [host EXCEPT !.state = {}]
              f == Command(g, "RESET")
  <1>0. host \in Host
    BY DEF Good
  <1>1. {} # NotSent /\ {} \in (SUBSET Flags) \cup {NotSent}
    BY DEF NotSent
  <1>2. g \in Host /\ g.state = {} /\ Minor(host, g)
    BY <1>0, <1>1, PutRest DEF Minor
  <1>3. [Command(host, "RESET") EXCEPT !.state = {}] = f
    BY <1>0, HostParts DEF Command, Cmd, Fields
  <1>. HIDE DEF g
  <1>4. Speaks(g, f)
    BY <1>1, <1>2, CmdSpeaks DEF Command, HandshakeSteps
  <1>. HIDE DEF f
  <1>5. Minor(host, f) /\ f.state = {}
    BY <1>0, <1>2, <1>4, MinorTrans DEF Speaks
  <1>6. Attends(host, f)
    BY <1>5, ServesTrans
  <1>7. QED
    BY <1>3, <1>5, <1>6 DEF ready_to_send

(* Every step keeps the invariant: the host's by the lemmas on its         *)
(* handlers, the controller's by those on its answers.                     *)
LEMMA SoundNext == Sound /\ [Next]_vars => Sound'
  <1>. SUFFICES ASSUME Sound, [Next]_vars PROVE Sound'
    OBVIOUS
  <1>0. Air /\ may \in May /\ Good(host) /\ RxOK(rx, host.state) /\ host \in Host
        /\ pc \in {"send", "receive", "get"}
    BY DEF Sound, Good
  <1>1. CASE ready_to_send
    <2>1. Attends(host, host') /\ host'.state = {} /\ UNCHANGED <<rx, air, may, pc>>
      BY <1>0, <1>1, ReadyAttends DEF ready_to_send
    <2>2. {} # NotSent /\ Good(host)'
      BY <2>1 DEF NotSent, Attends, Serves
    <2>3. RxOK(rx, host.state)'
      BY <1>0, <2>1, <2>2 DEF RxOK
    <2>4. QED
      BY <1>0, <2>1, <2>2, <2>3 DEF Sound, Air
  <1>2. CASE Controller
    <2>1. Fine(host.state) /\ UNCHANGED <<host, pc>>
      BY <1>0, <1>2, AnswersOK, OwnAccordOK DEF Controller
    <2>2. QED
      BY <1>0, <2>1 DEF Sound, Fine
  <1>3. CASE Send
    <2>. DEFINE p == Head(host.tx)
                g == [host EXCEPT !.tx = Tail(host.tx)]
    <2>1. /\ host.tx # <<>> /\ host' = g /\ Taken(p) /\ UNCHANGED <<pc>>
      BY <1>3 DEF Send
    <2>2. p \in TxPacket /\ (host.state = NotSent => p \in TxQuiet)
      BY <1>0, <2>1, HostParts
    <2>. HIDE DEF p
    <2>3. Fine(host.state)
      BY <1>0, <2>1, <2>2, TakenOK
    <2>. DEFINE q == Tail(host.tx)
    <2>4. q \in Seq(TxPacket) /\ Len(q) <= QSIZE /\ (host.state = NotSent => q \in Seq(TxQuiet))
      BY <1>0, <2>1, HostParts, QueueAssumption
    <2>. HIDE DEF q
    <2>5. g = [host EXCEPT !.tx = q]
      BY DEF q
    <2>6. g \in Fields
      BY <1>0, <2>4, <2>5, HostParts DEF Fields
    <2>7. /\ g.bt = host.bt /\ g.cid = host.cid /\ g.inp = host.inp /\ g.hids = host.hids
          /\ g.state = host.state /\ g.slots = host.slots /\ g.tx = q
      BY <1>0, <2>5, HostParts DEF Fields
    <2>. HIDE DEF g
    <2>8. g \in Host
      BY <2>4, <2>6, <2>7 DEF Host
    <2>9. Good(g)
      <3>1. \A d \in Devices : Claims(g, d) = Claims(host, d)
        BY <2>7 DEF Claims, Sockets
      <3>2. Own(g)
        BY <1>0, <2>7, <3>1 DEF Good, Own
      <3>3. \A d : Found(g, d) <=> Found(host, d)
        BY <2>7 DEF Found
      <3>4. SlotsOK(g)
        BY <1>0, <2>7, <3>3 DEF Good, SlotsOK
      <3>5. \A d : Creates(g, d) => Creates(host, d)
        <4>1. \A k \in DOMAIN q : k + 1 \in DOMAIN host.tx /\ q[k] = host.tx[k + 1]
          BY <1>0, <2>1, HostParts DEF q
        <4>2. QED
          BY <2>7, <4>1 DEF Creates
      <3>6. KnownOK(g)
        BY <1>0, <2>7, <3>3, <3>5 DEF Good, KnownOK, Handle
      <3>7. QED
        BY <2>8, <3>2, <3>4, <3>6 DEF Good
    <2>10. QED
      BY <1>0, <2>1, <2>3, <2>7, <2>9 DEF Sound, Fine
  <1>4. CASE Sent
    BY <1>0, <1>4 DEF Sent, Sound, Air
  <1>5. CASE Receive
    <2>. DEFINE p == Head(rx)
                g == Handled(host, p)
    <2>1. rx # <<>> /\ rx' = Tail(rx) /\ host' = g /\ UNCHANGED <<air, may, pc>>
      BY <1>5 DEF Receive
    <2>2. p \in RxPacket /\ (host.state = NotSent => p \in RxQuiet)
      BY <1>0, <2>1 DEF RxOK
    <2>3. /\ Tail(rx) \in Seq(RxPacket) /\ Len(Tail(rx)) <= QSIZE
          /\ (host.state = NotSent => Tail(rx) \in Seq(RxQuiet))
      BY <1>0, <2>1, QueueAssumption DEF RxOK
    <2>. HIDE DEF p
    <2>4. Good(g) /\ (g.state = NotSent => host.state = NotSent)
      BY <1>0, <2>2, HandledGood
    <2>. HIDE DEF g
    <2>5. QED
      BY <1>0, <2>1, <2>3, <2>4 DEF Sound, RxOK, Air
  <1>6. CASE AllReceived
    BY <1>0, <1>6 DEF AllReceived, Sound, Air
  <1>7. CASE Get
    <2>1. host' = get(host) /\ pc' = "send" /\ UNCHANGED <<rx, air, may>>
      BY <1>7 DEF Get
    <2>2. Good(host') /\ (host'.state = NotSent => host.state = NotSent)
      BY <1>0, <2>1, GetGood DEF Attends, Serves
    <2>3. Good(host)'
      BY <2>2
    <2>4. QED
      BY <1>0, <2>1, <2>2, <2>3 DEF Sound, RxOK, Air
  <1>8. CASE UNCHANGED vars
    BY <1>0, <1>8 DEF vars, Sound, Air
  <1>9. QED
    BY <1>1, <1>2, <1>3, <1>4, <1>5, <1>6, <1>7, <1>8 DEF Next

(* What follows from it.                                                   *)
LEMMA SoundTypes == Sound => TypeOK
  <1>. SUFFICES ASSUME Sound PROVE TypeOK
    OBVIOUS
  <1>1. host \in Host /\ Air /\ Len(rx) <= QSIZE /\ pc \in {"send", "receive", "get"}
    BY DEF Sound, Good, RxOK
  <1>2. ASSUME NEW p \in Acls PROVE p.handle \in Links /\ p.psm \in Psms \cup {NoEnd}
    <2>1. p.op = "ACL" /\ p \in Range(host.tx)
      BY DEF Acls
    <2>2. p \in TxPacket
      <3>1. host.tx \in Seq(TxPacket)
        BY <1>1, HostParts
      <3>2. QED
        BY <2>1, <3>1 DEF Range
    <2>3. QED
      BY <2>1, <2>2, TxParts
  <1>3. ASSUME NEW d \in Devices PROVE DeviceOK(d)
    <2>1. \A s \in Sockets(host, d) : /\ host.bt[d].sockets[s].state \in SocketStates
                                      /\ host.bt[d].sockets[s].psm \in Psms
                                      /\ host.bt[d].sockets[s].dcid \in Psms \cup {NoEnd}
      BY <1>1, SocketParts
    <2>2. QED
      BY <1>1, <2>1, DeviceParts, InputParts, LinkParts DEF DeviceOK
  <1>4. QED
    BY <1>1, <1>2, <1>3, HostParts DEF TypeOK

(* The invariant says who owns a socket: the claims of two devices are     *)
(* disjoint.                                                               *)
LEMMA SoundSockets == Sound => SocketsOwned
  <1>. SUFFICES ASSUME Sound, NEW d \in Devices
                PROVE  /\ \A s \in Sockets(host, d) : s < host.cid /\ Owners(host, s) = {d}
                       /\ \A s \in IdsOf(d) : Owners(host, s) \subseteq {d}
    BY DEF SocketsOwned
  <1>1. host \in Host /\ Own(host) /\ host.cid \in Nat
    BY HostParts DEF Sound, Good, Cids
  <1>2. \A s, e : s \in Claims(host, d) /\ e \in Owners(host, s) => e = d
    BY <1>1 DEF Own, Owners, Claims
  <1>3. ASSUME NEW s \in Sockets(host, d) PROVE s < host.cid /\ Owners(host, s) = {d}
    <2>1. s \in Claims(host, d)
      BY DEF Claims
    <2>2. s \in FirstCid .. host.cid - 1
      BY <1>1, <2>1 DEF Own
    <2>3. QED
      BY <1>1, <1>2, <2>1, <2>2 DEF Owners, FirstCid
  <1>4. ASSUME NEW s \in IdsOf(d) PROVE Owners(host, s) \subseteq {d}
    <2>1. CASE s = 0
      <3>1. \A e \in Devices : s \notin Sockets(host, e)
        BY <1>1, <2>1, DeviceParts DEF Cids, FirstCid
      <3>2. QED
        BY <3>1 DEF Owners
    <2>2. CASE s # 0
      <3>1. s \in Claims(host, d)
        BY <2>2 DEF IdsOf, Claims, Ids
      <3>2. QED
        BY <1>2, <3>1
    <2>3. QED
      BY <2>1, <2>2
  <1>5. QED
    BY <1>3, <1>4

(* The invariant says who holds a slot.                                    *)
LEMMA SoundSlots == Sound => WiiSlotsHeld
  <1>. SUFFICES ASSUME Sound PROVE WiiSlotsHeld
    OBVIOUS
  <1>1. host \in Host /\ SlotsOK(host)
    BY DEF Sound, Good
  <1>2. ASSUME NEW i \in WiiSlots
        PROVE  host.slots[i] # {} <=> \E d \in Devices : host.inp[d].wii = i
    <2>1. i # NoSlot
      BY ClassAssumption DEF NoSlot
    <2>2. QED
      BY <1>1, <2>1 DEF SlotsOK
  <1>3. QED
    BY <1>1, <1>2 DEF SlotsOK, WiiSlotsHeld

(* In no behaviour of the host, the controller and the devices does the id *)
(* of a socket, of those in use and of those an InputDevice remembers,     *)
(* belong to two devices.                                                  *)
THEOREM NoStrangersSocket == Spec => []SocketsOwned
  <1>1. Spec => []Sound
    BY SoundInit, SoundNext, PTL DEF Spec
  <1>2. QED
    BY <1>1, SoundSockets, PTL

(* The variables have their types, and no queue exceeds its capacity.      *)
THEOREM TypeCorrect == Spec => []TypeOK
  <1>1. Spec => []Sound
    BY SoundInit, SoundNext, PTL DEF Spec
  <1>2. QED
    BY <1>1, SoundTypes, PTL

(* A slot of wii_states is taken exactly by one remote.                    *)
THEOREM OneRemotePerSlot == Spec => []WiiSlotsHeld
  <1>1. Spec => []Sound
    BY SoundInit, SoundNext, PTL DEF Spec
  <1>2. QED
    BY <1>1, SoundSlots, PTL

----------------------------------------------------------------------------
(* The connections as the host is told of them, as long as the queues have *)
(* room.  A position i of _rx may hold an event that says a connection of  *)
(* d is complete under n, or failed (0); position 0 stands for what the    *)
(* host has been told before, which is the handle it has for d.            *)
LinkEvents == {"CONNECTION_REQUEST", "CONNECTION_COMP", "DISCONNECTION_COMP"}
Completed(q, i, d) == q[i].evt = "CONNECTION_COMP" /\ q[i].dev = d
Told(h, q, i, d, n) == IF i = 0 THEN Handle(h, d) = n
                       ELSE Completed(q, i, d) /\ q[i].arg = n
Ended(q, i, n) == q[i].evt = "DISCONNECTION_COMP" /\ q[i].arg = n
Requested(q, i, d) == q[i].evt = "CONNECTION_REQUEST" /\ q[i].dev = d
Up(a, d, n) == a[d].link = "up" /\ a[d].handle = n

(* A link the host is told of is up, or its end is told afterwards ...     *)
EndsOrUp(h, q, a) == \A d \in Devices, n \in Handles, i \in 0 .. Len(q) :
  Told(h, q, i, d, n) => Up(a, d, n) \/ \E j \in i + 1 .. Len(q) : Ended(q, j, n)
(* ... a link that is up is what the host is told last of the device ...   *)
UpIsTold(h, q, a) == \A d \in Devices, m \in Links, n \in Handles, i \in 0 .. Len(q) :
  Told(h, q, i, d, m) /\ Up(a, d, n) /\ m # n => \E j \in i + 1 .. Len(q) : Told(h, q, j, d, n)
(* ... also after the end of one that had its handle ...                   *)
UpAgain(h, q, a) == \A d \in Devices, n \in Handles, i \in 1 .. Len(q) :
  Ended(q, i, n) /\ Up(a, d, n) => \E j \in i + 1 .. Len(q) : Told(h, q, j, d, n)
(* ... the end of a link comes before the device has another, or another   *)
(* device has its handle.                                                  *)
EndsFirst(h, q) == \A d, e \in Devices, n \in Handles, m \in Links, i, j \in 0 .. Len(q) :
  i < j /\ Told(h, q, i, d, n) /\ Told(h, q, j, e, m) /\ (d = e \/ n = m) =>
    \E k \in i + 1 .. j - 1 : Ended(q, k, n)
Apart(h, a) == \A d, e \in Devices, n \in Handles : d # e =>
  /\ ~(Handle(h, d) = n /\ Handle(h, e) = n)
  /\ ~(Up(a, d, n) /\ Up(a, e, n))
(* A connection the host has asked for ends with an event.                 *)
Pending(h, q, a) == \A d \in Devices : Handle(h, d) = 0 =>
  \/ Creates(h, d) \/ a[d].link \in {"calling", "paging"}
  \/ \E j \in 1 .. Len(q) : Completed(q, j, d)
Traced(h, q, a) == /\ EndsOrUp(h, q, a) /\ UpIsTold(h, q, a) /\ UpAgain(h, q, a)
                   /\ EndsFirst(h, q) /\ Apart(h, a)
Linked(h, q, a) == Traced(h, q, a) /\ Pending(h, q, a)

(* Nobody is connected whom the host does not know by then.                *)
KnownFirst(h, q, a) == \A d \in Devices :
  /\ \A i \in 1 .. Len(q) : Completed(q, i, d) =>
       h.bt[d].known \/ \E k \in 1 .. i - 1 : Requested(q, k, d)
  /\ a[d].link # "down" => h.bt[d].known \/ \E k \in 1 .. Len(q) : Requested(q, k, d)

(* What a step may add to the queue: nothing about connections, or one     *)
(* event about them at the end.                                            *)
Same(q, r) == Len(q) \in Nat /\ Len(r) \in Nat /\ Len(r) >= Len(q)
              /\ \A i \in 1 .. Len(q) : r[i] = q[i]
Adds(q, r) == Same(q, r) /\ \A i \in Len(q) + 1 .. Len(r) : r[i].evt \notin LinkEvents
AddsLast(q, r, e) == /\ Same(q, r) /\ Len(r) > Len(q) /\ r[Len(r)] = e
                     /\ \A i \in Len(q) + 1 .. Len(r) - 1 : r[i].evt \notin LinkEvents
(* Links that stay as they are, but for one.                               *)
SameLinks(a, b, D) == \A e \in D : a[e].link = b[e].link /\ a[e].handle = b[e].handle

(* What the controller's and the devices' steps do to the links, and what  *)
(* they tell of it.                                                        *)
Trying == {"calling", "paging"}
Rests(q, r, a, b) == Adds(q, r) /\ SameLinks(a, b, Devices)
Pages(q, r, a, b, d) ==
  /\ a[d].link \in {"down", "calling"} /\ b[d].link = "paging"
  /\ Adds(q, r) /\ SameLinks(a, b, Devices \ {d})
Rings(q, r, a, b, d) ==
  /\ a[d].link = "down" /\ b[d].link = "calling"
  /\ AddsLast(q, r, Event("CONNECTION_REQUEST", d, 0)) /\ SameLinks(a, b, Devices \ {d})
Makes(q, r, a, b, d, n) ==
  /\ a[d].link = "paging" /\ Up(b, d, n) /\ \A e \in Devices : ~Up(a, e, n)
  /\ AddsLast(q, r, Event("CONNECTION_COMP", d, n)) /\ SameLinks(a, b, Devices \ {d})
Fails(q, r, a, b, d) ==
  /\ a[d].link \in Trying /\ b[d].link = "down"
  /\ AddsLast(q, r, Event("CONNECTION_COMP", d, 0)) /\ SameLinks(a, b, Devices \ {d})
Ends(q, r, a, b, d, n) ==
  /\ Up(a, d, n) /\ b[d].link = "down"
  /\ AddsLast(q, r, Event("DISCONNECTION_COMP", d, n)) /\ SameLinks(a, b, Devices \ {d})
LinkStep(q, r, a, b) ==
  \/ Rests(q, r, a, b)
  \/ \E d \in Devices :
       \/ Pages(q, r, a, b, d) \/ Rings(q, r, a, b, d) \/ Fails(q, r, a, b, d)
       \/ \E n \in Handles : Makes(q, r, a, b, d, n) \/ Ends(q, r, a, b, d, n)

(* What is told at a position is still told there.                         *)
LEMMA SameTold ==
  ASSUME NEW h, NEW q, NEW r, Same(q, r), NEW i \in 0 .. Len(q)
  PROVE  /\ \A d, n : Told(h, r, i, d, n) <=> Told(h, q, i, d, n)
         /\ i # 0 => /\ \A n : Ended(r, i, n) <=> Ended(q, i, n)
                     /\ \A d : Completed(r, i, d) <=> Completed(q, i, d)
                     /\ \A d : Requested(r, i, d) <=> Requested(q, i, d)
  <1>1. i # 0 => r[i] = q[i]
    BY DEF Same
  <1>2. QED
    BY <1>1 DEF Told, Ended, Completed, Requested

(* What is added and is not about connections tells nothing.               *)
LEMMA PlainTold ==
  ASSUME NEW h, NEW r, NEW i \in Nat \ {0}, r[i].evt \notin LinkEvents
  PROVE  /\ \A d, n : ~Told(h, r, i, d, n)
         /\ \A n : ~Ended(r, i, n)
         /\ \A d : ~Completed(r, i, d) /\ ~Requested(r, i, d)
  BY DEF Told, Ended, Completed, Requested, LinkEvents

(* What an event at the end tells.                                         *)
LEMMA LastTold ==
  ASSUME NEW h, NEW q, NEW r, NEW evt, NEW e, NEW m, AddsLast(q, r, Event(evt, e, m))
  PROVE  /\ Same(q, r) /\ Len(q) \in Nat /\ Len(r) \in Nat /\ Len(q) < Len(r)
         /\ \A i \in 1 .. Len(r) : i > Len(q) /\ i # Len(r) =>
              /\ \A d, n : ~Told(h, r, i, d, n)
              /\ \A n : ~Ended(r, i, n)
              /\ \A d : ~Completed(r, i, d) /\ ~Requested(r, i, d)
         /\ \A d, n : Told(h, r, Len(r), d, n) <=> evt = "CONNECTION_COMP" /\ e = d /\ m = n
         /\ \A n : Ended(r, Len(r), n) <=> evt = "DISCONNECTION_COMP" /\ m = n
         /\ \A d : Completed(r, Len(r), d) <=> evt = "CONNECTION_COMP" /\ e = d
         /\ \A d : Requested(r, Len(r), d) <=> evt = "CONNECTION_REQUEST" /\ e = d
  <1>1. Same(q, r) /\ Len(q) \in Nat /\ Len(r) \in Nat /\ Len(q) < Len(r)
    BY DEF AddsLast, Same
  <1>2. ASSUME NEW i \in 1 .. Len(r), i > Len(q), i # Len(r)
        PROVE  /\ \A d, n : ~Told(h, r, i, d, n)
               /\ \A n : ~Ended(r, i, n)
               /\ \A d : ~Completed(r, i, d) /\ ~Requested(r, i, d)
    <2>1. i \in Nat \ {0} /\ i \in Len(q) + 1 .. Len(r) - 1
      BY <1>1, <1>2
    <2>2. r[i].evt \notin LinkEvents
      BY <2>1 DEF AddsLast
    <2>3. QED
      BY <2>1, <2>2, PlainTold
  <1>3. r[Len(r)].evt = evt /\ r[Len(r)].dev = e /\ r[Len(r)].arg = m /\ Len(r) # 0
    BY <1>1 DEF AddsLast, Event
  <1>4. QED
    BY <1>1, <1>2, <1>3 DEF Told, Ended, Completed, Requested

(* Nothing is told of connections made or ended.                           *)
Silent(q, r) == Same(q, r) /\ \A i \in Len(q) + 1 .. Len(r) :
                               r[i].evt \notin {"CONNECTION_COMP", "DISCONNECTION_COMP"}

(* Such a step keeps what was told of the links, and the links themselves, *)
(* in agreement.                                                           *)
LEMMA SilentTraced ==
  ASSUME NEW h, NEW q, NEW r, NEW a, NEW b, Silent(q, r),
         \A d \in Devices : \A n : Up(b, d, n) <=> Up(a, d, n), Traced(h, q, a)
  PROVE  Traced(h, r, b)
  <1>1. Len(q) \in Nat /\ Len(r) \in Nat /\ Len(r) >= Len(q) /\ Same(q, r)
    BY DEF Silent, Same
  <1>2. ASSUME NEW i \in 0 .. Len(q)
        PROVE  /\ \A d, n : Told(h, r, i, d, n) <=> Told(h, q, i, d, n)
               /\ i # 0 => \A n : Ended(r, i, n) <=> Ended(q, i, n)
    BY <1>1, SameTold
  <1>3. ASSUME NEW i \in 0 .. Len(r), i \notin 0 .. Len(q)
        PROVE  /\ \A d, n : ~Told(h, r, i, d, n)
               /\ \A n : ~Ended(r, i, n)
    <2>1. i # 0 /\ i \in Len(q) + 1 .. Len(r)
      BY <1>1, <1>3
    <2>2. QED
      BY <2>1 DEF Silent, Told, Completed, Ended
  <1>5. EndsOrUp(h, r, b)
    BY <1>1, <1>2, <1>3 DEF Traced, EndsOrUp
  <1>6. UpIsTold(h, r, b)
    BY <1>1, <1>2, <1>3 DEF Traced, UpIsTold
  <1>7. UpAgain(h, r, b)
    BY <1>1, <1>2, <1>3 DEF Traced, UpAgain
  <1>8. EndsFirst(h, r)
    BY <1>1, <1>2, <1>3 DEF Traced, EndsFirst
  <1>9. Apart(h, b)
    BY DEF Traced, Apart
  <1>10. QED
    BY <1>5, <1>6, <1>7, <1>8, <1>9 DEF Traced

(* The links other than that of one device are as they were.               *)
LEMMA OtherUps ==
  ASSUME NEW a, NEW b, NEW d, SameLinks(a, b, Devices \ {d})
  PROVE  \A e \in Devices \ {d} : \A n : Up(b, e, n) <=> Up(a, e, n)
  BY DEF SameLinks, Up

(* A link is made: the event about it is the last there is, and what was   *)
(* told before of the device, or under the handle, has ended.              *)
LEMMA MakesTraced ==
  ASSUME NEW h, NEW q, NEW r, NEW a, NEW b, NEW d \in Devices, NEW n \in Handles,
         Makes(q, r, a, b, d, n), Traced(h, q, a)
  PROVE  Traced(h, r, b)
  <1>. DEFINE L == Len(r)
              old == 0 .. Len(q)
  <1>11. AddsLast(q, r, Event("CONNECTION_COMP", d, n)) /\ SameLinks(a, b, Devices \ {d})
    BY DEF Makes
  <1>12. Same(q, r)
    BY <1>11 DEF AddsLast
  <1>1. /\ Len(q) \in Nat /\ L \in Nat /\ Len(q) < L
        /\ \A e, m : Told(h, r, L, e, m) <=> e = d /\ m = n
        /\ \A m : ~Ended(r, L, m)
    <2>1. /\ Len(q) \in Nat /\ L \in Nat /\ Len(q) < L
          /\ \A e, m : Told(h, r, L, e, m) <=>
                       "CONNECTION_COMP" = "CONNECTION_COMP" /\ d = e /\ n = m
          /\ \A m : Ended(r, L, m) <=> "CONNECTION_COMP" = "DISCONNECTION_COMP" /\ n = m
      BY <1>11, LastTold
    <2>2. QED
      BY <2>1
  <1>2. ASSUME NEW i \in old
        PROVE  /\ \A e, m : Told(h, r, i, e, m) <=> Told(h, q, i, e, m)
               /\ i # 0 => \A m : Ended(r, i, m) <=> Ended(q, i, m)
    BY <1>2, <1>12, SameTold
  <1>3. ASSUME NEW i \in 0 .. L, i \notin old, i # L
        PROVE  (\A e, m : ~Told(h, r, i, e, m)) /\ \A m : ~Ended(r, i, m)
    <2>1. i \in 1 .. L /\ i > Len(q)
      BY <1>1, <1>3
    <2>2. QED
      BY <1>3, <1>11, <2>1, LastTold
  <1>4. /\ \A e \in Devices \ {d} : \A m : Up(b, e, m) <=> Up(a, e, m)
        /\ \A m : ~Up(a, d, m)
        /\ \A m : Up(b, d, m) <=> m = n
        /\ \A e \in Devices : ~Up(a, e, n)
    <2>1. \A e \in Devices \ {d} : \A m : Up(b, e, m) <=> Up(a, e, m)
      BY <1>11, OtherUps
    <2>2. QED
      BY <2>1 DEF Makes, Up
  <1>. HIDE DEF L
  <1>5. EndsOrUp(h, r, b)
    <2>1. SUFFICES ASSUME NEW e \in Devices, NEW m \in Handles, NEW i \in 0 .. L, Told(h, r, i, e, m),
                          ~Up(b, e, m)
                   PROVE  \E j \in i + 1 .. L : Ended(r, j, m)
      BY DEF EndsOrUp, L
    <2>2. i \in old
      BY <1>1, <1>3, <1>4, <2>1
    <2>3. ~Up(a, e, m) /\ Told(h, q, i, e, m)
      BY <1>2, <1>4, <2>1, <2>2
    <2>4. PICK j \in i + 1 .. Len(q) : Ended(q, j, m)
      BY <2>2, <2>3 DEF Traced, EndsOrUp
    <2>5. j \in old /\ j # 0 /\ j \in i + 1 .. L
      BY <1>1, <2>2
    <2>6. QED
      BY <1>2, <2>4, <2>5
  <1>6. UpIsTold(h, r, b)
    <2>1. SUFFICES ASSUME NEW e \in Devices, NEW k \in Links, NEW m \in Handles, NEW i \in 0 .. L,
                          Told(h, r, i, e, k), Up(b, e, m), k # m
                   PROVE  \E j \in i + 1 .. L : Told(h, r, j, e, m)
      BY DEF UpIsTold, L
    <2>2. i \in old
      BY <1>1, <1>3, <1>4, <2>1
    <2>3. CASE e = d
      BY <1>1, <1>4, <2>1, <2>2, <2>3
    <2>4. CASE e # d
      <3>1. Up(a, e, m) /\ Told(h, q, i, e, k)
        BY <1>2, <1>4, <2>1, <2>2, <2>4
      <3>2. PICK j \in i + 1 .. Len(q) : Told(h, q, j, e, m)
        BY <2>1, <2>2, <3>1 DEF Traced, UpIsTold
      <3>3. j \in old /\ j \in i + 1 .. L
        BY <1>1, <2>2
      <3>4. QED
        BY <1>2, <3>2, <3>3
    <2>5. QED
      BY <2>3, <2>4
  <1>7. UpAgain(h, r, b)
    <2>1. SUFFICES ASSUME NEW e \in Devices, NEW m \in Handles, NEW i \in 1 .. L,
                          Ended(r, i, m), Up(b, e, m)
                   PROVE  \E j \in i + 1 .. L : Told(h, r, j, e, m)
      BY DEF UpAgain, L
    <2>2. i \in old /\ i \in 1 .. Len(q)
      BY <1>1, <1>3, <2>1
    <2>3. CASE e = d
      BY <1>1, <1>4, <2>1, <2>2, <2>3
    <2>4. CASE e # d
      <3>1. Up(a, e, m) /\ Ended(q, i, m)
        BY <1>2, <1>4, <2>1, <2>2, <2>4
      <3>2. PICK j \in i + 1 .. Len(q) : Told(h, q, j, e, m)
        BY <2>2, <3>1 DEF Traced, UpAgain
      <3>3. j \in old /\ j \in i + 1 .. L
        BY <1>1, <2>2
      <3>4. QED
        BY <1>2, <3>2, <3>3
    <2>5. QED
      BY <2>3, <2>4
  <1>8. EndsFirst(h, r)
    <2>1. SUFFICES ASSUME NEW e \in Devices, NEW f \in Devices, NEW m \in Handles, NEW k \in Links,
                          NEW i \in 0 .. L, NEW j \in 0 .. L, i < j,
                          Told(h, r, i, e, m), Told(h, r, j, f, k), e = f \/ m = k
                   PROVE  \E x \in i + 1 .. j - 1 : Ended(r, x, m)
      BY DEF EndsFirst, L
    <2>2. i \in old
      BY <1>1, <1>3, <2>1
    <2>3. Told(h, q, i, e, m)
      BY <1>2, <2>1, <2>2
    <2>4. \E x \in i + 1 .. j - 1 : x \in 1 .. Len(q) /\ Ended(q, x, m)
      <3>1. CASE j \in old
        <4>1. Told(h, q, j, f, k)
          BY <1>2, <2>1, <3>1
        <4>2. \E x \in i + 1 .. j - 1 : Ended(q, x, m)
          BY <2>1, <2>2, <2>3, <3>1, <4>1 DEF Traced, EndsFirst
        <4>3. QED
          BY <1>1, <2>2, <3>1, <4>2
      <3>2. CASE j \notin old
        <4>1. j = L /\ f = d /\ k = n
          BY <1>1, <1>3, <2>1, <3>2
        <4>2. ~Up(a, e, m)
          BY <1>4, <2>1, <4>1
        <4>3. PICK x \in i + 1 .. Len(q) : Ended(q, x, m)
          BY <2>2, <2>3, <4>2 DEF Traced, EndsOrUp
        <4>4. x \in i + 1 .. j - 1 /\ x \in 1 .. Len(q)
          BY <1>1, <2>2, <4>1
        <4>5. QED
          BY <4>3, <4>4
      <3>3. QED
        BY <3>1, <3>2
    <2>5. QED
      BY <1>2, <2>4
  <1>9. Apart(h, b)
    BY <1>4 DEF Traced, Apart
  <1>10. QED
    BY <1>5, <1>6, <1>7, <1>8, <1>9 DEF Traced

(* A connection fails: what was told before of the device has ended.       *)
LEMMA FailsTraced ==
  ASSUME NEW h, NEW q, NEW r, NEW a, NEW b, NEW d \in Devices,
         Fails(q, r, a, b, d), Traced(h, q, a)
  PROVE  Traced(h, r, b)
  <1>. DEFINE L == Len(r)
              old == 0 .. Len(q)
  <1>11. AddsLast(q, r, Event("CONNECTION_COMP", d, 0)) /\ SameLinks(a, b, Devices \ {d})
    BY DEF Fails
  <1>12. Same(q, r)
    BY <1>11 DEF AddsLast
  <1>1. /\ Len(q) \in Nat /\ L \in Nat /\ Len(q) < L
        /\ \A e, m : Told(h, r, L, e, m) <=> e = d /\ m = 0
        /\ \A m : ~Ended(r, L, m)
    <2>1. /\ Len(q) \in Nat /\ L \in Nat /\ Len(q) < L
          /\ \A e, m : Told(h, r, L, e, m) <=>
                       "CONNECTION_COMP" = "CONNECTION_COMP" /\ d = e /\ 0 = m
          /\ \A m : Ended(r, L, m) <=> "CONNECTION_COMP" = "DISCONNECTION_COMP" /\ 0 = m
      BY <1>11, LastTold
    <2>2. QED
      BY <2>1
  <1>2. ASSUME NEW i \in old
        PROVE  /\ \A e, m : Told(h, r, i, e, m) <=> Told(h, q, i, e, m)
               /\ i # 0 => \A m : Ended(r, i, m) <=> Ended(q, i, m)
    BY <1>2, <1>12, SameTold
  <1>3. ASSUME NEW i \in 0 .. L, i \notin old, i # L
        PROVE  (\A e, m : ~Told(h, r, i, e, m)) /\ \A m : ~Ended(r, i, m)
    <2>1. i \in 1 .. L /\ i > Len(q)
      BY <1>1, <1>3
    <2>2. QED
      BY <1>3, <1>11, <2>1, LastTold
  <1>4. /\ \A e \in Devices : \A m : Up(b, e, m) <=> Up(a, e, m)
        /\ \A m : ~Up(a, d, m)
    <2>1. \A e \in Devices \ {d} : \A m : Up(b, e, m) <=> Up(a, e, m)
      BY <1>11, OtherUps
    <2>2. \A m : ~Up(a, d, m) /\ ~Up(b, d, m)
      BY DEF Fails, Up, Trying
    <2>3. QED
      BY <2>1, <2>2
  <1>0. 0 \notin Handles
    BY HandleAssumption
  <1>. HIDE DEF L
  <1>5. EndsOrUp(h, r, b)
    <2>1. SUFFICES ASSUME NEW e \in Devices, NEW m \in Handles, NEW i \in 0 .. L, Told(h, r, i, e, m),
                          ~Up(b, e, m)
                   PROVE  \E j \in i + 1 .. L : Ended(r, j, m)
      BY DEF EndsOrUp, L
    <2>2. i \in old
      BY <1>0, <1>1, <1>3, <1>4, <2>1
    <2>3. ~Up(a, e, m) /\ Told(h, q, i, e, m)
      BY <1>2, <1>4, <2>1, <2>2
    <2>4. PICK j \in i + 1 .. Len(q) : Ended(q, j, m)
      BY <2>2, <2>3 DEF Traced, EndsOrUp
    <2>5. j \in old /\ j # 0 /\ j \in i + 1 .. L
      BY <1>1, <2>2
    <2>6. QED
      BY <1>2, <2>4, <2>5
  <1>6. UpIsTold(h, r, b)
    <2>1. SUFFICES ASSUME NEW e \in Devices, NEW k \in Links, NEW m \in Handles, NEW i \in 0 .. L,
                          Told(h, r, i, e, k), Up(b, e, m), k # m
                   PROVE  \E j \in i + 1 .. L : Told(h, r, j, e, m)
      BY DEF UpIsTold, L
    <2>2. i \in old /\ Up(a, e, m)
      BY <1>1, <1>3, <1>4, <2>1
    <2>3. Told(h, q, i, e, k)
      BY <1>2, <2>1, <2>2
    <2>4. PICK j \in i + 1 .. Len(q) : Told(h, q, j, e, m)
      BY <2>1, <2>2, <2>3 DEF Traced, UpIsTold
    <2>5. j \in old /\ j \in i + 1 .. L
      BY <1>1, <2>2
    <2>6. QED
      BY <1>2, <2>4, <2>5
  <1>7. UpAgain(h, r, b)
    <2>1. SUFFICES ASSUME NEW e \in Devices, NEW m \in Handles, NEW i \in 1 .. L,
                          Ended(r, i, m), Up(b, e, m)
                   PROVE  \E j \in i + 1 .. L : Told(h, r, j, e, m)
      BY DEF UpAgain, L
    <2>2. i \in old /\ i \in 1 .. Len(q) /\ Up(a, e, m)
      BY <1>1, <1>3, <1>4, <2>1
    <2>3. Ended(q, i, m)
      BY <1>2, <2>1, <2>2
    <2>4. PICK j \in i + 1 .. Len(q) : Told(h, q, j, e, m)
      BY <2>2, <2>3 DEF Traced, UpAgain
    <2>5. j \in old /\ j \in i + 1 .. L
      BY <1>1, <2>2
    <2>6. QED
      BY <1>2, <2>4, <2>5
  <1>8. EndsFirst(h, r)
    <2>1. SUFFICES ASSUME NEW e \in Devices, NEW f \in Devices, NEW m \in Handles, NEW k \in Links,
                          NEW i \in 0 .. L, NEW j \in 0 .. L, i < j,
                          Told(h, r, i, e, m), Told(h, r, j, f, k), e = f \/ m = k
                   PROVE  \E x \in i + 1 .. j - 1 : Ended(r, x, m)
      BY DEF EndsFirst, L
    <2>2. i \in old
      BY <1>1, <1>3, <2>1
    <2>3. Told(h, q, i, e, m)
      BY <1>2, <2>1, <2>2
    <2>4. \E x \in i + 1 .. j - 1 : x \in 1 .. Len(q) /\ Ended(q, x, m)
      <3>1. CASE j \in old
        <4>1. Told(h, q, j, f, k)
          BY <1>2, <2>1, <3>1
        <4>2. \E x \in i + 1 .. j - 1 : Ended(q, x, m)
          BY <2>1, <2>2, <2>3, <3>1, <4>1 DEF Traced, EndsFirst
        <4>3. QED
          BY <1>1, <2>2, <3>1, <4>2
      <3>2. CASE j \notin old
        <4>1. j = L /\ f = d /\ k = 0
          BY <1>1, <1>3, <2>1, <3>2
        <4>2. ~Up(a, e, m)
          BY <1>0, <1>4, <2>1, <4>1
        <4>3. PICK x \in i + 1 .. Len(q) : Ended(q, x, m)
          BY <2>2, <2>3, <4>2 DEF Traced, EndsOrUp
        <4>4. x \in i + 1 .. j - 1 /\ x \in 1 .. Len(q)
          BY <1>1, <2>2, <4>1
        <4>5. QED
          BY <4>3, <4>4
      <3>3. QED
        BY <3>1, <3>2
    <2>5. QED
      BY <1>2, <2>4
  <1>9. Apart(h, b)
    BY <1>4 DEF Traced, Apart
  <1>10. QED
    BY <1>5, <1>6, <1>7, <1>8, <1>9 DEF Traced

(* A link is lost: its end is told last.                                   *)
LEMMA EndsTraced ==
  ASSUME NEW h, NEW q, NEW r, NEW a, NEW b, NEW d \in Devices, NEW n \in Handles,
         Ends(q, r, a, b, d, n), Traced(h, q, a)
  PROVE  Traced(h, r, b)
  <1>. DEFINE L == Len(r)
              old == 0 .. Len(q)
  <1>11. AddsLast(q, r, Event("DISCONNECTION_COMP", d, n)) /\ SameLinks(a, b, Devices \ {d})
    BY DEF Ends
  <1>12. Same(q, r)
    BY <1>11 DEF AddsLast
  <1>1. /\ Len(q) \in Nat /\ L \in Nat /\ Len(q) < L
        /\ \A e, m : ~Told(h, r, L, e, m)
        /\ \A m : Ended(r, L, m) <=> m = n
    <2>1. /\ Len(q) \in Nat /\ L \in Nat /\ Len(q) < L
          /\ \A e, m : Told(h, r, L, e, m) <=>
                       "DISCONNECTION_COMP" = "CONNECTION_COMP" /\ d = e /\ n = m
          /\ \A m : Ended(r, L, m) <=> "DISCONNECTION_COMP" = "DISCONNECTION_COMP" /\ n = m
      BY <1>11, LastTold
    <2>2. QED
      BY <2>1
  <1>2. ASSUME NEW i \in old
        PROVE  /\ \A e, m : Told(h, r, i, e, m) <=> Told(h, q, i, e, m)
               /\ i # 0 => \A m : Ended(r, i, m) <=> Ended(q, i, m)
    BY <1>2, <1>12, SameTold
  <1>3. ASSUME NEW i \in 0 .. L, i \notin old, i # L
        PROVE  (\A e, m : ~Told(h, r, i, e, m)) /\ \A m : ~Ended(r, i, m)
    <2>1. i \in 1 .. L /\ i > Len(q)
      BY <1>1, <1>3
    <2>2. QED
      BY <1>3, <1>11, <2>1, LastTold
  <1>4. /\ \A e \in Devices \ {d} : \A m : Up(b, e, m) <=> Up(a, e, m)
        /\ \A m : (Up(a, d, m) <=> m = n) /\ ~Up(b, d, m)
        /\ \A e \in Devices \ {d} : ~Up(a, e, n)
    <2>1. \A e \in Devices \ {d} : \A m : Up(b, e, m) <=> Up(a, e, m)
      BY <1>11, OtherUps
    <2>2. Up(a, d, n) /\ \A m : (Up(a, d, m) <=> m = n) /\ ~Up(b, d, m)
      BY DEF Ends, Up
    <2>3. QED
      BY <2>1, <2>2 DEF Traced, Apart
  <1>. HIDE DEF L
  <1>5. EndsOrUp(h, r, b)
    <2>1. SUFFICES ASSUME NEW e \in Devices, NEW m \in Handles, NEW i \in 0 .. L, Told(h, r, i, e, m),
                          ~Up(b, e, m)
                   PROVE  \E j \in i + 1 .. L : Ended(r, j, m)
      BY DEF EndsOrUp, L
    <2>2. i \in old
      BY <1>1, <1>3, <2>1
    <2>3. Told(h, q, i, e, m)
      BY <1>2, <2>1, <2>2
    <2>4. CASE e = d /\ m = n
      BY <1>1, <2>2, <2>4
    <2>5. CASE ~(e = d /\ m = n)
      <3>1. ~Up(a, e, m)
        BY <1>4, <2>1, <2>5
      <3>2. PICK j \in i + 1 .. Len(q) : Ended(q, j, m)
        BY <2>2, <2>3, <3>1 DEF Traced, EndsOrUp
      <3>3. j \in old /\ j # 0 /\ j \in i + 1 .. L
        BY <1>1, <2>2
      <3>4. QED
        BY <1>2, <3>2, <3>3
    <2>6. QED
      BY <2>4, <2>5
  <1>6. UpIsTold(h, r, b)
    <2>1. SUFFICES ASSUME NEW e \in Devices, NEW k \in Links, NEW m \in Handles, NEW i \in 0 .. L,
                          Told(h, r, i, e, k), Up(b, e, m), k # m
                   PROVE  \E j \in i + 1 .. L : Told(h, r, j, e, m)
      BY DEF UpIsTold, L
    <2>2. i \in old /\ Up(a, e, m)
      BY <1>1, <1>3, <1>4, <2>1
    <2>3. Told(h, q, i, e, k)
      BY <1>2, <2>1, <2>2
    <2>4. PICK j \in i + 1 .. Len(q) : Told(h, q, j, e, m)
      BY <2>1, <2>2, <2>3 DEF Traced, UpIsTold
    <2>5. j \in old /\ j \in i + 1 .. L
      BY <1>1, <2>2
    <2>6. QED
      BY <1>2, <2>4, <2>5
  <1>7. UpAgain(h, r, b)
    <2>1. SUFFICES ASSUME NEW e \in Devices, NEW m \in Handles, NEW i \in 1 .. L,
                          Ended(r, i, m), Up(b, e, m)
                   PROVE  \E j \in i + 1 .. L : Told(h, r, j, e, m)
      BY DEF UpAgain, L
    <2>2. e # d /\ Up(a, e, m) /\ m # n
      BY <1>4, <2>1
    <2>3. i \in old /\ i \in 1 .. Len(q)
      BY <1>1, <1>3, <2>1, <2>2
    <2>4. Ended(q, i, m)
      BY <1>2, <2>1, <2>3
    <2>5. PICK j \in i + 1 .. Len(q) : Told(h, q, j, e, m)
      BY <2>2, <2>3, <2>4 DEF Traced, UpAgain
    <2>6. j \in old /\ j \in i + 1 .. L
      BY <1>1, <2>3
    <2>7. QED
      BY <1>2, <2>5, <2>6
  <1>8. EndsFirst(h, r)
    <2>1. SUFFICES ASSUME NEW e \in Devices, NEW f \in Devices, NEW m \in Handles, NEW k \in Links,
                          NEW i \in 0 .. L, NEW j \in 0 .. L, i < j,
                          Told(h, r, i, e, m), Told(h, r, j, f, k), e = f \/ m = k
                   PROVE  \E x \in i + 1 .. j - 1 : Ended(r, x, m)
      BY DEF EndsFirst, L
    <2>2. i \in old /\ j \in old
      BY <1>1, <1>3, <2>1
    <2>3. Told(h, q, i, e, m) /\ Told(h, q, j, f, k)
      BY <1>2, <2>1, <2>2
    <2>4. PICK x \in i + 1 .. j - 1 : Ended(q, x, m)
      BY <2>1, <2>2, <2>3 DEF Traced, EndsFirst
    <2>5. x \in old /\ x # 0
      BY <1>1, <2>2
    <2>6. QED
      BY <1>2, <2>4, <2>5
  <1>9. Apart(h, b)
    BY <1>4 DEF Traced, Apart
  <1>10. QED
    BY <1>5, <1>6, <1>7, <1>8, <1>9 DEF Traced

(* What may happen to the link of a device in a step, and what is told of  *)
(* it: of the devices one at most changes.                                 *)
LEMMA StepParts ==
  ASSUME NEW q, NEW r, NEW a, NEW b, LinkStep(q, r, a, b)
  PROVE  /\ Same(q, r) /\ Len(q) \in Nat /\ Len(r) \in Nat /\ Len(q) <= Len(r)
         /\ \A i \in 1 .. Len(q) : r[i] = q[i]
         /\ \A d \in Devices :
              \/ a[d].link = b[d].link /\ a[d].handle = b[d].handle
              \/ a[d].link \in {"down", "calling"} /\ b[d].link = "paging"
              \/ /\ a[d].link = "down" /\ b[d].link = "calling"
                 /\ \E k \in 1 .. Len(r) : Requested(r, k, d)
              \/ a[d].link \in Trying /\ \E k \in 1 .. Len(r) : Completed(r, k, d)
              \/ a[d].link = "up"
         /\ \A i \in 1 .. Len(r) : i > Len(q) =>
              \A d : Completed(r, i, d) => d \in Devices /\ a[d].link \in Trying
  <1>. DEFINE Moves(d) ==
                \/ a[d].link = b[d].link /\ a[d].handle = b[d].handle
                \/ a[d].link \in {"down", "calling"} /\ b[d].link = "paging"
                \/ /\ a[d].link = "down" /\ b[d].link = "calling"
                   /\ \E k \in 1 .. Len(r) : Requested(r, k, d)
                \/ a[d].link \in Trying /\ \E k \in 1 .. Len(r) : Completed(r, k, d)
                \/ a[d].link = "up"
              New == \A i \in 1 .. Len(r) : i > Len(q) =>
                       \A d : Completed(r, i, d) => d \in Devices /\ a[d].link \in Trying
  <1>1. ASSUME Adds(q, r) PROVE Same(q, r) /\ New
    <2>1. Same(q, r) /\ Len(q) \in Nat /\ Len(r) \in Nat
      BY <1>1 DEF Adds, Same
    <2>2. ASSUME NEW i \in 1 .. Len(r), i > Len(q) PROVE \A d : ~Completed(r, i, d)
      <3>1. i \in Len(q) + 1 .. Len(r) /\ i \in Nat \ {0}
        BY <2>1, <2>2
      <3>2. r[i].evt \notin LinkEvents
        BY <1>1, <3>1 DEF Adds
      <3>3. QED
        BY <3>1, <3>2, PlainTold
    <2>3. QED
      BY <2>1, <2>2
  <1>2. CASE Rests(q, r, a, b)
    <2>1. \A d \in Devices : Moves(d)
      BY <1>2 DEF Rests, SameLinks
    <2>2. Same(q, r) /\ New
      BY <1>1, <1>2 DEF Rests
    <2>3. QED
      BY <2>1, <2>2 DEF Same
  <1>3. ASSUME NEW d \in Devices, Pages(q, r, a, b, d)
        PROVE  Same(q, r) /\ New /\ \A e \in Devices : Moves(e)
    BY <1>1, <1>3 DEF Pages, SameLinks
  <1>4. ASSUME NEW d \in Devices, NEW evt, NEW n, AddsLast(q, r, Event(evt, d, n)),
               SameLinks(a, b, Devices \ {d}), evt = "CONNECTION_COMP" => a[d].link \in Trying,
               \/ evt = "CONNECTION_COMP"
               \/ evt = "CONNECTION_REQUEST" /\ a[d].link = "down" /\ b[d].link = "calling"
               \/ a[d].link = "up"
        PROVE  Same(q, r) /\ New /\ \A e \in Devices : Moves(e)
    <2>1. Same(q, r) /\ Len(q) \in Nat /\ Len(r) \in Nat /\ Len(q) < Len(r)
      BY <1>4, LastTold
    <2>2. ASSUME NEW i \in 1 .. Len(r), i > Len(q), i # Len(r) PROVE \A e : ~Completed(r, i, e)
      BY <1>4, <2>2, LastTold
    <2>3. /\ \A e : Completed(r, Len(r), e) <=> evt = "CONNECTION_COMP" /\ d = e
          /\ \A e : Requested(r, Len(r), e) <=> evt = "CONNECTION_REQUEST" /\ d = e
      <3>1. r[Len(r)].evt = evt /\ r[Len(r)].dev = d
        BY <1>4 DEF AddsLast, Event
      <3>2. QED
        BY <3>1 DEF Completed, Requested
    <2>4. New
      BY <1>4, <2>2, <2>3
    <2>5. Moves(d)
      <3>1. Len(r) \in 1 .. Len(r)
        BY <2>1
      <3>2. QED
        BY <1>4, <2>3, <3>1
    <2>6. \A e \in Devices \ {d} : Moves(e)
      BY <1>4 DEF SameLinks
    <2>7. QED
      BY <2>1, <2>4, <2>5, <2>6
  <1>5. ASSUME NEW d \in Devices, Rings(q, r, a, b, d)
        PROVE  Same(q, r) /\ New /\ \A e \in Devices : Moves(e)
    <2>1. /\ AddsLast(q, r, Event("CONNECTION_REQUEST", d, 0)) /\ SameLinks(a, b, Devices \ {d})
          /\ a[d].link = "down" /\ b[d].link = "calling"
      BY <1>5 DEF Rings
    <2>. HIDE DEF New, Moves
    <2>2. QED
      BY <1>4, <2>1
  <1>6. ASSUME NEW d \in Devices, Fails(q, r, a, b, d)
        PROVE  Same(q, r) /\ New /\ \A e \in Devices : Moves(e)
    <2>1. /\ AddsLast(q, r, Event("CONNECTION_COMP", d, 0)) /\ SameLinks(a, b, Devices \ {d})
          /\ a[d].link \in Trying
      BY <1>6 DEF Fails
    <2>. HIDE DEF New, Moves
    <2>2. QED
      BY <1>4, <2>1
  <1>7. ASSUME NEW d \in Devices, NEW n \in Handles, Makes(q, r, a, b, d, n)
        PROVE  Same(q, r) /\ New /\ \A e \in Devices : Moves(e)
    <2>1. /\ AddsLast(q, r, Event("CONNECTION_COMP", d, n)) /\ SameLinks(a, b, Devices \ {d})
          /\ a[d].link \in Trying
      BY <1>7 DEF Makes, Trying
    <2>. HIDE DEF New, Moves
    <2>2. QED
      BY <1>4, <2>1
  <1>8. ASSUME NEW d \in Devices, NEW n \in Handles, Ends(q, r, a, b, d, n)
        PROVE  Same(q, r) /\ New /\ \A e \in Devices : Moves(e)
    <2>1. /\ AddsLast(q, r, Event("DISCONNECTION_COMP", d, n)) /\ SameLinks(a, b, Devices \ {d})
          /\ a[d].link = "up"
      BY <1>8 DEF Ends, Up
    <2>. HIDE DEF New, Moves
    <2>2. QED
      BY <1>4, <2>1
  <1>9. Same(q, r) /\ New /\ \A e \in Devices : Moves(e)
    <2>. HIDE DEF New, Moves
    <2>1. CASE Rests(q, r, a, b)
      BY <1>2, <2>1 DEF New, Moves
    <2>2. QED
      BY <1>3, <1>5, <1>6, <1>7, <1>8, <2>1 DEF LinkStep
  <1>10. QED
    BY <1>9 DEF Same

(* What the links do is told.                                              *)
LEMMA StepLinked ==
  ASSUME NEW h, NEW q, NEW r, NEW a, NEW b, LinkStep(q, r, a, b), Linked(h, q, a)
  PROVE  Linked(h, r, b)
  <1>0. Traced(h, q, a)
    BY DEF Linked
  <1>1. Traced(h, r, b)
    <2>1. ASSUME Adds(q, r) PROVE Silent(q, r)
      BY <2>1 DEF Adds, Silent, LinkEvents
    <2>2. CASE Rests(q, r, a, b)
      <3>1. \A d \in Devices : \A n : Up(b, d, n) <=> Up(a, d, n)
        BY <2>2 DEF Rests, SameLinks, Up
      <3>2. QED
        BY <1>0, <2>1, <2>2, <3>1, SilentTraced DEF Rests
    <2>3. ASSUME NEW d \in Devices, Pages(q, r, a, b, d) PROVE Traced(h, r, b)
      <3>1. \A e \in Devices \ {d} : \A n : Up(b, e, n) <=> Up(a, e, n)
        BY <2>3, OtherUps DEF Pages
      <3>2. \A n : ~Up(b, d, n) /\ ~Up(a, d, n)
        BY <2>3 DEF Pages, Up
      <3>3. Silent(q, r)
        BY <2>1, <2>3 DEF Pages
      <3>4. QED
        BY <1>0, <3>1, <3>2, <3>3, SilentTraced
    <2>4. ASSUME NEW d \in Devices, Rings(q, r, a, b, d) PROVE Traced(h, r, b)
      <3>1. \A e \in Devices \ {d} : \A n : Up(b, e, n) <=> Up(a, e, n)
        BY <2>4, OtherUps DEF Rings
      <3>2. \A n : ~Up(b, d, n) /\ ~Up(a, d, n)
        BY <2>4 DEF Rings, Up
      <3>3. Silent(q, r)
        <4>. DEFINE e == Event("CONNECTION_REQUEST", d, 0)
        <4>1. Same(q, r) /\ r[Len(r)] = e /\ Len(q) \in Nat /\ Len(r) \in Nat
              /\ \A i \in Len(q) + 1 .. Len(r) - 1 : r[i].evt \notin LinkEvents
          BY <2>4 DEF Rings, AddsLast, Same
        <4>2. e.evt = "CONNECTION_REQUEST"
          BY DEF Event
        <4>. HIDE DEF e
        <4>3. ASSUME NEW i \in Len(q) + 1 .. Len(r)
              PROVE  r[i].evt \notin {"CONNECTION_COMP", "DISCONNECTION_COMP"}
          <5>1. CASE i = Len(r)
            BY <4>1, <4>2, <5>1
          <5>2. CASE i # Len(r)
            BY <4>1, <5>2 DEF LinkEvents
          <5>3. QED
            BY <5>1, <5>2
        <4>4. QED
          BY <4>1, <4>3 DEF Silent
      <3>4. QED
        BY <1>0, <3>1, <3>2, <3>3, SilentTraced
    <2>5. QED
      BY <1>0, <2>2, <2>3, <2>4, MakesTraced, FailsTraced, EndsTraced DEF LinkStep
  <1>2. ASSUME NEW d \in Devices, Handle(h, d) = 0
        PROVE  \/ Creates(h, d) \/ b[d].link \in Trying
               \/ \E j \in 1 .. Len(r) : Completed(r, j, d)
    <2>1. \/ Creates(h, d) \/ a[d].link \in Trying
          \/ \E j \in 1 .. Len(q) : Completed(q, j, d)
      BY <1>2 DEF Linked, Pending, Trying
    <2>2. CASE a[d].link \in Trying
      BY <2>2, StepParts DEF Trying
    <2>3. ASSUME NEW j \in 1 .. Len(q), Completed(q, j, d)
          PROVE  \E k \in 1 .. Len(r) : Completed(r, k, d)
      <3>1. j \in 1 .. Len(r) /\ r[j] = q[j]
        BY StepParts
      <3>2. QED
        BY <2>3, <3>1 DEF Completed
    <2>4. QED
      BY <2>1, <2>2, <2>3
  <1>3. QED
    BY <1>1, <1>2 DEF Linked, Pending, Trying

(* Nobody gets a link before he calls or is known.                         *)
LEMMA StepKnown ==
  ASSUME NEW h, NEW q, NEW r, NEW a, NEW b, LinkStep(q, r, a, b), KnownFirst(h, q, a),
         \A d \in Devices : a[d].link = "down" /\ b[d].link = "paging" => h.bt[d].known
  PROVE  KnownFirst(h, r, b)
  <1>1. /\ Same(q, r) /\ Len(q) \in Nat /\ Len(r) \in Nat /\ Len(q) <= Len(r)
        /\ \A i \in 1 .. Len(q) : r[i] = q[i]
    BY StepParts
  <1>2. \A k \in 1 .. Len(q) : \A d : (Requested(r, k, d) <=> Requested(q, k, d))
                                  /\ (Completed(r, k, d) <=> Completed(q, k, d))
    BY <1>1 DEF Requested, Completed
  <1>3. ASSUME NEW d \in Devices, a[d].link # "down"
        PROVE  h.bt[d].known \/ \E k \in 1 .. Len(q) : Requested(r, k, d)
    BY <1>2, <1>3 DEF KnownFirst
  <1>4. ASSUME NEW d \in Devices, NEW i \in 1 .. Len(r), Completed(r, i, d)
        PROVE  h.bt[d].known \/ \E k \in 1 .. i - 1 : Requested(r, k, d)
    <2>1. CASE i <= Len(q)
      <3>1. i \in 1 .. Len(q) /\ 1 .. i - 1 \subseteq 1 .. Len(q)
        BY <1>1, <2>1
      <3>2. Completed(q, i, d)
        BY <1>2, <1>4, <3>1
      <3>3. h.bt[d].known \/ \E k \in 1 .. i - 1 : Requested(q, k, d)
        BY <3>1, <3>2 DEF KnownFirst
      <3>4. QED
        BY <1>2, <3>1, <3>3
    <2>2. CASE i > Len(q)
      <3>1. a[d].link \in Trying
        BY <1>4, <2>2, StepParts
      <3>2. h.bt[d].known \/ \E k \in 1 .. Len(q) : Requested(r, k, d)
        BY <1>3, <3>1 DEF Trying
      <3>3. 1 .. Len(q) \subseteq 1 .. i - 1
        BY <1>1, <2>2
      <3>4. QED
        BY <3>2, <3>3
    <2>3. QED
      BY <1>1, <2>1, <2>2
  <1>5. ASSUME NEW d \in Devices, b[d].link # "down"
        PROVE  h.bt[d].known \/ \E k \in 1 .. Len(r) : Requested(r, k, d)
    <2>1. CASE a[d].link # "down"
      <3>1. 1 .. Len(q) \subseteq 1 .. Len(r)
        BY <1>1
      <3>2. QED
        BY <1>3, <2>1, <3>1
    <2>2. CASE a[d].link = "down"
      <3>1. \/ b[d].link = "paging" \/ \E k \in 1 .. Len(r) : Requested(r, k, d)
        BY <1>5, <2>2, StepParts DEF Trying
      <3>2. QED
        BY <2>2, <3>1
    <2>3. QED
      BY <2>1, <2>2
  <1>6. QED
    BY <1>4, <1>5 DEF KnownFirst

(* A call that changes a handle only to mark a connection it asks for      *)
(* leaves what is told as it is, if its request finds room in the queue.   *)
LEMMA TracksLinked ==
  ASSUME NEW h \in Host, NEW g \in Host, Tracks(h, g), Len(g.tx) < QSIZE, NEW q, Len(q) \in Nat,
         NEW a, Linked(h, q, a)
  PROVE  Linked(g, q, a)
  <1>1. 0 \notin Handles /\ NoHandle \notin Handles /\ 0 \in Links /\ NoHandle \in Links
        /\ Handles \subseteq Links
    BY HandleAssumption DEF NoHandle, Links
  <1>2. ASSUME NEW d \in Devices
        PROVE  /\ Creates(h, d) => Creates(g, d)
               /\ \/ Handle(g, d) = Handle(h, d)
                  \/ Handle(h, d) = NoHandle /\ Handle(g, d) = 0 /\ Creates(g, d)
    <2>1. Len(g.tx) \in Nat /\ QSIZE \in Nat
      BY HostParts, QueueAssumption
    <2>2. QED
      BY <2>1 DEF Tracks, Calling
  <1>3. ASSUME NEW d \in Devices, NEW n \in Handles, NEW i \in 0 .. Len(q)
        PROVE  Told(g, q, i, d, n) <=> Told(h, q, i, d, n)
    BY <1>1, <1>2 DEF Told
  <1>4. ASSUME NEW d \in Devices, NEW n, NEW i \in 1 .. Len(q)
        PROVE  Told(g, q, i, d, n) <=> Told(h, q, i, d, n)
    BY DEF Told
  <1>5. EndsOrUp(g, q, a)
    BY <1>3 DEF Linked, Traced, EndsOrUp
  <1>6. UpIsTold(g, q, a)
    <2>1. SUFFICES ASSUME NEW d \in Devices, NEW m \in Links, NEW n \in Handles, NEW i \in 0 .. Len(q),
                          Told(g, q, i, d, m), Up(a, d, n), m # n
                   PROVE  \E j \in i + 1 .. Len(q) : Told(g, q, j, d, n)
      BY DEF UpIsTold
    <2>2. \E k \in Links : Told(h, q, i, d, k) /\ k # n
      <3>1. CASE i = 0
        BY <1>1, <1>2, <2>1, <3>1 DEF Told
      <3>2. CASE i # 0
        BY <1>4, <2>1, <3>2
      <3>3. QED
        BY <3>1, <3>2
    <2>3. PICK j \in i + 1 .. Len(q) : Told(h, q, j, d, n)
      BY <2>1, <2>2 DEF Linked, Traced, UpIsTold
    <2>4. j \in 1 .. Len(q)
      BY <2>1
    <2>5. QED
      BY <1>4, <2>3, <2>4
  <1>7. UpAgain(g, q, a)
    <2>1. \A i \in 1 .. Len(q) : \A j \in i + 1 .. Len(q) : j \in 1 .. Len(q)
      OBVIOUS
    <2>2. QED
      BY <1>4, <2>1 DEF Linked, Traced, UpAgain
  <1>8. EndsFirst(g, q)
    <2>1. SUFFICES ASSUME NEW d \in Devices, NEW e \in Devices, NEW n \in Handles, NEW m \in Links,
                          NEW i \in 0 .. Len(q), NEW j \in 0 .. Len(q), i < j,
                          Told(g, q, i, d, n), Told(g, q, j, e, m), d = e \/ n = m
                   PROVE  \E k \in i + 1 .. j - 1 : Ended(q, k, n)
      BY DEF EndsFirst
    <2>2. j \in 1 .. Len(q)
      BY <2>1
    <2>3. Told(h, q, i, d, n) /\ Told(h, q, j, e, m)
      BY <1>3, <1>4, <2>1, <2>2
    <2>4. QED
      BY <2>1, <2>3 DEF Linked, Traced, EndsFirst
  <1>9. Apart(g, a)
    BY <1>1, <1>2 DEF Linked, Traced, Apart
  <1>10. Pending(g, q, a)
    BY <1>2 DEF Linked, Pending
  <1>11. QED
    BY <1>5, <1>6, <1>7, <1>8, <1>9, <1>10 DEF Linked, Traced

(* The first event is taken from the queue: what was told at a position is *)
(* told at the one before.                                                 *)
LEMMA TailTold ==
  ASSUME NEW h, NEW x, NEW T, NEW q \in Seq(T), q # <<>>
  PROVE  /\ Len(q) \in Nat /\ Len(Tail(q)) = Len(q) - 1 /\ 1 \in 0 .. Len(q) /\ Head(q) = q[1]
         /\ \A i \in 1 .. Len(Tail(q)) :
              /\ i + 1 \in 2 .. Len(q)
              /\ \A d, n : Told(x, Tail(q), i, d, n) <=> Told(h, q, i + 1, d, n)
              /\ \A n : Ended(Tail(q), i, n) <=> Ended(q, i + 1, n)
              /\ \A d : Completed(Tail(q), i, d) <=> Completed(q, i + 1, d)
              /\ \A d : Requested(Tail(q), i, d) <=> Requested(q, i + 1, d)
  <1>1. Len(q) \in Nat /\ Len(q) # 0 /\ Len(Tail(q)) = Len(q) - 1 /\ Head(q) = q[1]
        /\ \A i \in 1 .. Len(q) - 1 : Tail(q)[i] = q[i + 1]
    OBVIOUS
  <1>2. ASSUME NEW i \in 1 .. Len(Tail(q)) PROVE Tail(q)[i] = q[i + 1] /\ i + 1 # 0 /\ i # 0
                                                 /\ i + 1 \in 2 .. Len(q)
    BY <1>1
  <1>3. QED
    BY <1>1, <1>2 DEF Told, Ended, Completed, Requested

(* The first event is taken, and what it says is now what the host has     *)
(* been told.                                                              *)
LEMMA TailLinked ==
  ASSUME NEW h, NEW x, NEW T, NEW q \in Seq(T), q # <<>>, NEW a, Linked(h, q, a),
         \A d \in Devices, n \in Handles : Handle(x, d) = n =>
           Told(h, q, 1, d, n) \/ (Told(h, q, 0, d, n) /\ ~Ended(q, 1, n)),
         \A d \in Devices, m \in Links, n \in Handles :
           Handle(x, d) = m /\ Up(a, d, n) /\ m # n =>
             \E j \in 2 .. Len(q) : Told(h, q, j, d, n),
         \A d, e \in Devices, n \in Handles : d # e => ~(Handle(x, d) = n /\ Handle(x, e) = n),
         \A d \in Devices : /\ Handle(x, d) = 0 => Handle(h, d) = 0 /\ ~Completed(q, 1, d)
                            /\ Creates(h, d) => Creates(x, d)
  PROVE  Linked(x, Tail(q), a)
  <1>. DEFINE t == Tail(q)
              L == Len(q)
              K == Len(t)
  <1>1. L \in Nat /\ K = L - 1 /\ 1 \in 0 .. L /\ K \in Nat
    <2>1. L \in Nat /\ K = L - 1 /\ 1 \in 0 .. L
      BY TailTold
    <2>2. QED
      BY <2>1
  <1>2. ASSUME NEW i \in 1 .. K
        PROVE  /\ i + 1 \in 2 .. L
               /\ \A d, n : Told(x, t, i, d, n) <=> Told(h, q, i + 1, d, n)
               /\ \A n : Ended(t, i, n) <=> Ended(q, i + 1, n)
               /\ \A d : Completed(t, i, d) <=> Completed(q, i + 1, d)
    BY TailTold
  <1>3. \A d, n : Told(x, t, 0, d, n) <=> Handle(x, d) = n
    BY DEF Told
  <1>4. Traced(h, q, a)
    BY DEF Linked
  <1>. HIDE DEF t, L, K
  <1>5. ASSUME NEW i \in 0 .. K, NEW d \in Devices, NEW n \in Handles, Told(x, t, i, d, n)
        PROVE  \E k \in {i, i + 1} : /\ k \in 0 .. L /\ Told(h, q, k, d, n)
                                     /\ k = i => i = 0 /\ ~Ended(q, 1, n)
    <2>1. CASE i = 0
      <3>1. Told(h, q, 1, d, n) \/ (Told(h, q, 0, d, n) /\ ~Ended(q, 1, n))
        BY <1>3, <1>5, <2>1
      <3>2. QED
        BY <1>1, <2>1, <3>1
    <2>2. CASE i # 0
      <3>1. i \in 1 .. K
        BY <1>1, <2>2
      <3>2. Told(h, q, i + 1, d, n) /\ i + 1 \in 0 .. L
        BY <1>2, <1>5, <3>1
      <3>3. QED
        BY <1>1, <3>2
    <2>3. QED
      BY <2>1, <2>2
  <1>6. \A j \in 2 .. L : j - 1 \in 1 .. K /\ j - 1 + 1 = j
    BY <1>1
  <1>7. EndsOrUp(x, t, a)
    <2>1. SUFFICES ASSUME NEW d \in Devices, NEW n \in Handles, NEW i \in 0 .. K, Told(x, t, i, d, n),
                          ~Up(a, d, n)
                   PROVE  \E j \in i + 1 .. K : Ended(t, j, n)
      BY DEF EndsOrUp, K
    <2>2. PICK k \in {i, i + 1} : /\ k \in 0 .. L /\ Told(h, q, k, d, n)
                                  /\ k = i => i = 0 /\ ~Ended(q, 1, n)
      BY <1>5, <2>1
    <2>3. PICK j \in k + 1 .. L : Ended(q, j, n)
      BY <1>4, <2>1, <2>2 DEF Traced, EndsOrUp, L
    <2>4. j >= i + 2
      BY <1>1, <2>2, <2>3
    <2>5. j \in 2 .. L /\ j - 1 \in i + 1 .. K
      BY <1>1, <2>4
    <2>6. Ended(t, j - 1, n)
      BY <1>2, <1>6, <2>3, <2>5
    <2>7. QED
      BY <2>5, <2>6
  <1>8. UpIsTold(x, t, a)
    <2>1. SUFFICES ASSUME NEW d \in Devices, NEW m \in Links, NEW n \in Handles, NEW i \in 0 .. K,
                          Told(x, t, i, d, m), Up(a, d, n), m # n
                   PROVE  \E j \in i + 1 .. K : Told(x, t, j, d, n)
      BY DEF UpIsTold, K
    <2>2. PICK j \in i + 2 .. L : Told(h, q, j, d, n)
      <3>1. CASE i = 0
        <4>1. Handle(x, d) = m
          BY <1>3, <2>1, <3>1
        <4>2. PICK j \in 2 .. L : Told(h, q, j, d, n)
          BY <2>1, <4>1 DEF L
        <4>3. QED
          BY <3>1, <4>2
      <3>2. CASE i # 0
        <4>1. i \in 1 .. K /\ i + 1 \in 0 .. L /\ i + 1 + 1 = i + 2
          BY <1>1, <3>2
        <4>2. Told(h, q, i + 1, d, m)
          BY <1>2, <2>1, <4>1
        <4>3. \E j \in i + 1 + 1 .. L : Told(h, q, j, d, n)
          BY <1>4, <2>1, <4>1, <4>2 DEF Traced, UpIsTold, L
        <4>4. QED
          BY <4>1, <4>3
      <3>3. QED
        BY <3>1, <3>2
    <2>3. j \in 2 .. L /\ j - 1 \in i + 1 .. K
      BY <1>1
    <2>4. Told(x, t, j - 1, d, n)
      BY <1>2, <1>6, <2>2, <2>3
    <2>5. QED
      BY <2>3, <2>4
  <1>9. UpAgain(x, t, a)
    <2>1. SUFFICES ASSUME NEW d \in Devices, NEW n \in Handles, NEW i \in 1 .. K,
                          Ended(t, i, n), Up(a, d, n)
                   PROVE  \E j \in i + 1 .. K : Told(x, t, j, d, n)
      BY DEF UpAgain, K
    <2>2. Ended(q, i + 1, n) /\ i + 1 \in 1 .. L
      BY <1>1, <1>2, <2>1
    <2>3. PICK j \in i + 1 + 1 .. L : Told(h, q, j, d, n)
      BY <1>4, <2>1, <2>2 DEF Traced, UpAgain, L
    <2>4. j \in 2 .. L /\ j - 1 \in i + 1 .. K
      BY <1>1
    <2>5. Told(x, t, j - 1, d, n)
      BY <1>2, <1>6, <2>3, <2>4
    <2>6. QED
      BY <2>4, <2>5
  <1>10. EndsFirst(x, t)
    <2>1. SUFFICES ASSUME NEW d \in Devices, NEW e \in Devices, NEW n \in Handles, NEW m \in Links,
                          NEW i \in 0 .. K, NEW j \in 0 .. K, i < j,
                          Told(x, t, i, d, n), Told(x, t, j, e, m), d = e \/ n = m
                   PROVE  \E k \in i + 1 .. j - 1 : Ended(t, k, n)
      BY DEF EndsFirst, K
    <2>2. PICK k \in {i, i + 1} : /\ k \in 0 .. L /\ Told(h, q, k, d, n)
                                  /\ k = i => i = 0 /\ ~Ended(q, 1, n)
      BY <1>5, <2>1
    <2>3. j \in 1 .. K /\ j + 1 \in 0 .. L /\ k < j + 1
      BY <1>1, <2>1, <2>2
    <2>4. Told(h, q, j + 1, e, m)
      BY <1>2, <2>1, <2>3
    <2>5. PICK l \in k + 1 .. j + 1 - 1 : Ended(q, l, n)
      BY <1>4, <2>1, <2>2, <2>3, <2>4 DEF Traced, EndsFirst, L
    <2>6. l >= i + 2 /\ l <= j
      BY <1>1, <2>2, <2>5
    <2>7. l \in 2 .. L /\ l - 1 \in i + 1 .. j - 1
      BY <1>1, <2>3, <2>6
    <2>8. Ended(t, l - 1, n)
      BY <1>2, <1>6, <2>5, <2>7
    <2>9. QED
      BY <2>7, <2>8
  <1>11. Apart(x, a)
    BY <1>4 DEF Traced, Apart
  <1>12. Pending(x, t, a)
    <2>1. SUFFICES ASSUME NEW d \in Devices, Handle(x, d) = 0, ~Creates(x, d),
                          a[d].link \notin {"calling", "paging"}
                   PROVE  \E j \in 1 .. K : Completed(t, j, d)
      BY DEF Pending, K
    <2>2. Handle(h, d) = 0 /\ ~Creates(h, d) /\ ~Completed(q, 1, d)
      BY <2>1
    <2>3. PICK j \in 1 .. L : Completed(q, j, d)
      BY <2>1, <2>2 DEF Linked, Pending, L
    <2>4. j \in 2 .. L
      BY <2>2, <2>3
    <2>5. Completed(t, j - 1, d)
      BY <1>2, <1>6, <2>3, <2>4
    <2>6. QED
      BY <1>6, <2>4, <2>5
  <1>13. QED
    BY <1>7, <1>8, <1>9, <1>10, <1>11, <1>12 DEF Linked, Traced, t

(* After a connection is said to be complete, or to have failed, the       *)
(* device has the handle it was said to have.                              *)
LEMMA CompTail ==
  ASSUME NEW h, Good(h), NEW q \in Seq(RxPacket), q # <<>>, NEW a, Linked(h, q, a),
         Head(q).evt = "CONNECTION_COMP", h.bt[Head(q).dev].known
  PROVE  Linked(Relinked(h, Head(q)), Tail(q), a)
  <1>. DEFINE p == Head(q)
              d == p.dev
              n == IF p.arg = 0 THEN NoHandle ELSE p.arg
              x == [h EXCEPT !.bt[d].handle = n]
  <1>1. p \in RxPacket /\ p = q[1] /\ 1 \in 0 .. Len(q)
    BY TailTold
  <1>2. d \in Devices /\ p.arg \in Handles \cup {0} /\ h.bt[d].known
    BY <1>1, RxParts
  <1>3. Relinked(h, p) = x
    BY DEF Relinked
  <1>4. n \in Links /\ 0 \notin Handles /\ NoHandle \notin Handles /\ NoHandle # 0
        /\ Handles \subseteq Links /\ 0 \in Links
    BY <1>2, HandleAssumption DEF Links, NoHandle
  <1>5. /\ \A e, m : Told(h, q, 1, e, m) <=> e = d /\ m = p.arg
        /\ \A e : Completed(q, 1, e) <=> e = d
        /\ \A m : ~Ended(q, 1, m)
    BY <1>1 DEF Told, Completed, Ended
  <1>6. (p.arg = 0 => n = NoHandle) /\ (p.arg # 0 => n = p.arg)
    OBVIOUS
  <1>7. Traced(h, q, a)
    BY DEF Linked
  <1>. HIDE DEF n, d, p
  <1>8. Handle(x, d) = n /\ x.tx = h.tx /\ \A e \in Devices \ {d} : Handle(x, e) = Handle(h, e)
    <2>1. d \in Devices /\ n \in Links /\ h.bt[d].known
      BY <1>2, <1>4
    <2>2. h \in Fields /\ h.bt \in [Devices -> Device]
      BY HostParts DEF Good
    <2>3. x.tx = h.tx /\ x.bt = [h.bt EXCEPT ![d].handle = n]
      BY <2>2 DEF Fields
    <2>4. x.bt[d] = [h.bt[d] EXCEPT !.handle = n] /\ \A e \in Devices \ {d} : x.bt[e] = h.bt[e]
      BY <2>1, <2>2, <2>3
    <2>5. h.bt[d] \in Device
      BY <2>1, <2>2
    <2>6. x.bt[d].handle = n
      BY <2>4, <2>5 DEF Device
    <2>. HIDE DEF x
    <2>7. QED
      BY <2>3, <2>4, <2>6 DEF Handle
  <1>. HIDE DEF x
  <1>9. ASSUME NEW e \in Devices, NEW m \in Handles, Handle(x, e) = m
        PROVE  Told(h, q, 1, e, m) \/ (Told(h, q, 0, e, m) /\ ~Ended(q, 1, m))
    <2>1. CASE e = d
      BY <1>4, <1>5, <1>6, <1>8, <1>9, <2>1
    <2>2. CASE e # d
      BY <1>5, <1>8, <1>9, <2>2 DEF Told
    <2>3. QED
      BY <2>1, <2>2
  <1>10. ASSUME NEW e \in Devices, NEW m \in Links, NEW k \in Handles,
                Handle(x, e) = m, Up(a, e, k), m # k
         PROVE  \E j \in 2 .. Len(q) : Told(h, q, j, e, k)
    <2>1. CASE e = d
      <3>1. Told(h, q, 1, e, p.arg) /\ p.arg # k /\ p.arg \in Links
        BY <1>2, <1>4, <1>5, <1>6, <1>8, <1>10, <2>1
      <3>2. \E j \in 1 + 1 .. Len(q) : Told(h, q, j, e, k)
        BY <1>1, <1>7, <1>10, <3>1 DEF Traced, UpIsTold
      <3>3. QED
        BY <3>2
    <2>2. CASE e # d
      <3>1. Told(h, q, 0, e, m)
        BY <1>8, <1>10, <2>2 DEF Told
      <3>2. 0 \in 0 .. Len(q)
        BY <1>1
      <3>3. PICK j \in 0 + 1 .. Len(q) : Told(h, q, j, e, k)
        BY <1>7, <1>10, <3>1, <3>2 DEF Traced, UpIsTold
      <3>4. j # 1
        BY <1>5, <2>2, <3>3
      <3>5. QED
        BY <3>3, <3>4
    <2>3. QED
      BY <2>1, <2>2
  <1>11. ASSUME NEW e \in Devices, e # d, NEW m \in Handles, Handle(x, d) = m, Handle(x, e) = m
         PROVE  FALSE
    <2>1. Told(h, q, 0, e, m) /\ Told(h, q, 1, d, m)
      BY <1>4, <1>5, <1>6, <1>8, <1>11 DEF Told
    <2>2. 0 \in 0 .. Len(q) /\ 0 < 1 /\ m \in Links
      BY <1>1, <1>4
    <2>3. \E k \in 0 + 1 .. 1 - 1 : Ended(q, k, m)
      BY <1>1, <1>2, <1>7, <2>1, <2>2 DEF Traced, EndsFirst
    <2>4. QED
      BY <2>3
  <1>12. \A e, f \in Devices, m \in Handles : e # f => ~(Handle(x, e) = m /\ Handle(x, f) = m)
    BY <1>2, <1>7, <1>8, <1>11 DEF Traced, Apart
  <1>13. \A e \in Devices : /\ Handle(x, e) = 0 => Handle(h, e) = 0 /\ ~Completed(q, 1, e)
                            /\ Creates(h, e) => Creates(x, e)
    BY <1>4, <1>5, <1>6, <1>8 DEF Creates
  <1>14. Linked(x, Tail(q), a)
    BY <1>9, <1>10, <1>12, <1>13, TailLinked
  <1>15. QED
    BY <1>3, <1>14 DEF p

(* After the end of a link nobody has its handle.                          *)
LEMMA DiscTail ==
  ASSUME NEW h, Good(h), NEW q \in Seq(RxPacket), q # <<>>, NEW a, Linked(h, q, a),
         Head(q).evt = "DISCONNECTION_COMP"
  PROVE  Linked(Relinked(h, Head(q)), Tail(q), a)
  <1>. DEFINE p == Head(q)
              n == p.arg
              x == Relinked(h, p)
  <1>1. p \in RxPacket /\ p = q[1] /\ 1 \in 0 .. Len(q) /\ 1 \in 1 .. Len(q)
    BY TailTold
  <1>2. n \in Handles
    BY <1>1, RxParts
  <1>3. NoHandle \notin Handles /\ NoHandle # 0 /\ 0 \notin Handles /\ Handles \subseteq Links
    BY HandleAssumption DEF Links, NoHandle
  <1>4. /\ \A e, m : ~Told(h, q, 1, e, m)
        /\ \A e : ~Completed(q, 1, e)
        /\ \A m : Ended(q, 1, m) <=> m = n
    BY <1>1 DEF Told, Completed, Ended
  <1>5. Traced(h, q, a)
    BY DEF Linked
  <1>6. /\ x.tx = h.tx
        /\ \A e \in Devices : /\ Handle(h, e) = n => Handle(x, e) = NoHandle
                              /\ Handle(h, e) # n => Handle(x, e) = Handle(h, e)
    <2>1. CASE OnHandle(h, n) = {}
      <3>1. x = h
        BY <2>1 DEF Relinked
      <3>2. ASSUME NEW e \in Devices, Handle(h, e) = n PROVE FALSE
        <4>1. h.bt[e].known
          BY <1>2, <1>3, <3>2 DEF Good, KnownOK
        <4>2. QED
          BY <2>1, <3>2, <4>1 DEF OnHandle, Handle
      <3>3. QED
        BY <3>1, <3>2
    <2>2. CASE OnHandle(h, n) # {}
      <3>. DEFINE d == get_device_by_handle(h, n)
                  y == disconnect_all(h, d)
      <3>1. d \in Devices /\ h.bt[d].known /\ Handle(h, d) = n
        BY <2>2, HandleOf
      <3>2. x = y
        BY <2>2 DEF Relinked
      <3>. HIDE DEF d
      <3>3. /\ Handle(y, d) = NoHandle /\ y.tx = h.tx
            /\ \A e \in Devices \ {d} : y.bt[e] = h.bt[e]
        BY <3>1, DiscRelinked
      <3>. HIDE DEF y, x
      <3>4. \A e \in Devices \ {d} : Handle(y, e) = Handle(h, e) /\ Handle(h, e) # n
        <4>1. \A e \in Devices \ {d} : Handle(h, e) # n
          BY <1>2, <1>5, <3>1 DEF Traced, Apart
        <4>2. QED
          BY <3>3, <4>1 DEF Handle
      <3>5. QED
        BY <3>1, <3>2, <3>3, <3>4
    <2>3. QED
      BY <2>1, <2>2
  <1>. HIDE DEF n, p, x
  <1>7. ASSUME NEW e \in Devices, NEW m \in Handles, Handle(x, e) = m
        PROVE  Told(h, q, 1, e, m) \/ (Told(h, q, 0, e, m) /\ ~Ended(q, 1, m))
    BY <1>3, <1>4, <1>6, <1>7 DEF Told
  <1>8. ASSUME NEW e \in Devices, NEW m \in Links, NEW k \in Handles,
               Handle(x, e) = m, Up(a, e, k), m # k
        PROVE  \E j \in 2 .. Len(q) : Told(h, q, j, e, k)
    <2>1. CASE Handle(h, e) = k
      <3>1. Ended(q, 1, k)
        BY <1>4, <1>6, <1>8, <2>1
      <3>2. \E j \in 1 + 1 .. Len(q) : Told(h, q, j, e, k)
        BY <1>1, <1>5, <1>8, <3>1 DEF Traced, UpAgain
      <3>3. QED
        BY <3>2
    <2>2. CASE Handle(h, e) # k
      <3>1. Handle(h, e) \in Links
        BY DeviceParts DEF Good, Handle
      <3>. DEFINE l == Handle(h, e)
      <3>2. Told(h, q, 0, e, l) /\ l # k /\ l \in Links
        BY <2>2, <3>1 DEF Told
      <3>3. 0 \in 0 .. Len(q)
        BY <1>1
      <3>. HIDE DEF l
      <3>4. PICK j \in 0 + 1 .. Len(q) : Told(h, q, j, e, k)
        BY <1>5, <1>8, <3>2, <3>3 DEF Traced, UpIsTold
      <3>5. j # 1
        BY <1>4, <3>4
      <3>6. QED
        BY <3>4, <3>5
    <2>3. QED
      BY <2>1, <2>2
  <1>9. \A e, f \in Devices, m \in Handles : e # f => ~(Handle(x, e) = m /\ Handle(x, f) = m)
    BY <1>3, <1>5, <1>6 DEF Traced, Apart
  <1>10. \A e \in Devices : /\ Handle(x, e) = 0 => Handle(h, e) = 0 /\ ~Completed(q, 1, e)
                            /\ Creates(h, e) => Creates(x, e)
    BY <1>3, <1>4, <1>6 DEF Creates
  <1>11. Linked(x, Tail(q), a)
    BY <1>7, <1>8, <1>9, <1>10, TailLinked
  <1>12. QED
    BY <1>11 DEF p, x

(* Any other event leaves the handles alone.                               *)
LEMMA OtherTail ==
  ASSUME NEW h, Good(h), NEW q \in Seq(RxPacket), q # <<>>, NEW a, Linked(h, q, a),
         Head(q).evt \notin {"CONNECTION_COMP", "DISCONNECTION_COMP"}
  PROVE  Linked(Relinked(h, Head(q)), Tail(q), a)
  <1>1. Head(q) = q[1] /\ 1 \in 0 .. Len(q)
    BY TailTold
  <1>2. Relinked(h, Head(q)) = h
    BY DEF Relinked
  <1>3. /\ \A e, m : ~Told(h, q, 1, e, m)
        /\ \A e : ~Completed(q, 1, e)
        /\ \A m : ~Ended(q, 1, m)
    BY <1>1 DEF Told, Completed, Ended
  <1>4. Traced(h, q, a)
    BY DEF Linked
  <1>5. \A e \in Devices : \A m : Told(h, q, 0, e, m) <=> Handle(h, e) = m
    BY DEF Told
  <1>6. ASSUME NEW e \in Devices, NEW m \in Links, NEW k \in Handles,
               Handle(h, e) = m, Up(a, e, k), m # k
        PROVE  \E j \in 2 .. Len(q) : Told(h, q, j, e, k)
    <2>1. Told(h, q, 0, e, m) /\ 0 \in 0 .. Len(q)
      BY <1>1, <1>5, <1>6
    <2>2. PICK j \in 0 + 1 .. Len(q) : Told(h, q, j, e, k)
      BY <1>4, <1>6, <2>1 DEF Traced, UpIsTold
    <2>3. j # 1
      BY <1>3, <2>2
    <2>4. QED
      BY <2>2, <2>3
  <1>7. \A e, f \in Devices, m \in Handles : e # f => ~(Handle(h, e) = m /\ Handle(h, f) = m)
    BY <1>4 DEF Traced, Apart
  <1>8. Linked(h, Tail(q), a)
    BY <1>3, <1>5, <1>6, <1>7, TailLinked
  <1>9. QED
    BY <1>2, <1>8

(* An event that changes a handle forgets no device.                       *)
LEMMA RelinkedGood ==
  ASSUME NEW h, Good(h), NEW p \in RxPacket
  PROVE  /\ Good(Relinked(h, p))
         /\ \A e \in Devices : h.bt[e].known => Relinked(h, p).bt[e].known
  <1>1. CASE p.evt = "CONNECTION_COMP" /\ h.bt[p.dev].known
    <2>. DEFINE d == p.dev
                n == IF p.arg = 0 THEN NoHandle ELSE p.arg
                y == [h EXCEPT !.bt[d].handle = n]
    <2>1. d \in Devices /\ n \in Links /\ h.bt[d].known
      BY <1>1, RxParts DEF Links
    <2>2. Relinked(h, p) = y
      BY <1>1 DEF Relinked
    <2>. HIDE DEF d, n
    <2>3. y = WithHandle(h, d, n)
      BY DEF WithHandle
    <2>. HIDE DEF y
    <2>4. /\ Good(y) /\ (y.state = NotSent => h.state = NotSent)
          /\ y.bt[d] = [h.bt[d] EXCEPT !.handle = n] /\ Handle(y, d) = n
          /\ y.bt[d].known
          /\ y.tx = h.tx /\ y.inp = h.inp /\ \A e \in Devices \ {d} : y.bt[e] = h.bt[e]
      BY <2>1, <2>3, CompRelinked
    <2>5. QED
      BY <2>2, <2>4
  <1>2. CASE p.evt = "DISCONNECTION_COMP" /\ OnHandle(h, p.arg) # {}
    <2>. DEFINE d == get_device_by_handle(h, p.arg)
                y == disconnect_all(h, d)
    <2>1. d \in Devices /\ h.bt[d].known
      BY <1>2, HandleOf
    <2>2. Relinked(h, p) = y
      BY <1>2 DEF Relinked
    <2>. HIDE DEF d
    <2>3. Good(y) /\ y.bt[d].known /\ \A e \in Devices \ {d} : y.bt[e] = h.bt[e]
      BY <2>1, DiscRelinked
    <2>. HIDE DEF y
    <2>4. QED
      BY <2>2, <2>3
  <1>3. CASE ~(p.evt = "CONNECTION_COMP" /\ h.bt[p.dev].known)
             /\ ~(p.evt = "DISCONNECTION_COMP" /\ OnHandle(h, p.arg) # {})
    <2>1. Relinked(h, p) = h
      BY <1>3 DEF Relinked
    <2>2. QED
      BY <2>1
  <1>4. QED
    BY <1>1, <1>2, <1>3

(* Devices stay known, and one that calls is known when its call has been  *)
(* handled.                                                                *)
LEMMA TailKnown ==
  ASSUME NEW h, NEW g, NEW q \in Seq(RxPacket), q # <<>>, NEW a, KnownFirst(h, q, a),
         \A d \in Devices : h.bt[d].known \/ Requested(q, 1, d) => g.bt[d].known
  PROVE  KnownFirst(g, Tail(q), a)
  <1>. DEFINE t == Tail(q)
              K == Len(t)
  <1>1. Len(q) \in Nat /\ K = Len(q) - 1 /\ K \in Nat
    <2>1. Len(q) \in Nat /\ K = Len(q) - 1 /\ 1 \in 0 .. Len(q)
      BY TailTold
    <2>2. QED
      BY <2>1
  <1>2. ASSUME NEW i \in 1 .. K
        PROVE  /\ i + 1 \in 2 .. Len(q)
               /\ \A d : Completed(t, i, d) <=> Completed(q, i + 1, d)
               /\ \A d : Requested(t, i, d) <=> Requested(q, i + 1, d)
    BY TailTold
  <1>. HIDE DEF t, K
  <1>3. ASSUME NEW d \in Devices, NEW k \in 1 .. Len(q), Requested(q, k, d), ~g.bt[d].known
        PROVE  k - 1 \in 1 .. K /\ Requested(t, k - 1, d)
    <2>1. k # 1
      BY <1>3
    <2>2. k - 1 \in 1 .. K /\ k - 1 + 1 = k
      BY <1>1, <2>1
    <2>3. QED
      BY <1>2, <1>3, <2>2
  <1>4. ASSUME NEW d \in Devices, NEW i \in 1 .. K, Completed(t, i, d), ~g.bt[d].known
        PROVE  \E k \in 1 .. i - 1 : Requested(t, k, d)
    <2>1. Completed(q, i + 1, d) /\ i + 1 \in 1 .. Len(q) /\ ~h.bt[d].known
      BY <1>1, <1>2, <1>4
    <2>2. PICK k \in 1 .. i + 1 - 1 : Requested(q, k, d)
      BY <2>1 DEF KnownFirst
    <2>3. k \in 1 .. Len(q)
      BY <1>1
    <2>4. k - 1 \in 1 .. K /\ Requested(t, k - 1, d)
      BY <1>3, <1>4, <2>2, <2>3
    <2>5. k - 1 \in 1 .. i - 1
      BY <1>1, <2>4
    <2>6. QED
      BY <2>4, <2>5
  <1>5. ASSUME NEW d \in Devices, a[d].link # "down", ~g.bt[d].known
        PROVE  \E k \in 1 .. K : Requested(t, k, d)
    <2>1. PICK k \in 1 .. Len(q) : Requested(q, k, d)
      BY <1>5 DEF KnownFirst
    <2>2. QED
      BY <1>3, <1>5, <2>1
  <1>6. QED
    BY <1>4, <1>5 DEF KnownFirst, t, K

(* The host after an event, whatever it is.                                *)
LEMMA ReceiveLinked ==
  ASSUME NEW h, Good(h), NEW q \in Seq(RxPacket), q # <<>>, NEW a,
         Linked(h, q, a), KnownFirst(h, q, a), DataLinked(h), SlotsLinked(h),
         Head(q) \in RxQuiet \/ h.state # NotSent, Len(Handled(h, Head(q)).tx) < QSIZE
  PROVE  LET g == Handled(h, Head(q))
         IN Linked(g, Tail(q), a) /\ KnownFirst(g, Tail(q), a) /\ DataLinked(g) /\ SlotsLinked(g)
  <1>. DEFINE p == Head(q)
              g == Handled(h, p)
              x == Relinked(h, p)
  <1>1. p \in RxPacket /\ p = q[1] /\ 1 \in 0 .. Len(q) /\ 1 \in 1 .. Len(q) /\ Len(Tail(q)) \in Nat
    <2>1. Len(q) \in Nat /\ Len(Tail(q)) = Len(q) - 1 /\ 1 \in 0 .. Len(q) /\ p = q[1]
      BY TailTold
    <2>2. QED
      BY <2>1
  <1>2. /\ Good(g) /\ Tracks(x, g)
        /\ p.evt = "CONNECTION_REQUEST" => g.bt[p.dev].known
    <2>1. p \in RxQuiet \/ h.state # NotSent
      OBVIOUS
    <2>. HIDE DEF p
    <2>2. QED
      BY <1>1, <2>1, HandledGood
  <1>3. Good(x) /\ \A e \in Devices : h.bt[e].known => x.bt[e].known
    BY <1>1, RelinkedGood
  <1>4. p.evt = "CONNECTION_COMP" => p.dev \in Devices /\ p.arg \in Links
    BY <1>1, RxParts DEF Links
  <1>5. p.evt = "CONNECTION_COMP" => h.bt[p.dev].known
    <2>1. SUFFICES ASSUME p.evt = "CONNECTION_COMP" PROVE h.bt[p.dev].known
      OBVIOUS
    <2>2. Completed(q, 1, p.dev)
      BY <1>1, <2>1 DEF Completed
    <2>3. h.bt[p.dev].known \/ \E k \in 1 .. 1 - 1 : Requested(q, k, p.dev)
      BY <1>1, <1>4, <2>1, <2>2 DEF KnownFirst
    <2>4. QED
      BY <2>3
  <1>6. p.evt = "CONNECTION_COMP" => Handle(h, p.dev) \notin Handles
    <2>1. SUFFICES ASSUME p.evt = "CONNECTION_COMP", Handle(h, p.dev) \in Handles PROVE FALSE
      OBVIOUS
    <2>. DEFINE d == p.dev
                n == Handle(h, d)
                m == p.arg
    <2>2. d \in Devices /\ m \in Links /\ n \in Handles
      BY <1>4, <2>1
    <2>3. Told(h, q, 0, d, n) /\ Told(h, q, 1, d, m)
      BY <1>1, <2>1 DEF Told, Completed
    <2>. HIDE DEF d, n, m
    <2>4. 0 \in 0 .. Len(q) /\ 0 < 1
      BY <1>1
    <2>5. \E k \in 0 + 1 .. 1 - 1 : Ended(q, k, n)
      BY <1>1, <2>2, <2>3, <2>4 DEF Linked, Traced, EndsFirst
    <2>6. QED
      BY <2>5
  <1>7. Linked(x, Tail(q), a)
    BY <1>5, CompTail, DiscTail, OtherTail
  <1>8. \A d \in Devices : h.bt[d].known \/ Requested(q, 1, d) => g.bt[d].known
    <2>1. \A d \in Devices : Requested(q, 1, d) => p.evt = "CONNECTION_REQUEST" /\ p.dev = d
      BY <1>1 DEF Requested
    <2>. HIDE DEF p, g, x
    <2>2. QED
      BY <1>2, <1>3, <2>1 DEF Tracks
  <1>9. KnownFirst(g, Tail(q), a)
    BY <1>8, TailKnown
  <1>10. DataLinked(g) /\ SlotsLinked(g)
    <2>1. p \in RxQuiet \/ h.state # NotSent
      OBVIOUS
    <2>. HIDE DEF p
    <2>2. QED
      BY <1>1, <1>6, <2>1, HandledFeeds
  <1>11. Len(g.tx) < QSIZE
    OBVIOUS
  <1>. HIDE DEF p, g, x
  <1>12. x \in Host /\ g \in Host
    BY <1>2, <1>3 DEF Good
  <1>13. Linked(g, Tail(q), a)
    BY <1>1, <1>2, <1>7, <1>11, <1>12, TracksLinked
  <1>14. QED
    BY <1>9, <1>10, <1>13 DEF g, p

(* The steps of the controller and the devices, as long as what they tell  *)
(* finds room in the queue.                                                *)
Plain(ps) == \E T : ps \in Seq(T) /\ \A x \in T : x.evt \notin LinkEvents

(* Sequences of at most two packets that tell nothing of a connection.     *)
LEMMA PlainShort ==
  /\ Plain(<<>>)
  /\ \A x : x.evt \notin LinkEvents => Plain(<<x>>) /\ Plain(<<x>> \o <<>>)
  /\ \A x, y : x.evt \notin LinkEvents /\ y.evt \notin LinkEvents =>
       Plain(<<x, y>>) /\ Plain(<<x>> \o <<y>>)
  <1>1. Plain(<<>>)
    <2>. DEFINE T == {}
    <2>1. \A x \in T : x.evt \notin LinkEvents
      OBVIOUS
    <2>. HIDE DEF T
    <2>2. <<>> \in Seq(T)
      OBVIOUS
    <2>3. QED
      BY <2>1, <2>2 DEF Plain
  <1>2. ASSUME NEW x, NEW y, x.evt \notin LinkEvents, y.evt \notin LinkEvents
        PROVE  Plain(<<x>>) /\ Plain(<<x>> \o <<>>) /\ Plain(<<x, y>>) /\ Plain(<<x>> \o <<y>>)
    <2>. DEFINE T == {x, y}
    <2>1. x \in T /\ y \in T /\ \A z \in T : z.evt \notin LinkEvents
      BY <1>2
    <2>. HIDE DEF T
    <2>2. <<x>> \in Seq(T) /\ <<y>> \in Seq(T) /\ <<>> \in Seq(T) /\ <<x, y>> \in Seq(T)
      BY <2>1
    <2>3. \A s, r \in Seq(T) : s \o r \in Seq(T)
      OBVIOUS
    <2>4. <<x>> \o <<>> \in Seq(T) /\ <<x>> \o <<y>> \in Seq(T)
      BY <2>2, <2>3
    <2>5. QED
      BY <2>1, <2>2, <2>4 DEF Plain
  <1>3. QED
    BY <1>1, <1>2

(* Data and signals tell nothing of a connection.                          *)
LEMMA DataPlain ==
  /\ \A d, into, load : LET p == Packet(d, into, load)
                        IN /\ p.evt \notin LinkEvents /\ [p EXCEPT !.size = 2].evt \notin LinkEvents
                           /\ [p EXCEPT !.size = 2, !.first = FALSE].evt \notin LinkEvents
  /\ \A d, cmd, psm, scid, status, n :
       LET p == Signal(d, cmd, psm, scid, status)
       IN p.evt \notin LinkEvents /\ [p EXCEPT !.handle = n].evt \notin LinkEvents
  /\ \A evt, d, n : Event(evt, d, n).evt = evt
  BY DEF Packet, Signal, Event, LinkEvents

(* If the queue has room left, nothing was lost.                           *)
LEMMA NotifyAll ==
  ASSUME NEW S, rx \in Seq(S), NEW T, NEW ps \in Seq(T), Notify(ps), Len(rx') < QSIZE
  PROVE  /\ Same(rx, rx') /\ Len(rx') = Len(rx) + Len(ps)
         /\ \A i \in 1 .. Len(ps) : rx'[Len(rx) + i] = ps[i]
  <1>. DEFINE n == Min({Len(rx) + Len(ps), QSIZE})
              U == S \cup T
              s == rx \o ps
  <1>1. Len(rx) \in Nat /\ Len(ps) \in Nat /\ QSIZE \in Nat /\ Len(rx) + Len(ps) \in Nat
    BY QueueAssumption
  <1>2. /\ s \in Seq(U) /\ Len(s) = Len(rx) + Len(ps)
        /\ \A i \in 1 .. Len(rx) : s[i] = rx[i]
        /\ \A i \in 1 .. Len(ps) : s[Len(rx) + i] = ps[i]
    <2>1. rx \in Seq(U) /\ ps \in Seq(U)
      OBVIOUS
    <2>. HIDE DEF U
    <2>2. QED
      BY <2>1
  <1>3. n \in Nat /\ n <= Len(rx) + Len(ps) /\ n <= QSIZE
    BY <1>1, LeastOfTwo
  <1>4. n = Len(rx) + Len(ps) \/ n = QSIZE
    <2>1. {Len(rx) + Len(ps), QSIZE} \in SUBSET Nat /\ {Len(rx) + Len(ps), QSIZE} # {}
      BY <1>1
    <2>2. n \in {Len(rx) + Len(ps), QSIZE}
      BY <2>1, LeastFree
    <2>3. QED
      BY <2>2
  <1>5. rx' = SubSeq(s, 1, n)
    BY DEF Notify
  <1>. HIDE DEF n, s
  <1>6. Len(rx') = n /\ \A i \in 1 .. n : rx'[i] = s[i]
    BY <1>1, <1>2, <1>3, <1>5
  <1>7. n = Len(rx) + Len(ps)
    BY <1>1, <1>3, <1>4, <1>6
  <1>8. \A i \in 1 .. Len(rx) : rx'[i] = rx[i]
    BY <1>1, <1>2, <1>6, <1>7
  <1>9. \A i \in 1 .. Len(ps) : rx'[Len(rx) + i] = ps[i]
    <2>1. \A i \in 1 .. Len(ps) : Len(rx) + i \in 1 .. n
      BY <1>1, <1>7
    <2>2. QED
      BY <1>2, <1>6, <2>1
  <1>10. QED
    BY <1>1, <1>6, <1>7, <1>8, <1>9 DEF Same

(* What is told, by the last packet that comes.                            *)
LEMMA NotifyAdds ==
  ASSUME NEW S, rx \in Seq(S), Len(rx') < QSIZE
  PROVE  /\ \A ps : Plain(ps) /\ Notify(ps) => Adds(rx, rx')
         /\ \A e : Notify(<<e>>) \/ Notify(<<>> \o <<e>>) => AddsLast(rx, rx', e)
         /\ \A x, e : x.evt \notin LinkEvents /\ (Notify(<<x, e>>) \/ Notify(<<x>> \o <<e>>)) =>
              AddsLast(rx, rx', e)
  <1>0. Len(rx) \in Nat
    OBVIOUS
  <1>1. ASSUME NEW ps, Plain(ps), Notify(ps) PROVE Adds(rx, rx')
    <2>1. PICK T : ps \in Seq(T) /\ \A x \in T : x.evt \notin LinkEvents
      BY <1>1 DEF Plain
    <2>2. /\ Same(rx, rx') /\ Len(rx') = Len(rx) + Len(ps)
          /\ \A i \in 1 .. Len(ps) : rx'[Len(rx) + i] = ps[i]
      BY <1>1, <2>1, NotifyAll
    <2>3. Len(ps) \in Nat /\ \A i \in 1 .. Len(ps) : ps[i] \in T
      BY <2>1
    <2>4. ASSUME NEW i \in Len(rx) + 1 .. Len(rx') PROVE rx'[i].evt \notin LinkEvents
      <3>1. i - Len(rx) \in 1 .. Len(ps) /\ Len(rx) + (i - Len(rx)) = i
        BY <1>0, <2>2, <2>3
      <3>2. rx'[i] = ps[i - Len(rx)]
        BY <2>2, <3>1
      <3>3. QED
        BY <2>1, <2>3, <3>1, <3>2
    <2>5. QED
      BY <2>2, <2>4 DEF Adds
  <1>2. ASSUME NEW e, Notify(<<e>>) \/ Notify(<<>> \o <<e>>) PROVE AddsLast(rx, rx', e)
    <2>. DEFINE ps == <<e>>
    <2>1. ps \in Seq({e}) /\ Len(ps) = 1 /\ ps[1] = e /\ <<>> \o ps = ps
      OBVIOUS
    <2>2. Notify(ps)
      BY <1>2, <2>1
    <2>. HIDE DEF ps
    <2>3. /\ Same(rx, rx') /\ Len(rx') = Len(rx) + 1
          /\ \A i \in 1 .. 1 : rx'[Len(rx) + i] = ps[i]
      BY <2>1, <2>2, NotifyAll
    <2>4. rx'[Len(rx) + 1] = e
      BY <2>1, <2>3
    <2>5. \A i \in Len(rx) + 1 .. Len(rx') - 1 : FALSE
      BY <1>0, <2>3
    <2>6. QED
      BY <1>0, <2>3, <2>4, <2>5 DEF AddsLast
  <1>3. ASSUME NEW x, NEW e, x.evt \notin LinkEvents, Notify(<<x, e>>) \/ Notify(<<x>> \o <<e>>)
        PROVE  AddsLast(rx, rx', e)
    <2>. DEFINE ps == <<x, e>>
    <2>1. ps \in Seq({x, e}) /\ Len(ps) = 2 /\ ps[1] = x /\ ps[2] = e /\ <<x>> \o <<e>> = ps
      <3>. DEFINE T == {x, e}
      <3>1. x \in T /\ e \in T
        OBVIOUS
      <3>. HIDE DEF T
      <3>2. ps \in Seq(T) /\ Len(ps) = 2 /\ ps[1] = x /\ ps[2] = e
        BY <3>1
      <3>. DEFINE a == <<x>>
                  b == <<e>>
                  c == a \o b
      <3>3. a \in Seq(T) /\ b \in Seq(T) /\ Len(a) = 1 /\ Len(b) = 1 /\ a[1] = x /\ b[1] = e
        BY <3>1
      <3>4. c = ps
        <4>. HIDE DEF a, b
        <4>1. /\ c \in Seq(T) /\ Len(c) = Len(a) + Len(b)
              /\ \A i \in 1 .. Len(a) : c[i] = a[i]
              /\ \A i \in 1 .. Len(b) : c[Len(a) + i] = b[i]
          <5>1. a \in Seq(T) /\ b \in Seq(T)
            BY <3>3
          <5>2. \A u, v \in Seq(T) : /\ u \o v \in Seq(T) /\ Len(u \o v) = Len(u) + Len(v)
                                     /\ \A i \in 1 .. Len(u) : (u \o v)[i] = u[i]
                                     /\ \A i \in 1 .. Len(v) : (u \o v)[Len(u) + i] = v[i]
            OBVIOUS
          <5>3. QED
            BY <5>1, <5>2
        <4>. HIDE DEF c, ps
        <4>2. Len(c) = 2 /\ c[1] = x /\ c[1 + 1] = e
          BY <3>3, <4>1
        <4>3. QED
          BY <3>2, <4>1, <4>2
      <3>5. QED
        BY <3>2, <3>4 DEF T
    <2>2. Notify(ps)
      BY <1>3, <2>1
    <2>. HIDE DEF ps
    <2>3. /\ Same(rx, rx') /\ Len(rx') = Len(rx) + 2
          /\ \A i \in 1 .. 2 : rx'[Len(rx) + i] = ps[i]
      BY <2>1, <2>2, NotifyAll
    <2>4. rx'[Len(rx) + 1] = x /\ rx'[Len(rx) + 2] = e
      BY <2>1, <2>3
    <2>5. \A i \in Len(rx) + 1 .. Len(rx') - 1 : i = Len(rx) + 1
      BY <1>0, <2>3
    <2>6. QED
      BY <1>0, <1>3, <2>3, <2>4, <2>5 DEF AddsLast
  <1>4. QED
    BY <1>1, <1>2, <1>3

(* Steps that leave every link as it is and tell nothing of one.           *)
LEMMA QuietRests ==
  ASSUME Air, NEW S, rx \in Seq(S), Len(rx') < QSIZE, NEW ps, Plain(ps), Notify(ps),
         NEW d \in Devices,
         \/ \E l : air' = [air EXCEPT ![d] = l] /\ l.link = air[d].link /\ l.handle = air[d].handle
         \/ \E psm, c : air' = WithChannel(d, psm, c) \/ air' = WithoutChannel(d, psm)
         \/ air' = air
  PROVE  Rests(rx, rx', air, air')
  <1>1. Adds(rx, rx')
    BY NotifyAdds
  <1>2. air \in [Devices -> Link] /\ air[d] \in Link
    BY DEF Air
  <1>3. \E l : air' = [air EXCEPT ![d] = l] /\ l.link = air[d].link /\ l.handle = air[d].handle
    <2>1. CASE air' = air
      BY <1>2, <2>1
    <2>2. ASSUME NEW psm, NEW c, air' = WithChannel(d, psm, c)
          PROVE  \E l : /\ air' = [air EXCEPT ![d] = l]
                        /\ l.link = air[d].link /\ l.handle = air[d].handle
      <3>. DEFINE m == [p \in DOMAIN air[d].chan \cup {psm} |-> IF p = psm THEN c ELSE air[d].chan[p]]
                  l == [air[d] EXCEPT !.chan = m]
      <3>1. air' = [air EXCEPT ![d] = l]
        BY <2>2 DEF WithChannel
      <3>. HIDE DEF m
      <3>2. l.link = air[d].link /\ l.handle = air[d].handle
        BY <1>2 DEF Link
      <3>. HIDE DEF l
      <3>3. QED
        BY <3>1, <3>2
    <2>3. ASSUME NEW psm, air' = WithoutChannel(d, psm)
          PROVE  \E l : /\ air' = [air EXCEPT ![d] = l]
                        /\ l.link = air[d].link /\ l.handle = air[d].handle
      <3>. DEFINE m == [p \in DOMAIN air[d].chan \ {psm} |-> air[d].chan[p]]
                  l == [air[d] EXCEPT !.chan = m]
      <3>1. air' = [air EXCEPT ![d] = l]
        BY <2>3 DEF WithoutChannel
      <3>. HIDE DEF m
      <3>2. l.link = air[d].link /\ l.handle = air[d].handle
        BY <1>2 DEF Link
      <3>. HIDE DEF l
      <3>3. QED
        BY <3>1, <3>2
    <2>4. QED
      BY <2>1, <2>2, <2>3
  <1>4. SameLinks(air, air', Devices)
    BY <1>2, <1>3 DEF SameLinks
  <1>5. QED
    BY <1>1, <1>4 DEF Rests

(* A packet that is ignored.                                               *)
LEMMA IgnoredRests ==
  ASSUME NEW S, rx \in Seq(S), UNCHANGED <<rx, air>>
  PROVE  Rests(rx, rx', air, air')
  <1>1. Len(rx) \in Nat /\ rx' = rx /\ air' = air
    OBVIOUS
  <1>2. \A i \in Len(rx) + 1 .. Len(rx) : FALSE
    BY <1>1
  <1>3. QED
    BY <1>1, <1>2 DEF Rests, Adds, Same, SameLinks

(* Authentication leaves the links alone.                                  *)
LEMMA TakenAuthRests ==
  ASSUME Air, NEW S, rx \in Seq(S), Len(rx') < QSIZE, NEW d \in Devices, NEW op, TakenAuth(d, op)
  PROVE  Rests(rx, rx', air, air')
  <1>. DEFINE l == air[d]
              comp == Event("AUTH_COMP", d, l.handle)
              Set(x) == [l EXCEPT !.auth = x]
  <1>1. \A x : Set(x).link = l.link /\ Set(x).handle = l.handle
    BY LinkParts DEF Link
  <1>2. comp.evt \notin LinkEvents /\ Event("LINK_KEY_REQUEST", d, 0).evt \notin LinkEvents
        /\ Event("PIN_CODE_REQUEST", d, 0).evt \notin LinkEvents
        /\ Event("LINK_KEY_NOTIFICATION", d, 0).evt \notin LinkEvents
    BY DEF Event, LinkEvents
  <1>3. \/ Turns(d, Set("key"), <<Event("LINK_KEY_REQUEST", d, 0)>>)
        \/ Turns(d, Set("no"), <<comp>>)
        \/ Turns(d, Set("pin"), <<Event("PIN_CODE_REQUEST", d, 0)>>)
        \/ Turns(d, Set("no"), <<Event("LINK_KEY_NOTIFICATION", d, 0), comp>>)
        \/ Ignored
    BY DEF TakenAuth
  <1>4. ASSUME NEW x, NEW ps, Turns(d, Set(x), ps), Plain(ps) PROVE Rests(rx, rx', air, air')
    <2>1. air' = [air EXCEPT ![d] = Set(x)] /\ Notify(ps)
      BY <1>4 DEF Turns
    <2>. HIDE DEF Set
    <2>2. QED
      BY <1>1, <1>4, <2>1, QuietRests DEF l
  <1>5. Ignored => Rests(rx, rx', air, air')
    BY IgnoredRests DEF Ignored, airVars
  <1>. HIDE DEF comp, Set, l
  <1>6. QED
    BY <1>2, <1>3, <1>4, <1>5, PlainShort

(* A packet of the host changes no link, or makes a connection begin that  *)
(* it asks for or accepts.                                                 *)
TakenStep(p) ==
  \/ /\ Rests(rx, rx', air, air')
     /\ p.op = "CREATE_CONNECTION" => air[p.dev].link # "down"
  \/ /\ p.op \in DeviceOps /\ Pages(rx, rx', air, air', p.dev)
     /\ air[p.dev].link = "down" => p.op = "CREATE_CONNECTION"

(* It is so for each command that is not data.                             *)
LEMMA TakenCommandStep ==
  ASSUME Air, NEW S, rx \in Seq(S), Len(rx') < QSIZE, NEW p \in TxPacket, p.op # "ACL",
         TakenCommand(p)
  PROVE  TakenStep(p)
  <1>. DEFINE d == p.dev
              l == air[d]
  <1>1. p.op \in DeviceOps \cup {"INQUIRY"} \cup HandshakeSteps
    BY TxParts
  <1>2. CASE p.op \in HandshakeSteps
    <2>. DEFINE e == Event("COMMAND_COMPLETE", "none", p.op)
    <2>1. e.evt \notin LinkEvents /\ Notify(<<e>>) /\ air' = air
      BY <1>2 DEF TakenCommand, HandshakeSteps, Event, LinkEvents
    <2>. HIDE DEF e
    <2>2. Adds(rx, rx')
      BY <2>1, PlainShort, NotifyAdds
    <2>3. Rests(rx, rx', air, air')
      BY <2>1, <2>2 DEF Rests, SameLinks
    <2>4. QED
      BY <1>2, <2>3 DEF TakenStep, HandshakeSteps
  <1>3. CASE p.op = "INQUIRY"
    <2>1. UNCHANGED <<rx, air>>
      BY <1>3 DEF TakenCommand, HandshakeSteps
    <2>2. QED
      BY <1>3, <2>1, IgnoredRests DEF TakenStep
  <1>4. CASE p.op \in DeviceOps
    <2>1. d \in Devices /\ l \in Link /\ air \in [Devices -> Link]
      BY <1>4, TxParts DEF Air
    <2>2. ASSUME l.link \in {"down", "calling"}, Turns(d, [l EXCEPT !.link = "paging"], <<>>)
          PROVE  Pages(rx, rx', air, air', d)
      <3>. DEFINE k == [l EXCEPT !.link = "paging"]
      <3>1. air' = [air EXCEPT ![d] = k] /\ Notify(<<>>)
        BY <2>2 DEF Turns
      <3>2. k.link = "paging"
        BY <2>1 DEF Link
      <3>. HIDE DEF k
      <3>3. air'[d].link = "paging" /\ SameLinks(air, air', Devices \ {d})
        BY <2>1, <3>1, <3>2 DEF SameLinks
      <3>4. Adds(rx, rx')
        BY <3>1, PlainShort, NotifyAdds
      <3>5. QED
        BY <2>2, <3>3, <3>4 DEF Pages
    <2>3. CASE p.op = "CREATE_CONNECTION" /\ l.link = "down"
      <3>1. Turns(d, [l EXCEPT !.link = "paging"], <<>>)
        BY <2>3 DEF TakenCommand, HandshakeSteps
      <3>2. QED
        BY <1>4, <2>2, <2>3, <3>1 DEF TakenStep
    <2>4. CASE p.op = "ACCEPT_CONNECTION_REQUEST" /\ l.link = "calling"
      <3>1. Turns(d, [l EXCEPT !.link = "paging"], <<>>)
        BY <2>4 DEF TakenCommand, HandshakeSteps
      <3>2. QED
        BY <1>4, <2>2, <2>4, <3>1 DEF TakenStep
    <2>5. CASE p.op = "REMOTE_NAME_REQUEST"
      <3>. DEFINE k == [l EXCEPT !.asked = TRUE]
      <3>1. air' = [air EXCEPT ![d] = k] /\ Notify(<<>>)
        BY <2>5 DEF TakenCommand, HandshakeSteps, Turns
      <3>2. k.link = l.link /\ k.handle = l.handle
        BY <2>1 DEF Link
      <3>. HIDE DEF k
      <3>3. Rests(rx, rx', air, air')
        BY <2>1, <3>1, <3>2, PlainShort, QuietRests
      <3>4. QED
        BY <2>5, <3>3 DEF TakenStep
    <2>6. CASE /\ ~(p.op = "CREATE_CONNECTION" /\ l.link = "down")
               /\ ~(p.op = "ACCEPT_CONNECTION_REQUEST" /\ l.link = "calling")
               /\ p.op # "REMOTE_NAME_REQUEST"
      <3>1. (\E e \in Devices : TakenAuth(e, p.op)) \/ Ignored
        BY <1>4, <2>1, <2>6, Holder DEF TakenCommand, HandshakeSteps, DeviceOps
      <3>2. Rests(rx, rx', air, air')
        BY <3>1, TakenAuthRests, IgnoredRests DEF Ignored, airVars
      <3>3. QED
        BY <2>6, <3>2 DEF TakenStep
    <2>7. QED
      BY <2>3, <2>4, <2>5, <2>6
  <1>5. QED
    BY <1>1, <1>2, <1>3, <1>4

(* The answers of a device on one of its channels leave the links alone.   *)
LEMMA TakenAclRests ==
  ASSUME Air, NEW S, rx \in Seq(S), Len(rx') < QSIZE, NEW d \in Devices, NEW p, TakenAcl(d, p)
  PROVE  Rests(rx, rx', air, air')
  <1>. DEFINE c == Channel(d, p.psm)
              G == Rests(rx, rx', air, air')
  <1>1. \A ps : Plain(ps) /\ Notify(ps) /\ (\E psm, x : air' = WithChannel(d, psm, x)) => G
    BY QuietRests
  <1>2. \A ps : Plain(ps) /\ Notify(ps) /\ (\E psm, x : air' = WithoutChannel(d, psm)) => G
    BY QuietRests
  <1>3. Ignored => G
    BY IgnoredRests DEF Ignored, airVars
  <1>4. ASSUME NEW x, NEW cmds, cmds \in Seq(Commands), OnChannel(d, p, x, cmds) PROVE G
    <2>. DEFINE e(k) == Signal(d, cmds[k], p.psm, x.scid, "success")
                ps == [k \in DOMAIN cmds |-> e(k)]
                T == {e(k) : k \in DOMAIN cmds}
    <2>1. \A k : e(k).evt \notin LinkEvents
      BY DataPlain
    <2>2. air' = WithChannel(d, p.psm, x) /\ Notify(ps)
      BY <1>4 DEF OnChannel
    <2>. HIDE DEF e
    <2>3. \A y \in T : y.evt \notin LinkEvents
      BY <2>1
    <2>4. ps \in Seq(T)
      <3>1. DOMAIN cmds = 1 .. Len(cmds) /\ Len(cmds) \in Nat
        BY <1>4
      <3>2. ps \in [1 .. Len(cmds) -> T]
        BY <3>1
      <3>. HIDE DEF ps, T
      <3>3. \A U, n, f : n \in Nat /\ f \in [1 .. n -> U] => f \in Seq(U)
        OBVIOUS
      <3>4. QED
        BY <3>1, <3>2, <3>3
    <2>. HIDE DEF ps, T
    <2>5. Plain(ps)
      BY <2>3, <2>4 DEF Plain
    <2>6. QED
      BY <1>1, <2>2, <2>5
  <1>5. CASE p.cmd = "CONN_REQ"
    <2>. DEFINE Answer(cmd, status) == Signal(d, cmd, p.psm, p.scid, status)
    <2>1. \A cmd, status : Answer(cmd, status).evt \notin LinkEvents
      BY DataPlain
    <2>2. TakenConnReq(d, p)
      BY <1>5 DEF TakenAcl
    <2>3. CASE HasChannel(d, p.psm)
      <3>. DEFINE ps == <<Answer("CONN_RSP", "refused")>>
                  l == air[d]
      <3>1. air' = [air EXCEPT ![d] = l] /\ Notify(ps)
        BY <2>2, <2>3 DEF TakenConnReq, Turns
      <3>2. l.link = air[d].link /\ l.handle = air[d].handle
        OBVIOUS
      <3>. HIDE DEF Answer, l
      <3>3. Plain(ps)
        BY <2>1, PlainShort
      <3>. HIDE DEF ps
      <3>4. \E k : air' = [air EXCEPT ![d] = k] /\ k.link = air[d].link /\ k.handle = air[d].handle
        BY <3>1, <3>2
      <3>5. QED
        BY <3>1, <3>3, <3>4, QuietRests
    <2>4. CASE ~HasChannel(d, p.psm)
      <3>1. PICK late \in BOOLEAN :
              /\ air' = WithChannel(d, p.psm, Joined(p.scid, late))
              /\ Notify(<<Answer("CONN_RSP", "success")>>
                        \o IF late THEN <<>> ELSE <<Answer("CONF_REQ", "success")>>)
        BY <2>2, <2>4 DEF TakenConnReq
      <3>. HIDE DEF Answer
      <3>2. \E ps : Plain(ps) /\ Notify(ps)
        <4>1. CASE late
          BY <2>1, <3>1, <4>1, PlainShort
        <4>2. CASE ~late
          BY <2>1, <3>1, <4>2, PlainShort
        <4>3. QED
          BY <4>1, <4>2
      <3>3. QED
        BY <1>1, <3>1, <3>2
    <2>5. QED
      BY <2>3, <2>4
  <1>6. CASE p.cmd # "CONN_REQ" /\ ~HasChannel(d, p.psm)
    BY <1>3, <1>6 DEF TakenAcl
  <1>7. CASE p.cmd # "CONN_REQ" /\ HasChannel(d, p.psm)
    <2>1. <<"CONF_REQ">> \in Seq(Commands) /\ <<"CONF_RSP">> \in Seq(Commands)
          /\ <<"CONF_RSP", "CONF_REQ">> \in Seq(Commands) /\ <<>> \in Seq(Commands)
      <3>. DEFINE T == Commands
      <3>1. "CONF_REQ" \in T /\ "CONF_RSP" \in T
        BY DEF Commands
      <3>. HIDE DEF T
      <3>2. \A x, y \in T : <<x>> \in Seq(T) /\ <<x, y>> \in Seq(T) /\ <<>> \in Seq(T)
        OBVIOUS
      <3>3. QED
        BY <3>1, <3>2 DEF T
    <2>2. CASE p.cmd = "CONN_RSP"
      <3>1. Ignored \/ OnChannel(d, p, Joined(p.scid, FALSE), <<"CONF_REQ">>)
        BY <1>7, <2>2 DEF TakenAcl
      <3>2. QED
        BY <1>3, <1>4, <2>1, <3>1
    <2>3. CASE p.cmd = "CONF_REQ"
      <3>. DEFINE x == [c EXCEPT !.wait = @ \ {"CONF_REQ"}, !.late = FALSE]
                  cmds == IF c.late THEN <<"CONF_RSP", "CONF_REQ">> ELSE <<"CONF_RSP">>
      <3>1. OnChannel(d, p, x, cmds)
        BY <1>7, <2>3 DEF TakenAcl
      <3>2. cmds \in Seq(Commands)
        BY <2>1
      <3>. HIDE DEF x, cmds
      <3>3. QED
        BY <1>4, <3>1, <3>2
    <2>4. CASE p.cmd = "CONF_RSP"
      <3>. DEFINE x == [c EXCEPT !.wait = @ \ {"CONF_RSP"}]
      <3>1. OnChannel(d, p, x, <<>>)
        BY <1>7, <2>4 DEF TakenAcl
      <3>. HIDE DEF x
      <3>2. QED
        BY <1>4, <2>1, <3>1
    <2>5. CASE p.cmd = "DISCONN_REQ"
      <3>. DEFINE e == Signal(d, "DISCONN_RSP", p.psm, p.scid, "success")
      <3>1. Notify(<<e>>) /\ air' = WithoutChannel(d, p.psm)
        BY <1>7, <2>5 DEF TakenAcl
      <3>2. e.evt \notin LinkEvents
        BY DataPlain
      <3>. HIDE DEF e
      <3>3. QED
        BY <1>2, <3>1, <3>2, PlainShort
    <2>6. CASE p.cmd = "SEARCH" /\ p.psm = "sdp" /\ ~c.rest
      <3>. DEFINE e == [Packet(d, c.scid, "MORE") EXCEPT !.size = 2]
                  x == [c EXCEPT !.rest = TRUE]
      <3>1. Notify(<<e>>) /\ air' = WithChannel(d, "sdp", x)
        BY <1>7, <2>6 DEF TakenAcl
      <3>2. e.evt \notin LinkEvents
        BY DataPlain
      <3>. HIDE DEF e, x
      <3>3. QED
        BY <1>1, <3>1, <3>2, PlainShort
    <2>7. CASE p.cmd \notin {"CONN_RSP", "CONF_REQ", "CONF_RSP", "DISCONN_REQ"}
               /\ ~(p.cmd = "SEARCH" /\ p.psm = "sdp" /\ ~c.rest)
      BY <1>3, <1>7, <2>7 DEF TakenAcl
    <2>8. QED
      BY <2>2, <2>3, <2>4, <2>5, <2>6, <2>7
  <1>8. QED
    BY <1>5, <1>6, <1>7

(* A packet that the controller takes makes at most a connection begin.    *)
LEMMA TakenLinks ==
  ASSUME Air, NEW S, rx \in Seq(S), Len(rx') < QSIZE, NEW p \in TxPacket, Taken(p)
  PROVE  TakenStep(p)
  <1>1. CASE p.op # "ACL"
    BY <1>1, TakenCommandStep DEF Taken
  <1>2. CASE p.op = "ACL"
    <2>1. Ignored => Rests(rx, rx', air, air')
      BY IgnoredRests DEF Ignored, airVars
    <2>. DEFINE d == CHOOSE x \in LinkOf(p.handle) : TRUE
    <2>2. LinkOf(p.handle) # {} => d \in Devices
      BY DEF LinkOf
    <2>3. Ignored \/ (LinkOf(p.handle) # {} /\ TakenAcl(d, p))
      BY <1>2 DEF Taken
    <2>. HIDE DEF d
    <2>4. Rests(rx, rx', air, air')
      BY <2>1, <2>2, <2>3, TakenAclRests
    <2>5. QED
      BY <1>2, <2>4 DEF TakenStep
  <1>3. QED
    BY <1>1, <1>2

(* What happens to the links when no connection is asked for.              *)
Lawful(q, r, a, b) == /\ LinkStep(q, r, a, b)
                      /\ \A d \in Devices : ~(a[d].link = "down" /\ b[d].link = "paging")

(* A link that changes leaves the others as they are.                      *)
LEMMA OneLink ==
  ASSUME Air, NEW d \in Devices, NEW l, air' = [air EXCEPT ![d] = l]
  PROVE  air'[d] = l /\ SameLinks(air, air', Devices \ {d})
  BY DEF Air, SameLinks

(* What is no request for a connection, step by step.                      *)
LEMMA LawfulSteps ==
  /\ Rests(rx, rx', air, air') => Lawful(rx, rx', air, air')
  /\ \A d \in Devices :
       \/ Rings(rx, rx', air, air', d) \/ Fails(rx, rx', air, air', d)
       \/ \E n \in Handles : Makes(rx, rx', air, air', d, n) \/ Ends(rx, rx', air, air', d, n)
       => Lawful(rx, rx', air, air')
  <1>1. ASSUME Rests(rx, rx', air, air') PROVE Lawful(rx, rx', air, air')
    <2>1. \A d \in Devices : ~(air[d].link = "down" /\ air'[d].link = "paging")
      BY <1>1 DEF Rests, SameLinks
    <2>2. QED
      BY <1>1, <2>1 DEF Lawful, LinkStep
  <1>2. ASSUME NEW d \in Devices,
               \/ Rings(rx, rx', air, air', d) \/ Fails(rx, rx', air, air', d)
               \/ \E n \in Handles : Makes(rx, rx', air, air', d, n) \/ Ends(rx, rx', air, air', d, n)
        PROVE  Lawful(rx, rx', air, air')
    <2>1. SameLinks(air, air', Devices \ {d}) /\ ~(air[d].link = "down" /\ air'[d].link = "paging")
      BY <1>2 DEF Rings, Fails, Makes, Ends, Up
    <2>2. \A e \in Devices : ~(air[e].link = "down" /\ air'[e].link = "paging")
      BY <2>1 DEF SameLinks
    <2>3. LinkStep(rx, rx', air, air')
      BY <1>2 DEF LinkStep
    <2>4. QED
      BY <2>2, <2>3 DEF Lawful
  <1>3. QED
    BY <1>1, <1>2

(* What the controller answers.                                            *)
LEMMA AnswersLinks ==
  ASSUME Air, NEW S, rx \in Seq(S), Len(rx') < QSIZE, Answers
  PROVE  Lawful(rx, rx', air, air')
  <1>1. Rests(rx, rx', air, air') => Lawful(rx, rx', air, air')
    BY LawfulSteps
  <1>2. ASSUME NEW e, e.evt \notin LinkEvents, Notify(<<e>>), air' = air
        PROVE  Rests(rx, rx', air, air')
    <2>1. Adds(rx, rx')
      BY <1>2, PlainShort, NotifyAdds
    <2>2. QED
      BY <1>2, <2>1 DEF Rests, SameLinks
  <1>3. CASE InquiryResult
    <2>1. PICK d \in Devices : Notify(<<Event("INQUIRY_RESULT", d, 0)>>) /\ air' = air
      BY <1>3 DEF InquiryResult
    <2>. DEFINE e == Event("INQUIRY_RESULT", d, 0)
    <2>2. e.evt \notin LinkEvents
      BY DataPlain DEF LinkEvents
    <2>. HIDE DEF e
    <2>3. QED
      BY <1>1, <1>2, <2>1, <2>2 DEF e
  <1>4. CASE InquiryComplete
    <2>. DEFINE e == Event("INQUIRY_COMP", "none", 0)
    <2>1. e.evt \notin LinkEvents /\ Notify(<<e>>) /\ air' = air
      BY <1>4, DataPlain DEF LinkEvents, InquiryComplete
    <2>. HIDE DEF e
    <2>2. QED
      BY <1>1, <1>2, <2>1
  <1>5. ASSUME NEW d \in Devices, ConnectionMade(d) PROVE Lawful(rx, rx', air, air')
    <2>1. PICK n \in Handles :
            /\ air[d].link = "paging" /\ FreeHandle(n)
            /\ air' = [air EXCEPT ![d].link = "up", ![d].handle = n]
            /\ Notify(<<Event("CONNECTION_COMP", d, n)>>)
      BY <1>5 DEF ConnectionMade
    <2>. DEFINE l == [air[d] EXCEPT !.link = "up", !.handle = n]
    <2>2. air' = [air EXCEPT ![d] = l]
      BY <2>1 DEF Air
    <2>3. l.link = "up" /\ l.handle = n
      BY LinkParts DEF Link
    <2>. HIDE DEF l
    <2>4. Up(air', d, n) /\ SameLinks(air, air', Devices \ {d})
      BY <2>2, <2>3, OneLink DEF Up
    <2>5. \A e \in Devices : ~Up(air, e, n)
      BY <2>1 DEF FreeHandle, LinkOf, IsUp, Up
    <2>6. AddsLast(rx, rx', Event("CONNECTION_COMP", d, n))
      BY <2>1, NotifyAdds
    <2>7. Makes(rx, rx', air, air', d, n)
      BY <2>1, <2>4, <2>5, <2>6 DEF Makes
    <2>8. QED
      BY <2>7, LawfulSteps
  <1>6. ASSUME NEW d \in Devices, NameRead(d) PROVE Rests(rx, rx', air, air')
    <2>. DEFINE e == Event("RMT_NAME", d, 0)
                l == [air[d] EXCEPT !.asked = FALSE]
    <2>1. e.evt \notin LinkEvents /\ Notify(<<e>>) /\ air' = [air EXCEPT ![d] = l]
      BY <1>6, DataPlain DEF LinkEvents, NameRead
    <2>2. l.link = air[d].link /\ l.handle = air[d].handle
      BY LinkParts DEF Link
    <2>. HIDE DEF e, l
    <2>3. QED
      BY <2>1, <2>2, PlainShort, QuietRests
  <1>7. ASSUME NEW d \in Devices, SdpAnswer(d) PROVE Rests(rx, rx', air, air')
    <2>. DEFINE c == [Channel(d, "sdp") EXCEPT !.rest = FALSE]
                e(load) == [Packet(d, Channel(d, "sdp").scid, load) EXCEPT !.size = 2, !.first = FALSE]
    <2>1. PICK load \in {"LAST", "MORE"} : Notify(<<e(load)>>)
      BY <1>7 DEF SdpAnswer
    <2>2. air' = WithChannel(d, "sdp", c)
      BY <1>7 DEF SdpAnswer
    <2>3. e(load).evt \notin LinkEvents
      BY DataPlain
    <2>. HIDE DEF e, c
    <2>4. QED
      BY <2>1, <2>2, <2>3, PlainShort, QuietRests
  <1>8. QED
    BY <1>1, <1>3, <1>4, <1>5, <1>6, <1>7 DEF Answers

(* What the controller and the devices do of their own accord.             *)
LEMMA OwnAccordLinks ==
  ASSUME Air, NEW S, rx \in Seq(S), Len(rx') < QSIZE, OwnAccord
  PROVE  Lawful(rx, rx', air, air')
  <1>1. Rests(rx, rx', air, air') => Lawful(rx, rx', air, air')
    BY LawfulSteps
  <1>2. ASSUME NEW d \in Devices, DataOvertakes(d) PROVE Lawful(rx, rx', air, air')
    <2>. DEFINE m == [p \in {"control"} |-> Asked]
                s == Signal(d, "CONN_REQ", "control", 0, "success")
    <2>1. PICK n \in Handles :
            /\ air[d].link = "paging" /\ FreeHandle(n)
            /\ air' = [air EXCEPT ![d].link = "up", ![d].handle = n, ![d].chan = m]
            /\ Notify(<<[s EXCEPT !.handle = n], Event("CONNECTION_COMP", d, n)>>)
      BY <1>2 DEF DataOvertakes
    <2>. HIDE DEF m
    <2>. DEFINE l == [air[d] EXCEPT !.link = "up", !.handle = n, !.chan = m]
                x == [s EXCEPT !.handle = n]
                e == Event("CONNECTION_COMP", d, n)
    <2>2. air' = [air EXCEPT ![d] = l]
      BY <2>1 DEF Air
    <2>3. l.link = "up" /\ l.handle = n
      BY LinkParts DEF Link
    <2>4. x.evt \notin LinkEvents /\ Notify(<<x, e>>)
      BY <2>1, DataPlain
    <2>5. \A k \in Devices : ~Up(air, k, n)
      BY <2>1 DEF FreeHandle, LinkOf, IsUp, Up
    <2>. HIDE DEF l, x
    <2>6. Up(air', d, n) /\ SameLinks(air, air', Devices \ {d})
      BY <2>2, <2>3, OneLink DEF Up
    <2>. HIDE DEF e
    <2>7. AddsLast(rx, rx', e)
      BY <2>4, NotifyAdds
    <2>8. Makes(rx, rx', air, air', d, n)
      BY <2>1, <2>5, <2>6, <2>7 DEF Makes, e
    <2>9. QED
      BY <2>8, LawfulSteps
  <1>3. ASSUME NEW d \in Devices, Calls(d) PROVE Lawful(rx, rx', air, air')
    <2>. DEFINE l == [air[d] EXCEPT !.link = "calling", !.called = TRUE]
    <2>1. /\ air[d].link = "down" /\ air' = [air EXCEPT ![d].link = "calling", ![d].called = TRUE]
          /\ Notify(<<Event("CONNECTION_REQUEST", d, 0)>>)
      BY <1>3 DEF Calls
    <2>2. l.link = "calling" /\ air' = [air EXCEPT ![d] = l]
      BY <2>1, LinkParts DEF Air, Link
    <2>. HIDE DEF l
    <2>3. air'[d].link = "calling" /\ SameLinks(air, air', Devices \ {d})
      BY <2>2, OneLink
    <2>4. AddsLast(rx, rx', Event("CONNECTION_REQUEST", d, 0))
      BY <2>1, NotifyAdds
    <2>5. Rings(rx, rx', air, air', d)
      BY <2>1, <2>3, <2>4 DEF Rings
    <2>6. QED
      BY <2>5, LawfulSteps
  <1>4. \A l : Downed(l).link = "down"
    BY DEF Downed, NoLink
  <1>5. ASSUME NEW d \in Devices, ConnectionFails(d) PROVE Lawful(rx, rx', air, air')
    <2>1. /\ air[d].link \in Trying /\ air' = [air EXCEPT ![d] = Downed(air[d])]
          /\ Notify(<<Event("CONNECTION_COMP", d, 0)>>)
      BY <1>5 DEF ConnectionFails, Trying
    <2>2. air'[d].link = "down" /\ SameLinks(air, air', Devices \ {d})
      BY <1>4, <2>1, OneLink
    <2>3. AddsLast(rx, rx', Event("CONNECTION_COMP", d, 0))
      BY <2>1, NotifyAdds
    <2>4. Fails(rx, rx', air, air', d)
      BY <2>1, <2>2, <2>3 DEF Fails
    <2>5. QED
      BY <2>4, LawfulSteps
  <1>6. ASSUME NEW d \in Devices, Drops(d) PROVE Lawful(rx, rx', air, air')
    <2>. DEFINE n == air[d].handle
                a == Event("AUTH_COMP", d, n)
                e == Event("DISCONNECTION_COMP", d, n)
    <2>1. /\ IsUp(d) /\ air' = [air EXCEPT ![d] = Downed(air[d])]
          /\ Notify((IF air[d].auth = "no" THEN <<>> ELSE <<a>>) \o <<e>>)
      BY <1>6 DEF Drops
    <2>2. n \in Handles /\ Up(air, d, n) /\ a.evt \notin LinkEvents
      BY <2>1, LinkParts, DataPlain DEF IsUp, Up, LinkEvents
    <2>3. air'[d].link = "down" /\ SameLinks(air, air', Devices \ {d})
      BY <1>4, <2>1, OneLink
    <2>. HIDE DEF a, e, n
    <2>4. AddsLast(rx, rx', e)
      <3>1. CASE air[d].auth = "no"
        <4>1. Notify(<<>> \o <<e>>)
          BY <2>1, <3>1
        <4>2. QED
          BY <4>1, NotifyAdds
      <3>2. CASE air[d].auth # "no"
        <4>1. Notify(<<a>> \o <<e>>)
          BY <2>1, <3>2
        <4>2. QED
          BY <2>2, <4>1, NotifyAdds
      <3>3. QED
        BY <3>1, <3>2
    <2>5. Ends(rx, rx', air, air', d, n)
      BY <2>2, <2>3, <2>4 DEF Ends, e
    <2>6. QED
      BY <2>2, <2>5, LawfulSteps
  <1>7. ASSUME NEW d \in Devices, Reports(d) PROVE Rests(rx, rx', air, air')
    <2>. DEFINE n == air[d].sent + 1
                l == [air[d] EXCEPT !.sent = n]
                e(k) == Packet(d, Channel(d, "interrupt").scid, [from |-> d, n |-> n, kind |-> k])
    <2>1. PICK k : Notify(<<e(k)>>)
      BY <1>7 DEF Reports
    <2>2. air' = [air EXCEPT ![d] = l]
      BY <1>7 DEF Reports
    <2>3. e(k).evt \notin LinkEvents
      BY DataPlain
    <2>. HIDE DEF n, e
    <2>4. l.link = air[d].link /\ l.handle = air[d].handle
      BY LinkParts DEF Link
    <2>. HIDE DEF l
    <2>5. QED
      BY <2>1, <2>2, <2>3, <2>4, PlainShort, QuietRests
  <1>8. ASSUME NEW d \in Devices, NEW psm, AsksChannel(d, psm) PROVE Rests(rx, rx', air, air')
    <2>. DEFINE e == Signal(d, "CONN_REQ", psm, 0, "success")
    <2>1. air' = WithChannel(d, psm, Asked) /\ Notify(<<e>>) /\ e.evt \notin LinkEvents
      BY <1>8, DataPlain DEF AsksChannel
    <2>. HIDE DEF e
    <2>2. QED
      BY <2>1, PlainShort, QuietRests
  <1>9. ASSUME NEW d \in Devices, NEW psm, ClosesChannel(d, psm) PROVE Rests(rx, rx', air, air')
    <2>. DEFINE e == Signal(d, "DISCONN_REQ", psm, Channel(d, psm).scid, "success")
    <2>1. air' = WithoutChannel(d, psm) /\ Notify(<<e>>) /\ e.evt \notin LinkEvents
      BY <1>9, DataPlain DEF ClosesChannel
    <2>. HIDE DEF e
    <2>2. QED
      BY <2>1, PlainShort, QuietRests
  <1>10. QED
    BY <1>1, <1>2, <1>3, <1>5, <1>6, <1>7, <1>8, <1>9 DEF OwnAccord

(* What is inductive as long as the queues have room.                      *)
Room == Len(rx) < QSIZE /\ Len(host.tx) < QSIZE
Trace == /\ Linked(host, rx, air) /\ KnownFirst(host, rx, air)
         /\ DataLinked(host) /\ SlotsLinked(host)

(* At the start nobody is linked, and nothing is told of anybody.          *)
LEMMA TraceInit == Init => Trace
  <1>. SUFFICES ASSUME Init PROVE Trace
    OBVIOUS
  <1>1. rx = <<>> /\ Len(rx) = 0
    BY DEF Init
  <1>2. \A i \in 1 .. Len(rx) : FALSE
    BY <1>1
  <1>3. \A d \in Devices : air[d] = NoLink /\ air[d].link = "down"
    BY DEF Init, NoLink
  <1>4. host.bt = [d \in Devices |-> UnknownDevice] /\ host.inp = [d \in Devices |-> NewInputDevice]
    BY DEF Init
  <1>5. /\ UnknownDevice.handle = NoHandle /\ DOMAIN UnknownDevice.sockets = {}
        /\ NewInputDevice.wii = NoSlot
    BY DEF UnknownDevice, NewDevice, NewInputDevice
  <1>6. \A d \in Devices : Handle(host, d) = NoHandle
    BY <1>4, <1>5 DEF Handle
  <1>7. NoHandle \notin Handles /\ NoHandle # 0
    BY HandleAssumption DEF NoHandle
  <1>8. DataLinked(host) /\ SlotsLinked(host)
    BY <1>4, <1>5 DEF DataLinked, SlotsLinked, Waits
  <1>9. KnownFirst(host, rx, air)
    BY <1>2, <1>3 DEF KnownFirst
  <1>10. \A d \in Devices, n \in Handles, i \in 0 .. Len(rx) : ~Told(host, rx, i, d, n) /\ ~Up(air, d, n)
    BY <1>1, <1>3, <1>6, <1>7 DEF Told, Up
  <1>11. EndsOrUp(host, rx, air) /\ UpIsTold(host, rx, air) /\ UpAgain(host, rx, air)
    BY <1>10 DEF EndsOrUp, UpIsTold, UpAgain
  <1>12. EndsFirst(host, rx) /\ Apart(host, air)
    BY <1>6, <1>7, <1>10 DEF EndsFirst, Apart
  <1>13. Pending(host, rx, air)
    BY <1>6, <1>7 DEF Pending
  <1>14. QED
    BY <1>8, <1>9, <1>11, <1>12, <1>13 DEF Trace, Linked, Traced

(* The handles alone decide what was told before.                          *)
LEMMA TracedSame ==
  ASSUME NEW h, NEW g, NEW q, NEW a, \A d \in Devices : Handle(g, d) = Handle(h, d), Traced(h, q, a)
  PROVE  Traced(g, q, a)
  <1>1. \A d \in Devices, i \in 0 .. Len(q) : \A n : Told(g, q, i, d, n) <=> Told(h, q, i, d, n)
    BY DEF Told
  <1>2. \A i \in 1 .. Len(q) : \A j \in i + 1 .. Len(q) : i \in 0 .. Len(q) /\ j \in 0 .. Len(q)
    OBVIOUS
  <1>3. \A i \in 0 .. Len(q) : \A j \in i + 1 .. Len(q) : j \in 0 .. Len(q)
    OBVIOUS
  <1>4. EndsOrUp(g, q, a) /\ EndsFirst(g, q) /\ Apart(g, a)
    BY <1>1 DEF Traced, EndsOrUp, EndsFirst, Apart
  <1>5. UpIsTold(g, q, a) /\ UpAgain(g, q, a)
    BY <1>1, <1>2, <1>3 DEF Traced, UpIsTold, UpAgain
  <1>6. QED
    BY <1>4, <1>5 DEF Traced

(* The controller takes a packet: a connection asked for is one being made *)
(* from then on, or the device has a link, which the host will be told of. *)
LEMMA SendTrace == Sound /\ Trace /\ Room' /\ Send => Trace'
  <1>. SUFFICES ASSUME Sound, Trace, Room', Send PROVE Trace'
    OBVIOUS
  <1>. DEFINE p == Head(host.tx)
              q == Tail(host.tx)
  <1>0. /\ Air /\ Good(host) /\ host \in Host /\ rx \in Seq(RxPacket) /\ Len(rx') < QSIZE
        /\ KnownOK(host)
    BY DEF Sound, Good, RxOK, Room
  <1>1. host.tx # <<>> /\ host' = [host EXCEPT !.tx = q] /\ Taken(p)
    BY DEF Send
  <1>2. p \in TxPacket
    BY <1>0, <1>1, HostParts
  <1>3. /\ \A k \in DOMAIN host.tx : k = 1 \/ k - 1 \in DOMAIN q
        /\ \A k \in DOMAIN host.tx : k # 1 => q[k - 1] = host.tx[k]
        /\ host.tx[1] = p /\ 1 \in DOMAIN host.tx
    BY <1>0, <1>1, HostParts
  <1>4. host'.bt = host.bt /\ host'.inp = host.inp /\ host'.tx = q
    BY <1>0, <1>1, HostParts DEF Fields
  <1>. HIDE DEF p, q
  <1>5. TakenStep(p)
    BY <1>0, <1>1, <1>2, TakenLinks
  <1>6. \A d \in Devices : Creates(host, d) =>
          Creates(host', d) \/ (p.op = "CREATE_CONNECTION" /\ p.dev = d)
    BY <1>3, <1>4 DEF Creates
  <1>7. LinkStep(rx, rx', air, air')
    <2>1. p.op \in DeviceOps => p.dev \in Devices
      BY <1>2, TxParts
    <2>2. QED
      BY <1>5, <2>1 DEF TakenStep, LinkStep
  <1>8. \A d \in Devices : air[d].link = "down" /\ air'[d].link = "paging" => host.bt[d].known
    <2>1. SUFFICES ASSUME NEW d \in Devices, air[d].link = "down", air'[d].link = "paging"
                   PROVE  host.bt[d].known
      OBVIOUS
    <2>2. p.op = "CREATE_CONNECTION" /\ p.dev = d
      BY <1>5, <2>1 DEF TakenStep, Rests, Pages, SameLinks
    <2>3. Creates(host, d)
      BY <1>3, <2>2 DEF Creates
    <2>4. QED
      BY <1>0, <2>3 DEF KnownOK
  <1>9. Linked(host, rx', air') /\ KnownFirst(host, rx', air')
    BY <1>7, <1>8, StepLinked, StepKnown DEF Trace
  <1>10. \A d \in Devices : Handle(host', d) = Handle(host, d)
    BY <1>4 DEF Handle
  <1>11. Traced(host', rx', air')
    BY <1>9, <1>10, TracedSame DEF Linked
  <1>12. Pending(host', rx', air')
    <2>1. SUFFICES ASSUME NEW d \in Devices, Handle(host, d) = 0, ~Creates(host', d)
                   PROVE  \/ air'[d].link \in Trying
                          \/ \E j \in 1 .. Len(rx') : Completed(rx', j, d)
      BY <1>10 DEF Pending, Trying
    <2>2. \/ Creates(host, d) \/ air'[d].link \in Trying
          \/ \E j \in 1 .. Len(rx') : Completed(rx', j, d)
      BY <1>9, <2>1 DEF Linked, Pending, Trying
    <2>3. CASE p.op = "CREATE_CONNECTION" /\ p.dev = d
      <3>1. Pages(rx, rx', air, air', d) => air'[d].link \in Trying
        BY DEF Pages, Trying
      <3>2. CASE Rests(rx, rx', air, air') /\ air[d].link # "down"
        <4>1. air'[d].link = air[d].link /\ Adds(rx, rx')
          BY <3>2 DEF Rests, SameLinks
        <4>2. CASE air[d].link \in Trying
          BY <4>1, <4>2
        <4>3. CASE air[d].link = "up"
          <5>. DEFINE n == air[d].handle
          <5>1. n \in Handles /\ n # 0 /\ Up(air, d, n)
            BY <1>0, <4>3, LinkParts, HandleAssumption DEF IsUp, Up
          <5>. HIDE DEF n
          <5>2. Told(host, rx, 0, d, 0) /\ 0 \in Links /\ 0 \in 0 .. Len(rx)
            BY <1>0, <2>1 DEF Told, Links
          <5>3. UpIsTold(host, rx, air)
            BY DEF Trace, Linked, Traced
          <5>4. PICK j \in 0 + 1 .. Len(rx) : Told(host, rx, j, d, n)
            BY <5>1, <5>2, <5>3 DEF UpIsTold
          <5>5. j \in 1 .. Len(rx) /\ j # 0 /\ Completed(rx, j, d)
            BY <5>4 DEF Told
          <5>6. j \in 1 .. Len(rx') /\ rx'[j] = rx[j]
            BY <4>1, <5>5 DEF Adds, Same
          <5>7. Completed(rx', j, d)
            BY <5>5, <5>6 DEF Completed
          <5>8. QED
            BY <5>6, <5>7
        <4>4. air[d].link \in LinkStates
          BY <1>0, LinkParts
        <4>5. QED
          BY <3>2, <4>2, <4>3, <4>4 DEF LinkStates, Trying
      <3>3. QED
        BY <1>5, <2>3, <3>1, <3>2 DEF TakenStep
    <2>4. QED
      BY <1>6, <2>1, <2>2, <2>3
  <1>13. KnownFirst(host', rx', air')
    BY <1>4, <1>9 DEF KnownFirst
  <1>14. DataLinked(host') /\ SlotsLinked(host')
    BY <1>4 DEF Trace, DataLinked, SlotsLinked, Waits, Handle
  <1>15. QED
    BY <1>11, <1>12, <1>13, <1>14 DEF Trace, Linked

(* A call of the host that marks only connections it asks for.             *)
LEMMA AttendsTrace ==
  ASSUME Sound, Trace, Room', Attends(host, host'), UNCHANGED <<rx, air>>
  PROVE  Trace'
  <1>1. host \in Host /\ host' \in Host /\ Len(host'.tx) < QSIZE /\ rx \in Seq(RxPacket)
    BY DEF Sound, Good, RxOK, Room, Attends, Serves
  <1>2. Tracks(host, host') /\ Feeds(host, host')
    BY DEF Attends, Serves
  <1>3. Len(rx) \in Nat
    BY <1>1
  <1>4. Linked(host', rx, air)
    BY <1>1, <1>2, <1>3, TracksLinked DEF Trace
  <1>5. KnownFirst(host', rx, air)
    BY <1>2 DEF Trace, KnownFirst, Tracks
  <1>6. DataLinked(host') /\ SlotsLinked(host')
    BY <1>2 DEF Trace, Feeds
  <1>7. QED
    BY <1>4, <1>5, <1>6 DEF Trace

(* Every step that leaves room in the queues keeps it.                     *)
LEMMA TraceNext == Sound /\ Trace /\ Room' /\ [Next]_vars => Trace'
  <1>. SUFFICES ASSUME Sound, Trace, Room', [Next]_vars PROVE Trace'
    OBVIOUS
  <1>0. Air /\ Good(host) /\ RxOK(rx, host.state) /\ rx \in Seq(RxPacket) /\ Len(rx') < QSIZE
    BY DEF Sound, RxOK, Room
  <1>1. CASE ready_to_send
    <2>1. Attends(host, host') /\ UNCHANGED <<rx, air>>
      BY <1>0, <1>1, ReadyAttends DEF ready_to_send
    <2>2. QED
      BY <2>1, AttendsTrace
  <1>2. CASE Controller
    <2>1. Lawful(rx, rx', air, air') /\ host' = host
      BY <1>0, <1>2, AnswersLinks, OwnAccordLinks DEF Controller
    <2>2. Linked(host, rx', air') /\ KnownFirst(host, rx', air')
      BY <2>1, StepLinked, StepKnown DEF Trace, Lawful
    <2>3. QED
      BY <2>1, <2>2 DEF Trace
  <1>3. CASE Send
    BY <1>3, SendTrace
  <1>4. CASE Sent
    BY <1>4 DEF Sent, Trace
  <1>5. CASE Receive
    <2>1. rx # <<>> /\ rx' = Tail(rx) /\ host' = Handled(host, Head(rx)) /\ air' = air
      BY <1>5 DEF Receive
    <2>2. Head(rx) \in RxQuiet \/ host.state # NotSent
      BY <1>0, <2>1 DEF RxOK
    <2>3. Len(Handled(host, Head(rx)).tx) < QSIZE
      BY <2>1 DEF Room
    <2>. DEFINE g == Handled(host, Head(rx))
    <2>4. /\ Linked(g, Tail(rx), air) /\ KnownFirst(g, Tail(rx), air)
          /\ DataLinked(g) /\ SlotsLinked(g)
      BY <1>0, <2>1, <2>2, <2>3, ReceiveLinked DEF Trace
    <2>. HIDE DEF g
    <2>5. host' = g
      BY <2>1 DEF g
    <2>6. QED
      BY <2>1, <2>4, <2>5 DEF Trace
  <1>6. CASE AllReceived
    BY <1>6 DEF AllReceived, Trace
  <1>7. CASE Get
    <2>1. host' = get(host) /\ UNCHANGED <<rx, air>>
      BY <1>7 DEF Get
    <2>2. Attends(host, host')
      BY <1>0, <2>1, GetGood
    <2>3. QED
      BY <2>1, <2>2, AttendsTrace
  <1>8. CASE UNCHANGED vars
    BY <1>8 DEF vars, Trace
  <1>9. QED
    BY <1>1, <1>2, <1>3, <1>4, <1>5, <1>6, <1>7, <1>8 DEF Next

(* What follows from it.                                                   *)
LEMMA TraceTracks == Sound /\ Trace => HandleTracksLink
  <1>. SUFFICES ASSUME Sound, Trace, NEW d \in Devices
                PROVE  LET n == host.bt[d].handle IN
                       /\ n \in Handles => (IsUp(d) /\ air[d].handle = n) \/ Ending(n)
                       /\ IsUp(d) /\ n # air[d].handle => Reported("CONNECTION_COMP", d)
                       /\ n = 0 => \/ Creating(d) \/ air[d].link \in {"calling", "paging"}
                                   \/ Reported("CONNECTION_COMP", d)
    BY DEF HandleTracksLink
  <1>. DEFINE n == host.bt[d].handle
  <1>1. /\ rx \in Seq(RxPacket) /\ Len(rx) \in Nat /\ 0 \in 0 .. Len(rx) /\ Air
        /\ n \in Links /\ Told(host, rx, 0, d, n)
    <2>1. rx \in Seq(RxPacket) /\ Air /\ host \in Host
      BY DEF Sound, Good, RxOK
    <2>2. QED
      BY <2>1, DeviceParts DEF Told, Handle
  <1>2. \A j \in 0 + 1 .. Len(rx) : j \in 1 .. Len(rx) /\ j # 0 /\ rx[j] \in Range(rx)
    BY <1>1 DEF Range
  <1>3. \A j \in 1 .. Len(rx) : Completed(rx, j, d) => Reported("CONNECTION_COMP", d)
    BY <1>2 DEF Completed, Reported
  <1>. HIDE DEF n
  <1>4. n \in Handles => (IsUp(d) /\ air[d].handle = n) \/ Ending(n)
    <2>1. n \in Handles => Up(air, d, n) \/ \E j \in 0 + 1 .. Len(rx) : Ended(rx, j, n)
      BY <1>1 DEF Trace, Linked, Traced, EndsOrUp
    <2>2. QED
      BY <1>2, <2>1 DEF Ended, Ending, Up, IsUp
  <1>5. IsUp(d) /\ n # air[d].handle => Reported("CONNECTION_COMP", d)
    <2>1. SUFFICES ASSUME IsUp(d), n # air[d].handle PROVE Reported("CONNECTION_COMP", d)
      OBVIOUS
    <2>. DEFINE m == air[d].handle
    <2>2. m \in Handles /\ Up(air, d, m) /\ n # m
      BY <1>1, <2>1, LinkParts DEF IsUp, Up
    <2>. HIDE DEF m
    <2>3. PICK j \in 0 + 1 .. Len(rx) : Told(host, rx, j, d, m)
      BY <1>1, <2>2 DEF Trace, Linked, Traced, UpIsTold
    <2>4. QED
      BY <1>2, <1>3, <2>3 DEF Told
  <1>6. n = 0 => \/ Creating(d) \/ air[d].link \in {"calling", "paging"}
                 \/ Reported("CONNECTION_COMP", d)
    <2>1. Creates(host, d) => Creating(d)
      BY DEF Creates, Creating, Range
    <2>2. n = Handle(host, d)
      BY DEF n, Handle
    <2>3. QED
      BY <1>3, <2>1, <2>2 DEF Trace, Linked, Pending
  <1>7. QED
    BY <1>4, <1>5, <1>6 DEF n

(* If neither queue ever fills up, the host's idea of a link is the        *)
(* controller's, but for the events that are still in the queue.           *)
THEOREM HandlesTrackLinks == Spec /\ []Room => []HandleTracksLink
  <1>1. Spec => []Sound
    BY SoundInit, SoundNext, PTL DEF Spec
  <1>2. Sound /\ Trace /\ Room' /\ [Next]_vars => Trace'
    BY TraceNext
  <1>3. QED
    BY <1>1, <1>2, TraceInit, TraceTracks, PTL DEF Spec

(* If neither queue ever fills up, only a remote that is linked has a      *)
(* slot.                                                                   *)
THEOREM RemotesWithSlotLinked == Spec /\ []Room => []WiiHoldersLinked
  <1>1. Spec => []Sound
    BY SoundInit, SoundNext, PTL DEF Spec
  <1>2. Sound /\ Trace /\ Room' /\ [Next]_vars => Trace'
    BY TraceNext
  <1>3. Trace => WiiHoldersLinked
    BY DEF Trace, SlotsLinked, WiiHoldersLinked, Handle
  <1>4. QED
    BY <1>1, <1>2, <1>3, TraceInit, PTL DEF Spec
=============================================================================
