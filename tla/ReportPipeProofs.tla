-------------------------- MODULE ReportPipeProofs --------------------------
(***************************************************************************)
(* The Bluetooth stack implements ReportPipe, for every set of devices,    *)
(* every scenario and every capacity of the queues, while both queues have *)
(* room: what hid_get returns for a device is what it sent, in order and   *)
(* at most once.                                                           *)
(***************************************************************************)
EXTENDS BluetoothProofs

(* The packets of _rx that are no signals: a part of an answer to an SDP   *)
(* search, and a report.                                                   *)
IsSignal(p) == p.evt = "ACL" /\ p.first /\ p.into = 1
Carries(p, d) == p.evt = "ACL" /\ ~(p.first /\ p.into = 1) /\ p.from = d
Part(p, d) == Carries(p, d) /\ p.size = 2
Tells(p, d) == Carries(p, d) /\ p.size = 1

(* The interrupt channels, and what has come on that of a device.          *)
Reads(h) == {h.inp[e].interrupt : e \in Devices} \ {0}
Inbox(h, d) == IF h.inp[d].interrupt \in Sockets(h, d)
               THEN h.bt[d].sockets[h.inp[d].interrupt].q ELSE <<>>

(* An id the host has given out, but not to an interrupt channel.          *)
Clear(h, s) == s < h.cid /\ s \notin Reads(h)
Proper(h, psm, s) == s < h.cid /\ (psm = "sdp" => s \notin Reads(h))

(* The packets that tell a device the host's end of a channel.             *)
Offers == {"CONN_REQ", "CONN_RSP"}
Offer(p) == p.op = "ACL" /\ p.cmd \in Offers

(* No answer to a search goes to an interrupt channel, as far as the host  *)
(* is concerned: what it has told and kept.                                *)
Apt(h) ==
  /\ \A s \in Reads(h) : s < h.cid
  /\ \A e \in Devices : h.bt[e].into < h.cid
  /\ \A e \in Devices : \A s \in Sockets(h, e) : Proper(h, h.bt[e].sockets[s].psm, s)
  /\ \A k \in DOMAIN h.tx : Offer(h.tx[k]) => Proper(h, h.tx[k].psm, h.tx[k].scid)
  /\ \A k \in DOMAIN h.kept : IsSignal(h.kept[k])

----------------------------------------------------------------------------
(* Calls that neither open a channel nor bring a report.                   *)

(* A queue without some of its first packets.                              *)
EndOf(r, q) == Len(r) <= Len(q) /\ \A k \in 1 .. Len(r) : r[k] = q[k + Len(q) - Len(r)]

(* What such a call does to a device, and the offers it may send: for a    *)
(* socket there is.                                                        *)
MildTo(h, g, e) ==
  /\ g.bt[e].into \in {h.bt[e].into, 0, 1}
  /\ g.inp[e].interrupt \in {h.inp[e].interrupt, 0}
  /\ Sockets(g, e) \subseteq Sockets(h, e)
  /\ \A s \in Sockets(g, e) : /\ g.bt[e].sockets[s].psm = h.bt[e].sockets[s].psm
                              /\ EndOf(g.bt[e].sockets[s].q, h.bt[e].sockets[s].q)
Backed(h, psm, s) == \E e \in Devices : s \in Sockets(h, e) /\ h.bt[e].sockets[s].psm = psm
Queues(h, g) == \A k \in DOMAIN g.tx : Offer(g.tx[k]) =>
  Backed(h, g.tx[k].psm, g.tx[k].scid) \/ \E j \in DOMAIN h.tx : h.tx[j] = g.tx[k]
Mild(h, g) == /\ g \in Host /\ g.cid = h.cid /\ g.kept = h.kept
              /\ \A e \in Devices : MildTo(h, g, e)
              /\ Queues(h, g)

(* Taking from the front of a queue twice is taking from its front.        *)
LEMMA EndOfEnd ==
  /\ \A q \in Seq(Load) : EndOf(q, q) /\ EndOf(<<>>, q)
  /\ \A q, r, s \in Seq(Load) : EndOf(r, q) /\ EndOf(s, r) => EndOf(s, q)
  /\ \A q \in Seq(Load) : q # <<>> => Tail(q) \in Seq(Load) /\ EndOf(Tail(q), q)
  <1>1. ASSUME NEW q \in Seq(Load) PROVE EndOf(q, q) /\ EndOf(<<>>, q)
    BY DEF EndOf
  <1>2. ASSUME NEW q \in Seq(Load), NEW r \in Seq(Load), NEW s \in Seq(Load),
               EndOf(r, q), EndOf(s, r)
        PROVE  EndOf(s, q)
    <2>1. Len(q) \in Nat /\ Len(r) \in Nat /\ Len(s) \in Nat
      OBVIOUS
    <2>2. Len(s) <= Len(r) /\ Len(r) <= Len(q)
      BY <1>2 DEF EndOf
    <2>3. ASSUME NEW k \in 1 .. Len(s) PROVE s[k] = q[k + Len(q) - Len(s)]
      <3>1. k + Len(r) - Len(s) \in 1 .. Len(r)
        BY <2>1, <2>2
      <3>2. s[k] = r[k + Len(r) - Len(s)]
        BY <1>2 DEF EndOf
      <3>3. r[k + Len(r) - Len(s)] = q[(k + Len(r) - Len(s)) + Len(q) - Len(r)]
        BY <1>2, <3>1 DEF EndOf
      <3>4. (k + Len(r) - Len(s)) + Len(q) - Len(r) = k + Len(q) - Len(s)
        BY <2>1
      <3>5. QED
        BY <3>2, <3>3, <3>4
    <2>4. QED
      BY <2>1, <2>2, <2>3 DEF EndOf
  <1>3. ASSUME NEW q \in Seq(Load), q # <<>> PROVE Tail(q) \in Seq(Load) /\ EndOf(Tail(q), q)
    <2>1. /\ Tail(q) \in Seq(Load) /\ Len(q) \in Nat /\ Len(Tail(q)) = Len(q) - 1
          /\ \A k \in 1 .. Len(q) - 1 : Tail(q)[k] = q[k + 1]
      BY <1>3
    <2>. DEFINE t == Tail(q)
    <2>. HIDE DEF t
    <2>2. \A k \in 1 .. Len(t) : k + Len(q) - Len(t) = k + 1
      BY <2>1 DEF t
    <2>3. EndOf(t, q)
      BY <2>1, <2>2 DEF EndOf, t
    <2>4. QED
      BY <2>1, <2>3 DEF t
  <1>4. QED
    BY <1>1, <1>2, <1>3

(* The queue of a socket.                                                  *)
LEMMA SocketQueue ==
  ASSUME NEW h \in Host, NEW e \in Devices, NEW s \in Sockets(h, e)
  PROVE  h.bt[e].sockets[s].q \in Seq(Load)
  BY SocketParts

(* To do nothing is mild, and so are two mild calls in a row.              *)
LEMMA MildTrans ==
  /\ \A h \in Host : Mild(h, h)
  /\ \A h \in Host : \A g, f : Mild(h, g) /\ Mild(g, f) => Mild(h, f)
  <1>1. ASSUME NEW h \in Host PROVE Mild(h, h)
    <2>1. ASSUME NEW e \in Devices PROVE MildTo(h, h, e)
      BY SocketQueue, EndOfEnd DEF MildTo
    <2>2. Queues(h, h)
      BY DEF Queues
    <2>3. QED
      BY <2>1, <2>2 DEF Mild
  <1>2. ASSUME NEW h \in Host, NEW g, NEW f, Mild(h, g), Mild(g, f) PROVE Mild(h, f)
    <2>1. g \in Host /\ f \in Host
      BY <1>2 DEF Mild
    <2>2. ASSUME NEW e \in Devices PROVE MildTo(h, f, e)
      <3>1. MildTo(h, g, e) /\ MildTo(g, f, e)
        BY <1>2 DEF Mild
      <3>2. ASSUME NEW s \in Sockets(f, e)
            PROVE  /\ s \in Sockets(h, e)
                   /\ f.bt[e].sockets[s].psm = h.bt[e].sockets[s].psm
                   /\ EndOf(f.bt[e].sockets[s].q, h.bt[e].sockets[s].q)
        <4>1. /\ s \in Sockets(g, e) /\ s \in Sockets(h, e)
              /\ f.bt[e].sockets[s].psm = g.bt[e].sockets[s].psm
              /\ EndOf(f.bt[e].sockets[s].q, g.bt[e].sockets[s].q)
          BY <3>1 DEF MildTo
        <4>2. /\ g.bt[e].sockets[s].psm = h.bt[e].sockets[s].psm
              /\ EndOf(g.bt[e].sockets[s].q, h.bt[e].sockets[s].q)
          BY <3>1, <4>1 DEF MildTo
        <4>3. QED
          BY <2>1, <4>1, <4>2, SocketQueue, EndOfEnd
      <3>3. /\ f.bt[e].into \in {h.bt[e].into, 0, 1}
            /\ f.inp[e].interrupt \in {h.inp[e].interrupt, 0}
        BY <3>1 DEF MildTo
      <3>4. QED
        BY <3>2, <3>3 DEF MildTo
    <2>3. Queues(h, f)
      <3>1. ASSUME NEW k \in DOMAIN f.tx, Offer(f.tx[k])
            PROVE  \/ Backed(h, f.tx[k].psm, f.tx[k].scid)
                   \/ \E j \in DOMAIN h.tx : h.tx[j] = f.tx[k]
        <4>1. CASE Backed(g, f.tx[k].psm, f.tx[k].scid)
          BY <1>2, <4>1 DEF Backed, Mild, MildTo
        <4>2. CASE \E j \in DOMAIN g.tx : g.tx[j] = f.tx[k]
          BY <1>2, <3>1, <4>2 DEF Mild, Queues
        <4>3. QED
          BY <1>2, <3>1, <4>1, <4>2 DEF Mild, Queues
      <3>2. QED
        BY <3>1 DEF Queues
    <2>4. QED
      BY <1>2, <2>1, <2>2, <2>3 DEF Mild
  <1>3. QED
    BY <1>1, <1>2

(* What is in a queue after a packet was put into it.                      *)
LEMMA QueuedIn ==
  ASSUME NEW q \in Seq(TxPacket), NEW p, NEW k \in DOMAIN Queued(q, p)
  PROVE  Queued(q, p)[k] = p \/ \E j \in DOMAIN q : q[j] = Queued(q, p)[k]
  <1>1. CASE Len(q) >= QSIZE
    BY <1>1, QueueAssumption DEF Queued
  <1>2. CASE Len(q) < QSIZE
    <2>1. Queued(q, p) = Append(q, p)
      BY <1>2 DEF Queued
    <2>2. /\ DOMAIN Append(q, p) = 1 .. Len(q) + 1 /\ DOMAIN q = 1 .. Len(q) /\ Len(q) \in Nat
          /\ Append(q, p)[Len(q) + 1] = p /\ \A j \in 1 .. Len(q) : Append(q, p)[j] = q[j]
      OBVIOUS
    <2>3. k \in 1 .. Len(q) \/ k = Len(q) + 1
      BY <2>1, <2>2
    <2>4. QED
      BY <2>1, <2>2, <2>3
  <1>3. QED
    BY <1>1, <1>2, QueueAssumption

(* A call that leaves the devices as they are.                             *)
LEMMA SameMild ==
  ASSUME NEW h \in Host, NEW g \in Host, g.bt = h.bt, g.cid = h.cid, g.kept = h.kept,
         \A e \in Devices : g.inp[e].interrupt \in {h.inp[e].interrupt, 0}, Queues(h, g)
  PROVE  Mild(h, g)
  <1>1. ASSUME NEW e \in Devices PROVE MildTo(h, g, e)
    BY SocketQueue, EndOfEnd DEF MildTo, Sockets
  <1>2. QED
    BY <1>1 DEF Mild

(* ... and the queue as well.                                              *)
LEMMA RestMild ==
  ASSUME NEW h \in Host, NEW g \in Host, g.bt = h.bt, g.cid = h.cid, g.kept = h.kept,
         \A e \in Devices : g.inp[e].interrupt \in {h.inp[e].interrupt, 0}, g.tx = h.tx
  PROVE  Mild(h, g)
  <1>1. Queues(h, g)
    BY DEF Queues
  <1>2. QED
    BY <1>1, SameMild

(* Putting a packet into the queue.                                        *)
LEMMA PacketMild ==
  ASSUME NEW h \in Host, NEW p, NEW g \in Host, g = [h EXCEPT !.tx = Queued(h.tx, p)],
         Offer(p) => Backed(h, p.psm, p.scid)
  PROVE  Mild(h, g)
  <1>1. /\ g.bt = h.bt /\ g.cid = h.cid /\ g.kept = h.kept /\ g.inp = h.inp
        /\ g.tx = Queued(h.tx, p) /\ h.tx \in Seq(TxPacket)
    BY HostParts DEF Fields
  <1>2. Queues(h, g)
    BY <1>1, QueuedIn DEF Queues
  <1>3. QED
    BY <1>1, <1>2, SameMild

(* A change of a BTDevice that opens no socket and brings nothing.         *)
LEMMA DeviceMild ==
  ASSUME NEW h \in Host, NEW d \in Devices, NEW b \in Device,
         DOMAIN b.sockets \subseteq Sockets(h, d), b.into \in {h.bt[d].into, 0, 1},
         \A s \in DOMAIN b.sockets : /\ b.sockets[s].psm = h.bt[d].sockets[s].psm
                                     /\ EndOf(b.sockets[s].q, h.bt[d].sockets[s].q)
  PROVE  Mild(h, [h EXCEPT !.bt[d] = b])
  <1>. DEFINE g == [h EXCEPT !.bt[d] = b]
  <1>1. /\ g \in Host /\ g.bt[d] = b /\ g.inp = h.inp /\ g.cid = h.cid /\ g.tx = h.tx
        /\ \A e \in Devices \ {d} : g.bt[e] = h.bt[e]
    BY PutDevice
  <1>2. g.kept = h.kept
    BY HostParts DEF Fields
  <1>. HIDE DEF g
  <1>3. ASSUME NEW e \in Devices PROVE MildTo(h, g, e)
    <2>1. CASE e = d
      BY <1>1, <2>1 DEF MildTo, Sockets
    <2>2. CASE e # d
      BY <1>1, <2>2, SocketQueue, EndOfEnd DEF MildTo, Sockets
    <2>3. QED
      BY <2>1, <2>2
  <1>4. Queues(h, g)
    BY <1>1 DEF Queues
  <1>5. Mild(h, g)
    BY <1>1, <1>2, <1>3, <1>4 DEF Mild
  <1>6. QED
    BY <1>5 DEF g

----------------------------------------------------------------------------
(* L2cap: every operator but l2_open and data is mild.                     *)

(* A signal or the data of a socket; an offer is of a socket there is.     *)
LEMMA SendAclMild ==
  ASSUME NEW h \in Host, NEW d \in Devices, NEW cmd \in Commands \cup Data,
         NEW psm \in Psms \cup {NoEnd}, NEW scid \in Sids, cmd = "CONN_REQ" => psm \in Psms,
         cmd \in Offers => Backed(h, psm, scid)
  PROVE  Mild(h, SendAcl(h, d, cmd, psm, scid))
  <1>. DEFINE p == [op |-> "ACL", handle |-> h.bt[d].handle,
                    cmd |-> cmd, psm |-> psm, scid |-> scid]
              g == SendAcl(h, d, cmd, psm, scid)
  <1>1. g \in Host
    BY SendAclSpeaks DEF Speaks
  <1>2. g = [h EXCEPT !.tx = Queued(h.tx, p)]
    BY DEF SendAcl
  <1>3. Offer(p) => Backed(h, p.psm, p.scid)
    BY DEF Offer
  <1>. HIDE DEF p, g
  <1>4. Mild(h, g)
    BY <1>1, <1>2, <1>3, PacketMild
  <1>5. QED
    BY <1>4 DEF g

(* A command of HCI.                                                       *)
LEMMA CmdMild ==
  ASSUME NEW h \in Host, NEW op \in DeviceOps \cup {"INQUIRY"} \cup HandshakeSteps, NEW d,
         Cmd(h, op, d) \in Host
  PROVE  Mild(h, Cmd(h, op, d))
  <1>. DEFINE p == [op |-> op, dev |-> d]
              g == Cmd(h, op, d)
  <1>1. g = [h EXCEPT !.tx = Queued(h.tx, p)] /\ g \in Host
    BY DEF Cmd
  <1>2. ~Offer(p)
    BY DEF Offer, DeviceOps, HandshakeSteps
  <1>. HIDE DEF p, g
  <1>3. Mild(h, g)
    BY <1>1, <1>2, PacketMild
  <1>4. QED
    BY <1>3 DEF g

(* A change of a socket that brings nothing.                               *)
LEMMA SocketMild ==
  ASSUME NEW h \in Host, NEW d \in Devices, NEW i \in Sockets(h, d), NEW s \in Socket,
         s.psm = h.bt[d].sockets[i].psm, EndOf(s.q, h.bt[d].sockets[i].q)
  PROVE  Mild(h, [h EXCEPT !.bt[d].sockets[i] = s])
  <1>. DEFINE m == [h.bt[d].sockets EXCEPT ![i] = s]
              b == [h.bt[d] EXCEPT !.sockets = m]
  <1>1. m \in [Sockets(h, d) -> Socket] /\ m[i] = s
        /\ \A k \in Sockets(h, d) \ {i} : m[k] = h.bt[d].sockets[k]
    BY DeviceParts, SocketMaps DEF Sockets
  <1>2. m \in SocketMap /\ DOMAIN m = Sockets(h, d)
    <2>. HIDE DEF m
    <2>1. QED
      BY <1>1, DeviceParts, SocketMaps
  <1>. HIDE DEF m
  <1>3. b \in Device /\ b.sockets = m /\ b.into = h.bt[d].into
    BY <1>2, DeviceParts DEF Device
  <1>. HIDE DEF b
  <1>4. [h EXCEPT !.bt[d].sockets[i] = s] = [h EXCEPT !.bt[d] = b]
    BY DEF b, m
  <1>5. \A k \in DOMAIN b.sockets : /\ b.sockets[k].psm = h.bt[d].sockets[k].psm
                                    /\ EndOf(b.sockets[k].q, h.bt[d].sockets[k].q)
    <2>1. \A k \in Sockets(h, d) : EndOf(h.bt[d].sockets[k].q, h.bt[d].sockets[k].q)
      BY SocketQueue, EndOfEnd
    <2>2. QED
      BY <1>1, <1>2, <1>3, <2>1
  <1>6. Mild(h, [h EXCEPT !.bt[d] = b])
    BY <1>2, <1>3, <1>5, DeviceMild
  <1>7. QED
    BY <1>4, <1>6

(* The three things that happen to a socket: its end, its state, and that  *)
(* the first packet is taken.                                              *)
LEMMA SocketMilds ==
  ASSUME NEW h \in Host, NEW d \in Devices, NEW i \in Sockets(h, d)
  PROVE  /\ \A x \in Psms \cup {NoEnd} : Mild(h, [h EXCEPT !.bt[d].sockets[i].dcid = x])
         /\ \A x \in SocketStates : Mild(h, [h EXCEPT !.bt[d].sockets[i].state = x])
         /\ \A x \in Seq(Load) : EndOf(x, h.bt[d].sockets[i].q) =>
              Mild(h, [h EXCEPT !.bt[d].sockets[i].q = x])
  <1>. DEFINE s == h.bt[d].sockets[i]
  <1>0. s \in Socket /\ EndOf(s.q, s.q)
    BY SocketParts, SocketQueue, EndOfEnd
  <1>1. ASSUME NEW x \in Psms \cup {NoEnd}
        PROVE  Mild(h, [h EXCEPT !.bt[d].sockets[i].dcid = x])
    <2>. DEFINE t == [s EXCEPT !.dcid = x]
    <2>1. [h EXCEPT !.bt[d].sockets[i].dcid = x] = [h EXCEPT !.bt[d].sockets[i] = t]
      OBVIOUS
    <2>2. t \in Socket /\ t.q = s.q /\ t.psm = s.psm
      BY <1>0 DEF Socket
    <2>. HIDE DEF t
    <2>3. Mild(h, [h EXCEPT !.bt[d].sockets[i] = t])
      BY <1>0, <2>2, SocketMild
    <2>4. QED
      BY <2>1, <2>3
  <1>2. ASSUME NEW x \in SocketStates
        PROVE  Mild(h, [h EXCEPT !.bt[d].sockets[i].state = x])
    <2>. DEFINE t == [s EXCEPT !.state = x]
    <2>1. [h EXCEPT !.bt[d].sockets[i].state = x] = [h EXCEPT !.bt[d].sockets[i] = t]
      OBVIOUS
    <2>2. t \in Socket /\ t.q = s.q /\ t.psm = s.psm
      BY <1>0 DEF Socket
    <2>. HIDE DEF t
    <2>3. Mild(h, [h EXCEPT !.bt[d].sockets[i] = t])
      BY <1>0, <2>2, SocketMild
    <2>4. QED
      BY <2>1, <2>3
  <1>3. ASSUME NEW x \in Seq(Load), EndOf(x, s.q)
        PROVE  Mild(h, [h EXCEPT !.bt[d].sockets[i].q = x])
    <2>. DEFINE t == [s EXCEPT !.q = x]
    <2>1. [h EXCEPT !.bt[d].sockets[i].q = x] = [h EXCEPT !.bt[d].sockets[i] = t]
      OBVIOUS
    <2>2. t \in Socket /\ t.q = x /\ t.psm = s.psm
      BY <1>0 DEF Socket
    <2>. HIDE DEF t
    <2>3. Mild(h, [h EXCEPT !.bt[d].sockets[i] = t])
      BY <1>3, <2>2, SocketMild
    <2>4. QED
      BY <2>1, <2>3
  <1>4. QED
    BY <1>1, <1>2, <1>3

(* delete_socket.                                                          *)
LEMMA ForgottenMild ==
  ASSUME NEW h \in Host, NEW d \in Devices, NEW i
  PROVE  Mild(h, Forgotten(h, d, i))
  <1>. DEFINE m == [k \in DOMAIN h.bt[d].sockets \ {i} |-> h.bt[d].sockets[k]]
              b == [h.bt[d] EXCEPT !.sockets = m]
  <1>1. m \in [Sockets(h, d) \ {i} -> Socket]
        /\ \A k \in DOMAIN m : k \in Sockets(h, d) /\ m[k] = h.bt[d].sockets[k]
    BY DeviceParts
  <1>2. m \in SocketMap /\ DOMAIN m \subseteq Sockets(h, d)
    <2>1. Sockets(h, d) \ {i} \in SUBSET Cids
      BY DeviceParts
    <2>. HIDE DEF m
    <2>2. QED
      BY <1>1, <2>1, SocketMaps
  <1>. HIDE DEF m
  <1>3. b \in Device /\ b.sockets = m /\ b.into = h.bt[d].into
    BY <1>2, DeviceParts DEF Device
  <1>. HIDE DEF b
  <1>4. Forgotten(h, d, i) = [h EXCEPT !.bt[d] = b]
    BY DEF Forgotten, b, m
  <1>5. \A k \in DOMAIN b.sockets : /\ b.sockets[k].psm = h.bt[d].sockets[k].psm
                                    /\ EndOf(b.sockets[k].q, h.bt[d].sockets[k].q)
    <2>1. \A k \in Sockets(h, d) : EndOf(h.bt[d].sockets[k].q, h.bt[d].sockets[k].q)
      BY SocketQueue, EndOfEnd
    <2>2. QED
      BY <1>1, <1>3, <2>1
  <1>6. Mild(h, [h EXCEPT !.bt[d] = b])
    BY <1>2, <1>3, <1>5, DeviceMild
  <1>7. QED
    BY <1>4, <1>6

(* l2_close, with its signal to the other end.                             *)
LEMMA CloseMild ==
  ASSUME NEW h \in Host, NEW i, NEW this_end \in BOOLEAN
  PROVE  Mild(h, l2_close(h, i, this_end))
  <1>1. CASE ~HasSocket(h, i)
    BY <1>1, MildTrans DEF l2_close
  <1>2. CASE HasSocket(h, i)
    <2>. DEFINE d == get_device_by_socket(h, i)
                s == get_socket(h, i)
                g == IF this_end /\ s.state = "OPEN"
                     THEN SendAcl(h, d, "DISCONN_REQ", s.dcid, i) ELSE h
    <2>1. d \in Devices /\ i \in Sids /\ s.dcid \in Psms \cup {NoEnd}
      BY <1>2, OwnerOf, SocketParts
    <2>2. l2_close(h, i, this_end) = Forgotten(g, d, i)
      BY <1>2 DEF l2_close
    <2>. HIDE DEF d, s
    <2>3. Mild(h, SendAcl(h, d, "DISCONN_REQ", s.dcid, i))
      BY <2>1, SendAclMild DEF Commands, Offers
    <2>4. Mild(h, g) /\ g \in Host
      BY <2>3, MildTrans DEF Mild
    <2>. HIDE DEF g
    <2>5. Mild(g, Forgotten(g, d, i))
      BY <2>1, <2>4, ForgottenMild
    <2>6. QED
      BY <2>2, <2>4, <2>5, MildTrans
  <1>3. QED
    BY <1>1, <1>2

(* l2_send only queues a packet, if the socket is there.                   *)
LEMMA SendMild ==
  ASSUME NEW h \in Host, NEW i, NEW what \in Data
  PROVE  Mild(h, l2_send(h, i, what))
  <1>1. CASE ~HasSocket(h, i)
    BY <1>1, MildTrans DEF l2_send
  <1>2. CASE HasSocket(h, i)
    <2>. DEFINE d == get_device_by_socket(h, i)
                s == get_socket(h, i)
    <2>1. d \in Devices /\ i \in Sids /\ s.dcid \in Psms \cup {NoEnd}
      BY <1>2, OwnerOf, SocketParts
    <2>2. l2_send(h, i, what) = SendAcl(h, d, what, s.dcid, i)
      BY <1>2 DEF l2_send
    <2>. HIDE DEF d, s
    <2>3. what \notin Offers /\ what # "CONN_REQ"
      BY DEF Data, Offers
    <2>4. QED
      BY <2>1, <2>2, <2>3, SendAclMild
  <1>3. QED
    BY <1>1, <1>2

(* l2_recv takes the first packet of the socket.                           *)
LEMMA RecvMild ==
  ASSUME NEW h \in Host, NEW i
  PROVE  Mild(h, l2_recv(h, i))
  <1>1. CASE ~Waiting(h, i)
    BY <1>1, MildTrans DEF l2_recv
  <1>2. CASE Waiting(h, i)
    <2>. DEFINE d == get_device_by_socket(h, i)
                t == Tail(h.bt[d].sockets[i].q)
    <2>1. HasSocket(h, i) /\ get_socket(h, i).q # <<>>
      BY <1>2 DEF Waiting
    <2>2. d \in Devices /\ i \in Sockets(h, d) /\ h.bt[d].sockets[i].q # <<>>
      BY <2>1, OwnerOf
    <2>. HIDE DEF d
    <2>3. t \in Seq(Load) /\ EndOf(t, h.bt[d].sockets[i].q)
      BY <2>2, SocketQueue, EndOfEnd
    <2>4. l2_recv(h, i) = [h EXCEPT !.bt[d].sockets[i].q = t]
      BY <1>2 DEF l2_recv, d
    <2>. HIDE DEF t
    <2>5. QED
      BY <2>2, <2>3, <2>4, SocketMilds
  <1>3. QED
    BY <1>1, <1>2

(* BTDevice.disconnect.                                                    *)
LEMMA DisconnectMild ==
  ASSUME NEW h \in Host, NEW d \in Devices
  PROVE  Mild(h, disconnect_all(h, d))
  <1>. DEFINE g == disconnect_all(h, d)
  <1>1. /\ g \in Host /\ g.cid = h.cid /\ g.kept = h.kept
        /\ g.bt[d] = [h.bt[d] EXCEPT !.sockets = <<>>, !.handle = NoHandle, !.seen = {}]
        /\ g.tx = h.tx /\ g.inp = h.inp
        /\ \A e \in Devices \ {d} : g.bt[e] = h.bt[e]
    <2>1. g.cid = h.cid /\ g.kept = h.kept
      BY HostParts DEF Fields, disconnect_all
    <2>2. QED
      BY <2>1, DisconnectClaimed DEF Claimed
  <1>. HIDE DEF g
  <1>2. g.bt[d].sockets = <<>> /\ g.bt[d].into = h.bt[d].into
    BY <1>1, DeviceParts DEF Device
  <1>3. ASSUME NEW e \in Devices PROVE MildTo(h, g, e)
    <2>1. CASE e = d
      BY <1>1, <1>2, <2>1, SocketMaps DEF MildTo, Sockets
    <2>2. CASE e # d
      BY <1>1, <2>2, SocketQueue, EndOfEnd DEF MildTo, Sockets
    <2>3. QED
      BY <2>1, <2>2
  <1>4. Queues(h, g)
    BY <1>1 DEF Queues
  <1>5. Mild(h, g)
    BY <1>1, <1>3, <1>4 DEF Mild
  <1>6. QED
    BY <1>5 DEF g

(* The command last seen is noted.                                         *)
LEMMA MarkedMild ==
  ASSUME NEW h \in Host, NEW d \in Devices, NEW cmd \in Commands
  PROVE  Mild(h, Marked(h, d, cmd))
  <1>. DEFINE b == [h.bt[d] EXCEPT !.seen = h.bt[d].seen \cup {cmd}]
  <1>1. b \in Device /\ b.sockets = h.bt[d].sockets /\ b.into = h.bt[d].into
    BY DeviceParts DEF Device
  <1>2. Marked(h, d, cmd) = [h EXCEPT !.bt[d] = b]
    BY DEF Marked
  <1>. HIDE DEF b
  <1>3. Mild(h, [h EXCEPT !.bt[d] = b])
    BY <1>1, DeviceMild, SocketQueue, EndOfEnd DEF Sockets
  <1>4. QED
    BY <1>2, <1>3

(* check_open.                                                             *)
LEMMA CheckMild ==
  ASSUME NEW h \in Host, NEW d \in Devices, NEW i
  PROVE  Mild(h, check_open(h, d, i))
  <1>1. i \in Sockets(h, d) => Mild(h, [h EXCEPT !.bt[d].sockets[i].state = "OPEN"])
    BY SocketMilds DEF SocketStates
  <1>2. QED
    BY <1>1, MildTrans DEF check_open, FoundOpen

(* A connection response.                                                  *)
LEMMA ConnRspMild ==
  ASSUME NEW h \in Host, NEW d \in Devices, NEW c \in Control
  PROVE  Mild(h, ConnRsp(h, d, c))
  <1>. DEFINE i == c.scid
              g == [h EXCEPT !.bt[d].sockets[i].dcid = c.psm]
              f == [h EXCEPT !.bt[d].sockets[i].state = "CLOSED"]
  <1>1. CASE i \notin Sockets(h, d)
    BY <1>1, MildTrans DEF ConnRsp
  <1>2. CASE i \in Sockets(h, d)
    <2>1. Mild(h, g)
      BY <1>2, ControlParts, SocketMilds
    <2>2. Mild(h, f)
      BY <1>2, SocketMilds DEF SocketStates
    <2>3. g \in Host
      BY <2>1 DEF Mild
    <2>. HIDE DEF g, f
    <2>4. Mild(g, SendAcl(g, d, "CONF_REQ", c.psm, c.scid))
      BY <2>3, ControlParts, SendAclMild DEF Commands, Offers
    <2>5. Mild(h, SendAcl(g, d, "CONF_REQ", c.psm, c.scid))
      BY <2>1, <2>4, MildTrans
    <2>6. Mild(h, h)
      BY MildTrans
    <2>7. QED
      BY <1>2, <2>2, <2>5, <2>6 DEF ConnRsp, g, f
  <1>3. QED
    BY <1>1, <1>2

(* A configuration request.                                                *)
LEMMA ConfReqMild ==
  ASSUME NEW h \in Host, NEW d \in Devices, NEW c \in Control
  PROVE  Mild(h, ConfReq(h, d, c))
  <1>. DEFINE psm == h.bt[d].sockets[c.scid].dcid
              g == SendAcl(h, d, "CONF_RSP", psm, c.scid)
  <1>1. CASE c.scid \notin Sockets(h, d)
    BY <1>1, MildTrans DEF ConfReq
  <1>2. CASE c.scid \in Sockets(h, d)
    <2>1. psm \in Psms \cup {NoEnd} /\ c.scid \in Sids
      BY <1>2, SocketParts
    <2>. HIDE DEF psm
    <2>2. Mild(h, g) /\ g \in Host
      BY <2>1, SendAclMild DEF Commands, Offers, Mild
    <2>. HIDE DEF g
    <2>3. Mild(g, check_open(g, d, c.scid))
      BY <2>2, CheckMild
    <2>4. ConfReq(h, d, c) = check_open(g, d, c.scid)
      BY <1>2 DEF ConfReq, g, psm
    <2>5. QED
      BY <2>2, <2>3, <2>4, MildTrans
  <1>3. QED
    BY <1>1, <1>2

(* A disconnection request.                                                *)
LEMMA DisconnReqMild ==
  ASSUME NEW h \in Host, NEW d \in Devices, NEW c \in Control
  PROVE  Mild(h, DisconnReq(h, d, c))
  <1>. DEFINE g == IF c.scid \in Sockets(h, d) THEN Forgotten(h, d, c.scid) ELSE h
  <1>1. Mild(h, g) /\ g \in Host
    BY ForgottenMild, MildTrans DEF Mild
  <1>2. DisconnReq(h, d, c) = SendAcl(g, d, "DISCONN_RSP", c.psm, c.scid)
    BY DEF DisconnReq
  <1>. HIDE DEF g
  <1>3. Mild(g, SendAcl(g, d, "DISCONN_RSP", c.psm, c.scid))
    BY <1>1, ControlParts, SendAclMild DEF Commands, Offers
  <1>4. QED
    BY <1>1, <1>2, <1>3, MildTrans

(* A socket that listened for the channel is offered and given its end.    *)
LEMMA AcceptedMild ==
  ASSUME NEW h \in Host, NEW d \in Devices, NEW psm \in Psms, NEW i \in Sockets(h, d),
         h.bt[d].sockets[i].psm = psm
  PROVE  Mild(h, Accepted(h, d, psm, i))
  <1>. DEFINE g == SendAcl(h, d, "CONN_RSP", psm, i)
              f == [g EXCEPT !.bt[d].sockets[i].state = "OPENING"]
              k == [f EXCEPT !.bt[d].sockets[i].dcid = psm]
  <1>1. i \in Sids /\ Backed(h, psm, i)
    BY SocketParts DEF Backed
  <1>2. Mild(h, g) /\ g \in Host /\ Sockets(g, d) = Sockets(h, d)
    <2>1. Mild(h, g)
      BY <1>1, SendAclMild DEF Commands
    <2>2. Speaks(h, g)
      BY <1>1, SendAclSpeaks DEF Commands
    <2>3. QED
      BY <2>1, <2>2 DEF Speaks, Sockets
  <1>3. Accepted(h, d, psm, i) = SendAcl(
          [g EXCEPT !.bt[d].sockets[i].state = "OPENING", !.bt[d].sockets[i].dcid = psm],
          d, "CONF_REQ", psm, i)
    BY DEF Accepted
  <1>. HIDE DEF g
  <1>4. /\ Mild(g, f) /\ f \in Host /\ Sockets(f, d) = Sockets(g, d)
    <2>1. i \in Sockets(g, d) /\ "OPENING" \in SocketStates /\ g \in Host
      BY <1>2 DEF SocketStates
    <2>2. Mild(g, f)
      BY <2>1, SocketMilds
    <2>3. Sockets(f, d) = Sockets(g, d)
      BY <2>1, SocketChanges
    <2>4. QED
      BY <2>2, <2>3 DEF Mild
  <1>5. [g EXCEPT !.bt[d].sockets[i].state = "OPENING", !.bt[d].sockets[i].dcid = psm] = k
    OBVIOUS
  <1>. HIDE DEF f
  <1>6. Mild(f, k) /\ k \in Host
    <2>1. Mild(f, k)
      BY <1>2, <1>4, SocketMilds
    <2>2. QED
      BY <2>1 DEF Mild
  <1>. HIDE DEF k
  <1>7. Mild(k, SendAcl(k, d, "CONF_REQ", psm, i))
    BY <1>1, <1>6, SendAclMild DEF Commands, Offers
  <1>8. Mild(h, f) /\ Mild(h, k)
    BY <1>2, <1>4, <1>6, MildTrans
  <1>9. Mild(h, SendAcl(k, d, "CONF_REQ", psm, i))
    BY <1>7, <1>8, MildTrans
  <1>10. QED
    BY <1>3, <1>5, <1>9

(* The loop over the sockets a connection request is for.                  *)
LEMMA ConnReqMild ==
  ASSUME NEW h \in Host, NEW d \in Devices, NEW c \in Control
  PROVE  Mild(h, ConnReq(h, d, c))
  <1>. DEFINE n == h.cid - FirstCid
              X == {g \in Host : Mild(h, g) /\ Sockets(g, d) = Sockets(h, d)}
              Asks(k) == /\ FirstCid + k - 1 \in Sockets(h, d)
                         /\ h.bt[d].sockets[FirstCid + k - 1].psm = c.psm
              Pass(g, k) == IF Asks(k) THEN Accepted(g, d, c.psm, FirstCid + k - 1) ELSE g
              F == [a \in X \X Nat |-> Pass(a[1], a[2])]
              after == CHOOSE s : s = [k \in 0 .. n |->
                LET i == FirstCid + k - 1 IN
                CASE k = 0 -> h
                  [] k > 0 /\ i \in Sockets(h, d) /\ h.bt[d].sockets[i].psm = c.psm ->
                       Accepted(s[k - 1], d, c.psm, i)
                  [] OTHER -> s[k - 1]]
  <1>1. n \in Nat
    BY HostParts DEF Cids, FirstCid
  <1>2. h \in X
    BY MildTrans
  <1>3. ASSUME NEW g \in X, NEW k \in Nat PROVE Pass(g, k) \in X
    <2>1. CASE ~Asks(k)
      BY <2>1
    <2>2. CASE Asks(k)
      <3>. DEFINE i == FirstCid + k - 1
                  f == Accepted(g, d, c.psm, i)
      <3>1. i \in Sockets(g, d) /\ g.bt[d].sockets[i].psm = c.psm /\ g \in Host
        BY <2>2 DEF Mild, MildTo
      <3>. HIDE DEF i
      <3>2. Mild(g, f) /\ Sockets(f, d) = Sockets(g, d)
        BY <3>1, ControlParts, AcceptedMild, AcceptedKeeps
      <3>3. Pass(g, k) = f
        BY <2>2 DEF i
      <3>. HIDE DEF f
      <3>4. Mild(h, f) /\ f \in Host
        BY <3>2, MildTrans DEF Mild
      <3>5. QED
        BY <3>2, <3>3, <3>4
    <2>3. QED
      BY <2>1, <2>2
  <1>4. F \in [X \X Nat -> X]
    <2>. HIDE DEF Pass, X
    <2>1. QED
      BY <1>3
  <1>5. PICK s : Passes(s, n, X, h, F)
    <2>. HIDE DEF F, X, n
    <2>1. QED
      BY <1>1, <1>2, <1>4, LoopStates
  <1>6. ASSUME NEW k \in 1 .. n PROVE s[k] = Pass(s[k - 1], k)
    <2>1. k - 1 \in 0 .. n /\ k \in Nat
      BY <1>1
    <2>2. s[k - 1] \in X
      <3>. HIDE DEF X, n
      <3>1. QED
        BY <1>5, <2>1 DEF Passes
    <2>. HIDE DEF Pass, X
    <2>3. QED
      BY <1>5, <2>1, <2>2 DEF Passes
  <1>7. s = [k \in 0 .. n |->
                LET i == FirstCid + k - 1 IN
                CASE k = 0 -> h
                  [] k > 0 /\ i \in Sockets(h, d) /\ h.bt[d].sockets[i].psm = c.psm ->
                       Accepted(s[k - 1], d, c.psm, i)
                  [] OTHER -> s[k - 1]]
    BY <1>1, <1>5, <1>6 DEF Passes
  <1>8. after = [k \in 0 .. n |->
                LET i == FirstCid + k - 1 IN
                CASE k = 0 -> h
                  [] k > 0 /\ i \in Sockets(h, d) /\ h.bt[d].sockets[i].psm = c.psm ->
                       Accepted(after[k - 1], d, c.psm, i)
                  [] OTHER -> after[k - 1]]
    BY <1>7
  <1>9. ConnReq(h, d, c) = after[n]
    BY DEF ConnReq
  <1>. HIDE DEF after
  <1>10. after[0] \in X
    <2>1. after[0] = h
      BY <1>1, <1>8
    <2>. HIDE DEF X
    <2>2. QED
      BY <1>2, <2>1
  <1>11. ASSUME NEW k \in 1 .. n, after[k - 1] \in X PROVE after[k] \in X
    <2>1. after[k] = Pass(after[k - 1], k)
      BY <1>1, <1>8
    <2>. HIDE DEF X, Pass
    <2>2. QED
      BY <1>3, <1>11, <2>1
  <1>12. after[n] \in X
    <2>. HIDE DEF X, n
    <2>1. QED
      BY <1>1, <1>10, <1>11, LoopStays
  <1>13. QED
    BY <1>9, <1>12

(* BTDevice.control, whatever the signal.                                  *)
LEMMA ControlMild ==
  ASSUME NEW h \in Host, NEW d \in Devices, NEW c \in Control
  PROVE  Mild(h, control(h, d, c))
  <1>. DEFINE g == Marked(h, d, c.cmd)
  <1>1. Mild(h, g) /\ g \in Host
    BY ControlParts, MarkedMild DEF Mild
  <1>2. control(h, d, c) =
          CASE c.cmd = "CONN_RSP" -> ConnRsp(g, d, c)
            [] c.cmd = "CONF_RSP" -> check_open(g, d, c.scid)
            [] c.cmd = "CONF_REQ" -> ConfReq(g, d, c)
            [] c.cmd = "DISCONN_REQ" -> DisconnReq(g, d, c)
            [] c.cmd = "DISCONN_RSP" -> l2_close(g, c.scid, TRUE)
            [] c.cmd = "CONN_REQ" -> ConnReq(g, d, c)
    BY DEF control
  <1>. HIDE DEF g
  <1>3. /\ Mild(g, ConnRsp(g, d, c)) /\ Mild(g, check_open(g, d, c.scid))
        /\ Mild(g, ConfReq(g, d, c)) /\ Mild(g, DisconnReq(g, d, c))
        /\ Mild(g, l2_close(g, c.scid, TRUE)) /\ Mild(g, ConnReq(g, d, c))
    BY <1>1, ConnRspMild, CheckMild, ConfReqMild, DisconnReqMild, CloseMild, ConnReqMild
  <1>4. Mild(g, control(h, d, c))
    BY <1>2, <1>3, ControlParts DEF Commands
  <1>5. QED
    BY <1>1, <1>4, MildTrans

(* A fragment added to what is held: it says which channel the packet is   *)
(* for if it is the first.                                                 *)
LEMMA AssembledDevice ==
  ASSUME NEW h \in Host, NEW d \in Devices, NEW p \in RxAcl
  PROVE  LET b == Assembled(h, d, p).bt[d]
         IN /\ Assembled(h, d, p) = [h EXCEPT !.bt[d] = b] /\ b \in Device
            /\ b.sockets = h.bt[d].sockets /\ b.held = h.bt[d].held + 1
            /\ b.handle = h.bt[d].handle
            /\ b.size = (IF p.first THEN p.size ELSE h.bt[d].size)
            /\ b.into = (IF p.first THEN p.into ELSE h.bt[d].into)
  <1>. DEFINE held == h.bt[d].held + 1
              size == IF p.first THEN p.size ELSE h.bt[d].size
              into == IF p.first THEN p.into ELSE h.bt[d].into
              b == [h.bt[d] EXCEPT !.held = held, !.size = size, !.into = into]
  <1>1. h.bt[d] \in Device /\ h.bt \in [Devices -> Device]
    BY HostParts
  <1>2. /\ b \in Device /\ b.sockets = h.bt[d].sockets /\ b.handle = h.bt[d].handle
        /\ b.held = held /\ b.size = size /\ b.into = into
    <2>1. held \in Nat /\ size \in Nat /\ into \in Nat
      BY DeviceParts, RxAclParts
    <2>. HIDE DEF held, size, into
    <2>2. QED
      BY <1>1, <2>1 DEF Device
  <1>3. Assembled(h, d, p) = [h EXCEPT !.bt[d] = b]
    BY DEF Assembled
  <1>. HIDE DEF b
  <1>4. Assembled(h, d, p).bt[d] = b
    BY <1>1, <1>3, HostParts DEF Fields
  <1>5. QED
    BY <1>2, <1>3, <1>4

(* A signal is never taken for data, and data never for a signal.          *)
LEMMA SignalMild ==
  ASSUME NEW h \in Host, NEW d \in Devices, NEW p \in RxAcl, IsSignal(p),
         h.bt[d].handle \in Handles
  PROVE  Mild(h, data(h, d, p))
  <1>. DEFINE g == Assembled(h, d, p)
              b == [g.bt[d] EXCEPT !.held = 0]
              done == [g EXCEPT !.bt[d] = b]
              whole == g.bt[d].held = g.bt[d].size
              r == data(h, d, p)
  <1>0. p.first /\ p.into = 1 /\ p.load \in Control
    BY RxAclParts DEF IsSignal
  <1>1. Mild(h, g) /\ g \in Host /\ g.bt[d].into = 1 /\ Sockets(g, d) = Sockets(h, d)
    <2>. DEFINE c == Assembled(h, d, p).bt[d]
    <2>1. /\ Assembled(h, d, p) = [h EXCEPT !.bt[d] = c] /\ c \in Device
          /\ c.sockets = h.bt[d].sockets /\ c.into = (IF p.first THEN p.into ELSE h.bt[d].into)
      BY AssembledDevice
    <2>. HIDE DEF c
    <2>2. Mild(h, [h EXCEPT !.bt[d] = c])
      BY <1>0, <2>1, DeviceMild, SocketQueue, EndOfEnd DEF Sockets
    <2>3. QED
      BY <1>0, <2>1, <2>2 DEF Mild, Sockets, c
  <1>2. /\ r \in {g, control(done, d, p.load), done} \/ 1 \in Sockets(g, d)
    <2>. HIDE DEF g
    <2>1. data(h, d, p) = CASE ~whole -> g
                          [] whole /\ g.bt[d].into = 1 /\ p.first -> control(done, d, p.load)
                          [] whole /\ g.bt[d].into \in Sockets(g, d) ->
                               [done EXCEPT !.bt[d].sockets[g.bt[d].into].q = Queued(@, p.load)]
                          [] OTHER -> done
      BY DEF data, g
    <2>. HIDE DEF done, whole
    <2>2. QED
      BY <1>0, <1>1, <2>1
  <1>. HIDE DEF g
  <1>3. b \in Device /\ b.sockets = g.bt[d].sockets /\ b.into = g.bt[d].into
    BY <1>1, DeviceParts DEF Device
  <1>. HIDE DEF b
  <1>4. Mild(g, done) /\ done \in Host
    <2>1. Mild(g, done)
      BY <1>1, <1>3, DeviceMild, SocketQueue, EndOfEnd DEF Sockets
    <2>2. QED
      BY <2>1 DEF Mild
  <1>. HIDE DEF done
  <1>5. Mild(done, control(done, d, p.load))
    BY <1>0, <1>4, ControlMild
  <1>6. 1 \notin Sockets(g, d)
    BY <1>1, DeviceParts DEF Cids, FirstCid
  <1>7. QED
    BY <1>1, <1>2, <1>4, <1>5, <1>6, MildTrans

----------------------------------------------------------------------------
(* HidHost: every callback that opens no channel is mild.                  *)

(* A change of an InputDevice that forgets its interrupt channel or not.   *)
LEMMA InputMild ==
  ASSUME NEW h \in Host, NEW d \in Devices, NEW i,
         i.interrupt \in {h.inp[d].interrupt, 0}, [h EXCEPT !.inp[d] = i] \in Host
  PROVE  Mild(h, [h EXCEPT !.inp[d] = i])
  <1>. DEFINE inp == [h.inp EXCEPT ![d] = i]
              g == [h EXCEPT !.inp = inp]
  <1>1. \A e \in Devices : inp[e] = IF e = d THEN i ELSE h.inp[e]
    BY HostParts
  <1>. HIDE DEF inp
  <1>2. g.inp = inp /\ g.bt = h.bt /\ g.cid = h.cid /\ g.kept = h.kept /\ g.tx = h.tx
    BY HostParts DEF Fields
  <1>3. g \in Host
    BY DEF inp
  <1>. HIDE DEF g
  <1>4. \A e \in Devices : g.inp[e].interrupt \in {h.inp[e].interrupt, 0}
    BY <1>1, <1>2
  <1>5. Mild(h, g)
    BY <1>2, <1>3, <1>4, RestMild
  <1>6. QED
    BY <1>5 DEF g, inp

(* The state and the reconnect flag.                                       *)
LEMMA OldMild ==
  ASSUME NEW h \in Host, NEW d \in Devices
  PROVE  /\ \A x \in InputStates : Mild(h, [h EXCEPT !.inp[d].state = x])
         /\ \A x \in BOOLEAN : Mild(h, [h EXCEPT !.inp[d].reconnect = x])
         /\ \A x \in InputStates, y \in BOOLEAN :
              Mild(h, [h EXCEPT !.inp[d].reconnect = y, !.inp[d].state = x])
  <1>1. h.inp[d] \in Input
    BY InputParts
  <1>2. ASSUME NEW x \in InputStates PROVE Mild(h, [h EXCEPT !.inp[d].state = x])
    <2>. DEFINE i == [h.inp[d] EXCEPT !.state = x]
    <2>1. i.interrupt = h.inp[d].interrupt
      BY <1>1 DEF Input
    <2>2. [h EXCEPT !.inp[d].state = x] = [h EXCEPT !.inp[d] = i]
      OBVIOUS
    <2>3. [h EXCEPT !.inp[d].state = x] \in Host
      BY OldIds DEF Minor
    <2>. HIDE DEF i
    <2>4. QED
      BY <2>1, <2>2, <2>3, InputMild
  <1>3. ASSUME NEW x \in BOOLEAN PROVE Mild(h, [h EXCEPT !.inp[d].reconnect = x])
    <2>. DEFINE i == [h.inp[d] EXCEPT !.reconnect = x]
    <2>1. i.interrupt = h.inp[d].interrupt
      BY <1>1 DEF Input
    <2>2. [h EXCEPT !.inp[d].reconnect = x] = [h EXCEPT !.inp[d] = i]
      OBVIOUS
    <2>3. [h EXCEPT !.inp[d].reconnect = x] \in Host
      BY OldIds DEF Minor
    <2>. HIDE DEF i
    <2>4. QED
      BY <2>1, <2>2, <2>3, InputMild
  <1>4. ASSUME NEW x \in InputStates, NEW y \in BOOLEAN
        PROVE  Mild(h, [h EXCEPT !.inp[d].reconnect = y, !.inp[d].state = x])
    <2>. DEFINE i == [h.inp[d] EXCEPT !.reconnect = y, !.state = x]
    <2>1. i.interrupt = h.inp[d].interrupt
      BY <1>1 DEF Input
    <2>2. [h EXCEPT !.inp[d].reconnect = y, !.inp[d].state = x] = [h EXCEPT !.inp[d] = i]
      BY HostParts DEF Fields
    <2>3. [h EXCEPT !.inp[d].reconnect = y, !.inp[d].state = x] \in Host
      BY OldIds DEF Minor
    <2>. HIDE DEF i
    <2>4. QED
      BY <2>1, <2>2, <2>3, InputMild
  <1>5. QED
    BY <1>2, <1>3, <1>4

(* A change of the slots and of the slot of an InputDevice.                *)
LEMMA SlottedMild ==
  ASSUME NEW h \in Host, NEW d \in Devices, NEW i, NEW S, Slotted(h, d, i, S) \in Host,
         i.interrupt \in {h.inp[d].interrupt, 0}
  PROVE  Mild(h, Slotted(h, d, i, S))
  <1>. DEFINE inp == [h.inp EXCEPT ![d] = i]
              g == [h EXCEPT !.inp = inp, !.slots = S]
  <1>1. \A e \in Devices : inp[e] = IF e = d THEN i ELSE h.inp[e]
    BY HostParts
  <1>2. Slotted(h, d, i, S) = g
    BY DEF Slotted
  <1>. HIDE DEF inp
  <1>3. /\ g.inp = inp /\ g.bt = h.bt /\ g.cid = h.cid /\ g.kept = h.kept /\ g.tx = h.tx
        /\ g \in Host
    BY <1>2, HostParts DEF Fields
  <1>. HIDE DEF g
  <1>4. \A e \in Devices : g.inp[e].interrupt \in {h.inp[e].interrupt, 0}
    BY <1>1, <1>3
  <1>5. QED
    BY <1>2, <1>3, <1>4, RestMild

(* InputDevice.connect.                                                    *)
LEMMA ConnectMild ==
  ASSUME NEW h \in Host, NEW d \in Devices, h.bt[d].known
  PROVE  Mild(h, connect(h, d))
  <1>. DEFINE g == [h EXCEPT !.inp[d].reconnect = FALSE, !.inp[d].state = "CONNECT"]
              b == [g.bt[d] EXCEPT !.seen = {}, !.handle = 0]
              f == [g EXCEPT !.bt[d] = b]
              r == Cmd(f, "CREATE_CONNECTION", d)
  <1>0. connect(h, d) \in Host
    BY ConnectMinor DEF Minor
  <1>1. Mild(h, g) /\ g \in Host
    BY OldMild DEF InputStates, Mild
  <1>2. connect(h, d) = Connecting(g, d)
    BY DEF connect
  <1>. HIDE DEF g
  <1>3. g.bt[d] \in Device /\ 0 \in Links
    BY <1>1, DeviceParts DEF Links
  <1>4. b \in Device /\ b.sockets = g.bt[d].sockets /\ b.into = g.bt[d].into
    BY <1>3 DEF Device
  <1>5. Connecting(g, d) = IF g.bt[d].handle # NoHandle THEN g ELSE r
    <2>1. [g EXCEPT !.bt[d].seen = {}, !.bt[d].handle = 0] = f
      BY <1>1, HostParts DEF Fields
    <2>. HIDE DEF f
    <2>2. QED
      BY <2>1 DEF Connecting
  <1>. HIDE DEF b
  <1>6. Mild(g, f) /\ f \in Host
    <2>1. Mild(g, f)
      BY <1>1, <1>4, DeviceMild, SocketQueue, EndOfEnd DEF Sockets
    <2>2. QED
      BY <2>1 DEF Mild
  <1>. HIDE DEF f
  <1>7. r \in Host => Mild(f, r)
    BY <1>6, CmdMild DEF DeviceOps
  <1>. HIDE DEF r
  <1>8. CASE g.bt[d].handle # NoHandle
    BY <1>1, <1>2, <1>5, <1>8
  <1>9. CASE g.bt[d].handle = NoHandle
    <2>1. connect(h, d) = r /\ r \in Host
      BY <1>0, <1>2, <1>5, <1>9
    <2>2. QED
      BY <1>1, <1>6, <1>7, <2>1, MildTrans
  <1>10. QED
    BY <1>8, <1>9

(* A command for the controller about a device.                            *)
LEMMA DeviceCmdMild ==
  ASSUME NEW h \in Host, NEW d \in Devices, NEW op \in AddressOps \ {"CREATE_CONNECTION"}
  PROVE  Mild(h, Cmd(h, op, d))
  <1>1. Cmd(h, op, d) \in Host
    BY CmdSpeaks DEF Speaks
  <1>2. QED
    BY <1>1, CmdMild DEF AddressOps

(* InputDevice.connection_request.                                         *)
LEMMA ConnectionRequestMild ==
  ASSUME NEW h \in Host, NEW d \in Devices
  PROVE  Mild(h, connection_request(h, d))
  <1>. DEFINE g == [h EXCEPT !.inp[d].reconnect = TRUE]
  <1>1. Mild(h, g) /\ g \in Host
    BY OldMild DEF Mild
  <1>2. connection_request(h, d) = Cmd(g, "ACCEPT_CONNECTION_REQUEST", d)
    BY DEF connection_request
  <1>. HIDE DEF g
  <1>3. Mild(g, Cmd(g, "ACCEPT_CONNECTION_REQUEST", d))
    BY <1>1, DeviceCmdMild DEF DeviceOps, AddressOps
  <1>4. QED
    BY <1>1, <1>2, <1>3, MildTrans

(* The request to authenticate.                                            *)
LEMMA AuthenticateMild ==
  ASSUME NEW h \in Host, NEW d \in Devices
  PROVE  Mild(h, Authenticate(h, d))
  <1>. DEFINE g == IF h.bt[d].handle # NoHandle THEN AskAuthentication(h, d) ELSE h
              f == [g EXCEPT !.inp[d].state = "AUTHENTICATING"]
  <1>1. Mild(h, AskAuthentication(h, d))
    <2>. DEFINE p == [op |-> "AUTHENTICATION_REQUESTED", dev |-> d, handle |-> h.bt[d].handle]
                k == [h EXCEPT !.tx = Queued(h.tx, p)]
    <2>1. AskAuthentication(h, d) = k
      BY DEF AskAuthentication
    <2>2. k \in Host /\ ~Offer(p)
      BY <2>1, AskSpeaks DEF Speaks, Offer
    <2>. HIDE DEF p
    <2>3. Mild(h, k)
      BY <2>2, PacketMild
    <2>. HIDE DEF k
    <2>4. QED
      BY <2>1, <2>3
  <1>2. Mild(h, g) /\ g \in Host
    BY <1>1, MildTrans DEF Mild
  <1>3. Authenticate(h, d) = f
    BY DEF Authenticate
  <1>. HIDE DEF g
  <1>4. Mild(g, f)
    BY <1>2, OldMild DEF InputStates
  <1>. HIDE DEF f
  <1>5. QED
    BY <1>2, <1>3, <1>4, MildTrans

(* InputDevice.socket_changed.                                             *)
LEMMA SocketChangedMild ==
  ASSUME NEW h \in Host, NEW d \in Devices, NEW s
  PROVE  Mild(h, socket_changed(h, d, s))
  <1>. DEFINE i == [h.inp[d] EXCEPT !.handler = s]
              g == [h EXCEPT !.inp[d].handler = s]
  <1>1. CASE s = h.inp[d].sdp
    <2>1. h.inp[d] \in Input /\ s \in Sids
      BY <1>1, InputParts
    <2>2. /\ i \in Input /\ i.wii = h.inp[d].wii /\ Ids(i) \subseteq Ids(h.inp[d])
          /\ i.interrupt = h.inp[d].interrupt
      BY <1>1, <2>1 DEF Input, Ids
    <2>3. g = [h EXCEPT !.inp[d] = i]
      OBVIOUS
    <2>. HIDE DEF i
    <2>4. Mild(h, g) /\ g \in Host
      <3>1. Minor(h, [h EXCEPT !.inp[d] = i])
        BY <2>2, InputMinor DEF Claims
      <3>2. [h EXCEPT !.inp[d] = i] \in Host
        BY <3>1 DEF Minor
      <3>3. Mild(h, [h EXCEPT !.inp[d] = i])
        BY <2>2, <3>2, InputMild
      <3>4. QED
        BY <2>3, <3>2, <3>3
    <2>5. socket_changed(h, d, s) = h \/ socket_changed(h, d, s) = l2_send(g, s, "SEARCH")
      BY DEF socket_changed, SdpSearch
    <2>. HIDE DEF g
    <2>6. Mild(g, l2_send(g, s, "SEARCH"))
      BY <2>4, SendMild DEF Data
    <2>7. QED
      BY <2>4, <2>5, <2>6, MildTrans
  <1>2. CASE s # h.inp[d].sdp
    BY <1>2, MildTrans DEF socket_changed
  <1>3. QED
    BY <1>1, <1>2

(* InputDevice.update_sdp.                                                 *)
LEMMA UpdateSdpMild ==
  ASSUME NEW h \in Host, NEW d \in Devices
  PROVE  Mild(h, update_sdp(h, d))
  <1>. DEFINE s == h.inp[d].handler
              k == l2_recv(h, s)
              g == SdpAnswered(h, s)
              f == l2_close(g, g.inp[d].sdp, TRUE)
              i == [f.inp[d] EXCEPT !.handler = 0, !.sdp = 0]
              r == [f EXCEPT !.inp[d] = i]
              a == Authenticate(r, d)
  <1>1. Mild(h, k) /\ k \in Host
    BY RecvMild DEF Mild
  <1>2. Mild(h, g) /\ g \in Host
    <2>. HIDE DEF s
    <2>1. g = k \/ g = l2_send(k, s, "SEARCH")
      BY DEF SdpAnswered, SdpSearch
    <2>. HIDE DEF k
    <2>2. Mild(k, l2_send(k, s, "SEARCH"))
      BY <1>1, SendMild DEF Data
    <2>. HIDE DEF g
    <2>3. Mild(h, g)
      BY <1>1, <2>1, <2>2, MildTrans
    <2>4. QED
      BY <2>3 DEF Mild
  <1>3. update_sdp(h, d) \in {h, g, Authenticate([f EXCEPT !.inp[d].handler = 0, !.inp[d].sdp = 0], d)}
    <2>. HIDE DEF g
    <2>1. QED
      BY DEF update_sdp, g
  <1>. HIDE DEF g
  <1>4. Mild(g, f) /\ f \in Host
    BY <1>2, CloseMild DEF Mild
  <1>. HIDE DEF f
  <1>5. f.inp[d] \in Input
    BY <1>4, InputParts
  <1>6. /\ i \in Input /\ i.wii = f.inp[d].wii /\ Ids(i) \subseteq Ids(f.inp[d])
        /\ i.interrupt = f.inp[d].interrupt
    BY <1>5 DEF Input, Ids, Sids
  <1>7. [f EXCEPT !.inp[d].handler = 0, !.inp[d].sdp = 0] = r
    BY <1>4, HostParts DEF Fields
  <1>. HIDE DEF i
  <1>8. Mild(f, r) /\ r \in Host
    <2>1. Minor(f, r)
      BY <1>4, <1>6, InputMinor DEF Claims
    <2>2. r \in Host
      BY <2>1 DEF Minor
    <2>3. Mild(f, r)
      BY <1>4, <1>6, <2>2, InputMild
    <2>4. QED
      BY <2>2, <2>3
  <1>. HIDE DEF r
  <1>9. Mild(r, a)
    BY <1>8, AuthenticateMild
  <1>. HIDE DEF a
  <1>10. Mild(h, f) /\ Mild(h, h)
    BY <1>2, <1>4, MildTrans
  <1>11. Mild(h, r)
    BY <1>8, <1>10, MildTrans
  <1>12. Mild(h, a)
    BY <1>9, <1>11, MildTrans
  <1>13. QED
    BY <1>2, <1>3, <1>7, <1>10, <1>12 DEF a

(* InputDevice.disconnection_complete.                                     *)
LEMMA DisconnectionMild ==
  ASSUME NEW h, Good(h), NEW d \in Devices
  PROVE  Mild(h, disconnection_complete(h, d))
  <1>. DEFINE i == h.inp[d]
              f == l2_close(h, i.sdp, TRUE)
              k == l2_close(f, i.control, TRUE)
              g == l2_close(k, i.interrupt, TRUE)
              j == [i EXCEPT !.reconnect = FALSE, !.interrupt = 0, !.control = 0,
                             !.state = "CLOSED", !.wii = NoSlot]
              S == IF i.wii = NoSlot THEN g.slots ELSE [g.slots EXCEPT ![i.wii] = {}]
              r == Slotted(g, d, j, S)
  <1>1. h \in Host
    BY DEF Good
  <1>2. i \in Input
    BY <1>1, InputParts
  <1>3. disconnection_complete(h, d) = r
    <2>. HIDE DEF g
    <2>1. QED
      BY DEF disconnection_complete, Slotted, g, k, f
  <1>4. j.interrupt = 0
    BY <1>2 DEF Input
  <1>5. Mild(h, g) /\ g \in Host
    <2>1. Mild(h, f) /\ f \in Host
      BY <1>1, CloseMild DEF Mild
    <2>. HIDE DEF f
    <2>2. Mild(f, k) /\ k \in Host
      BY <2>1, CloseMild DEF Mild
    <2>. HIDE DEF k
    <2>3. Mild(k, g)
      BY <2>2, CloseMild
    <2>. HIDE DEF g
    <2>4. Mild(h, k)
      BY <1>1, <2>1, <2>2, MildTrans
    <2>5. Mild(h, g)
      BY <1>1, <2>3, <2>4, MildTrans
    <2>6. QED
      BY <2>5 DEF Mild
  <1>6. r \in Host
    <2>1. LET q == disconnection_complete(h, d) IN Attends(h, q)
      BY DisconnectionServes
    <2>2. QED
      BY <1>3, <2>1 DEF Attends, Serves, Good
  <1>. HIDE DEF g, j, S
  <1>7. Mild(g, r)
    BY <1>4, <1>5, <1>6, SlottedMild
  <1>8. QED
    BY <1>1, <1>3, <1>5, <1>7, MildTrans

(* A remote takes a slot and shows it.                                     *)
LEMMA FindMild ==
  ASSUME NEW h, Good(h), NEW d \in Devices, Found(h, d)
  PROVE  Mild(h, find_slot(h, d))
  <1>. DEFINE i == Min(FreeSlots(h))
              j == [h.inp[d] EXCEPT !.wii = i]
              S == [h.slots EXCEPT ![i] = {"wiimote"}]
              g == Slotted(h, d, j, S)
              f == l2_send(g, h.inp[d].interrupt, "LED")
              r == l2_send(f, h.inp[d].interrupt, "ASK_STATUS")
  <1>1. h \in Host /\ Own(h) /\ SlotsOK(h)
    BY DEF Good
  <1>2. CASE h.inp[d].wii # NoSlot \/ FreeSlots(h) = {}
    BY <1>1, <1>2, MildTrans DEF find_slot
  <1>3. CASE h.inp[d].wii = NoSlot /\ FreeSlots(h) # {}
    <2>1. i \in WiiSlots
      <3>1. FreeSlots(h) \in SUBSET Nat
        BY ClassAssumption DEF FreeSlots
      <3>2. i \in FreeSlots(h)
        BY <1>3, <3>1, LeastFree
      <3>3. QED
        BY <3>2 DEF FreeSlots
    <2>2. find_slot(h, d) = r
      <3>1. [h EXCEPT !.slots[i] = {"wiimote"}, !.inp[d].wii = i] = g
        BY <1>1, HostParts DEF Fields, Slotted
      <3>. HIDE DEF g, i
      <3>2. QED
        BY <1>3, <3>1 DEF find_slot, i
    <2>. HIDE DEF i
    <2>3. j \in Input /\ j.interrupt = h.inp[d].interrupt /\ Ids(j) = Ids(h.inp[d])
      BY <1>1, <2>1, InputParts DEF Input, Ids
    <2>4. S \in [WiiSlots -> SUBSET SlotFlags]
      BY <1>1, <2>1, HostParts DEF SlotFlags
    <2>. HIDE DEF j, S
    <2>5. Ids(j) \subseteq Claims(h, d)
      BY <2>3 DEF Claims
    <2>6. g \in Host
      BY <1>1, <2>3, <2>4, <2>5, PutSlots
    <2>7. Mild(h, g)
      BY <1>1, <2>3, <2>6, SlottedMild
    <2>. HIDE DEF g
    <2>8. Mild(g, f) /\ f \in Host
      BY <2>6, SendMild DEF Data, Mild
    <2>. HIDE DEF f
    <2>9. Mild(f, r)
      BY <2>8, SendMild DEF Data
    <2>. HIDE DEF r
    <2>10. Mild(h, f)
      BY <1>1, <2>7, <2>8, MildTrans
    <2>11. QED
      BY <1>1, <2>2, <2>9, <2>10, MildTrans
  <1>4. QED
    BY <1>2, <1>3

(* The flags of a slot.                                                    *)
LEMMA FlagsMild ==
  ASSUME NEW h, Good(h), NEW d \in Devices, h.inp[d].wii # NoSlot,
         NEW F \in SUBSET SlotFlags, "wiimote" \in F
  PROVE  Mild(h, [h EXCEPT !.slots[h.inp[d].wii] = F])
  <1>. DEFINE g == [h EXCEPT !.slots[h.inp[d].wii] = F]
  <1>1. h \in Host
    BY DEF Good
  <1>2. g \in Host
    <2>1. Attends(h, g)
      BY FlagsServe
    <2>. HIDE DEF g
    <2>2. QED
      BY <2>1 DEF Attends, Serves, Good
  <1>3. g.bt = h.bt /\ g.cid = h.cid /\ g.kept = h.kept /\ g.inp = h.inp /\ g.tx = h.tx
    BY <1>1, HostParts DEF Fields
  <1>. HIDE DEF g
  <1>4. Mild(h, g)
    BY <1>1, <1>2, <1>3, RestMild
  <1>5. QED
    BY <1>4 DEF g

(* What a remote answers to a report.                                      *)
LEMMA ReportMild ==
  ASSUME NEW h, Good(h), NEW d \in Devices, h.inp[d].wii # NoSlot, NEW kind
  PROVE  Mild(h, WiiReport(h, d, kind))
  <1>. DEFINE f == h.slots[h.inp[d].wii]
              Say(what) == l2_send(h, h.inp[d].interrupt, what)
              With(what, F) == [Say(what) EXCEPT !.slots[h.inp[d].wii] = F]
  <1>1. h \in Host /\ f \in SUBSET SlotFlags /\ "wiimote" \in f
    BY SlotOf DEF Good, SlotsOK
  <1>2. ASSUME NEW what \in Data
        PROVE  Mild(h, Say(what)) /\ Good(Say(what)) /\ Say(what).inp = h.inp
    <2>1. Speaks(h, Say(what)) /\ Mild(h, Say(what))
      BY <1>1, SendSpeaks, SendMild
    <2>. HIDE DEF Say
    <2>2. Attends(h, Say(what))
      BY <1>1, <2>1, MinorTrans, ServesTrans
    <2>3. QED
      BY <2>1, <2>2 DEF Speaks, Attends, Serves
  <1>3. ASSUME NEW what \in Data, NEW F \in SUBSET SlotFlags, "wiimote" \in F
        PROVE  Mild(h, With(what, F))
    <2>. DEFINE g == Say(what)
    <2>1. Mild(h, g) /\ g.inp = h.inp /\ Good(g)
      BY <1>2
    <2>. HIDE DEF g
    <2>2. Mild(g, [g EXCEPT !.slots[g.inp[d].wii] = F])
      BY <2>1, <1>3, FlagsMild
    <2>3. Mild(h, [g EXCEPT !.slots[h.inp[d].wii] = F])
      BY <1>1, <2>1, <2>2, MildTrans
    <2>4. QED
      BY <2>3 DEF g
  <1>4. Mild(h, h)
    BY <1>1, MildTrans
  <1>5. /\ f \ Extensions \in SUBSET SlotFlags
        /\ (f \ Extensions) \cup {"nunchuk"} \in SUBSET SlotFlags
        /\ f \cup {"extension_read"} \in SUBSET SlotFlags
        /\ f \cup {"encryption_disabled"} \in SUBSET SlotFlags
        /\ "wiimote" \in f \ Extensions
    BY <1>1 DEF SlotFlags, Extensions
  <1>6. WiiReport(h, d, kind) =
          CASE kind = "status_plugged" -> Say("INIT_EXTENSION")
            [] kind = "status" -> With("SELECT_REPORT", f \ Extensions)
            [] kind = "memory" -> With("SELECT_REPORT", (f \ Extensions) \cup {"nunchuk"})
            [] kind = "written" /\ "extension_read" \notin f ->
                 With("READ_TYPE", f \cup {"extension_read"})
            [] kind = "written" /\ "extension_read" \in f /\ "encryption_disabled" \notin f ->
                 With("NO_ENCRYPTION", f \cup {"encryption_disabled"})
            [] kind = "core" -> Say("SELECT_REPORT")
            [] OTHER -> h
    BY DEF WiiReport
  <1>7. /\ Mild(h, Say("INIT_EXTENSION")) /\ Mild(h, Say("SELECT_REPORT"))
        /\ Mild(h, With("SELECT_REPORT", f \ Extensions))
        /\ Mild(h, With("SELECT_REPORT", (f \ Extensions) \cup {"nunchuk"}))
        /\ Mild(h, With("READ_TYPE", f \cup {"extension_read"}))
        /\ Mild(h, With("NO_ENCRYPTION", f \cup {"encryption_disabled"}))
    <2>. HIDE DEF Say, With
    <2>1. QED
      BY <1>1, <1>2, <1>3, <1>5 DEF Data
  <1>. HIDE DEF Say, With, f
  <1>8. QED
    BY <1>4, <1>6, <1>7

(* WII.hid.                                                                *)
LEMMA WiiMild ==
  ASSUME NEW h, Good(h), NEW d \in Devices, Found(h, d), NEW kind
  PROVE  Mild(h, wii_hid(h, d, kind))
  <1>. DEFINE g == find_slot(h, d)
  <1>1. Mild(h, g) /\ Good(g) /\ h \in Host
    BY FindServes, FindMild DEF Serves, Good
  <1>2. wii_hid(h, d, kind) \in {g, h} \/
          (g.inp[d].wii # NoSlot /\ wii_hid(h, d, kind) = WiiReport(g, d, kind))
    BY DEF wii_hid
  <1>. HIDE DEF g
  <1>3. g.inp[d].wii # NoSlot => Mild(g, WiiReport(g, d, kind))
    BY <1>1, ReportMild
  <1>4. g.inp[d].wii # NoSlot => Mild(h, WiiReport(g, d, kind))
    BY <1>1, <1>3, MildTrans
  <1>5. QED
    BY <1>1, <1>2, <1>4, MildTrans

(* A round of HIDSource.get about one device.                              *)
LEMMA ServicedMild ==
  ASSUME NEW h, Good(h), NEW d \in Devices
  PROVE  Mild(h, Serviced(h, d))
  <1>. DEFINE g == IF h.inp[d].interrupt # 0 /\ Gone(h, h.inp[d].interrupt)
                   THEN disconnection_complete(h, d) ELSE h
  <1>1. Mild(h, g) /\ g \in Host /\ h \in Host
    BY DisconnectionMild, MildTrans DEF Mild, Good
  <1>2. Serviced(h, d) \in {g, update_sdp(g, d)}
    <2>. HIDE DEF g
    <2>1. QED
      BY DEF Serviced, g
  <1>. HIDE DEF g
  <1>3. Mild(g, update_sdp(g, d))
    BY <1>1, UpdateSdpMild
  <1>4. QED
    BY <1>1, <1>2, <1>3, MildTrans

(* The loop of get over _devices.                                          *)
LEMMA AllServicedMild ==
  ASSUME NEW h, Good(h), NEW n \in 0 .. Len(h.hids)
  PROVE  Mild(h, AllServiced(h, n))
  <1>. DEFINE X == {g \in Host : Good(g) /\ Mild(h, g)}
              Pass(g, k) == IF k \in 1 .. n THEN Serviced(g, h.hids[k]) ELSE g
              F == [a \in X \X Nat |-> Pass(a[1], a[2])]
              after == CHOOSE s : s = [k \in 0 .. n |->
                                         IF k = 0 THEN h ELSE Serviced(s[k - 1], h.hids[k])]
  <1>1. h \in X /\ h.hids \in Seq(Devices) /\ n \in Nat
    BY MildTrans, HostParts DEF Good
  <1>2. \A k \in 1 .. n : h.hids[k] \in Devices
    BY <1>1
  <1>3. ASSUME NEW g \in X, NEW k \in Nat PROVE Pass(g, k) \in X
    <2>1. CASE k \notin 1 .. n
      BY <2>1
    <2>2. CASE k \in 1 .. n
      <3>. DEFINE f == Serviced(g, h.hids[k])
      <3>1. Mild(g, f) /\ Good(f)
        BY <1>2, <2>2, ServicedMild, ServicedServes DEF Attends, Serves
      <3>. HIDE DEF f
      <3>2. Mild(h, f) /\ f \in Host
        BY <1>1, <3>1, MildTrans DEF Good
      <3>3. QED
        BY <2>2, <3>1, <3>2 DEF f
    <2>3. QED
      BY <2>1, <2>2
  <1>4. F \in [X \X Nat -> X]
    <2>. HIDE DEF Pass, X
    <2>1. QED
      BY <1>3
  <1>5. PICK s : Passes(s, n, X, h, F)
    <2>. HIDE DEF F, X
    <2>1. QED
      BY <1>1, <1>4, LoopStates
  <1>6. ASSUME NEW k \in 1 .. n PROVE s[k] = Serviced(s[k - 1], h.hids[k])
    <2>1. k - 1 \in 0 .. n /\ k \in Nat
      BY <1>1
    <2>2. s[k - 1] \in X
      <3>. HIDE DEF X
      <3>1. QED
        BY <1>5, <2>1 DEF Passes
    <2>3. s[k] = Pass(s[k - 1], k)
      <3>. HIDE DEF Pass, X
      <3>1. QED
        BY <1>5, <2>1, <2>2 DEF Passes
    <2>4. QED
      BY <2>3
  <1>7. s = [k \in 0 .. n |-> IF k = 0 THEN h ELSE Serviced(s[k - 1], h.hids[k])]
    BY <1>1, <1>5, <1>6 DEF Passes
  <1>8. after = [k \in 0 .. n |-> IF k = 0 THEN h ELSE Serviced(after[k - 1], h.hids[k])]
    BY <1>7
  <1>9. AllServiced(h, n) = after[n]
    BY DEF AllServiced
  <1>. HIDE DEF after
  <1>10. after[0] \in X
    BY <1>1, <1>8
  <1>11. ASSUME NEW k \in 1 .. n, after[k - 1] \in X PROVE after[k] \in X
    <2>1. after[k] = Pass(after[k - 1], k) /\ k \in Nat
      BY <1>1, <1>8
    <2>. HIDE DEF X, Pass
    <2>2. QED
      BY <1>3, <1>11, <2>1
  <1>12. after[n] \in X
    <2>. HIDE DEF X
    <2>1. QED
      BY <1>1, <1>10, <1>11, LoopStays
  <1>13. QED
    BY <1>9, <1>12

----------------------------------------------------------------------------
(* Bluetooth: the handlers that open no channel and bring no data.         *)

(* add_device.                                                             *)
LEMMA AddMild ==
  ASSUME NEW h, Good(h), NEW d \in Devices, h.bt[d].known
  PROVE  Mild(h, add_device(h, d))
  <1>. DEFINE g == [h EXCEPT !.hids = Append(h.hids, d), !.inp[d] = NewInputDevice]
  <1>0. h \in Host
    BY DEF Good
  <1>1. add_device(h, d) \in {h, g}
    BY DEF add_device
  <1>2. add_device(h, d) \in Host
    BY AddGood DEF Good
  <1>3. ASSUME g \in Host PROVE Mild(h, g)
    <2>1. /\ g.bt = h.bt /\ g.cid = h.cid /\ g.kept = h.kept /\ g.tx = h.tx
          /\ \A e \in Devices : g.inp[e].interrupt \in {h.inp[e].interrupt, 0}
      BY <1>0, HostParts DEF Fields, NewInputDevice
    <2>. HIDE DEF g
    <2>2. QED
      BY <1>0, <1>3, <2>1, RestMild
  <1>. HIDE DEF g
  <1>4. QED
    BY <1>0, <1>1, <1>2, <1>3, MildTrans

(* The steps of the handshake.                                             *)
LEMMA FlagMild ==
  ASSUME NEW h \in Host, h.state # NotSent
  PROVE  /\ \A f \in Flags : Mild(h, WithFlag(h, f))
         /\ \A op \in HandshakeSteps : Mild(h, Command(h, op))
         /\ Mild(h, start_inquiry(h))
  <1>1. ASSUME NEW g \in Host, g.state # NotSent, NEW f \in Flags
        PROVE  Mild(g, WithFlag(g, f))
    <2>. DEFINE k == WithFlag(g, f)
    <2>1. k \in Host
      BY <1>1, FlagMinor DEF Minor
    <2>2. k.bt = g.bt /\ k.cid = g.cid /\ k.kept = g.kept /\ k.inp = g.inp /\ k.tx = g.tx
      BY <1>1, HostParts DEF Fields, WithFlag
    <2>. HIDE DEF k
    <2>3. Mild(g, k)
      BY <2>1, <2>2, <1>1, RestMild
    <2>4. QED
      BY <2>3 DEF k
  <1>2. ASSUME NEW op \in HandshakeSteps PROVE Mild(h, Command(h, op))
    <2>1. Cmd(h, op, "none") \in Host
      BY CmdSpeaks DEF Speaks
    <2>2. QED
      BY <2>1, CmdMild DEF Command
  <1>3. Mild(h, start_inquiry(h))
    <2>. DEFINE g == WithFlag(h, "INQUIRY")
    <2>1. Mild(h, g) /\ g \in Host
      BY <1>1 DEF Flags, Mild
    <2>2. start_inquiry(h) \in {h, Cmd(g, "INQUIRY", "none")}
      BY DEF start_inquiry, Command
    <2>. HIDE DEF g
    <2>3. Cmd(g, "INQUIRY", "none") \in Host
      BY <2>1, CmdSpeaks DEF Speaks
    <2>4. Mild(g, Cmd(g, "INQUIRY", "none"))
      BY <2>1, <2>3, CmdMild
    <2>5. QED
      BY <2>1, <2>2, <2>4, MildTrans
  <1>4. QED
    BY <1>1, <1>2, <1>3

(* A completed command.                                                    *)
LEMMA CommandCompleteMild ==
  ASSUME NEW h \in Host, h.state # NotSent, NEW op \in HandshakeSteps
  PROVE  Mild(h, CommandComplete(h, op))
  <1>. DEFINE Fit(g) == Mild(h, g) /\ g \in Host /\ g.state # NotSent
  <1>1. Fit(h)
    BY MildTrans
  <1>2. ASSUME NEW g, Fit(g)
        PROVE  /\ \A f \in Flags : Fit(WithFlag(g, f))
               /\ \A o \in HandshakeSteps : Fit(Command(g, o))
               /\ Fit(start_inquiry(g))
    <2>1. \A k : Mild(g, k) /\ Minor(g, k) => Fit(k)
      BY <1>2, FlagMinor, MildTrans
    <2>. HIDE DEF Fit
    <2>2. g \in Host /\ g.state # NotSent
      BY <1>2 DEF Fit
    <2>3. QED
      BY <2>1, <2>2, FlagMinor, FlagMild
  <1>. HIDE DEF Fit
  <1>3. /\ Fit(WithFlag(Command(h, "READ_BUFFER_SIZE"), "RESET"))
        /\ Fit(WithFlag(Command(h, "READ_BD_ADDR"), "READ_BUFFER_SIZE"))
    BY <1>1, <1>2 DEF HandshakeSteps, Flags
  <1>4. Fit(Command(Command(WithFlag(h, "READ_BD_ADDR"), "WRITE_CLASS_OF_DEVICE"),
                    "WRITE_SCAN_ENABLE"))
    BY <1>1, <1>2 DEF HandshakeSteps, Flags
  <1>5. Fit(Command(start_inquiry(WithFlag(h, "INITED")), "WRITE_AUTH_ENABLE"))
    BY <1>1, <1>2 DEF HandshakeSteps, Flags
  <1>6. Fit(CommandComplete(h, op))
    BY <1>1, <1>3, <1>4, <1>5 DEF CommandComplete
  <1>7. QED
    BY <1>6 DEF Fit

(* HCI.add_device.                                                         *)
LEMMA KnownMild ==
  ASSUME NEW h \in Host, NEW d \in Devices
  PROVE  Mild(h, Known(h, d))
  <1>1. CASE h.bt[d].known
    BY <1>1, MildTrans DEF Known
  <1>2. CASE ~h.bt[d].known
    <2>. DEFINE b == NewDevice
    <2>1. b \in Device /\ DOMAIN b.sockets = {} /\ b.into = 0
      BY SocketMaps DEF NewDevice, Device, Links
    <2>2. Known(h, d) = [h EXCEPT !.bt[d] = b]
      BY <1>2 DEF Known
    <2>. HIDE DEF b
    <2>3. QED
      BY <2>1, <2>2, DeviceMild
  <1>3. QED
    BY <1>1, <1>2

(* The loop that calls every device after an inquiry.                      *)
LEMMA InquiryCompMild ==
  ASSUME NEW h \in Host, KnownOK(h)
  PROVE  Mild(h, InquiryComp(h))
  <1>. DEFINE n == Len(h.hids)
              x == [h EXCEPT !.state = @ \ {"INQUIRY"}]
              X == {g \in Host : Mild(h, g) /\ Minor(h, g)}
              Pass(g, k) == IF k \in 1 .. n THEN connect(g, h.hids[k]) ELSE g
              F == [a \in X \X Nat |-> Pass(a[1], a[2])]
              after == CHOOSE s : s = [k \in 0 .. n |->
                                         IF k = 0 THEN x ELSE connect(s[k - 1], h.hids[k])]
  <1>1. n \in Nat /\ \A k \in 1 .. n : h.hids[k] \in Devices /\ h.bt[h.hids[k]].known
    <2>1. h.hids \in Seq(Devices)
      BY HostParts
    <2>2. \A k \in 1 .. n : h.hids[k] \in Devices /\ Found(h, h.hids[k])
      BY <2>1 DEF Found, Range
    <2>3. QED
      BY <2>1, <2>2 DEF KnownOK
  <1>2. x \in X
    <2>1. "-1" \notin Flags
      BY DEF Flags
    <2>2. /\ h.state \ {"INQUIRY"} \in (SUBSET Flags) \cup {NotSent}
          /\ h.state \ {"INQUIRY"} = NotSent => h.state = NotSent
      BY <2>1, HostParts DEF NotSent
    <2>3. Minor(h, x) /\ x \in Host
      BY <2>2, PutRest DEF Minor
    <2>4. x.bt = h.bt /\ x.cid = h.cid /\ x.kept = h.kept /\ x.inp = h.inp /\ x.tx = h.tx
      BY HostParts DEF Fields
    <2>. HIDE DEF x
    <2>5. QED
      BY <2>3, <2>4, RestMild
  <1>. HIDE DEF x
  <1>3. ASSUME NEW g \in X, NEW k \in Nat PROVE Pass(g, k) \in X
    <2>1. CASE k \notin 1 .. n
      BY <2>1
    <2>2. CASE k \in 1 .. n
      <3>. DEFINE f == connect(g, h.hids[k])
      <3>1. Minor(g, f) /\ Mild(g, f)
        <4>1. h.hids[k] \in Devices /\ Tracks(h, g)
          BY <1>1, <2>2 DEF Minor, Effect
        <4>2. g.bt[h.hids[k]].known
          BY <1>1, <2>2, <4>1 DEF Tracks
        <4>3. QED
          BY <4>1, <4>2, ConnectMinor, ConnectMild
      <3>. HIDE DEF f
      <3>2. Minor(h, f) /\ Mild(h, f) /\ f \in Host
        BY <3>1, MinorTrans, MildTrans DEF Minor
      <3>3. QED
        BY <2>2, <3>2 DEF f
    <2>3. QED
      BY <2>1, <2>2
  <1>4. F \in [X \X Nat -> X]
    <2>. HIDE DEF Pass, X
    <2>1. QED
      BY <1>3
  <1>5. PICK s : Passes(s, n, X, x, F)
    <2>. HIDE DEF F, X, n
    <2>1. QED
      BY <1>1, <1>2, <1>4, LoopStates
  <1>6. ASSUME NEW k \in 1 .. n PROVE s[k] = connect(s[k - 1], h.hids[k])
    <2>1. k - 1 \in 0 .. n /\ k \in Nat
      BY <1>1
    <2>2. s[k - 1] \in X
      <3>. HIDE DEF X, n
      <3>1. QED
        BY <1>5, <2>1 DEF Passes
    <2>3. s[k] = Pass(s[k - 1], k)
      <3>. HIDE DEF Pass, X
      <3>1. QED
        BY <1>5, <2>1, <2>2 DEF Passes
    <2>4. QED
      BY <2>3
  <1>7. s = [k \in 0 .. n |-> IF k = 0 THEN x ELSE connect(s[k - 1], h.hids[k])]
    BY <1>1, <1>5, <1>6 DEF Passes
  <1>8. after = [k \in 0 .. n |-> IF k = 0 THEN x ELSE connect(after[k - 1], h.hids[k])]
    BY <1>7
  <1>9. InquiryComp(h) = after[n]
    BY DEF InquiryComp, x
  <1>. HIDE DEF after
  <1>10. after[0] \in X
    <2>1. after[0] = x
      BY <1>1, <1>8
    <2>. HIDE DEF X
    <2>2. QED
      BY <1>2, <2>1
  <1>11. ASSUME NEW k \in 1 .. n, after[k - 1] \in X PROVE after[k] \in X
    <2>1. after[k] = Pass(after[k - 1], k) /\ k \in Nat
      BY <1>1, <1>8
    <2>. HIDE DEF X, Pass
    <2>2. QED
      BY <1>3, <1>11, <2>1
  <1>12. after[n] \in X
    <2>. HIDE DEF X
    <2>1. QED
      BY <1>1, <1>10, <1>11, LoopStays
  <1>13. QED
    BY <1>9, <1>12

----------------------------------------------------------------------------
(* Calls that bring no report: they may open channels.                     *)

CalmTo(h, g, e) ==
  /\ g.bt[e].into \in {h.bt[e].into, 0, 1}
  /\ g.inp[e].interrupt \in {h.inp[e].interrupt, 0} \/ g.inp[e].interrupt >= h.cid
  /\ EndOf(Inbox(g, e), Inbox(h, e))
Calm(h, g) == g \in Host /\ Apt(g) /\ g.cid >= h.cid /\ \A e \in Devices : CalmTo(h, g, e)

(* The numbers in the host.                                                *)
LEMMA Numbers ==
  ASSUME NEW h \in Host
  PROVE  /\ h.cid \in Nat /\ h.cid >= 64 /\ Reads(h) \subseteq Cids
         /\ \A e \in Devices : /\ h.inp[e].interrupt \in Nat /\ h.bt[e].into \in Nat
                               /\ h.inp[e].interrupt # 0 => h.inp[e].interrupt \in Reads(h)
                               /\ h.inp[e].interrupt # 0 => h.inp[e].interrupt >= 64
                               /\ Inbox(h, e) \in Seq(Load)
                               /\ \A s \in Sockets(h, e) : s \in Nat /\ s >= 64
  <1>1. h.cid \in Nat /\ h.cid >= 64
    BY HostParts DEF Cids, FirstCid
  <1>2. ASSUME NEW e \in Devices
        PROVE  /\ h.inp[e].interrupt \in Cids \cup {0} /\ h.bt[e].into \in Nat
               /\ \A s \in Sockets(h, e) : s \in Cids
               /\ Inbox(h, e) \in Seq(Load)
    BY InputParts, DeviceParts, SocketQueue DEF Sids, Inbox
  <1>3. QED
    BY <1>1, <1>2 DEF Reads, Cids, FirstCid

(* What is mild is calm.                                                   *)
LEMMA MildCalm ==
  ASSUME NEW h \in Host, Apt(h), NEW g, Mild(h, g)
  PROVE  Calm(h, g)
  <1>1. g \in Host /\ g.cid = h.cid /\ g.kept = h.kept /\ h.cid \in Nat /\ h.cid >= 64
    BY Numbers DEF Mild
  <1>2. ASSUME NEW e \in Devices PROVE MildTo(h, g, e)
    BY DEF Mild
  <1>3. Reads(g) \subseteq Reads(h)
    BY <1>2 DEF Reads, MildTo
  <1>4. \A e \in Devices : \A s \in Sockets(g, e) : Proper(g, g.bt[e].sockets[s].psm, s)
    BY <1>1, <1>2, <1>3 DEF Apt, Proper, MildTo
  <1>5. ASSUME NEW k \in DOMAIN g.tx, Offer(g.tx[k]) PROVE Proper(g, g.tx[k].psm, g.tx[k].scid)
    <2>1. CASE Backed(h, g.tx[k].psm, g.tx[k].scid)
      BY <1>1, <1>3, <2>1 DEF Backed, Apt, Proper
    <2>2. CASE \E j \in DOMAIN h.tx : h.tx[j] = g.tx[k]
      <3>1. PICK j \in DOMAIN h.tx : h.tx[j] = g.tx[k]
        BY <2>2
      <3>2. Proper(h, h.tx[j].psm, h.tx[j].scid)
        BY <1>5, <3>1 DEF Apt
      <3>3. QED
        BY <1>1, <1>3, <3>1, <3>2 DEF Proper
    <2>3. QED
      BY <1>5, <2>1, <2>2 DEF Mild, Queues
  <1>6. \A e \in Devices : g.bt[e].into < g.cid
    BY <1>1, <1>2 DEF Apt, MildTo
  <1>7. Apt(g)
    BY <1>1, <1>3, <1>4, <1>5, <1>6 DEF Apt
  <1>8. ASSUME NEW e \in Devices PROVE CalmTo(h, g, e)
    <2>1. EndOf(Inbox(g, e), Inbox(h, e))
      <3>1. CASE g.inp[e].interrupt \in Sockets(g, e)
        <4>1. g.inp[e].interrupt = h.inp[e].interrupt
          BY <1>1, <1>2, <3>1, Numbers DEF MildTo
        <4>2. /\ g.inp[e].interrupt \in Sockets(h, e)
              /\ EndOf(g.bt[e].sockets[g.inp[e].interrupt].q,
                       h.bt[e].sockets[g.inp[e].interrupt].q)
          BY <1>2, <3>1 DEF MildTo
        <4>3. QED
          BY <3>1, <4>1, <4>2 DEF Inbox
      <3>2. CASE g.inp[e].interrupt \notin Sockets(g, e)
        BY <3>2, Numbers, EndOfEnd DEF Inbox
      <3>3. QED
        BY <3>1, <3>2
    <2>2. QED
      BY <1>2, <2>1 DEF CalmTo, MildTo
  <1>9. QED
    BY <1>1, <1>7, <1>8 DEF Calm

(* To do nothing is calm, and so are two calm calls in a row.              *)
LEMMA CalmTrans ==
  /\ \A h \in Host : Apt(h) => Calm(h, h)
  /\ \A h \in Host : \A g, f : Calm(h, g) /\ Calm(g, f) => Calm(h, f)
  /\ \A h \in Host : \A g, f : Calm(h, g) /\ Mild(g, f) => Calm(h, f)
  /\ \A h \in Host : \A g, f : Apt(h) /\ Mild(h, g) /\ Calm(g, f) => Calm(h, f)
  <1>1. ASSUME NEW h \in Host, Apt(h) PROVE Calm(h, h)
    BY <1>1, MildTrans, MildCalm
  <1>2. ASSUME NEW h \in Host, NEW g, NEW f, Calm(h, g), Calm(g, f) PROVE Calm(h, f)
    <2>1. g \in Host /\ f \in Host /\ Apt(f) /\ g.cid >= h.cid /\ f.cid >= g.cid
      BY <1>2 DEF Calm
    <2>2. h.cid \in Nat /\ g.cid \in Nat /\ f.cid \in Nat
      BY <2>1, Numbers
    <2>3. ASSUME NEW e \in Devices PROVE CalmTo(h, f, e)
      <3>1. CalmTo(h, g, e) /\ CalmTo(g, f, e)
        BY <1>2 DEF Calm
      <3>2. EndOf(Inbox(f, e), Inbox(h, e))
        BY <2>1, <3>1, Numbers, EndOfEnd DEF CalmTo
      <3>3. f.inp[e].interrupt \in Nat /\ g.inp[e].interrupt \in Nat
        BY <2>1, Numbers
      <3>4. f.inp[e].interrupt \in {h.inp[e].interrupt, 0} \/ f.inp[e].interrupt >= h.cid
        BY <2>1, <2>2, <3>1, <3>3 DEF CalmTo
      <3>5. QED
        BY <3>1, <3>2, <3>4 DEF CalmTo
    <2>4. QED
      BY <2>1, <2>2, <2>3 DEF Calm
  <1>3. ASSUME NEW g, NEW f, g \in Host, Apt(g), Mild(g, f) PROVE Calm(g, f)
    BY <1>3, MildCalm
  <1>4. QED
    BY <1>1, <1>2, <1>3 DEF Calm, Mild

(* What the device's channel is kept in: l2_open changes nothing else.     *)
LEMMA OpenParts ==
  ASSUME NEW h \in Host, NEW d \in Devices, NEW psm \in Psms, NEW listen \in BOOLEAN
  PROVE  LET g == l2_open(h, d, psm, listen)
         IN /\ g \in Host /\ g.cid = h.cid + 1 /\ g.inp = h.inp /\ g.kept = h.kept
            /\ \A e \in Devices \ {d} : g.bt[e] = h.bt[e]
            /\ g.bt[d].into = h.bt[d].into
            /\ Sockets(g, d) = Sockets(h, d) \cup {h.cid}
            /\ g.bt[d].sockets[h.cid].psm = psm /\ g.bt[d].sockets[h.cid].q = <<>>
            /\ \A s \in Sockets(h, d) \ {h.cid} : g.bt[d].sockets[s] = h.bt[d].sockets[s]
            /\ \A k \in DOMAIN g.tx : Offer(g.tx[k]) =>
                 \/ g.tx[k].psm = psm /\ g.tx[k].scid = h.cid
                 \/ \E j \in DOMAIN h.tx : h.tx[j] = g.tx[k]
  <1>. DEFINE s == [psm |-> psm, dcid |-> NoEnd, q |-> <<>>,
                    state |-> IF listen THEN "LISTENING" ELSE "OPENING"]
              m == [i \in DOMAIN h.bt[d].sockets \cup {h.cid} |->
                      IF i = h.cid THEN s ELSE h.bt[d].sockets[i]]
              b == [h.bt[d] EXCEPT !.sockets = m]
              bt == [h.bt EXCEPT ![d] = b]
              g == [h EXCEPT !.cid = h.cid + 1, !.bt = bt]
              p == [op |-> "ACL", handle |-> g.bt[d].handle,
                    cmd |-> "CONN_REQ", psm |-> psm, scid |-> h.cid]
              r == l2_open(h, d, psm, listen)
  <1>1. r \in Host /\ r.cid = h.cid + 1 /\ r.inp = h.inp /\ Sockets(r, d) = Sockets(h, d) \cup {h.cid}
    BY OpenEffect DEF Effect, Claimed
  <1>2. /\ m[h.cid].psm = psm /\ m[h.cid].q = <<>>
        /\ \A i \in Sockets(h, d) \ {h.cid} : m[i] = h.bt[d].sockets[i]
    BY DEF Sockets
  <1>. HIDE DEF m
  <1>3. b.sockets = m /\ b.into = h.bt[d].into
    BY DeviceParts DEF Device
  <1>. HIDE DEF b
  <1>4. bt[d] = b /\ \A e \in Devices \ {d} : bt[e] = h.bt[e]
    BY HostParts
  <1>. HIDE DEF bt
  <1>5. g.bt = bt /\ g.kept = h.kept /\ g.tx = h.tx
    BY HostParts DEF Fields
  <1>6. g = [h EXCEPT !.cid = @ + 1,
                      !.bt[d].sockets = [i \in DOMAIN @ \cup {h.cid} |->
                                           IF i = h.cid THEN s ELSE @[i]]]
    BY HostParts DEF Fields, bt, b, m
  <1>7. r = IF listen THEN g ELSE [g EXCEPT !.tx = Queued(g.tx, p)]
    <2>. HIDE DEF g
    <2>1. QED
      BY <1>6 DEF l2_open, SendAcl
  <1>8. p.psm = psm /\ p.scid = h.cid
    OBVIOUS
  <1>9. h.tx \in Seq(TxPacket)
    BY HostParts
  <1>10. /\ r.bt = bt /\ r.kept = h.kept
         /\ r.tx \in {h.tx, Queued(h.tx, p)}
    <2>. HIDE DEF p
    <2>1. QED
      BY <1>5, <1>7, HostParts DEF Fields
  <1>. HIDE DEF p, r, g
  <1>11. ASSUME NEW k \in DOMAIN r.tx
         PROVE  r.tx[k] = p \/ \E j \in DOMAIN h.tx : h.tx[j] = r.tx[k]
    <2>1. CASE r.tx = h.tx
      BY <2>1
    <2>2. CASE r.tx = Queued(h.tx, p)
      BY <1>9, <2>2, QueuedIn
    <2>3. QED
      BY <1>10, <2>1, <2>2
  <1>12. \A k \in DOMAIN r.tx : Offer(r.tx[k]) => \/ r.tx[k].psm = psm /\ r.tx[k].scid = h.cid
                                                  \/ \E j \in DOMAIN h.tx : h.tx[j] = r.tx[k]
    BY <1>8, <1>11
  <1>13. QED
    BY <1>1, <1>2, <1>3, <1>4, <1>10, <1>12 DEF r

(* The new channel is nobody's interrupt channel yet.                      *)
LEMMA OpenCalm ==
  ASSUME NEW h \in Host, Apt(h), NEW d \in Devices, NEW psm \in Psms, NEW listen \in BOOLEAN
  PROVE  Calm(h, l2_open(h, d, psm, listen))
  <1>. DEFINE g == l2_open(h, d, psm, listen)
  <1>1. /\ g \in Host /\ g.cid = h.cid + 1 /\ g.inp = h.inp /\ g.kept = h.kept
        /\ \A e \in Devices \ {d} : g.bt[e] = h.bt[e]
        /\ g.bt[d].into = h.bt[d].into
        /\ Sockets(g, d) = Sockets(h, d) \cup {h.cid}
        /\ g.bt[d].sockets[h.cid].psm = psm /\ g.bt[d].sockets[h.cid].q = <<>>
        /\ \A s \in Sockets(h, d) \ {h.cid} : g.bt[d].sockets[s] = h.bt[d].sockets[s]
        /\ \A k \in DOMAIN g.tx : Offer(g.tx[k]) =>
             \/ g.tx[k].psm = psm /\ g.tx[k].scid = h.cid
             \/ \E j \in DOMAIN h.tx : h.tx[j] = g.tx[k]
    BY OpenParts
  <1>. HIDE DEF g
  <1>2. h.cid \in Nat /\ Reads(g) = Reads(h)
    BY <1>1, Numbers DEF Reads
  <1>3. /\ Proper(g, psm, h.cid)
        /\ \A x, s : s \in Nat /\ Proper(h, x, s) => Proper(g, x, s)
    BY <1>1, <1>2 DEF Proper, Apt
  <1>4. ASSUME NEW e \in Devices, NEW s \in Sockets(g, e)
        PROVE  Proper(g, g.bt[e].sockets[s].psm, s)
    <2>1. CASE e = d /\ s = h.cid
      BY <1>1, <1>3, <2>1
    <2>2. CASE ~(e = d /\ s = h.cid)
      <3>1. s \in Sockets(h, e) /\ g.bt[e].sockets[s] = h.bt[e].sockets[s]
        BY <1>1, <2>2 DEF Sockets
      <3>2. Proper(h, h.bt[e].sockets[s].psm, s) /\ s \in Nat
        BY <3>1, Numbers DEF Apt
      <3>3. QED
        BY <1>3, <3>1, <3>2
    <2>3. QED
      BY <2>1, <2>2
  <1>5. ASSUME NEW k \in DOMAIN g.tx, Offer(g.tx[k]) PROVE Proper(g, g.tx[k].psm, g.tx[k].scid)
    <2>1. CASE \E j \in DOMAIN h.tx : h.tx[j] = g.tx[k]
      <3>1. PICK j \in DOMAIN h.tx : h.tx[j] = g.tx[k]
        BY <2>1
      <3>2. Proper(h, h.tx[j].psm, h.tx[j].scid)
        BY <1>5, <3>1 DEF Apt
      <3>3. h.tx[j].scid \in Nat
        <4>1. h.tx[j] \in TxPacket /\ h.tx[j].op = "ACL"
          BY <1>5, <3>1, HostParts DEF Offer
        <4>2. QED
          BY <4>1 DEF TxPacket, TxQuiet, TxAcl, TxAuth, AddressOps, DeviceOps, HandshakeSteps, Sids, Cids
      <3>4. QED
        BY <1>3, <3>1, <3>2, <3>3
    <2>2. QED
      BY <1>1, <1>3, <1>5, <2>1
  <1>6. Apt(g)
    <2>1. \A s \in Reads(g) : s < g.cid
      BY <1>1, <1>2, Numbers DEF Apt, Cids
    <2>2. \A e \in Devices : g.bt[e].into < g.cid
      <3>1. \A e \in Devices : g.bt[e].into = h.bt[e].into
        BY <1>1
      <3>2. QED
        BY <1>1, <1>2, <3>1, Numbers DEF Apt
    <2>3. QED
      BY <1>1, <1>4, <1>5, <2>1, <2>2 DEF Apt
  <1>7. ASSUME NEW e \in Devices PROVE CalmTo(h, g, e)
    <2>1. g.inp[e].interrupt = h.inp[e].interrupt /\ g.bt[e].into = h.bt[e].into
      BY <1>1
    <2>2. Inbox(g, e) \in {Inbox(h, e), <<>>}
      <3>1. CASE e = d
        <4>. DEFINE i == h.inp[d].interrupt
        <4>1. CASE i = h.cid
          <5>1. Inbox(g, d) = <<>>
            BY <1>1, <4>1 DEF Inbox
          <5>2. QED
            BY <3>1, <5>1
        <4>2. CASE i # h.cid
          <5>1. i \in Sockets(g, d) <=> i \in Sockets(h, d)
            BY <1>1, <4>2
          <5>2. i \in Sockets(h, d) => g.bt[d].sockets[i] = h.bt[d].sockets[i]
            BY <1>1, <4>2
          <5>3. Inbox(g, d) = Inbox(h, d)
            BY <1>1, <5>1, <5>2 DEF Inbox
          <5>4. QED
            BY <3>1, <5>3
        <4>3. QED
          BY <4>1, <4>2
      <3>2. CASE e # d
        BY <1>1, <3>2 DEF Inbox, Sockets
      <3>3. QED
        BY <3>1, <3>2
    <2>3. EndOf(Inbox(g, e), Inbox(h, e))
      BY <2>2, Numbers, EndOfEnd
    <2>4. QED
      BY <2>1, <2>3 DEF CalmTo
  <1>8. Calm(h, g)
    BY <1>1, <1>2, <1>6, <1>7 DEF Calm
  <1>9. QED
    BY <1>8 DEF g

(* The id of the new interrupt channel is nobody else's.                   *)
LEMMA OpenHidCalm ==
  ASSUME NEW h \in Host, Apt(h), NEW d \in Devices, NEW listen \in BOOLEAN
  PROVE  Calm(h, OpenHid(h, d, listen))
  <1>. DEFINE g == l2_open(h, d, "control", listen)
              f == l2_open(g, d, "interrupt", listen)
              i == [f.inp[d] EXCEPT !.control = h.cid, !.interrupt = g.cid]
              inp == [f.inp EXCEPT ![d] = i]
              r == [f EXCEPT !.inp = inp]
              n == g.cid
  <1>1. Calm(h, g) /\ g \in Host /\ Apt(g) /\ n >= h.cid /\ h.cid \in Nat
    BY OpenCalm, Numbers DEF Psms, Calm
  <1>2. OpenHid(h, d, listen) = [f EXCEPT !.inp[d].control = h.cid, !.inp[d].interrupt = g.cid]
    BY DEF OpenHid
  <1>. HIDE DEF g
  <1>3. /\ f \in Host /\ f.cid = n + 1 /\ f.inp = g.inp /\ f.kept = g.kept
        /\ \A e \in Devices \ {d} : f.bt[e] = g.bt[e]
        /\ f.bt[d].into = g.bt[d].into
        /\ Sockets(f, d) = Sockets(g, d) \cup {n}
        /\ f.bt[d].sockets[n].psm = "interrupt" /\ f.bt[d].sockets[n].q = <<>>
        /\ \A s \in Sockets(g, d) \ {n} : f.bt[d].sockets[s] = g.bt[d].sockets[s]
        /\ \A k \in DOMAIN f.tx : Offer(f.tx[k]) =>
             \/ f.tx[k].psm = "interrupt" /\ f.tx[k].scid = n
             \/ \E j \in DOMAIN g.tx : g.tx[j] = f.tx[k]
    BY <1>1, OpenParts DEF Psms
  <1>4. Calm(g, f)
    BY <1>1, OpenCalm DEF Psms
  <1>5. Calm(h, f) /\ Apt(f)
    BY <1>1, <1>4, CalmTrans DEF Calm
  <1>6. OpenHid(h, d, listen) \in Host
    BY OpenHidEffect DEF Effect, Claimed
  <1>7. OpenHid(h, d, listen) = r
    BY <1>2, <1>3, HostParts DEF Fields
  <1>. HIDE DEF f
  <1>8. /\ i.interrupt = n
        /\ \A e \in Devices : inp[e] = IF e = d THEN i ELSE f.inp[e]
    BY <1>3, InputParts, HostParts DEF Input
  <1>. HIDE DEF i, inp
  <1>9. r.inp = inp /\ r.bt = f.bt /\ r.cid = f.cid /\ r.kept = f.kept /\ r.tx = f.tx
    BY <1>3, HostParts DEF Fields
  <1>10. r \in Host
    BY <1>6, <1>7
  <1>. HIDE DEF r
  <1>11. n \in Nat
    BY <1>1, Numbers
  <1>12. Reads(r) \subseteq Reads(f) \cup {n}
    BY <1>8, <1>9 DEF Reads
  <1>13. ASSUME NEW e \in Devices, NEW s \in Sockets(r, e)
         PROVE  Proper(r, r.bt[e].sockets[s].psm, s)
    <2>1. s \in Sockets(f, e) /\ r.bt[e].sockets[s] = f.bt[e].sockets[s]
      BY <1>9 DEF Sockets
    <2>2. Proper(f, f.bt[e].sockets[s].psm, s)
      BY <1>5, <2>1 DEF Apt
    <2>3. CASE e = d /\ s = n
      BY <1>3, <1>9, <2>1, <2>2, <2>3 DEF Proper
    <2>4. CASE ~(e = d /\ s = n)
      <3>1. s \in Sockets(g, e)
        BY <1>3, <2>1, <2>4 DEF Sockets
      <3>2. s < n /\ s \in Nat
        BY <1>1, <3>1, Numbers DEF Apt, Proper
      <3>3. s # n
        BY <1>11, <3>2
      <3>4. QED
        BY <1>9, <1>12, <2>1, <2>2, <3>3 DEF Proper
    <2>5. QED
      BY <2>3, <2>4
  <1>14. ASSUME NEW k \in DOMAIN r.tx, Offer(r.tx[k]) PROVE Proper(r, r.tx[k].psm, r.tx[k].scid)
    <2>1. k \in DOMAIN f.tx /\ r.tx[k] = f.tx[k]
      BY <1>9
    <2>2. Proper(f, f.tx[k].psm, f.tx[k].scid)
      BY <1>5, <1>14, <2>1 DEF Apt
    <2>3. CASE f.tx[k].psm = "interrupt" /\ f.tx[k].scid = n
      BY <1>9, <2>1, <2>2, <2>3 DEF Proper
    <2>4. CASE \E j \in DOMAIN g.tx : g.tx[j] = f.tx[k]
      <3>1. PICK j \in DOMAIN g.tx : g.tx[j] = f.tx[k]
        BY <2>4
      <3>2. Proper(g, g.tx[j].psm, g.tx[j].scid) /\ g.tx[j].scid \in Nat
        <4>1. Proper(g, g.tx[j].psm, g.tx[j].scid)
          BY <1>1, <1>14, <2>1, <3>1 DEF Apt
        <4>2. g.tx[j] \in TxPacket /\ g.tx[j].op = "ACL"
          BY <1>1, <1>14, <2>1, <3>1, HostParts DEF Offer
        <4>3. QED
          BY <4>1, <4>2 DEF TxPacket, TxQuiet, TxAcl, TxAuth, AddressOps, DeviceOps,
                            HandshakeSteps, Sids, Cids
      <3>3. f.tx[k].scid # n
        BY <1>11, <3>1, <3>2 DEF Proper
      <3>4. QED
        BY <1>9, <1>12, <2>1, <2>2, <3>3 DEF Proper
    <2>5. QED
      BY <1>3, <1>14, <2>1, <2>3, <2>4
  <1>15. Apt(r)
    <2>1. \A s \in Reads(r) : s < r.cid
      BY <1>3, <1>5, <1>9, <1>11, <1>12 DEF Apt
    <2>2. \A e \in Devices : r.bt[e].into < r.cid
      BY <1>5, <1>9 DEF Apt
    <2>3. \A k \in DOMAIN r.kept : IsSignal(r.kept[k])
      BY <1>5, <1>9 DEF Apt
    <2>4. QED
      BY <1>13, <1>14, <2>1, <2>2, <2>3 DEF Apt
  <1>16. ASSUME NEW e \in Devices PROVE CalmTo(h, r, e)
    <2>1. CalmTo(h, f, e)
      BY <1>5 DEF Calm
    <2>2. CASE e = d
      <3>1. r.inp[e].interrupt = n /\ Inbox(r, e) = <<>> /\ r.bt[e].into = f.bt[e].into
        BY <1>3, <1>8, <1>9, <2>2 DEF Inbox, Sockets
      <3>2. QED
        BY <1>1, <2>1, <3>1, Numbers, EndOfEnd DEF CalmTo
    <2>3. CASE e # d
      <3>1. r.inp[e] = f.inp[e] /\ r.bt[e] = f.bt[e]
        BY <1>8, <1>9, <2>3
      <3>2. QED
        BY <2>1, <3>1 DEF CalmTo, Inbox, Sockets
    <2>4. QED
      BY <2>2, <2>3
  <1>17. Calm(h, r)
    <2>1. r.cid >= h.cid
      BY <1>5, <1>9 DEF Calm
    <2>2. QED
      BY <1>10, <1>15, <1>16, <2>1 DEF Calm
  <1>18. QED
    BY <1>7, <1>17

(* InputDevice.connection_complete.                                        *)
LEMMA ConnectionCompleteCalm ==
  ASSUME NEW h \in Host, Apt(h), NEW d \in Devices
  PROVE  Calm(h, connection_complete(h, d))
  <1>. DEFINE g == IF h.inp[d].reconnect THEN OpenHid(h, d, TRUE) ELSE h
              f == [g EXCEPT !.inp[d].state = "READING_NAME"]
              r == Cmd(f, "REMOTE_NAME_REQUEST", d)
  <1>1. Calm(h, g) /\ g \in Host
    BY OpenHidCalm, CalmTrans DEF Calm
  <1>2. connection_complete(h, d) = r
    BY DEF connection_complete
  <1>. HIDE DEF g
  <1>3. Mild(g, f) /\ f \in Host
    BY <1>1, OldMild DEF InputStates, Mild
  <1>. HIDE DEF f
  <1>4. Mild(f, r)
    BY <1>3, DeviceCmdMild DEF DeviceOps, AddressOps
  <1>. HIDE DEF r
  <1>5. Calm(h, f)
    BY <1>1, <1>3, CalmTrans
  <1>6. QED
    BY <1>2, <1>4, <1>5, CalmTrans

(* InputDevice.remote_name_response.                                       *)
LEMMA RemoteNameCalm ==
  ASSUME NEW h \in Host, Apt(h), NEW d \in Devices
  PROVE  Calm(h, remote_name_response(h, d))
  <1>. DEFINE g == [h EXCEPT !.inp[d].state = "OPENING"]
              f == l2_open(h, d, "sdp", FALSE)
              i == [f.inp[d] EXCEPT !.sdp = h.cid, !.state = "READING_SDP"]
              r == [f EXCEPT !.inp[d] = i]
  <1>1. Mild(h, g)
    BY OldMild DEF InputStates
  <1>2. Mild(h, Authenticate(h, d))
    BY AuthenticateMild
  <1>3. Calm(h, f) /\ f \in Host /\ Sockets(f, d) = Sockets(h, d) \cup {h.cid}
    BY OpenCalm, OpenEffect DEF Psms, Calm
  <1>4. remote_name_response(h, d) =
          IF h.inp[d].reconnect THEN g
          ELSE IF d \in h.keys THEN Authenticate(h, d)
          ELSE [f EXCEPT !.inp[d].sdp = h.cid, !.inp[d].state = "READING_SDP"]
    BY InputParts DEF remote_name_response
  <1>. HIDE DEF f, g
  <1>5. f.inp[d] \in Input /\ h.cid \in Sids
    BY <1>3, HostParts DEF Sids
  <1>6. /\ i \in Input /\ i.wii = f.inp[d].wii /\ Ids(i) \subseteq Ids(f.inp[d]) \cup {h.cid}
        /\ i.interrupt = f.inp[d].interrupt
    BY <1>5 DEF Input, Ids, InputStates
  <1>7. [f EXCEPT !.inp[d].sdp = h.cid, !.inp[d].state = "READING_SDP"] = r
    BY <1>3, HostParts DEF Fields
  <1>8. Ids(i) \subseteq Claims(f, d)
    BY <1>3, <1>6 DEF Claims
  <1>. HIDE DEF i
  <1>9. r \in Host
    <2>1. Minor(f, r)
      BY <1>3, <1>6, <1>8, InputMinor
    <2>2. QED
      BY <2>1 DEF Minor
  <1>10. Mild(f, r)
    BY <1>3, <1>6, <1>9, InputMild
  <1>. HIDE DEF r
  <1>11. Calm(h, r)
    BY <1>3, <1>10, CalmTrans
  <1>12. Calm(h, g) /\ Calm(h, Authenticate(h, d))
    BY <1>1, <1>2, MildCalm
  <1>13. QED
    BY <1>4, <1>7, <1>11, <1>12

(* InputDevice.authentication_complete.                                    *)
LEMMA AuthenticationCompleteCalm ==
  ASSUME NEW h \in Host, Apt(h), NEW d \in Devices
  PROVE  Calm(h, authentication_complete(h, d))
  BY OpenHidCalm, CalmTrans DEF authentication_complete

----------------------------------------------------------------------------
(* Bluetooth: every packet that is a signal or no ACL packet is calm.      *)

(* What is kept for a handle not known yet.                                *)
LEMMA KeptCalm ==
  ASSUME NEW h \in Host, Apt(h), NEW k \in Seq(RxAcl), \A j \in DOMAIN k : IsSignal(k[j])
  PROVE  Calm(h, [h EXCEPT !.kept = k])
  <1>. DEFINE g == [h EXCEPT !.kept = k]
  <1>1. g \in Host
    BY PutRest
  <1>2. g.bt = h.bt /\ g.inp = h.inp /\ g.cid = h.cid /\ g.tx = h.tx /\ g.kept = k
    BY HostParts DEF Fields
  <1>. HIDE DEF g
  <1>3. Apt(g)
    BY <1>2 DEF Apt, Reads, Proper, Sockets
  <1>4. \A e \in Devices : CalmTo(h, g, e)
    BY <1>2, Numbers, EndOfEnd DEF CalmTo, Inbox, Sockets
  <1>5. g.cid >= h.cid
    BY <1>2, Numbers
  <1>6. Calm(h, g)
    BY <1>1, <1>3, <1>4, <1>5 DEF Calm
  <1>7. QED
    BY <1>6 DEF g

(* HCI.acl with a signal.                                                  *)
LEMMA AclCalm ==
  ASSUME NEW h \in Host, Apt(h), NEW p \in RxAcl, IsSignal(p)
  PROVE  Calm(h, AclEvent(h, p))
  <1>. DEFINE d == get_device_by_handle(h, p.handle)
              g == acl(h, p)
              s == p.load.scid
  <1>1. CASE ~Matched(h, p)
    <2>1. AclEvent(h, p) = [h EXCEPT !.kept = <<p>>]
      BY <1>1 DEF AclEvent, acl
    <2>. DEFINE k == <<p>>
    <2>2. k \in Seq(RxAcl) /\ \A j \in DOMAIN k : IsSignal(k[j])
      OBVIOUS
    <2>. HIDE DEF k
    <2>3. Calm(h, [h EXCEPT !.kept = k])
      BY <2>2, KeptCalm
    <2>4. QED
      BY <2>1, <2>3 DEF k
  <1>2. CASE Matched(h, p)
    <2>1. d \in Devices /\ g = data(h, d, p) /\ h.bt[d].handle \in Handles
      BY <1>2, HandleOf, RxAclParts DEF Matched, acl, Handle
    <2>2. AclEvent(h, p) \in {g, socket_changed(g, d, s)}
      <3>. HIDE DEF g, d
      <3>1. QED
        BY DEF AclEvent, g, d
    <2>. HIDE DEF d, g, s
    <2>3. Mild(h, g) /\ g \in Host
      BY <2>1, SignalMild DEF Mild
    <2>4. Mild(g, socket_changed(g, d, s))
      BY <2>1, <2>3, SocketChangedMild
    <2>5. Mild(h, socket_changed(g, d, s))
      BY <2>3, <2>4, MildTrans
    <2>6. QED
      BY <2>2, <2>3, <2>5, MildCalm
  <1>3. QED
    BY <1>1, <1>2

(* HCI.dongle_bug.                                                         *)
LEMMA DongleCalm ==
  ASSUME NEW h \in Host, Apt(h)
  PROVE  Calm(h, dongle_bug(h))
  <1>. DEFINE g == AclEvent(h, h.kept[1])
  <1>1. CASE h.kept = NothingKept
    BY <1>1, CalmTrans DEF dongle_bug
  <1>2. CASE h.kept # NothingKept
    <2>1. h.kept[1] \in RxAcl /\ 1 \in DOMAIN h.kept
      BY <1>2, HostParts DEF NothingKept
    <2>2. Calm(h, g) /\ g \in Host /\ Apt(g)
      BY <2>1, AclCalm DEF Calm, Apt
    <2>3. dongle_bug(h) = [g EXCEPT !.kept = NothingKept]
      BY <1>2 DEF dongle_bug
    <2>. HIDE DEF g
    <2>4. NothingKept \in Seq(RxAcl) /\ \A j \in DOMAIN NothingKept : IsSignal(NothingKept[j])
      BY DEF NothingKept
    <2>5. Calm(g, [g EXCEPT !.kept = NothingKept])
      BY <2>2, <2>4, KeptCalm
    <2>6. QED
      BY <2>2, <2>3, <2>5, CalmTrans
  <1>3. QED
    BY <1>1, <1>2

(* HCI.connection_complete, before what is kept.                           *)
LEMMA ConnectionCompCalm ==
  ASSUME NEW h \in Host, Apt(h), NEW d \in Devices, NEW n \in Handles \cup {0}
  PROVE  Calm(h, ConnectionComplete(h, d, n))
  <1>. DEFINE m == IF n = 0 THEN NoHandle ELSE n
              b == [h.bt[d] EXCEPT !.handle = m]
              g == [h EXCEPT !.bt[d].handle = m]
  <1>1. m \in Links
    BY DEF Links
  <1>2. ConnectionComplete(h, d, n) \in {h, g, connection_complete(g, d)}
    <2>. HIDE DEF m
    <2>1. ConnectionComplete(h, d, n) = CASE ~h.bt[d].known -> h
                      [] h.bt[d].known /\ n # 0 -> ToDevice(g, d, connection_complete(g, d))
                      [] OTHER -> g
      BY DEF ConnectionComplete, m
    <2>2. QED
      BY <2>1, DeviceParts DEF ToDevice
  <1>. HIDE DEF m
  <1>3. b \in Device /\ b.sockets = h.bt[d].sockets /\ b.into = h.bt[d].into
    BY <1>1, DeviceParts DEF Device
  <1>4. g = [h EXCEPT !.bt[d] = b]
    OBVIOUS
  <1>. HIDE DEF b
  <1>5. Mild(h, g)
    <2>1. Mild(h, [h EXCEPT !.bt[d] = b])
      BY <1>3, DeviceMild, SocketQueue, EndOfEnd DEF Sockets
    <2>2. QED
      BY <1>4, <2>1
  <1>. HIDE DEF g
  <1>6. Calm(h, g) /\ g \in Host /\ Apt(g)
    BY <1>5, MildCalm DEF Calm
  <1>7. Calm(g, connection_complete(g, d))
    BY <1>6, ConnectionCompleteCalm
  <1>8. Calm(h, h) /\ Calm(h, connection_complete(g, d))
    BY <1>6, <1>7, CalmTrans
  <1>9. QED
    BY <1>2, <1>6, <1>8

(* Every packet but one that brings data.                                  *)
LEMMA HandledCalm ==
  ASSUME NEW h, Good(h), Apt(h), NEW p \in RxPacket, p \in RxQuiet \/ h.state # NotSent,
         p.evt = "ACL" => IsSignal(p)
  PROVE  Calm(h, Handled(h, p))
  <1>1. h \in Host /\ KnownOK(h)
    BY DEF Good
  <1>2. \A f : Mild(h, f) => Calm(h, f)
    BY <1>1, MildCalm
  <1>3. CASE p \in RxAcl
    <2>1. p.evt = "ACL"
      BY <1>3 DEF RxAcl
    <2>2. Handled(h, p) = AclEvent(h, p)
      BY <2>1 DEF Handled
    <2>3. QED
      BY <1>1, <1>3, <2>1, <2>2, AclCalm
  <1>4. CASE p \in [evt : {"INQUIRY_COMP"}, dev : {"none"}, arg : {0}]
    <2>1. p.evt = "INQUIRY_COMP"
      BY <1>4
    <2>2. Handled(h, p) = InquiryComp(h)
      BY <2>1 DEF Handled
    <2>3. QED
      BY <1>1, <1>2, <2>2, InquiryCompMild
  <1>5. CASE p \in [evt : {"COMMAND_COMPLETE"}, dev : {"none"}, arg : HandshakeSteps]
    <2>1. p.evt = "COMMAND_COMPLETE" /\ p.arg \in HandshakeSteps /\ h.state # NotSent
      BY <1>5 DEF RxQuiet, RxAcl, RxDevice, DeviceEvents
    <2>2. Handled(h, p) = CommandComplete(h, p.arg)
      BY <2>1 DEF Handled
    <2>3. QED
      BY <1>1, <1>2, <2>1, <2>2, CommandCompleteMild
  <1>6. CASE p \in RxDevice
    <2>. DEFINE d == p.dev
    <2>1. d \in Devices /\ p.arg \in Handles \cup {0} /\ p.evt \in DeviceEvents
      BY <1>6 DEF RxDevice
    <2>. HIDE DEF d
    <2>. DEFINE k == Known(h, d)
                a == add_device(k, d)
    <2>2. Mild(h, k) /\ Good(k) /\ k.bt[d].known
      <3>1. Minor(h, k) /\ k.bt[d].known
        BY <1>1, <2>1, KnownMinor
      <3>2. Mild(h, k)
        BY <1>1, <2>1, KnownMild
      <3>. HIDE DEF k
      <3>3. Attends(h, k)
        BY <3>1, ServesTrans
      <3>4. QED
        BY <3>1, <3>2, <3>3 DEF Attends, Serves
    <2>. HIDE DEF k
    <2>3. Mild(h, a) /\ a \in Host
      <3>1. Mild(k, a)
        BY <2>1, <2>2, AddMild
      <3>2. QED
        BY <1>1, <2>2, <3>1, MildTrans DEF Mild
    <2>4. Mild(h, ConnectionRequest(h, d))
      <3>1. ConnectionRequest(h, d) \in {a, connection_request(a, d)}
        BY DEF ConnectionRequest, ToDevice, k
      <3>. HIDE DEF a
      <3>2. Mild(a, connection_request(a, d))
        BY <2>1, <2>3, ConnectionRequestMild
      <3>3. Mild(h, connection_request(a, d))
        BY <1>1, <2>3, <3>2, MildTrans
      <3>4. QED
        BY <2>3, <3>1, <3>3
    <2>5. Calm(h, dongle_bug(ConnectionComplete(h, d, p.arg)))
      <3>. DEFINE g == ConnectionComplete(h, d, p.arg)
      <3>1. Calm(h, g) /\ g \in Host /\ Apt(g)
        BY <1>1, <2>1, ConnectionCompCalm DEF Calm
      <3>. HIDE DEF g
      <3>2. Calm(g, dongle_bug(g))
        BY <3>1, DongleCalm
      <3>3. Calm(h, dongle_bug(g))
        BY <1>1, <3>1, <3>2, CalmTrans
      <3>4. QED
        BY <3>3 DEF g
    <2>6. Mild(h, DisconnectionComp(h, p.arg))
      <3>1. CASE OnHandle(h, p.arg) = {}
        BY <1>1, <3>1, MildTrans DEF DisconnectionComp
      <3>2. CASE OnHandle(h, p.arg) # {}
        <4>. DEFINE e == get_device_by_handle(h, p.arg)
                    g == disconnect_all(h, e)
        <4>1. e \in Devices /\ h.bt[e].known
          BY <3>2, HandleOf
        <4>2. DisconnectionComp(h, p.arg) \in {g, disconnection_complete(g, e)}
          BY <3>2 DEF DisconnectionComp, ToDevice
        <4>. HIDE DEF e
        <4>3. Mild(h, g) /\ Good(g)
          BY <1>1, <4>1, DiscRelinked, DisconnectMild
        <4>. HIDE DEF g
        <4>4. Mild(g, disconnection_complete(g, e))
          BY <4>1, <4>3, DisconnectionMild
        <4>5. Mild(h, disconnection_complete(g, e))
          BY <1>1, <4>3, <4>4, MildTrans
        <4>6. QED
          BY <4>2, <4>3, <4>5
      <3>3. QED
        BY <3>1, <3>2
    <2>7. Calm(h, h)
      BY <1>1, CalmTrans
    <2>8. Calm(h, AuthComp(h, p.arg))
      <3>1. CASE OnHandle(h, p.arg) = {}
        BY <2>7, <3>1 DEF AuthComp
      <3>2. CASE OnHandle(h, p.arg) # {}
        <4>. DEFINE e == get_device_by_handle(h, p.arg)
        <4>1. e \in Devices
          BY <3>2, HandleOf
        <4>2. AuthComp(h, p.arg) \in {h, authentication_complete(h, e)}
          BY <3>2 DEF AuthComp, ToDevice
        <4>. HIDE DEF e
        <4>3. Calm(h, authentication_complete(h, e))
          BY <1>1, <4>1, AuthenticationCompleteCalm
        <4>4. QED
          BY <2>7, <4>2, <4>3
      <3>3. QED
        BY <3>1, <3>2
    <2>9. Calm(h, RemoteName(h, d))
      <3>1. RemoteName(h, d) \in {h, remote_name_response(h, d)}
        BY DEF RemoteName, ToDevice
      <3>2. QED
        BY <1>1, <2>1, <2>7, <3>1, RemoteNameCalm
    <2>10. Mild(h, LinkKeyRequest(h, d)) /\ Mild(h, Cmd(h, "PIN_CODE_REQUEST_REPLY", d))
      <3>1. LinkKeyRequest(h, d) \in {h, Cmd(h, "LINK_KEY_REQUEST_REPLY", d),
                                      Cmd(h, "LINK_KEY_REQUEST_NEG_REPLY", d)}
        BY DEF LinkKeyRequest
      <3>2. \A op \in AddressOps : op # "CREATE_CONNECTION" => Mild(h, Cmd(h, op, d))
        BY <1>1, <2>1, DeviceCmdMild
      <3>3. QED
        BY <1>1, <3>1, <3>2, MildTrans DEF DeviceOps, AddressOps
    <2>11. Mild(h, [h EXCEPT !.keys = @ \cup {d}])
      <3>. DEFINE ks == h.keys \cup {d}
                  g == [h EXCEPT !.keys = ks]
      <3>1. ks \in SUBSET Devices
        BY <1>1, <2>1, HostParts
      <3>. HIDE DEF ks
      <3>2. g \in Host
        BY <1>1, <3>1, PutRest
      <3>3. g.bt = h.bt /\ g.cid = h.cid /\ g.kept = h.kept /\ g.inp = h.inp /\ g.tx = h.tx
        BY <1>1, HostParts DEF Fields
      <3>. HIDE DEF g
      <3>4. Mild(h, g)
        BY <1>1, <3>2, <3>3, RestMild
      <3>5. QED
        BY <3>4 DEF g, ks
    <2>12. QED
      BY <1>2, <2>1, <2>3, <2>4, <2>5, <2>6, <2>8, <2>9, <2>10, <2>11
         DEF Handled, DeviceEvents, d, a, k
  <1>7. QED
    BY <1>3, <1>4, <1>5, <1>6 DEF RxPacket, RxQuiet

----------------------------------------------------------------------------
(* The invariant: what is on its way from a device to hid_get.             *)

(* The devices know the host's ends of their channels from its offers.     *)
ChannelsApt(h, a) ==
  \A d \in Devices : \A psm \in DOMAIN a[d].chan : Proper(h, psm, a[d].chan[psm].scid)

(* What is no signal is a part of an answer, for a channel that is not the *)
(* interrupt channel, or a report ...                                      *)
Kind(h, p) == p.evt = "ACL" =>
  \/ IsSignal(p)
  \/ \E d \in Devices : \/ Part(p, d) /\ Clear(h, p.into)
                        \/ Tells(p, d) /\ p.first /\ p.into < h.cid
Kinds(h, q) == \A i \in 1 .. Len(q) : Kind(h, q[i])
(* ... and when it is handled its handle is that of the device it is from. *)
Reaches(h, q, i, d, n) == \E j \in 0 .. i - 1 :
  Told(h, q, j, d, n) /\ \A k \in j + 1 .. i - 1 : ~Ended(q, k, n)
Addressed(h, q) == \A d \in Devices : \A i \in 1 .. Len(q) :
  Carries(q[i], d) => Reaches(h, q, i, d, q[i].handle)

(* The rest of an answer never follows a report with no first part of an   *)
(* answer between them: it would be taken for the rest of a report.        *)
(* Position 0 stands for what the host has handled, the one behind the     *)
(* last for what the device is about to send.                              *)
Replying(a, d) == "sdp" \in DOMAIN a[d].chan /\ a[d].chan["sdp"].rest
Owes(q, a, d, i) == IF i = Len(q) + 1 THEN Replying(a, d) ELSE Part(q[i], d) /\ ~q[i].first
OnReport(h, d) == h.bt[d].into = h.inp[d].interrupt /\ h.bt[d].into # 0
After(h, q, k, d) == IF k = 0 THEN OnReport(h, d) ELSE Tells(q[k], d)
Begins(p, d) == Part(p, d) /\ p.first
Contiguous(h, q, a) == \A d \in Devices : \A i \in 1 .. Len(q) + 1 : Owes(q, a, d, i) =>
  \A k \in 0 .. i - 1 : After(h, q, k, d) => \E l \in k + 1 .. i - 1 : Begins(q[l], d)

(* The reports of a device: got, in its interrupt channel, in _rx, sent.   *)
NewestOf(r, d) == IF r[d] = <<>> THEN 0 ELSE Last(r[d])
InBox(I, m, s) == /\ \A k \in 1 .. Len(I) : I[k].n \in m + 1 .. s
                  /\ \A k, l \in 1 .. Len(I) : k < l => I[k].n < I[l].n
InQueue(I, q, d, m, s) ==
  /\ \A i \in 1 .. Len(q) : Tells(q[i], d) =>
       /\ q[i].load.n \in m + 1 .. s
       /\ \A k \in 1 .. Len(I) : I[k].n < q[i].load.n
  /\ \A i, j \in 1 .. Len(q) : i < j /\ Tells(q[i], d) /\ Tells(q[j], d) =>
       q[i].load.n < q[j].load.n
Counted(h, q, a, r, d) ==
  LET m == NewestOf(r, d)
      s == a[d].sent
      I == Inbox(h, d)
  IN m \in Nat /\ s \in Nat /\ m <= s /\ InBox(I, m, s) /\ InQueue(I, q, d, m, s)

Piped(h, q, a, r) ==
  /\ Apt(h) /\ ChannelsApt(h, a) /\ Kinds(h, q) /\ Addressed(h, q) /\ Contiguous(h, q, a)
  /\ r \in [Devices -> Seq(Nat)] /\ \A d \in Devices : Counted(h, q, a, r, d)

(* What is not an interrupt channel's id does not become one's.            *)
LEMMA CalmProper ==
  ASSUME NEW h \in Host, Apt(h), NEW g, Calm(h, g)
  PROVE  /\ \A s \in Nat : Clear(h, s) => Clear(g, s)
         /\ \A s \in Nat : \A psm : Proper(h, psm, s) => Proper(g, psm, s)
         /\ \A d \in Devices : OnReport(g, d) => OnReport(h, d)
         /\ \A s \in Nat : s < h.cid => s < g.cid
  <1>1. /\ g \in Host /\ Apt(g) /\ g.cid >= h.cid /\ g.cid \in Nat /\ h.cid \in Nat
        /\ \A e \in Devices : CalmTo(h, g, e)
    BY Numbers DEF Calm
  <1>2. \A e \in Devices : /\ g.inp[e].interrupt \in Nat /\ h.inp[e].interrupt \in Nat
                           /\ g.inp[e].interrupt # 0 => g.inp[e].interrupt >= 64
                           /\ h.inp[e].interrupt # 0 => h.inp[e].interrupt \in Reads(h)
    BY <1>1, Numbers
  <1>3. ASSUME NEW s \in Nat, s < h.cid, s \notin Reads(h) PROVE s \notin Reads(g)
    <2>1. SUFFICES ASSUME NEW e \in Devices, s = g.inp[e].interrupt, s # 0 PROVE FALSE
      BY DEF Reads
    <2>2. s = h.inp[e].interrupt
      BY <1>1, <1>2, <1>3, <2>1 DEF CalmTo
    <2>3. QED
      BY <1>2, <1>3, <2>1, <2>2
  <1>4. ASSUME NEW d \in Devices, OnReport(g, d) PROVE OnReport(h, d)
    <2>1. g.bt[d].into = g.inp[d].interrupt /\ g.bt[d].into # 0 /\ g.bt[d].into >= 64
      BY <1>2, <1>4 DEF OnReport
    <2>2. g.bt[d].into = h.bt[d].into
      BY <1>1, <2>1 DEF CalmTo
    <2>3. CASE g.inp[d].interrupt = h.inp[d].interrupt
      BY <2>1, <2>2, <2>3 DEF OnReport
    <2>4. CASE g.inp[d].interrupt >= h.cid
      <3>1. h.bt[d].into < h.cid /\ h.bt[d].into \in Nat
        BY Numbers DEF Apt
      <3>2. QED
        BY <1>1, <2>1, <2>2, <2>4, <3>1
    <2>5. QED
      BY <1>1, <2>1, <2>3, <2>4 DEF CalmTo
  <1>5. \A s \in Nat : s < h.cid => s < g.cid
    BY <1>1
  <1>6. QED
    BY <1>3, <1>4, <1>5 DEF Clear, Proper

(* A shorter interrupt channel breaks no order.                            *)
LEMMA EndCounts ==
  ASSUME NEW q, NEW d, NEW I \in Seq(Load), NEW J \in Seq(Load), EndOf(J, I),
         NEW m, NEW s, InBox(I, m, s), InQueue(I, q, d, m, s)
  PROVE  InBox(J, m, s) /\ InQueue(J, q, d, m, s)
  <1>1. Len(I) \in Nat /\ Len(J) \in Nat /\ Len(J) <= Len(I)
    BY DEF EndOf
  <1>2. ASSUME NEW k \in 1 .. Len(J)
        PROVE  k + Len(I) - Len(J) \in 1 .. Len(I) /\ J[k] = I[k + Len(I) - Len(J)]
    BY <1>1 DEF EndOf
  <1>3. ASSUME NEW k \in 1 .. Len(J), NEW l \in 1 .. Len(J), k < l PROVE J[k].n < J[l].n
    <2>1. k + Len(I) - Len(J) < l + Len(I) - Len(J)
      BY <1>1, <1>3
    <2>2. QED
      BY <1>2, <2>1 DEF InBox
  <1>4. \A k \in 1 .. Len(J) : J[k].n \in m + 1 .. s
    BY <1>2 DEF InBox
  <1>5. \A i \in 1 .. Len(q) : Tells(q[i], d) => \A k \in 1 .. Len(J) : J[k].n < q[i].load.n
    BY <1>2 DEF InQueue
  <1>6. QED
    BY <1>3, <1>4, <1>5 DEF InBox, InQueue

(* Calm calls that keep the links' handles keep the invariant.             *)
LEMMA CalmPiped ==
  ASSUME NEW h \in Host, NEW g, Calm(h, g), NEW q \in Seq(RxPacket), NEW a \in [Devices -> Link],
         NEW r, Piped(h, q, a, r),
         \A d \in Devices : Handle(h, d) \in Handles => Handle(g, d) = Handle(h, d)
  PROVE  Piped(g, q, a, r)
  <1>0. Apt(h) /\ Apt(g) /\ g \in Host
    BY DEF Piped, Calm
  <1>1. ChannelsApt(g, a)
    <2>1. SUFFICES ASSUME NEW d \in Devices, NEW psm \in DOMAIN a[d].chan
                   PROVE  Proper(g, psm, a[d].chan[psm].scid)
      BY DEF ChannelsApt
    <2>2. a[d].chan[psm].scid \in Nat
      BY DEF Link, ChanMap, Chan, Sids, Cids
    <2>3. Proper(h, psm, a[d].chan[psm].scid)
      BY DEF Piped, ChannelsApt
    <2>4. QED
      BY <1>0, <2>2, <2>3, CalmProper
  <1>2. \A i \in 1 .. Len(q) : q[i] \in RxPacket /\ (q[i].evt = "ACL" => q[i] \in RxAcl)
    <2>1. \A p \in RxPacket : p.evt = "ACL" => p \in RxAcl
      BY DEF RxPacket, RxQuiet, RxDevice, DeviceEvents
    <2>2. QED
      BY <2>1
  <1>3. Kinds(g, q)
    <2>1. SUFFICES ASSUME NEW i \in 1 .. Len(q), q[i].evt = "ACL", ~IsSignal(q[i])
                   PROVE  \E d \in Devices : \/ Part(q[i], d) /\ Clear(g, q[i].into)
                                             \/ Tells(q[i], d) /\ q[i].first /\ q[i].into < g.cid
      BY DEF Kinds, Kind
    <2>2. q[i].into \in Nat
      BY <1>2, <2>1, RxAclParts
    <2>3. \E d \in Devices : \/ Part(q[i], d) /\ Clear(h, q[i].into)
                             \/ Tells(q[i], d) /\ q[i].first /\ q[i].into < h.cid
      BY <2>1 DEF Piped, Kinds, Kind
    <2>4. QED
      BY <1>0, <2>2, <2>3, CalmProper
  <1>4. Addressed(g, q)
    <2>1. SUFFICES ASSUME NEW d \in Devices, NEW i \in 1 .. Len(q), Carries(q[i], d)
                   PROVE  Reaches(g, q, i, d, q[i].handle)
      BY DEF Addressed
    <2>2. q[i].handle \in Handles
      BY <1>2, <2>1, RxAclParts DEF Carries
    <2>3. Reaches(h, q, i, d, q[i].handle)
      BY <2>1 DEF Piped, Addressed
    <2>4. \A j \in 0 .. i - 1 : Told(h, q, j, d, q[i].handle) => Told(g, q, j, d, q[i].handle)
      BY <2>2 DEF Told
    <2>5. QED
      BY <2>3, <2>4 DEF Reaches
  <1>5. Contiguous(g, q, a)
    <2>1. \A d \in Devices : \A k : After(g, q, k, d) => After(h, q, k, d)
      BY <1>0, CalmProper DEF After
    <2>2. QED
      BY <2>1 DEF Piped, Contiguous
  <1>6. ASSUME NEW d \in Devices PROVE Counted(g, q, a, r, d)
    <2>1. Inbox(h, d) \in Seq(Load) /\ Inbox(g, d) \in Seq(Load) /\ EndOf(Inbox(g, d), Inbox(h, d))
      BY <1>0, Numbers DEF Calm, CalmTo
    <2>2. Counted(h, q, a, r, d)
      BY DEF Piped
    <2>3. QED
      BY <2>1, <2>2, EndCounts DEF Counted
  <1>7. QED
    BY <1>0, <1>1, <1>3, <1>4, <1>5, <1>6 DEF Piped

----------------------------------------------------------------------------
(* The steps of the controller and the devices, as long as what they tell  *)
(* finds room in the queue: they bring signals and events only, the first  *)
(* part of an answer, the rest of it, or a report.                         *)
SameSent(a, b, D) == \A e \in D : b[e].sent = a[e].sent
Hushed(h, q, r, a, b) ==
  /\ Same(q, r) /\ \A i \in Len(q) + 1 .. Len(r) : r[i].evt = "ACL" => IsSignal(r[i])
  /\ ChannelsApt(h, b) /\ SameSent(a, b, Devices)
  /\ \A d \in Devices : Replying(b, d) => Replying(a, d)
AddsOne(q, r, e) == Same(q, r) /\ Len(r) = Len(q) + 1 /\ r[Len(r)] = e
Sends(h, q, r, a, b, d, e) == AddsOne(q, r, e) /\ Up(a, d, e.handle) /\ ChannelsApt(h, b)
Begun(h, q, r, a, b, d, e) ==
  /\ Sends(h, q, r, a, b, d, e) /\ Begins(e, d) /\ Clear(h, e.into)
  /\ SameSent(a, b, Devices) /\ \A x \in Devices \ {d} : Replying(b, x) => Replying(a, x)
Continued(h, q, r, a, b, d, e) ==
  /\ Sends(h, q, r, a, b, d, e) /\ Part(e, d) /\ ~e.first /\ Clear(h, e.into)
  /\ SameSent(a, b, Devices) /\ Replying(a, d)
  /\ \A x \in Devices : Replying(b, x) => Replying(a, x) /\ x # d
Said(h, q, r, a, b, d, e) ==
  /\ Sends(h, q, r, a, b, d, e) /\ Tells(e, d) /\ e.first /\ e.into < h.cid
  /\ e.load.n = a[d].sent + 1 /\ b[d].sent = a[d].sent + 1 /\ SameSent(a, b, Devices \ {d})
  /\ \A x \in Devices : Replying(b, x) => Replying(a, x) /\ x # d
PipeStep(h, q, r, a, b) ==
  \/ Hushed(h, q, r, a, b)
  \/ \E d \in Devices : \E e : \/ Begun(h, q, r, a, b, d, e) \/ Continued(h, q, r, a, b, d, e)
                               \/ Said(h, q, r, a, b, d, e)

(* A link that is up is the one the host is told of last.                  *)
LEMMA UpReaches ==
  ASSUME NEW h \in Host, NEW q, Len(q) \in Nat, NEW a, Traced(h, q, a), NEW d \in Devices,
         NEW n \in Handles, Up(a, d, n)
  PROVE  Reaches(h, q, Len(q) + 1, d, n)
  <1>. DEFINE L == Len(q)
              S == {k \in 0 .. L : Told(h, q, L - k, d, n)}
  <1>1. Handles \subseteq Links
    BY DEF Links
  <1>2. \E j \in 0 .. L : Told(h, q, j, d, n)
    <2>1. CASE Handle(h, d) = n
      BY <2>1 DEF Told
    <2>2. CASE Handle(h, d) # n
      <3>. DEFINE m == Handle(h, d)
      <3>1. m \in Links /\ Told(h, q, 0, d, m) /\ 0 \in 0 .. L /\ m # n
        BY <2>2, DeviceParts DEF Told, Handle
      <3>. HIDE DEF m
      <3>2. \E j \in 0 + 1 .. L : Told(h, q, j, d, n)
        BY <3>1 DEF Traced, UpIsTold
      <3>3. QED
        BY <3>2
    <2>3. QED
      BY <2>1, <2>2
  <1>3. S \in SUBSET Nat /\ S # {}
    <2>1. PICK j \in 0 .. L : Told(h, q, j, d, n)
      BY <1>2
    <2>2. L - j \in 0 .. L /\ L - (L - j) = j
      OBVIOUS
    <2>3. L - j \in S
      BY <2>1, <2>2
    <2>4. \A k \in S : k \in Nat
      OBVIOUS
    <2>. HIDE DEF S
    <2>5. QED
      BY <2>3, <2>4
  <1>4. PICK m \in S : \A k \in S : m <= k
    BY <1>3, Least
  <1>. DEFINE j == L - m
  <1>5. j \in 0 .. L /\ m \in Nat /\ Told(h, q, j, d, n)
    BY <1>4
  <1>6. ASSUME NEW k \in j + 1 .. L PROVE ~Told(h, q, k, d, n)
    <2>1. L - k \in 0 .. L /\ L - (L - k) = k /\ ~(m <= L - k)
      BY <1>5
    <2>2. QED
      BY <1>4, <2>1
  <1>. HIDE DEF j, S
  <1>7. ASSUME NEW k \in j + 1 .. L, Ended(q, k, n) PROVE FALSE
    <2>1. k \in 1 .. L
      BY <1>5
    <2>2. PICK i \in k + 1 .. L : Told(h, q, i, d, n)
      BY <1>7, <2>1 DEF Traced, UpAgain
    <2>3. i \in j + 1 .. L
      BY <1>5, <2>1
    <2>4. QED
      BY <1>6, <2>2, <2>3
  <1>8. L + 1 - 1 = L
    OBVIOUS
  <1>9. QED
    BY <1>5, <1>7, <1>8 DEF Reaches

(* What is before a position is told as before.                            *)
LEMMA SameReaches ==
  ASSUME NEW h, NEW q, NEW r, Same(q, r), NEW i \in 1 .. Len(q) + 1
  PROVE  \A d, n : Reaches(h, q, i, d, n) => Reaches(h, r, i, d, n)
  <1>1. Len(q) \in Nat
    BY DEF Same
  <1>2. \A j \in 0 .. i - 1 : /\ \A d, n : Told(h, r, j, d, n) <=> Told(h, q, j, d, n)
                              /\ j # 0 => \A n : Ended(r, j, n) <=> Ended(q, j, n)
    <2>1. \A j \in 0 .. i - 1 : j \in 0 .. Len(q)
      BY <1>1
    <2>2. QED
      BY <2>1, SameTold
  <1>3. \A j \in 0 .. i - 1 : \A k \in j + 1 .. i - 1 : k \in 0 .. i - 1 /\ k # 0
    BY <1>1
  <1>4. QED
    BY <1>2, <1>3 DEF Reaches

(* Signals and events alone keep the invariant.                            *)
LEMMA HushedPiped ==
  ASSUME NEW h \in Host, NEW q, NEW r, NEW a, NEW b, NEW g, Piped(h, q, a, g), Hushed(h, q, r, a, b)
  PROVE  Piped(h, r, b, g)
  <1>1. /\ Same(q, r) /\ Len(q) \in Nat /\ Len(r) \in Nat /\ Len(r) >= Len(q)
        /\ \A i \in 1 .. Len(q) : r[i] = q[i]
    BY DEF Hushed, Same
  <1>2. ASSUME NEW i \in 1 .. Len(r), i \notin 1 .. Len(q)
        PROVE  /\ r[i].evt = "ACL" => IsSignal(r[i])
               /\ \A d : ~Carries(r[i], d) /\ ~Part(r[i], d) /\ ~Tells(r[i], d) /\ ~Begins(r[i], d)
    <2>1. i \in Len(q) + 1 .. Len(r)
      BY <1>1, <1>2
    <2>2. r[i].evt = "ACL" => IsSignal(r[i])
      BY <2>1 DEF Hushed
    <2>3. QED
      BY <2>2 DEF IsSignal, Carries, Part, Tells, Begins
  <1>3. Kinds(h, r)
    BY <1>1, <1>2 DEF Piped, Kinds, Kind
  <1>4. Addressed(h, r)
    <2>1. SUFFICES ASSUME NEW d \in Devices, NEW i \in 1 .. Len(r), Carries(r[i], d)
                   PROVE  Reaches(h, r, i, d, r[i].handle)
      BY DEF Addressed
    <2>2. i \in 1 .. Len(q) /\ r[i] = q[i] /\ i \in 1 .. Len(q) + 1
      BY <1>1, <1>2, <2>1
    <2>3. QED
      BY <1>1, <2>1, <2>2, SameReaches DEF Piped, Addressed
  <1>5. Contiguous(h, r, b)
    <2>1. SUFFICES ASSUME NEW d \in Devices, NEW i \in 1 .. Len(r) + 1, Owes(r, b, d, i),
                          NEW k \in 0 .. i - 1, After(h, r, k, d)
                   PROVE  \E l \in k + 1 .. i - 1 : Begins(r[l], d)
      BY DEF Contiguous
    <2>2. k \in 0 .. Len(q) /\ After(h, q, k, d)
      <3>1. k \in 0 .. Len(r)
        BY <1>1
      <3>2. CASE k = 0
        BY <1>1, <2>1, <3>2 DEF After
      <3>3. CASE k # 0
        <4>1. k \in 1 .. Len(r) /\ Tells(r[k], d)
          BY <2>1, <3>1, <3>3 DEF After
        <4>2. QED
          BY <1>1, <1>2, <3>3, <4>1 DEF After
      <3>4. QED
        BY <3>2, <3>3
    <2>3. \E j \in 1 .. Len(q) + 1 : Owes(q, a, d, j) /\ k <= j - 1 /\ j <= i
      <3>1. CASE i = Len(r) + 1
        <4>1. Replying(a, d)
          BY <2>1, <3>1 DEF Owes, Hushed
        <4>2. Len(q) + 1 \in 1 .. Len(q) + 1 /\ Len(q) + 1 <= i /\ k <= Len(q) + 1 - 1
          BY <1>1, <2>2, <3>1
        <4>3. QED
          BY <4>1, <4>2 DEF Owes
      <3>2. CASE i # Len(r) + 1
        <4>1. i \in 1 .. Len(r) /\ Part(r[i], d) /\ ~r[i].first
          BY <1>1, <2>1, <3>2 DEF Owes
        <4>2. i \in 1 .. Len(q) /\ r[i] = q[i]
          BY <1>1, <1>2, <4>1
        <4>3. i \in 1 .. Len(q) + 1 /\ i # Len(q) + 1 /\ k <= i - 1
          BY <1>1, <4>2
        <4>4. QED
          BY <4>1, <4>2, <4>3 DEF Owes
      <3>3. QED
        BY <3>1, <3>2
    <2>4. PICK j \in 1 .. Len(q) + 1 : Owes(q, a, d, j) /\ k <= j - 1 /\ j <= i
      BY <2>3
    <2>5. k \in 0 .. j - 1
      BY <1>1, <2>2, <2>4
    <2>6. PICK l \in k + 1 .. j - 1 : Begins(q[l], d)
      BY <2>2, <2>4, <2>5 DEF Piped, Contiguous
    <2>7. l \in 1 .. Len(q) /\ l \in k + 1 .. i - 1
      BY <1>1, <2>2, <2>4
    <2>8. QED
      BY <1>1, <2>6, <2>7
  <1>6. ASSUME NEW d \in Devices PROVE Counted(h, r, b, g, d)
    <2>1. Counted(h, q, a, g, d) /\ b[d].sent = a[d].sent
      BY DEF Piped, Hushed, SameSent
    <2>2. \A I, m, s : InQueue(I, q, d, m, s) => InQueue(I, r, d, m, s)
      BY <1>1, <1>2 DEF InQueue
    <2>3. QED
      BY <2>1, <2>2 DEF Counted
  <1>7. QED
    BY <1>3, <1>4, <1>5, <1>6 DEF Piped, Hushed

(* One packet more than before: data of a device.                          *)
LEMMA OneMore ==
  ASSUME NEW h \in Host, NEW q, NEW r, NEW a, NEW b, NEW d \in Devices, NEW e, NEW g,
         Traced(h, q, a), e.handle \in Handles,
         Piped(h, q, a, g), Sends(h, q, r, a, b, d, e), Carries(e, d), Kind(h, e)
  PROVE  /\ Len(q) \in Nat /\ Len(r) = Len(q) + 1 /\ r[Len(q) + 1] = e
         /\ \A i \in 1 .. Len(q) : r[i] = q[i]
         /\ \A i \in 1 .. Len(r) : i \in 1 .. Len(q) \/ i = Len(q) + 1
         /\ \A k \in 0 .. Len(q) : \A x : After(h, r, k, x) <=> After(h, q, k, x)
         /\ Kinds(h, r) /\ Addressed(h, r) /\ ChannelsApt(h, b)
  <1>1. /\ Same(q, r) /\ Len(q) \in Nat /\ Len(r) = Len(q) + 1 /\ r[Len(q) + 1] = e
        /\ \A i \in 1 .. Len(q) : r[i] = q[i]
    BY DEF Sends, AddsOne, Same
  <1>2. \A i \in 1 .. Len(r) : i \in 1 .. Len(q) \/ i = Len(q) + 1
    BY <1>1
  <1>3. Kinds(h, r)
    BY <1>1, <1>2 DEF Piped, Kinds
  <1>4. Addressed(h, r)
    <2>1. SUFFICES ASSUME NEW x \in Devices, NEW i \in 1 .. Len(r), Carries(r[i], x)
                   PROVE  Reaches(h, r, i, x, r[i].handle)
      BY DEF Addressed
    <2>2. CASE i \in 1 .. Len(q)
      <3>1. i \in 1 .. Len(q) + 1 /\ r[i] = q[i]
        BY <1>1, <2>2
      <3>2. QED
        BY <1>1, <2>1, <2>2, <3>1, SameReaches DEF Piped, Addressed
    <2>3. CASE i = Len(q) + 1
      <3>1. r[i] = e /\ x = d
        BY <1>1, <2>1, <2>3 DEF Carries
      <3>2. Reaches(h, q, Len(q) + 1, d, e.handle)
        BY <1>1, UpReaches DEF Sends
      <3>3. Len(q) + 1 \in 1 .. Len(q) + 1
        BY <1>1
      <3>4. QED
        BY <1>1, <2>3, <3>1, <3>2, <3>3, SameReaches
    <2>4. QED
      BY <1>2, <2>2, <2>3
  <1>5. \A k \in 0 .. Len(q) : \A x : After(h, r, k, x) <=> After(h, q, k, x)
    <2>1. \A k \in 0 .. Len(q) : k # 0 => r[k] = q[k]
      BY <1>1
    <2>2. QED
      BY <2>1 DEF After
  <1>6. QED
    BY <1>1, <1>2, <1>3, <1>4, <1>5 DEF Sends

(* The first part of an answer.                                            *)
LEMMA BegunPiped ==
  ASSUME NEW h \in Host, NEW q, NEW r, NEW a, NEW b, NEW d \in Devices, NEW e, NEW g,
         Traced(h, q, a), e.handle \in Handles, Piped(h, q, a, g), Begun(h, q, r, a, b, d, e)
  PROVE  Piped(h, r, b, g)
  <1>1. /\ Carries(e, d) /\ Part(e, d) /\ e.first /\ e.size = 2 /\ Clear(h, e.into)
        /\ Sends(h, q, r, a, b, d, e) /\ Kind(h, e) /\ Begins(e, d)
    BY DEF Begun, Begins, Part, Kind
  <1>2. /\ Len(q) \in Nat /\ Len(r) = Len(q) + 1 /\ r[Len(q) + 1] = e
        /\ \A i \in 1 .. Len(q) : r[i] = q[i]
        /\ \A i \in 1 .. Len(r) : i \in 1 .. Len(q) \/ i = Len(q) + 1
        /\ \A k \in 0 .. Len(q) : \A x : After(h, r, k, x) <=> After(h, q, k, x)
        /\ Kinds(h, r) /\ Addressed(h, r) /\ ChannelsApt(h, b)
    BY <1>1, OneMore
  <1>3. \A x : ~Tells(e, x)
    BY <1>1 DEF Tells
  <1>4. Contiguous(h, r, b)
    <2>1. SUFFICES ASSUME NEW x \in Devices, NEW i \in 1 .. Len(r) + 1, Owes(r, b, x, i),
                          NEW k \in 0 .. i - 1, After(h, r, k, x)
                   PROVE  \E l \in k + 1 .. i - 1 : Begins(r[l], x)
      BY DEF Contiguous
    <2>2. k \in 0 .. Len(q) /\ After(h, q, k, x)
      <3>1. k \in 0 .. Len(q) \/ k = Len(q) + 1
        BY <1>2
      <3>2. k # Len(q) + 1
        BY <1>2, <1>3, <2>1 DEF After
      <3>3. QED
        BY <1>2, <2>1, <3>1, <3>2
    <2>3. CASE i = Len(r) + 1 /\ x = d
      <3>1. Len(q) + 1 \in k + 1 .. i - 1
        BY <1>2, <2>2, <2>3
      <3>2. QED
        BY <1>1, <1>2, <2>3, <3>1
    <2>4. CASE i = Len(r) + 1 /\ x # d
      <3>1. Owes(q, a, x, Len(q) + 1) /\ Len(q) + 1 \in 1 .. Len(q) + 1
        BY <1>2, <2>1, <2>4 DEF Owes, Begun
      <3>2. k \in 0 .. Len(q) + 1 - 1
        BY <1>2, <2>2
      <3>3. PICK l \in k + 1 .. Len(q) + 1 - 1 : Begins(q[l], x)
        BY <2>2, <3>1, <3>2 DEF Piped, Contiguous
      <3>4. l \in 1 .. Len(q) /\ l \in k + 1 .. i - 1
        BY <1>2, <2>2, <2>4
      <3>5. QED
        BY <1>2, <3>3, <3>4
    <2>5. CASE i # Len(r) + 1
      <3>1. i \in 1 .. Len(r) /\ Part(r[i], x) /\ ~r[i].first
        BY <1>2, <2>1, <2>5 DEF Owes
      <3>2. i \in 1 .. Len(q) /\ r[i] = q[i] /\ i \in 1 .. Len(q) + 1 /\ i # Len(q) + 1
        <4>1. i # Len(q) + 1
          BY <1>1, <1>2, <3>1
        <4>2. QED
          BY <1>2, <3>1, <4>1
      <3>3. PICK l \in k + 1 .. i - 1 : Begins(q[l], x)
        BY <2>1, <2>2, <3>1, <3>2 DEF Piped, Contiguous, Owes
      <3>4. l \in 1 .. Len(q)
        BY <1>2, <2>2, <3>2
      <3>5. QED
        BY <1>2, <3>3, <3>4
    <2>6. QED
      BY <2>3, <2>4, <2>5
  <1>5. ASSUME NEW x \in Devices PROVE Counted(h, r, b, g, x)
    <2>1. Counted(h, q, a, g, x) /\ b[x].sent = a[x].sent
      BY DEF Piped, Begun, SameSent
    <2>2. \A I, m, s : InQueue(I, q, x, m, s) => InQueue(I, r, x, m, s)
      BY <1>2, <1>3 DEF InQueue
    <2>3. QED
      BY <2>1, <2>2 DEF Counted
  <1>6. QED
    BY <1>2, <1>4, <1>5 DEF Piped

(* The rest of an answer.                                                  *)
LEMMA ContinuedPiped ==
  ASSUME NEW h \in Host, NEW q, NEW r, NEW a, NEW b, NEW d \in Devices, NEW e, NEW g,
         Traced(h, q, a), e.handle \in Handles, Piped(h, q, a, g), Continued(h, q, r, a, b, d, e)
  PROVE  Piped(h, r, b, g)
  <1>1. /\ Carries(e, d) /\ Part(e, d) /\ ~e.first /\ e.size = 2 /\ Clear(h, e.into)
        /\ Sends(h, q, r, a, b, d, e) /\ Kind(h, e)
    BY DEF Continued, Part, Kind
  <1>2. /\ Len(q) \in Nat /\ Len(r) = Len(q) + 1 /\ r[Len(q) + 1] = e
        /\ \A i \in 1 .. Len(q) : r[i] = q[i]
        /\ \A i \in 1 .. Len(r) : i \in 1 .. Len(q) \/ i = Len(q) + 1
        /\ \A k \in 0 .. Len(q) : \A x : After(h, r, k, x) <=> After(h, q, k, x)
        /\ Kinds(h, r) /\ Addressed(h, r) /\ ChannelsApt(h, b)
    BY <1>1, OneMore
  <1>3. \A x : ~Tells(e, x)
    BY <1>1 DEF Tells
  <1>4. Contiguous(h, r, b)
    <2>1. SUFFICES ASSUME NEW x \in Devices, NEW i \in 1 .. Len(r) + 1, Owes(r, b, x, i),
                          NEW k \in 0 .. i - 1, After(h, r, k, x)
                   PROVE  \E l \in k + 1 .. i - 1 : Begins(r[l], x)
      BY DEF Contiguous
    <2>2. k \in 0 .. Len(q) /\ After(h, q, k, x)
      <3>1. k \in 0 .. Len(q) \/ k = Len(q) + 1
        BY <1>2
      <3>2. k # Len(q) + 1
        BY <1>2, <1>3, <2>1 DEF After
      <3>3. QED
        BY <1>2, <2>1, <3>1, <3>2
    <2>3. \E j \in 1 .. Len(q) + 1 : Owes(q, a, x, j) /\ k <= j - 1 /\ j <= i
      <3>1. CASE i = Len(r) + 1
        <4>1. Replying(a, x)
          BY <2>1, <3>1 DEF Owes, Continued
        <4>2. Len(q) + 1 \in 1 .. Len(q) + 1 /\ Len(q) + 1 <= i /\ k <= Len(q) + 1 - 1
          BY <1>2, <2>2, <3>1
        <4>3. QED
          BY <4>1, <4>2 DEF Owes
      <3>2. CASE i = Len(q) + 1
        <4>1. x = d
          BY <1>1, <1>2, <2>1, <3>2 DEF Owes, Part, Carries
        <4>2. Replying(a, x)
          BY <4>1 DEF Continued
        <4>3. Len(q) + 1 \in 1 .. Len(q) + 1 /\ Len(q) + 1 <= i /\ k <= Len(q) + 1 - 1
          BY <1>2, <2>2, <3>2
        <4>4. QED
          BY <4>2, <4>3 DEF Owes
      <3>3. CASE i # Len(r) + 1 /\ i # Len(q) + 1
        <4>1. i \in 1 .. Len(r) /\ Part(r[i], x) /\ ~r[i].first
          BY <1>2, <2>1, <3>3 DEF Owes
        <4>2. i \in 1 .. Len(q) /\ r[i] = q[i]
          BY <1>2, <3>3, <4>1
        <4>3. i \in 1 .. Len(q) + 1 /\ k <= i - 1
          BY <1>2, <4>2
        <4>4. QED
          BY <3>3, <4>1, <4>2, <4>3 DEF Owes
      <3>4. QED
        BY <3>1, <3>2, <3>3
    <2>4. PICK j \in 1 .. Len(q) + 1 : Owes(q, a, x, j) /\ k <= j - 1 /\ j <= i
      BY <2>3
    <2>5. k \in 0 .. j - 1
      BY <1>2, <2>2, <2>4
    <2>6. PICK l \in k + 1 .. j - 1 : Begins(q[l], x)
      BY <2>2, <2>4, <2>5 DEF Piped, Contiguous
    <2>7. l \in 1 .. Len(q) /\ l \in k + 1 .. i - 1
      BY <1>2, <2>2, <2>4
    <2>8. QED
      BY <1>2, <2>6, <2>7
  <1>5. ASSUME NEW x \in Devices PROVE Counted(h, r, b, g, x)
    <2>1. Counted(h, q, a, g, x) /\ b[x].sent = a[x].sent
      BY DEF Piped, Continued, SameSent
    <2>2. \A I, m, s : InQueue(I, q, x, m, s) => InQueue(I, r, x, m, s)
      BY <1>2, <1>3 DEF InQueue
    <2>3. QED
      BY <2>1, <2>2 DEF Counted
  <1>6. QED
    BY <1>2, <1>4, <1>5 DEF Piped

(* A report.                                                               *)
LEMMA SaidPiped ==
  ASSUME NEW h \in Host, NEW q, NEW r, NEW a, NEW b, NEW d \in Devices, NEW e, NEW g,
         Traced(h, q, a), e.handle \in Handles, Piped(h, q, a, g), Said(h, q, r, a, b, d, e)
  PROVE  Piped(h, r, b, g)
  <1>1. /\ Carries(e, d) /\ Tells(e, d) /\ e.size = 1
        /\ Sends(h, q, r, a, b, d, e) /\ Kind(h, e)
    BY DEF Said, Tells, Kind
  <1>2. /\ Len(q) \in Nat /\ Len(r) = Len(q) + 1 /\ r[Len(q) + 1] = e
        /\ \A i \in 1 .. Len(q) : r[i] = q[i]
        /\ \A i \in 1 .. Len(r) : i \in 1 .. Len(q) \/ i = Len(q) + 1
        /\ \A k \in 0 .. Len(q) : \A x : After(h, r, k, x) <=> After(h, q, k, x)
        /\ Kinds(h, r) /\ Addressed(h, r) /\ ChannelsApt(h, b)
    BY <1>1, OneMore
  <1>3. /\ \A x : ~Part(e, x)
        /\ \A x : x # d => ~Tells(e, x)
    BY <1>1 DEF Part, Tells, Carries
  <1>4. Contiguous(h, r, b)
    <2>1. SUFFICES ASSUME NEW x \in Devices, NEW i \in 1 .. Len(r) + 1, Owes(r, b, x, i),
                          NEW k \in 0 .. i - 1, After(h, r, k, x)
                   PROVE  \E l \in k + 1 .. i - 1 : Begins(r[l], x)
      BY DEF Contiguous
    <2>2. \/ i = Len(r) + 1 /\ Replying(a, x) /\ x # d
          \/ i \in 1 .. Len(q) /\ r[i] = q[i] /\ Part(q[i], x) /\ ~q[i].first
      <3>1. CASE i = Len(r) + 1
        BY <2>1, <3>1 DEF Owes, Said
      <3>2. CASE i # Len(r) + 1
        <4>1. i \in 1 .. Len(r) /\ Part(r[i], x) /\ ~r[i].first
          BY <1>2, <2>1, <3>2 DEF Owes
        <4>2. i # Len(q) + 1
          BY <1>2, <1>3, <4>1
        <4>3. QED
          BY <1>2, <4>1, <4>2
      <3>3. QED
        BY <3>1, <3>2
    <2>3. k \in 0 .. Len(q)
      <3>1. k \in 0 .. Len(q) \/ (k = Len(q) + 1 /\ i = Len(r) + 1)
        BY <1>2
      <3>2. ASSUME k = Len(q) + 1, i = Len(r) + 1 PROVE FALSE
        <4>1. Tells(e, x)
          BY <1>2, <2>1, <3>2 DEF After
        <4>2. x # d
          BY <1>2, <2>2, <3>2
        <4>3. QED
          BY <1>3, <4>1, <4>2
      <3>3. QED
        BY <3>1, <3>2
    <2>4. After(h, q, k, x)
      BY <1>2, <2>1, <2>3
    <2>5. \E j \in 1 .. Len(q) + 1 : Owes(q, a, x, j) /\ k <= j - 1 /\ j <= i
      <3>1. CASE i = Len(r) + 1 /\ Replying(a, x)
        <4>1. Len(q) + 1 \in 1 .. Len(q) + 1 /\ Len(q) + 1 <= i /\ k <= Len(q) + 1 - 1
          BY <1>2, <2>3, <3>1
        <4>2. QED
          BY <3>1, <4>1 DEF Owes
      <3>2. CASE i \in 1 .. Len(q) /\ Part(q[i], x) /\ ~q[i].first
        <4>1. i \in 1 .. Len(q) + 1 /\ i # Len(q) + 1 /\ k <= i - 1 /\ i <= i
          BY <1>2, <3>2
        <4>2. QED
          BY <3>2, <4>1 DEF Owes
      <3>3. QED
        BY <2>2, <3>1, <3>2
    <2>6. PICK j \in 1 .. Len(q) + 1 : Owes(q, a, x, j) /\ k <= j - 1 /\ j <= i
      BY <2>5
    <2>7. k \in 0 .. j - 1
      BY <1>2, <2>3, <2>6
    <2>8. PICK l \in k + 1 .. j - 1 : Begins(q[l], x)
      BY <2>4, <2>6, <2>7 DEF Piped, Contiguous
    <2>9. l \in 1 .. Len(q) /\ l \in k + 1 .. i - 1
      BY <1>2, <2>3, <2>6
    <2>10. QED
      BY <1>2, <2>8, <2>9
  <1>5. ASSUME NEW x \in Devices, x # d PROVE Counted(h, r, b, g, x)
    <2>1. Counted(h, q, a, g, x) /\ b[x].sent = a[x].sent
      BY <1>5 DEF Piped, Said, SameSent
    <2>2. \A I, m, s : InQueue(I, q, x, m, s) => InQueue(I, r, x, m, s)
      BY <1>2, <1>3, <1>5 DEF InQueue
    <2>3. QED
      BY <2>1, <2>2 DEF Counted
  <1>6. Counted(h, r, b, g, d)
    <2>. DEFINE m == NewestOf(g, d)
                s == a[d].sent
                I == Inbox(h, d)
    <2>1. /\ m \in Nat /\ s \in Nat /\ m <= s /\ InBox(I, m, s) /\ InQueue(I, q, d, m, s)
          /\ b[d].sent = s + 1 /\ e.load.n = s + 1
      BY DEF Piped, Counted, Said
    <2>. HIDE DEF m, s, I
    <2>2. m + 1 .. s \subseteq m + 1 .. s + 1 /\ s + 1 \in m + 1 .. s + 1
          /\ \A n \in m + 1 .. s : n < s + 1
      BY <2>1
    <2>3. InBox(I, m, s + 1)
      BY <2>1, <2>2 DEF InBox
    <2>4. InQueue(I, r, d, m, s + 1)
      <3>1. ASSUME NEW i \in 1 .. Len(r), Tells(r[i], d)
            PROVE  /\ r[i].load.n \in m + 1 .. s + 1
                   /\ \A k \in 1 .. Len(I) : I[k].n < r[i].load.n
        <4>1. CASE i \in 1 .. Len(q)
          BY <1>2, <2>1, <2>2, <3>1, <4>1 DEF InQueue
        <4>2. CASE i = Len(q) + 1
          BY <1>2, <2>1, <2>2, <3>1, <4>2 DEF InBox
        <4>3. QED
          BY <1>2, <4>1, <4>2
      <3>2. ASSUME NEW i \in 1 .. Len(r), NEW j \in 1 .. Len(r), i < j, Tells(r[i], d), Tells(r[j], d)
            PROVE  r[i].load.n < r[j].load.n
        <4>1. i \in 1 .. Len(q)
          BY <1>2, <3>2
        <4>2. CASE j \in 1 .. Len(q)
          BY <1>2, <2>1, <3>2, <4>1, <4>2 DEF InQueue
        <4>3. CASE j = Len(q) + 1
          <5>1. r[i] = q[i] /\ r[j] = e
            BY <1>2, <4>1, <4>3
          <5>2. q[i].load.n \in m + 1 .. s
            BY <2>1, <3>2, <4>1, <5>1 DEF InQueue
          <5>3. QED
            BY <2>1, <2>2, <5>1, <5>2
        <4>4. QED
          BY <1>2, <4>2, <4>3
      <3>3. QED
        BY <3>1, <3>2 DEF InQueue
    <2>5. m <= s + 1 /\ s + 1 \in Nat
      BY <2>1
    <2>6. QED
      BY <2>1, <2>3, <2>4, <2>5 DEF Counted, m, s, I
  <1>7. QED
    BY <1>2, <1>4, <1>5, <1>6 DEF Piped

(* Every such step keeps the invariant.                                    *)
LEMMA PipeStepPiped ==
  ASSUME NEW h \in Host, NEW q, NEW r, NEW a, NEW b, NEW g, Traced(h, q, a),
         \A d \in Devices : \A n : Up(a, d, n) => n \in Handles,
         Piped(h, q, a, g), PipeStep(h, q, r, a, b)
  PROVE  Piped(h, r, b, g)
  <1>1. CASE Hushed(h, q, r, a, b)
    BY <1>1, HushedPiped
  <1>2. ASSUME NEW d \in Devices, NEW e, Begun(h, q, r, a, b, d, e) PROVE Piped(h, r, b, g)
    BY <1>2, BegunPiped DEF Begun, Sends
  <1>3. ASSUME NEW d \in Devices, NEW e, Continued(h, q, r, a, b, d, e) PROVE Piped(h, r, b, g)
    BY <1>3, ContinuedPiped DEF Continued, Sends
  <1>4. ASSUME NEW d \in Devices, NEW e, Said(h, q, r, a, b, d, e) PROVE Piped(h, r, b, g)
    BY <1>4, SaidPiped DEF Said, Sends
  <1>5. QED
    BY <1>1, <1>2, <1>3, <1>4 DEF PipeStep

----------------------------------------------------------------------------
(* What the controller and the devices do is such a step.                  *)

Quiets(h, a, b) == /\ ChannelsApt(h, b) /\ SameSent(a, b, Devices)
                   /\ \A d \in Devices : Replying(b, d) => Replying(a, d)
Others(a, b, d) == \A x \in Devices \ {d} : Replying(b, x) => Replying(a, x)
Hush(ps) == \E T : ps \in Seq(T) /\ \A x \in T : x.evt = "ACL" => IsSignal(x)

(* One link changed.                                                       *)
LEMMA ChangedLink ==
  ASSUME Air, NEW h, ChannelsApt(h, air), NEW d \in Devices, NEW l, air' = [air EXCEPT ![d] = l],
         \A psm \in DOMAIN l.chan : Proper(h, psm, l.chan[psm].scid)
  PROVE  /\ air'[d] = l /\ ChannelsApt(h, air') /\ Others(air, air', d)
         /\ SameSent(air, air', Devices \ {d})
         /\ l.sent = air[d].sent => SameSent(air, air', Devices)
         /\ (l.sent = air[d].sent /\ ("sdp" \in DOMAIN l.chan /\ l.chan["sdp"].rest => Replying(air, d)))
              => Quiets(h, air, air')
  <1>1. air'[d] = l /\ \A x \in Devices \ {d} : air'[x] = air[x]
    BY DEF Air
  <1>2. ChannelsApt(h, air')
    BY <1>1 DEF ChannelsApt
  <1>3. Others(air, air', d) /\ SameSent(air, air', Devices \ {d})
    BY <1>1 DEF Others, SameSent, Replying
  <1>4. l.sent = air[d].sent => SameSent(air, air', Devices)
    BY <1>1 DEF SameSent
  <1>5. ASSUME l.sent = air[d].sent, "sdp" \in DOMAIN l.chan /\ l.chan["sdp"].rest => Replying(air, d)
        PROVE  Quiets(h, air, air')
    <2>1. Replying(air', d) => Replying(air, d)
      BY <1>1, <1>5 DEF Replying
    <2>2. QED
      BY <1>2, <1>3, <1>4, <1>5, <2>1 DEF Quiets, Others
  <1>6. QED
    BY <1>1, <1>2, <1>3, <1>4, <1>5

(* One channel changed or gone.                                            *)
LEMMA ChangedChannel ==
  ASSUME Air, NEW h, ChannelsApt(h, air), NEW d \in Devices
  PROVE  /\ \A psm, c : Proper(h, psm, c.scid) /\ air' = WithChannel(d, psm, c) =>
              /\ ChannelsApt(h, air') /\ Others(air, air', d) /\ SameSent(air, air', Devices)
              /\ (psm = "sdp" => (Replying(air', d) <=> c.rest))
              /\ (psm # "sdp" \/ (c.rest => Replying(air, d))) => Quiets(h, air, air')
         /\ \A psm : air' = WithoutChannel(d, psm) => Quiets(h, air, air')
  <1>1. air[d] \in Link
    BY LinkParts
  <1>2. ASSUME NEW psm, NEW c, Proper(h, psm, c.scid), air' = WithChannel(d, psm, c)
        PROVE  /\ ChannelsApt(h, air') /\ Others(air, air', d) /\ SameSent(air, air', Devices)
               /\ (psm = "sdp" => (Replying(air', d) <=> c.rest))
               /\ (psm # "sdp" \/ (c.rest => Replying(air, d))) => Quiets(h, air, air')
    <2>. DEFINE m == [p \in DOMAIN air[d].chan \cup {psm} |-> IF p = psm THEN c ELSE air[d].chan[p]]
                l == [air[d] EXCEPT !.chan = m]
    <2>1. air' = [air EXCEPT ![d] = l]
      BY <1>2 DEF WithChannel
    <2>2. /\ DOMAIN m = DOMAIN air[d].chan \cup {psm} /\ m[psm] = c
          /\ \A p \in DOMAIN air[d].chan : p # psm => m[p] = air[d].chan[p]
      OBVIOUS
    <2>. HIDE DEF m
    <2>3. l.chan = m /\ l.sent = air[d].sent
      BY <1>1 DEF Link
    <2>. HIDE DEF l
    <2>4. \A p \in DOMAIN l.chan : Proper(h, p, l.chan[p].scid)
      BY <1>2, <2>2, <2>3 DEF ChannelsApt
    <2>5. air'[d] = l /\ ChannelsApt(h, air') /\ Others(air, air', d)
      BY <2>1, <2>4, ChangedLink
    <2>51. SameSent(air, air', Devices \ {d})
      BY <2>1, <2>4, ChangedLink
    <2>52. SameSent(air, air', Devices)
      BY <2>3, <2>5, <2>51 DEF SameSent
    <2>6. psm = "sdp" => (Replying(air', d) <=> c.rest)
      BY <2>2, <2>3, <2>5 DEF Replying
    <2>7. psm # "sdp" \/ (c.rest => Replying(air, d)) =>
            ("sdp" \in DOMAIN l.chan /\ l.chan["sdp"].rest => Replying(air, d))
      BY <2>2, <2>3 DEF Replying
    <2>8. psm # "sdp" \/ (c.rest => Replying(air, d)) => Quiets(h, air, air')
      <3>1. SUFFICES ASSUME psm # "sdp" \/ (c.rest => Replying(air, d)) PROVE Quiets(h, air, air')
        OBVIOUS
      <3>2. Replying(air', d) => Replying(air, d)
        BY <2>5, <2>7, <3>1 DEF Replying
      <3>3. QED
        BY <2>5, <2>52, <3>2 DEF Quiets, Others
    <2>9. QED
      BY <2>5, <2>52, <2>6, <2>8
  <1>3. ASSUME NEW psm, air' = WithoutChannel(d, psm) PROVE Quiets(h, air, air')
    <2>. DEFINE m == [p \in DOMAIN air[d].chan \ {psm} |-> air[d].chan[p]]
                l == [air[d] EXCEPT !.chan = m]
    <2>1. air' = [air EXCEPT ![d] = l]
      BY <1>3 DEF WithoutChannel
    <2>2. /\ DOMAIN m \subseteq DOMAIN air[d].chan
          /\ \A p \in DOMAIN m : m[p] = air[d].chan[p]
      OBVIOUS
    <2>. HIDE DEF m
    <2>3. l.chan = m /\ l.sent = air[d].sent
      BY <1>1 DEF Link
    <2>. HIDE DEF l
    <2>4. \A p \in DOMAIN l.chan : Proper(h, p, l.chan[p].scid)
      BY <2>2, <2>3 DEF ChannelsApt
    <2>5. "sdp" \in DOMAIN l.chan /\ l.chan["sdp"].rest => Replying(air, d)
      BY <2>2, <2>3 DEF Replying
    <2>6. QED
      BY <2>1, <2>3, <2>4, <2>5, ChangedLink
  <1>4. QED
    BY <1>2, <1>3

(* Sequences of at most two signals or events.                             *)
LEMMA HushShort ==
  /\ Hush(<<>>)
  /\ \A x : (x.evt = "ACL" => IsSignal(x)) => Hush(<<x>>) /\ Hush(<<x>> \o <<>>) /\ Hush(<<>> \o <<x>>)
  /\ \A x, y : (x.evt = "ACL" => IsSignal(x)) /\ (y.evt = "ACL" => IsSignal(y)) =>
       Hush(<<x, y>>) /\ Hush(<<x>> \o <<y>>)
  <1>1. Hush(<<>>)
    <2>. DEFINE T == {}
    <2>1. \A x \in T : x.evt = "ACL" => IsSignal(x)
      OBVIOUS
    <2>. HIDE DEF T
    <2>2. <<>> \in Seq(T)
      OBVIOUS
    <2>3. QED
      BY <2>1, <2>2 DEF Hush
  <1>2. ASSUME NEW x, NEW y, x.evt = "ACL" => IsSignal(x), y.evt = "ACL" => IsSignal(y)
        PROVE  /\ Hush(<<x>>) /\ Hush(<<x>> \o <<>>) /\ Hush(<<>> \o <<x>>)
               /\ Hush(<<x, y>>) /\ Hush(<<x>> \o <<y>>)
    <2>. DEFINE T == {x, y}
    <2>1. x \in T /\ y \in T /\ \A z \in T : z.evt = "ACL" => IsSignal(z)
      BY <1>2
    <2>. HIDE DEF T
    <2>2. <<x>> \in Seq(T) /\ <<y>> \in Seq(T) /\ <<>> \in Seq(T) /\ <<x, y>> \in Seq(T)
      BY <2>1
    <2>3. \A s, r \in Seq(T) : s \o r \in Seq(T)
      OBVIOUS
    <2>4. <<x>> \o <<>> \in Seq(T) /\ <<x>> \o <<y>> \in Seq(T) /\ <<>> \o <<x>> \in Seq(T)
      BY <2>2, <2>3
    <2>5. QED
      BY <2>1, <2>2, <2>4 DEF Hush
  <1>3. QED
    BY <1>1, <1>2

(* What the packets of the devices and the controller's events are.        *)
LEMMA PacketKinds ==
  /\ \A d, cmd, psm, scid, status, n :
       LET p == Signal(d, cmd, psm, scid, status)
       IN IsSignal(p) /\ IsSignal([p EXCEPT !.handle = n])
  /\ \A evt, d, n : evt # "ACL" => Event(evt, d, n).evt # "ACL"
  BY DEF Packet, Signal, Event, IsSignal

(* Such a sequence told while the links stay as they are.                  *)
LEMMA HushStep ==
  ASSUME NEW h, NEW S, rx \in Seq(S), Len(rx') < QSIZE, NEW ps, Hush(ps), Notify(ps),
         Quiets(h, air, air')
  PROVE  PipeStep(h, rx, rx', air, air')
  <1>1. PICK T : ps \in Seq(T) /\ \A x \in T : x.evt = "ACL" => IsSignal(x)
    BY DEF Hush
  <1>2. /\ Same(rx, rx') /\ Len(rx') = Len(rx) + Len(ps)
        /\ \A i \in 1 .. Len(ps) : rx'[Len(rx) + i] = ps[i]
    BY <1>1, NotifyAll
  <1>3. Len(rx) \in Nat /\ Len(ps) \in Nat /\ \A i \in 1 .. Len(ps) : ps[i] \in T
    BY <1>1
  <1>4. ASSUME NEW i \in Len(rx) + 1 .. Len(rx'), rx'[i].evt = "ACL" PROVE IsSignal(rx'[i])
    <2>1. i - Len(rx) \in 1 .. Len(ps) /\ Len(rx) + (i - Len(rx)) = i
      BY <1>2, <1>3
    <2>2. rx'[i] = ps[i - Len(rx)]
      BY <1>2, <2>1
    <2>3. QED
      BY <1>1, <1>3, <1>4, <2>1, <2>2
  <1>5. QED
    BY <1>2, <1>4 DEF PipeStep, Hushed, Quiets

(* Nothing told, nothing changed.                                          *)
LEMMA IgnoredPipe ==
  ASSUME NEW h, ChannelsApt(h, air), NEW S, rx \in Seq(S), UNCHANGED <<rx, air>>
  PROVE  PipeStep(h, rx, rx', air, air')
  <1>1. Len(rx) \in Nat /\ rx' = rx /\ air' = air
    OBVIOUS
  <1>2. \A i \in Len(rx) + 1 .. Len(rx) : FALSE
    BY <1>1
  <1>3. QED
    BY <1>1, <1>2 DEF PipeStep, Hushed, Same, SameSent

(* One packet more.                                                        *)
LEMMA NotifyOne ==
  ASSUME NEW S, rx \in Seq(S), Len(rx') < QSIZE, NEW e, Notify(<<e>>)
  PROVE  AddsOne(rx, rx', e)
  <1>. DEFINE ps == <<e>>
  <1>1. ps \in Seq({e}) /\ Len(ps) = 1 /\ ps[1] = e /\ Notify(ps) /\ Len(rx) \in Nat
    OBVIOUS
  <1>. HIDE DEF ps
  <1>2. /\ Same(rx, rx') /\ Len(rx') = Len(rx) + 1
        /\ \A i \in 1 .. 1 : rx'[Len(rx) + i] = ps[i]
    BY <1>1, NotifyAll
  <1>3. rx'[Len(rx) + 1] = e
    BY <1>1, <1>2
  <1>4. QED
    BY <1>2, <1>3 DEF AddsOne

(* A change of one link without news of its channels.                      *)
LEMMA LinkQuiets ==
  ASSUME Air, NEW h, ChannelsApt(h, air), NEW d \in Devices, NEW l, air' = [air EXCEPT ![d] = l],
         l.sent = air[d].sent, l.chan = air[d].chan \/ l.chan = <<>>
  PROVE  Quiets(h, air, air')
  <1>1. \A psm \in DOMAIN l.chan : psm \in DOMAIN air[d].chan /\ l.chan[psm] = air[d].chan[psm]
    OBVIOUS
  <1>2. \A psm \in DOMAIN l.chan : Proper(h, psm, l.chan[psm].scid)
    BY <1>1 DEF ChannelsApt
  <1>3. "sdp" \in DOMAIN l.chan /\ l.chan["sdp"].rest => Replying(air, d)
    BY <1>1 DEF Replying
  <1>4. QED
    BY <1>2, <1>3, ChangedLink

(* Authentication.                                                         *)
LEMMA TakenAuthPipe ==
  ASSUME Air, NEW h, ChannelsApt(h, air), NEW S, rx \in Seq(S), Len(rx') < QSIZE,
         NEW d \in Devices, NEW op, TakenAuth(d, op)
  PROVE  PipeStep(h, rx, rx', air, air')
  <1>. DEFINE l == air[d]
              comp == Event("AUTH_COMP", d, l.handle)
              Set(x) == [l EXCEPT !.auth = x]
  <1>1. \A x : Set(x).sent = l.sent /\ Set(x).chan = l.chan
    BY LinkParts DEF Link
  <1>2. comp.evt # "ACL" /\ Event("LINK_KEY_REQUEST", d, 0).evt # "ACL"
        /\ Event("PIN_CODE_REQUEST", d, 0).evt # "ACL"
        /\ Event("LINK_KEY_NOTIFICATION", d, 0).evt # "ACL"
    BY DEF Event
  <1>3. \/ Turns(d, Set("key"), <<Event("LINK_KEY_REQUEST", d, 0)>>)
        \/ Turns(d, Set("no"), <<comp>>)
        \/ Turns(d, Set("pin"), <<Event("PIN_CODE_REQUEST", d, 0)>>)
        \/ Turns(d, Set("no"), <<Event("LINK_KEY_NOTIFICATION", d, 0), comp>>)
        \/ Ignored
    BY DEF TakenAuth
  <1>4. ASSUME NEW x, NEW ps, Turns(d, Set(x), ps), Hush(ps) PROVE PipeStep(h, rx, rx', air, air')
    <2>1. air' = [air EXCEPT ![d] = Set(x)] /\ Notify(ps)
      BY <1>4 DEF Turns
    <2>. HIDE DEF Set
    <2>2. Quiets(h, air, air')
      BY <1>1, <2>1, LinkQuiets DEF l
    <2>3. QED
      BY <1>4, <2>1, <2>2, HushStep
  <1>5. Ignored => PipeStep(h, rx, rx', air, air')
    BY IgnoredPipe DEF Ignored, airVars
  <1>. HIDE DEF comp, Set, l
  <1>6. QED
    BY <1>2, <1>3, <1>4, <1>5, HushShort

(* Each command that is not data.                                          *)
LEMMA TakenCommandPipe ==
  ASSUME Air, NEW h, ChannelsApt(h, air), NEW S, rx \in Seq(S), Len(rx') < QSIZE,
         NEW p \in TxPacket, p.op # "ACL", TakenCommand(p)
  PROVE  PipeStep(h, rx, rx', air, air')
  <1>. DEFINE d == p.dev
              l == air[d]
              G == PipeStep(h, rx, rx', air, air')
  <1>1. p.op \in DeviceOps \cup {"INQUIRY"} \cup HandshakeSteps
    BY TxParts
  <1>2. CASE p.op \in HandshakeSteps
    <2>. DEFINE e == Event("COMMAND_COMPLETE", "none", p.op)
    <2>1. e.evt # "ACL" /\ Notify(<<e>>) /\ air' = air
      BY <1>2 DEF TakenCommand, HandshakeSteps, Event
    <2>. HIDE DEF e
    <2>2. Quiets(h, air, air')
      BY <2>1 DEF Quiets, SameSent
    <2>3. QED
      BY <2>1, <2>2, HushShort, HushStep
  <1>3. CASE p.op = "INQUIRY"
    <2>1. UNCHANGED <<rx, air>>
      BY <1>3 DEF TakenCommand, HandshakeSteps
    <2>2. QED
      BY <2>1, IgnoredPipe
  <1>4. CASE p.op \in DeviceOps
    <2>1. d \in Devices /\ l \in Link /\ air \in [Devices -> Link]
      BY <1>4, TxParts DEF Air
    <2>2. ASSUME Turns(d, [l EXCEPT !.link = "paging"], <<>>) PROVE G
      <3>. DEFINE k == [l EXCEPT !.link = "paging"]
      <3>1. air' = [air EXCEPT ![d] = k] /\ Notify(<<>>)
        BY <2>2 DEF Turns
      <3>2. k.sent = l.sent /\ k.chan = l.chan
        BY <2>1 DEF Link
      <3>. HIDE DEF k
      <3>3. Quiets(h, air, air')
        BY <2>1, <3>1, <3>2, LinkQuiets
      <3>4. QED
        BY <3>1, <3>3, HushShort, HushStep
    <2>3. CASE p.op = "CREATE_CONNECTION" /\ l.link = "down"
      BY <2>2, <2>3 DEF TakenCommand, HandshakeSteps
    <2>4. CASE p.op = "ACCEPT_CONNECTION_REQUEST" /\ l.link = "calling"
      BY <2>2, <2>4 DEF TakenCommand, HandshakeSteps
    <2>5. CASE p.op = "REMOTE_NAME_REQUEST"
      <3>. DEFINE k == [l EXCEPT !.asked = TRUE]
      <3>1. air' = [air EXCEPT ![d] = k] /\ Notify(<<>>)
        BY <2>5 DEF TakenCommand, HandshakeSteps, Turns
      <3>2. k.sent = l.sent /\ k.chan = l.chan
        BY <2>1 DEF Link
      <3>. HIDE DEF k
      <3>3. Quiets(h, air, air')
        BY <2>1, <3>1, <3>2, LinkQuiets
      <3>4. QED
        BY <3>1, <3>3, HushShort, HushStep
    <2>6. CASE /\ ~(p.op = "CREATE_CONNECTION" /\ l.link = "down")
               /\ ~(p.op = "ACCEPT_CONNECTION_REQUEST" /\ l.link = "calling")
               /\ p.op # "REMOTE_NAME_REQUEST"
      <3>1. (\E e \in Devices : TakenAuth(e, p.op)) \/ Ignored
        BY <1>4, <2>1, <2>6, Holder DEF TakenCommand, HandshakeSteps, DeviceOps
      <3>2. QED
        BY <3>1, TakenAuthPipe, IgnoredPipe DEF Ignored, airVars
    <2>7. QED
      BY <2>3, <2>4, <2>5, <2>6
  <1>5. QED
    BY <1>1, <1>2, <1>3, <1>4

(* Data and signals of the host.                                           *)
LEMMA TakenAclPipe ==
  ASSUME Air, NEW h \in Host, ChannelsApt(h, air), NEW S, rx \in Seq(S), Len(rx') < QSIZE,
         NEW d \in Devices, IsUp(d), NEW p, Offer(p) => Proper(h, p.psm, p.scid),
         p.op = "ACL", TakenAcl(d, p)
  PROVE  PipeStep(h, rx, rx', air, air')
  <1>. DEFINE c == Channel(d, p.psm)
              G == PipeStep(h, rx, rx', air, air')
  <1>1. ASSUME NEW psm, NEW x, NEW ps, Proper(h, psm, x.scid), psm # "sdp" \/ (x.rest => Replying(air, d)),
               Hush(ps), Notify(ps), air' = WithChannel(d, psm, x)
        PROVE  G
    <2>1. Quiets(h, air, air')
      BY <1>1, ChangedChannel
    <2>2. QED
      BY <1>1, <2>1, HushStep
  <1>2. ASSUME NEW psm, NEW ps, Hush(ps), Notify(ps), air' = WithoutChannel(d, psm) PROVE G
    <2>1. Quiets(h, air, air')
      BY <1>2, ChangedChannel
    <2>2. QED
      BY <1>2, <2>1, HushStep
  <1>3. Ignored => G
    BY IgnoredPipe DEF Ignored, airVars
  <1>4. ASSUME NEW x, NEW cmds, cmds \in Seq(Commands), OnChannel(d, p, x, cmds),
               Proper(h, p.psm, x.scid), p.psm # "sdp" \/ (x.rest => Replying(air, d))
        PROVE  G
    <2>. DEFINE e(k) == Signal(d, cmds[k], p.psm, x.scid, "success")
                ps == [k \in DOMAIN cmds |-> e(k)]
                T == {e(k) : k \in DOMAIN cmds}
    <2>1. \A k : IsSignal(e(k))
      BY PacketKinds
    <2>2. air' = WithChannel(d, p.psm, x) /\ Notify(ps)
      BY <1>4 DEF OnChannel
    <2>. HIDE DEF e
    <2>3. \A y \in T : y.evt = "ACL" => IsSignal(y)
      BY <2>1
    <2>4. ps \in Seq(T)
      <3>1. DOMAIN cmds = 1 .. Len(cmds) /\ Len(cmds) \in Nat
        BY <1>4
      <3>2. ps \in [1 .. Len(cmds) -> T]
        BY <3>1
      <3>. HIDE DEF ps, T
      <3>3. \A U, n, f : n \in Nat /\ f \in [1 .. n -> U] => f \in Seq(U)
        OBVIOUS
      <3>4. QED
        BY <3>1, <3>2, <3>3
    <2>. HIDE DEF ps, T
    <2>5. Hush(ps)
      BY <2>3, <2>4 DEF Hush
    <2>6. QED
      BY <1>1, <1>4, <2>2, <2>5
  <1>5. CASE p.cmd = "CONN_REQ"
    <2>. DEFINE Answer(cmd, status) == Signal(d, cmd, p.psm, p.scid, status)
    <2>1. \A cmd, status : IsSignal(Answer(cmd, status))
      BY PacketKinds
    <2>2. TakenConnReq(d, p) /\ Proper(h, p.psm, p.scid)
      BY <1>5 DEF TakenAcl, Offer, Offers
    <2>3. CASE HasChannel(d, p.psm)
      <3>. DEFINE ps == <<Answer("CONN_RSP", "refused")>>
                  l == air[d]
      <3>1. air' = [air EXCEPT ![d] = l] /\ Notify(ps)
        BY <2>2, <2>3 DEF TakenConnReq, Turns
      <3>2. l.sent = air[d].sent /\ l.chan = air[d].chan
        OBVIOUS
      <3>. HIDE DEF Answer, l
      <3>3. Hush(ps)
        BY <2>1, HushShort
      <3>. HIDE DEF ps
      <3>4. Quiets(h, air, air')
        BY <3>1, <3>2, LinkQuiets
      <3>5. QED
        BY <3>1, <3>3, <3>4, HushStep
    <2>4. CASE ~HasChannel(d, p.psm)
      <3>1. PICK late \in BOOLEAN :
              /\ air' = WithChannel(d, p.psm, Joined(p.scid, late))
              /\ Notify(<<Answer("CONN_RSP", "success")>>
                        \o IF late THEN <<>> ELSE <<Answer("CONF_REQ", "success")>>)
        BY <2>2, <2>4 DEF TakenConnReq
      <3>. HIDE DEF Answer
      <3>2. \E ps : Hush(ps) /\ Notify(ps)
        <4>1. CASE late
          BY <2>1, <3>1, <4>1, HushShort
        <4>2. CASE ~late
          BY <2>1, <3>1, <4>2, HushShort
        <4>3. QED
          BY <4>1, <4>2
      <3>3. Joined(p.scid, late).scid = p.scid /\ ~Joined(p.scid, late).rest
        BY DEF Joined
      <3>4. QED
        BY <1>1, <2>2, <3>1, <3>2, <3>3
    <2>5. QED
      BY <2>3, <2>4
  <1>6. CASE p.cmd # "CONN_REQ" /\ ~HasChannel(d, p.psm)
    BY <1>3, <1>6 DEF TakenAcl
  <1>7. CASE p.cmd # "CONN_REQ" /\ HasChannel(d, p.psm)
    <2>0. c \in Chan /\ Proper(h, p.psm, c.scid) /\ (p.psm # "sdp" \/ (c.rest => Replying(air, d)))
      BY <1>7, LinkParts DEF ChannelsApt, HasChannel, Channel, Replying
    <2>1. <<"CONF_REQ">> \in Seq(Commands) /\ <<"CONF_RSP">> \in Seq(Commands)
          /\ <<"CONF_RSP", "CONF_REQ">> \in Seq(Commands) /\ <<>> \in Seq(Commands)
      <3>. DEFINE T == Commands
      <3>1. "CONF_REQ" \in T /\ "CONF_RSP" \in T
        BY DEF Commands
      <3>. HIDE DEF T
      <3>2. \A x, y \in T : <<x>> \in Seq(T) /\ <<x, y>> \in Seq(T) /\ <<>> \in Seq(T)
        OBVIOUS
      <3>3. QED
        BY <3>1, <3>2 DEF T
    <2>2. CASE p.cmd = "CONN_RSP"
      <3>1. Ignored \/ OnChannel(d, p, Joined(p.scid, FALSE), <<"CONF_REQ">>)
        BY <1>7, <2>2 DEF TakenAcl
      <3>2. Proper(h, p.psm, Joined(p.scid, FALSE).scid) /\ ~Joined(p.scid, FALSE).rest
        BY <2>2 DEF Joined, Offer, Offers
      <3>3. QED
        BY <1>3, <1>4, <2>1, <3>1, <3>2
    <2>3. CASE p.cmd = "CONF_REQ"
      <3>. DEFINE x == [c EXCEPT !.wait = @ \ {"CONF_REQ"}, !.late = FALSE]
                  cmds == IF c.late THEN <<"CONF_RSP", "CONF_REQ">> ELSE <<"CONF_RSP">>
      <3>1. OnChannel(d, p, x, cmds)
        BY <1>7, <2>3 DEF TakenAcl
      <3>2. cmds \in Seq(Commands)
        BY <2>1
      <3>3. x.scid = c.scid /\ x.rest = c.rest
        BY <2>0 DEF Chan
      <3>. HIDE DEF x, cmds, c
      <3>4. QED
        BY <1>4, <2>0, <3>1, <3>2, <3>3
    <2>4. CASE p.cmd = "CONF_RSP"
      <3>. DEFINE x == [c EXCEPT !.wait = @ \ {"CONF_RSP"}]
      <3>1. OnChannel(d, p, x, <<>>)
        BY <1>7, <2>4 DEF TakenAcl
      <3>2. x.scid = c.scid /\ x.rest = c.rest
        BY <2>0 DEF Chan
      <3>. HIDE DEF x, c
      <3>3. QED
        BY <1>4, <2>0, <2>1, <3>1, <3>2
    <2>5. CASE p.cmd = "DISCONN_REQ"
      <3>. DEFINE e == Signal(d, "DISCONN_RSP", p.psm, p.scid, "success")
      <3>1. Notify(<<e>>) /\ air' = WithoutChannel(d, p.psm)
        BY <1>7, <2>5 DEF TakenAcl
      <3>2. IsSignal(e)
        BY PacketKinds
      <3>. HIDE DEF e
      <3>3. QED
        BY <1>2, <3>1, <3>2, HushShort
    <2>6. CASE p.cmd = "SEARCH" /\ p.psm = "sdp" /\ ~c.rest
      <3>. DEFINE e == [Packet(d, c.scid, "MORE") EXCEPT !.size = 2]
                  x == [c EXCEPT !.rest = TRUE]
      <3>1. Notify(<<e>>) /\ air' = WithChannel(d, "sdp", x)
        BY <1>7, <2>6 DEF TakenAcl
      <3>2. /\ e.evt = "ACL" /\ e.from = d /\ e.size = 2 /\ e.into = c.scid /\ e.first
            /\ e.handle = air[d].handle
        BY DEF Packet
      <3>3. x.scid = c.scid /\ c.scid # 1
        BY <2>0 DEF Chan, Sids, Cids, FirstCid
      <3>. HIDE DEF e, x
      <3>4. ChannelsApt(h, air') /\ Others(air, air', d) /\ SameSent(air, air', Devices)
        BY <2>0, <2>6, <3>1, <3>3, ChangedChannel
      <3>5. AddsOne(rx, rx', e) /\ Up(air, d, e.handle)
        BY <3>1, <3>2, NotifyOne DEF Up, IsUp
      <3>6. Begins(e, d) /\ Clear(h, e.into)
        BY <2>0, <2>6, <3>2, <3>3 DEF Begins, Part, Carries, Proper, Clear
      <3>7. Begun(h, rx, rx', air, air', d, e)
        BY <3>4, <3>5, <3>6 DEF Begun, Sends, Others
      <3>8. QED
        BY <3>7 DEF PipeStep
    <2>7. CASE p.cmd \notin {"CONN_RSP", "CONF_REQ", "CONF_RSP", "DISCONN_REQ"}
               /\ ~(p.cmd = "SEARCH" /\ p.psm = "sdp" /\ ~c.rest)
      BY <1>3, <1>7, <2>7 DEF TakenAcl
    <2>8. QED
      BY <2>2, <2>3, <2>4, <2>5, <2>6, <2>7
  <1>8. QED
    BY <1>5, <1>6, <1>7

(* Whatever packet of the host the controller takes.                       *)
LEMMA TakenPipe ==
  ASSUME Air, NEW h \in Host, ChannelsApt(h, air), NEW S, rx \in Seq(S), Len(rx') < QSIZE,
         NEW p \in TxPacket, Offer(p) => Proper(h, p.psm, p.scid), Taken(p)
  PROVE  PipeStep(h, rx, rx', air, air')
  <1>1. CASE p.op # "ACL"
    BY <1>1, TakenCommandPipe DEF Taken
  <1>2. CASE p.op = "ACL"
    <2>1. Ignored => PipeStep(h, rx, rx', air, air')
      BY IgnoredPipe DEF Ignored, airVars
    <2>. DEFINE d == CHOOSE x \in LinkOf(p.handle) : TRUE
    <2>2. LinkOf(p.handle) # {} => d \in Devices /\ IsUp(d)
      BY DEF LinkOf
    <2>3. Ignored \/ (LinkOf(p.handle) # {} /\ TakenAcl(d, p))
      BY <1>2 DEF Taken
    <2>. HIDE DEF d
    <2>4. QED
      BY <1>2, <2>1, <2>2, <2>3, TakenAclPipe
  <1>3. QED
    BY <1>1, <1>2

(* 0 is no interrupt channel's id.                                         *)
LEMMA NoneProper ==
  ASSUME NEW h \in Host
  PROVE  \A psm : Proper(h, psm, 0)
  BY Numbers DEF Proper, Reads

(* What the controller answers.                                            *)
LEMMA AnswersPipe ==
  ASSUME Air, NEW h \in Host, ChannelsApt(h, air), NEW S, rx \in Seq(S), Len(rx') < QSIZE, Answers
  PROVE  PipeStep(h, rx, rx', air, air')
  <1>. DEFINE G == PipeStep(h, rx, rx', air, air')
  <1>1. ASSUME NEW e, e.evt # "ACL", Notify(<<e>>), Quiets(h, air, air') PROVE G
    BY <1>1, HushShort, HushStep
  <1>2. air' = air => Quiets(h, air, air')
    BY DEF Quiets, SameSent
  <1>3. CASE InquiryResult
    <2>1. PICK d \in Devices : Notify(<<Event("INQUIRY_RESULT", d, 0)>>) /\ air' = air
      BY <1>3 DEF InquiryResult
    <2>2. Event("INQUIRY_RESULT", d, 0).evt # "ACL"
      BY DEF Event
    <2>3. QED
      BY <1>1, <1>2, <2>1, <2>2
  <1>4. CASE InquiryComplete
    <2>1. Event("INQUIRY_COMP", "none", 0).evt # "ACL"
      BY DEF Event
    <2>2. QED
      BY <1>1, <1>2, <1>4, <2>1 DEF InquiryComplete
  <1>5. ASSUME NEW d \in Devices, ConnectionMade(d) PROVE G
    <2>1. PICK n \in Handles :
            /\ air' = [air EXCEPT ![d].link = "up", ![d].handle = n]
            /\ Notify(<<Event("CONNECTION_COMP", d, n)>>)
      BY <1>5 DEF ConnectionMade
    <2>. DEFINE l == [air[d] EXCEPT !.link = "up", !.handle = n]
    <2>2. air' = [air EXCEPT ![d] = l]
      BY <2>1 DEF Air
    <2>3. l.sent = air[d].sent /\ l.chan = air[d].chan
      BY LinkParts DEF Link
    <2>. HIDE DEF l
    <2>4. Quiets(h, air, air')
      BY <2>2, <2>3, LinkQuiets
    <2>5. Event("CONNECTION_COMP", d, n).evt # "ACL"
      BY DEF Event
    <2>6. QED
      BY <1>1, <2>1, <2>4, <2>5
  <1>6. ASSUME NEW d \in Devices, NameRead(d) PROVE G
    <2>. DEFINE e == Event("RMT_NAME", d, 0)
                l == [air[d] EXCEPT !.asked = FALSE]
    <2>1. e.evt # "ACL" /\ Notify(<<e>>) /\ air' = [air EXCEPT ![d] = l]
      BY <1>6 DEF Event, NameRead
    <2>2. l.sent = air[d].sent /\ l.chan = air[d].chan
      BY LinkParts DEF Link
    <2>. HIDE DEF e, l
    <2>3. Quiets(h, air, air')
      BY <2>1, <2>2, LinkQuiets
    <2>4. QED
      BY <1>1, <2>1, <2>3
  <1>7. ASSUME NEW d \in Devices, SdpAnswer(d) PROVE G
    <2>. DEFINE c == Channel(d, "sdp")
                x == [c EXCEPT !.rest = FALSE]
                e(load) == [Packet(d, c.scid, load) EXCEPT !.size = 2, !.first = FALSE]
    <2>1. PICK load \in {"LAST", "MORE"} : Notify(<<e(load)>>)
      BY <1>7 DEF SdpAnswer
    <2>2. IsUp(d) /\ HasChannel(d, "sdp") /\ c.rest /\ air' = WithChannel(d, "sdp", x)
      BY <1>7 DEF SdpAnswer, Answering
    <2>3. /\ c \in Chan /\ Proper(h, "sdp", c.scid) /\ Replying(air, d)
      BY <2>2, LinkParts DEF ChannelsApt, HasChannel, Channel, Replying
    <2>. DEFINE p == e(load)
    <2>4. /\ p.evt = "ACL" /\ p.from = d /\ p.size = 2 /\ p.into = c.scid /\ ~p.first
          /\ p.handle = air[d].handle
      BY DEF Packet
    <2>5. x.scid = c.scid /\ c.scid # 1 /\ ~x.rest
      BY <2>3 DEF Chan, Sids, Cids, FirstCid
    <2>6. Notify(<<p>>)
      BY <2>1
    <2>. HIDE DEF p, x, e
    <2>7. /\ ChannelsApt(h, air') /\ Others(air, air', d) /\ SameSent(air, air', Devices)
          /\ Replying(air', d) <=> x.rest
      BY <2>2, <2>3, <2>5, ChangedChannel
    <2>8. AddsOne(rx, rx', p) /\ Up(air, d, p.handle)
      BY <2>2, <2>4, <2>6, NotifyOne DEF Up, IsUp
    <2>9. Part(p, d) /\ Clear(h, p.into)
      BY <2>3, <2>4, <2>5 DEF Part, Carries, Proper, Clear
    <2>10. Continued(h, rx, rx', air, air', d, p)
      BY <2>3, <2>4, <2>5, <2>7, <2>8, <2>9 DEF Continued, Sends, Others
    <2>11. QED
      BY <2>10 DEF PipeStep
  <1>8. QED
    BY <1>3, <1>4, <1>5, <1>6, <1>7 DEF Answers

(* What they do on their own.                                              *)
LEMMA OwnAccordPipe ==
  ASSUME Air, NEW h \in Host, ChannelsApt(h, air), NEW S, rx \in Seq(S), Len(rx') < QSIZE, OwnAccord
  PROVE  PipeStep(h, rx, rx', air, air')
  <1>. DEFINE G == PipeStep(h, rx, rx', air, air')
  <1>1. ASSUME NEW e, e.evt = "ACL" => IsSignal(e), Notify(<<e>>), Quiets(h, air, air') PROVE G
    BY <1>1, HushShort, HushStep
  <1>2. ASSUME NEW d \in Devices, DataOvertakes(d) PROVE G
    <2>. DEFINE m == [p \in {"control"} |-> Asked]
                s == Signal(d, "CONN_REQ", "control", 0, "success")
    <2>1. PICK n \in Handles :
            /\ air' = [air EXCEPT ![d].link = "up", ![d].handle = n, ![d].chan = m]
            /\ Notify(<<[s EXCEPT !.handle = n], Event("CONNECTION_COMP", d, n)>>)
      BY <1>2 DEF DataOvertakes
    <2>2. \A p \in DOMAIN m : p # "sdp" /\ m[p].scid = 0
      BY DEF Asked
    <2>. HIDE DEF m
    <2>. DEFINE l == [air[d] EXCEPT !.link = "up", !.handle = n, !.chan = m]
                x == [s EXCEPT !.handle = n]
                e == Event("CONNECTION_COMP", d, n)
    <2>3. air' = [air EXCEPT ![d] = l]
      BY <2>1 DEF Air
    <2>4. l.sent = air[d].sent /\ l.chan = m
      BY LinkParts DEF Link
    <2>5. IsSignal(x) /\ e.evt # "ACL" /\ Notify(<<x, e>>)
      BY <2>1, PacketKinds DEF Event
    <2>. HIDE DEF l, x, e
    <2>6. \A p \in DOMAIN l.chan : Proper(h, p, l.chan[p].scid)
      BY <2>2, <2>4, NoneProper
    <2>7. "sdp" \notin DOMAIN l.chan
      BY <2>2, <2>4
    <2>8. Quiets(h, air, air')
      BY <2>3, <2>4, <2>6, <2>7, ChangedLink
    <2>9. Hush(<<x, e>>)
      BY <2>5, HushShort
    <2>10. QED
      BY <2>5, <2>8, <2>9, HushStep
  <1>3. ASSUME NEW d \in Devices, Calls(d) PROVE G
    <2>. DEFINE l == [air[d] EXCEPT !.link = "calling", !.called = TRUE]
                e == Event("CONNECTION_REQUEST", d, 0)
    <2>1. /\ air' = [air EXCEPT ![d].link = "calling", ![d].called = TRUE]
          /\ Notify(<<e>>) /\ e.evt # "ACL"
      BY <1>3 DEF Calls, Event
    <2>2. l.sent = air[d].sent /\ l.chan = air[d].chan /\ air' = [air EXCEPT ![d] = l]
      BY <2>1, LinkParts DEF Air, Link
    <2>. HIDE DEF l, e
    <2>3. Quiets(h, air, air')
      BY <2>2, LinkQuiets
    <2>4. QED
      BY <1>1, <2>1, <2>3
  <1>4. \A l : Downed(l).sent = l.sent /\ Downed(l).chan = <<>>
    BY DEF Downed, NoLink
  <1>5. ASSUME NEW d \in Devices, ConnectionFails(d) PROVE G
    <2>. DEFINE e == Event("CONNECTION_COMP", d, 0)
    <2>1. air' = [air EXCEPT ![d] = Downed(air[d])] /\ Notify(<<e>>) /\ e.evt # "ACL"
      BY <1>5 DEF ConnectionFails, Event
    <2>. HIDE DEF e
    <2>2. Quiets(h, air, air')
      BY <1>4, <2>1, LinkQuiets
    <2>3. QED
      BY <1>1, <2>1, <2>2
  <1>6. ASSUME NEW d \in Devices, Drops(d) PROVE G
    <2>. DEFINE n == air[d].handle
                a == Event("AUTH_COMP", d, n)
                e == Event("DISCONNECTION_COMP", d, n)
    <2>1. /\ air' = [air EXCEPT ![d] = Downed(air[d])]
          /\ Notify((IF air[d].auth = "no" THEN <<>> ELSE <<a>>) \o <<e>>)
          /\ a.evt # "ACL" /\ e.evt # "ACL"
      BY <1>6 DEF Drops, Event
    <2>. HIDE DEF a, e
    <2>2. Quiets(h, air, air')
      BY <1>4, <2>1, LinkQuiets
    <2>3. CASE air[d].auth = "no"
      <3>1. Notify(<<>> \o <<e>>) /\ Hush(<<>> \o <<e>>)
        BY <2>1, <2>3, HushShort
      <3>2. QED
        BY <2>2, <3>1, HushStep
    <2>4. CASE air[d].auth # "no"
      <3>1. Notify(<<a>> \o <<e>>) /\ Hush(<<a>> \o <<e>>)
        BY <2>1, <2>4, HushShort
      <3>2. QED
        BY <2>2, <3>1, HushStep
    <2>5. QED
      BY <2>3, <2>4
  <1>7. ASSUME NEW d \in Devices, Reports(d) PROVE G
    <2>. DEFINE n == air[d].sent + 1
                l == [air[d] EXCEPT !.sent = n]
                c == Channel(d, "interrupt")
                e(k) == Packet(d, c.scid, [from |-> d, n |-> n, kind |-> k])
    <2>1. PICK k : Notify(<<e(k)>>)
      BY <1>7 DEF Reports
    <2>2. /\ IsUp(d) /\ HasChannel(d, "interrupt") /\ ~Answering(d)
          /\ air' = [air EXCEPT ![d] = l]
      BY <1>7 DEF Reports, Usable
    <2>3. l.chan = air[d].chan /\ l.sent = n
      BY LinkParts DEF Link
    <2>4. c \in Chan /\ Proper(h, "interrupt", c.scid) /\ ~Replying(air, d)
      BY <2>2, LinkParts DEF ChannelsApt, HasChannel, Channel, Replying, Answering
    <2>. DEFINE p == e(k)
    <2>5. /\ p.evt = "ACL" /\ p.from = d /\ p.size = 1 /\ p.into = c.scid /\ p.first
          /\ p.handle = air[d].handle /\ p.load.n = n
      BY DEF Packet
    <2>6. c.scid # 1 /\ Notify(<<p>>)
      BY <2>1, <2>4 DEF Chan, Sids, Cids, FirstCid
    <2>. HIDE DEF p, e, l
    <2>7. \A q \in DOMAIN l.chan : Proper(h, q, l.chan[q].scid)
      BY <2>3 DEF ChannelsApt
    <2>8. /\ air'[d] = l /\ ChannelsApt(h, air') /\ Others(air, air', d)
          /\ SameSent(air, air', Devices \ {d})
      BY <2>2, <2>7, ChangedLink
    <2>9. ~Replying(air', d)
      BY <2>3, <2>4, <2>8 DEF Replying
    <2>10. AddsOne(rx, rx', p) /\ Up(air, d, p.handle)
      BY <2>2, <2>5, <2>6, NotifyOne DEF Up, IsUp
    <2>11. Tells(p, d) /\ p.into < h.cid
      BY <2>4, <2>5, <2>6 DEF Tells, Carries, Proper
    <2>12. Said(h, rx, rx', air, air', d, p)
      BY <2>3, <2>5, <2>8, <2>9, <2>10, <2>11 DEF Said, Sends, Others
    <2>13. QED
      BY <2>12 DEF PipeStep
  <1>8. ASSUME NEW d \in Devices, NEW psm, AsksChannel(d, psm) PROVE G
    <2>. DEFINE e == Signal(d, "CONN_REQ", psm, 0, "success")
    <2>1. air' = WithChannel(d, psm, Asked) /\ Notify(<<e>>) /\ IsSignal(e)
      BY <1>8, PacketKinds DEF AsksChannel
    <2>2. Asked.scid = 0 /\ ~Asked.rest
      BY DEF Asked
    <2>. HIDE DEF e
    <2>3. Quiets(h, air, air')
      BY <2>1, <2>2, NoneProper, ChangedChannel
    <2>4. QED
      BY <1>1, <2>1, <2>3
  <1>9. ASSUME NEW d \in Devices, NEW psm, ClosesChannel(d, psm) PROVE G
    <2>. DEFINE e == Signal(d, "DISCONN_REQ", psm, Channel(d, psm).scid, "success")
    <2>1. air' = WithoutChannel(d, psm) /\ Notify(<<e>>) /\ IsSignal(e)
      BY <1>9, PacketKinds DEF ClosesChannel
    <2>. HIDE DEF e
    <2>2. Quiets(h, air, air')
      BY <2>1, ChangedChannel
    <2>3. QED
      BY <1>1, <2>1, <2>2
  <1>10. QED
    BY <1>2, <1>3, <1>5, <1>6, <1>7, <1>8, <1>9 DEF OwnAccord

----------------------------------------------------------------------------
(* An event or a packet received.                                          *)

(* A handle the host is told of with the first packet, or has and does not *)
(* lose with it, is the one it has afterwards.                             *)
LEMMA HandleAfter ==
  ASSUME NEW h, Good(h), NEW q \in Seq(RxPacket), q # <<>>, NEW a, Traced(h, q, a),
         KnownFirst(h, q, a), Head(q) \in RxQuiet \/ h.state # NotSent,
         NEW d \in Devices, NEW n \in Handles,
         Told(h, q, 1, d, n) \/ (Handle(h, d) = n /\ ~Ended(q, 1, n))
  PROVE  Handle(Handled(h, Head(q)), d) = n
  <1>. DEFINE p == Head(q)
              g == Handled(h, p)
              x == Relinked(h, p)
  <1>1. p \in RxPacket /\ p = q[1] /\ 1 \in 0 .. Len(q) /\ 1 \in 1 .. Len(q) /\ 0 \in 0 .. Len(q)
    <2>1. Len(q) \in Nat /\ 1 \in 0 .. Len(q) /\ p = q[1]
      BY TailTold
    <2>2. QED
      BY <2>1
  <1>2. Tracks(x, g)
    <2>1. p \in RxQuiet \/ h.state # NotSent
      OBVIOUS
    <2>. HIDE DEF p
    <2>2. QED
      BY <1>1, <2>1, HandledGood
  <1>3. p.evt = "CONNECTION_COMP" => p.dev \in Devices /\ p.arg \in Links
    BY <1>1, RxParts DEF Links
  <1>4. p.evt = "CONNECTION_COMP" => h.bt[p.dev].known
    <2>1. SUFFICES ASSUME p.evt = "CONNECTION_COMP" PROVE h.bt[p.dev].known
      OBVIOUS
    <2>2. Completed(q, 1, p.dev)
      BY <1>1, <2>1 DEF Completed
    <2>3. h.bt[p.dev].known \/ \E k \in 1 .. 1 - 1 : Requested(q, k, p.dev)
      BY <1>1, <1>3, <2>1, <2>2 DEF KnownFirst
    <2>4. QED
      BY <2>3
  <1>5. p.evt = "CONNECTION_COMP" => Handle(h, p.dev) \notin Handles
    <2>1. SUFFICES ASSUME p.evt = "CONNECTION_COMP", Handle(h, p.dev) \in Handles PROVE FALSE
      OBVIOUS
    <2>. DEFINE e == p.dev
                i == Handle(h, e)
                m == p.arg
    <2>2. e \in Devices /\ m \in Links /\ i \in Handles
      BY <1>3, <2>1
    <2>3. Told(h, q, 0, e, i) /\ Told(h, q, 1, e, m)
      BY <1>1, <2>1 DEF Told, Completed
    <2>. HIDE DEF e, i, m
    <2>4. 0 < 1
      OBVIOUS
    <2>5. \E k \in 0 + 1 .. 1 - 1 : Ended(q, k, i)
      BY <1>1, <2>2, <2>3, <2>4 DEF Traced, EndsFirst
    <2>6. QED
      BY <2>5
  <1>6. n # 0 /\ n # NoHandle
    BY HandleAssumption DEF NoHandle
  <1>7. Told(h, q, 1, d, n) <=> p.evt = "CONNECTION_COMP" /\ p.dev = d /\ p.arg = n
    BY <1>1 DEF Told, Completed
  <1>8. Ended(q, 1, n) <=> p.evt = "DISCONNECTION_COMP" /\ p.arg = n
    BY <1>1 DEF Ended
  <1>9. Handle(x, d) = n
    <2>1. CASE p.evt = "CONNECTION_COMP"
      <3>. DEFINE e == p.dev
                  m == IF p.arg = 0 THEN NoHandle ELSE p.arg
                  y == [h EXCEPT !.bt[e].handle = m]
      <3>1. e \in Devices /\ m \in Links /\ h.bt[e].known
        BY <1>3, <1>4, <2>1 DEF Links
      <3>2. x = y
        BY <1>4, <2>1 DEF Relinked
      <3>3. e = d => m = n
        BY <1>5, <1>6, <1>7, <2>1
      <3>4. e # d => Handle(h, d) = n
        BY <1>7, <2>1
      <3>. HIDE DEF e, m
      <3>5. y = WithHandle(h, e, m)
        BY DEF WithHandle
      <3>. HIDE DEF y
      <3>6. /\ Good(y) /\ (y.state = NotSent => h.state = NotSent)
            /\ y.bt[e] = [h.bt[e] EXCEPT !.handle = m] /\ Handle(y, e) = m
            /\ y.bt[e].known
            /\ y.tx = h.tx /\ y.inp = h.inp /\ \A f \in Devices \ {e} : y.bt[f] = h.bt[f]
        BY <3>1, <3>5, CompRelinked
      <3>7. QED
        BY <3>2, <3>3, <3>4, <3>6 DEF Handle
    <2>2. CASE p.evt = "DISCONNECTION_COMP" /\ OnHandle(h, p.arg) # {}
      <3>. DEFINE e == get_device_by_handle(h, p.arg)
                  y == disconnect_all(h, e)
      <3>1. e \in Devices /\ h.bt[e].known /\ Handle(h, e) = p.arg
        BY <2>2, HandleOf
      <3>2. x = y
        BY <2>2 DEF Relinked
      <3>3. Handle(h, d) = n /\ p.arg # n
        BY <1>7, <1>8, <2>2
      <3>. HIDE DEF e
      <3>4. \A f \in Devices \ {e} : y.bt[f] = h.bt[f]
        BY <3>1, DiscRelinked
      <3>. HIDE DEF y
      <3>5. QED
        BY <3>1, <3>2, <3>3, <3>4 DEF Handle
    <2>3. CASE p.evt # "CONNECTION_COMP" /\ ~(p.evt = "DISCONNECTION_COMP" /\ OnHandle(h, p.arg) # {})
      <3>1. x = h
        BY <2>3 DEF Relinked
      <3>2. QED
        BY <1>7, <2>3, <3>1
    <2>4. QED
      BY <2>1, <2>2, <2>3
  <1>. HIDE DEF p, g, x
  <1>10. Handle(g, d) = n
    BY <1>2, <1>6, <1>9 DEF Tracks
  <1>11. QED
    BY <1>10 DEF g, p

(* What is told when a packet is handled is still told one place earlier.  *)
LEMMA TailReaches ==
  ASSUME NEW h, Good(h), NEW q \in Seq(RxPacket), q # <<>>, NEW a, Traced(h, q, a),
         KnownFirst(h, q, a), Head(q) \in RxQuiet \/ h.state # NotSent,
         NEW d \in Devices, NEW n \in Handles, NEW i \in 1 .. Len(Tail(q)),
         Reaches(h, q, i + 1, d, n)
  PROVE  Reaches(Handled(h, Head(q)), Tail(q), i, d, n)
  <1>. DEFINE g == Handled(h, Head(q))
              t == Tail(q)
              L == Len(q)
              K == Len(t)
  <1>1. L \in Nat /\ K = L - 1 /\ 1 \in 0 .. L /\ K \in Nat
    <2>1. L \in Nat /\ K = L - 1 /\ 1 \in 0 .. L
      BY TailTold
    <2>2. QED
      BY <2>1
  <1>2. ASSUME NEW k \in 1 .. K
        PROVE  /\ Told(g, t, k, d, n) <=> Told(h, q, k + 1, d, n)
               /\ Ended(t, k, n) <=> Ended(q, k + 1, n)
    BY TailTold
  <1>3. Told(h, q, 1, d, n) \/ (Handle(h, d) = n /\ ~Ended(q, 1, n)) => Handle(g, d) = n
    BY HandleAfter
  <1>4. i \in 1 .. K
    OBVIOUS
  <1>5. PICK j \in 0 .. i + 1 - 1 : Told(h, q, j, d, n) /\ \A k \in j + 1 .. i + 1 - 1 : ~Ended(q, k, n)
    BY DEF Reaches
  <1>. HIDE DEF g, t, L, K
  <1>6. \A k \in 1 .. i - 1 : k \in 1 .. K /\ (k + 1 \in j + 1 .. i + 1 - 1 \/ k + 1 <= j)
    BY <1>1, <1>4, <1>5
  <1>7. CASE j <= 1
    <2>1. Handle(g, d) = n
      <3>1. CASE j = 1
        BY <1>3, <1>5, <3>1
      <3>2. CASE j = 0
        <4>1. 1 \in j + 1 .. i + 1 - 1
          BY <1>4, <3>2
        <4>2. QED
          BY <1>3, <1>5, <3>2, <4>1 DEF Told
      <3>3. QED
        BY <1>5, <1>7, <3>1, <3>2
    <2>2. ASSUME NEW k \in 0 + 1 .. i - 1 PROVE ~Ended(t, k, n)
      <3>1. k \in 1 .. K /\ k + 1 \in j + 1 .. i + 1 - 1
        BY <1>4, <1>5, <1>6, <1>7
      <3>2. QED
        BY <1>2, <1>5, <3>1
    <2>3. Told(g, t, 0, d, n) /\ 0 \in 0 .. i - 1
      BY <1>4, <2>1 DEF Told
    <2>4. QED
      BY <2>2, <2>3 DEF Reaches, g, t
  <1>8. CASE j > 1
    <2>1. j - 1 \in 1 .. K /\ j - 1 \in 0 .. i - 1 /\ j - 1 + 1 = j
      BY <1>1, <1>4, <1>5, <1>8
    <2>2. Told(g, t, j - 1, d, n)
      BY <1>2, <1>5, <2>1
    <2>3. ASSUME NEW k \in (j - 1) + 1 .. i - 1 PROVE ~Ended(t, k, n)
      <3>1. k \in 1 .. K /\ k + 1 \in j + 1 .. i + 1 - 1
        BY <1>1, <1>4, <1>5, <1>8
      <3>2. QED
        BY <1>2, <1>5, <3>1
    <2>4. QED
      BY <2>1, <2>2, <2>3 DEF Reaches, g, t
  <1>9. QED
    BY <1>5, <1>7, <1>8

(* A report is taken from the front of _rx: lost, or put into the channel. *)
LEMMA TailCounts ==
  ASSUME NEW q \in Seq(RxPacket), q # <<>>, NEW d, NEW I \in Seq(Load), NEW J \in Seq(Load),
         NEW m, NEW s, InBox(I, m, s), InQueue(I, q, d, m, s),
         EndOf(J, I) \/ (Tells(q[1], d) /\ J = Append(I, q[1].load)), q[1].load \in Load \/ EndOf(J, I),
         m \in Nat, s \in Nat
  PROVE  InBox(J, m, s) /\ InQueue(J, Tail(q), d, m, s)
  <1>. DEFINE t == Tail(q)
  <1>1. /\ Len(q) \in Nat /\ Len(q) # 0 /\ Len(t) = Len(q) - 1
        /\ \A i \in 1 .. Len(q) - 1 : t[i] = q[i + 1]
    OBVIOUS
  <1>. HIDE DEF t
  <1>2. 1 \in 1 .. Len(q) /\ \A i \in 1 .. Len(t) : i + 1 \in 1 .. Len(q) /\ 1 < i + 1 /\ t[i] = q[i + 1]
    BY <1>1
  <1>3. \A i, j \in 1 .. Len(t) : i < j /\ Tells(t[i], d) /\ Tells(t[j], d) => t[i].load.n < t[j].load.n
    <2>1. \A i, j \in 1 .. Len(t) : i < j => i + 1 < j + 1
      BY <1>1
    <2>2. QED
      BY <1>2, <2>1 DEF InQueue
  <1>4. \A i \in 1 .. Len(t) : Tells(t[i], d) => t[i].load.n \in m + 1 .. s
    BY <1>2 DEF InQueue
  <1>5. CASE EndOf(J, I)
    <2>1. InBox(J, m, s) /\ InQueue(J, q, d, m, s)
      BY <1>5, EndCounts
    <2>2. \A i \in 1 .. Len(t) : Tells(t[i], d) => \A k \in 1 .. Len(J) : J[k].n < t[i].load.n
      BY <1>2, <2>1 DEF InQueue
    <2>3. QED
      BY <1>3, <1>4, <2>1, <2>2 DEF InQueue, t
  <1>6. CASE /\ Tells(q[1], d) /\ J = Append(I, q[1].load) /\ q[1].load \in Load
    <2>. DEFINE x == q[1].load
    <2>1. x.n \in m + 1 .. s /\ \A k \in 1 .. Len(I) : I[k].n < x.n
      BY <1>2, <1>6 DEF InQueue
    <2>2. \A i \in 1 .. Len(t) : Tells(t[i], d) => x.n < t[i].load.n
      BY <1>2, <1>6 DEF InQueue
    <2>3. x \in Load /\ J = Append(I, x)
      BY <1>6
    <2>. HIDE DEF x
    <2>4. /\ Len(I) \in Nat /\ Len(J) = Len(I) + 1 /\ J[Len(I) + 1] = x
          /\ \A k \in 1 .. Len(I) : J[k] = I[k]
      BY <2>3
    <2>5. \A k \in 1 .. Len(J) : k \in 1 .. Len(I) \/ k = Len(I) + 1
      BY <2>4
    <2>6. \A k \in 1 .. Len(J) : J[k].n \in m + 1 .. s
      BY <2>1, <2>4, <2>5 DEF InBox
    <2>7. \A k, l \in 1 .. Len(J) : k < l => J[k].n < J[l].n
      <3>1. SUFFICES ASSUME NEW k \in 1 .. Len(J), NEW l \in 1 .. Len(J), k < l PROVE J[k].n < J[l].n
        OBVIOUS
      <3>2. k \in 1 .. Len(I)
        BY <2>4, <3>1
      <3>3. QED
        BY <2>1, <2>4, <2>5, <3>1, <3>2 DEF InBox
    <2>8. \A i \in 1 .. Len(t) : Tells(t[i], d) => \A k \in 1 .. Len(J) : J[k].n < t[i].load.n
      <3>1. SUFFICES ASSUME NEW i \in 1 .. Len(t), Tells(t[i], d), NEW k \in 1 .. Len(J)
                     PROVE  J[k].n < t[i].load.n
        OBVIOUS
      <3>2. CASE k = Len(I) + 1
        BY <2>2, <2>4, <3>1, <3>2
      <3>3. CASE k \in 1 .. Len(I)
        BY <1>2, <2>4, <3>1, <3>3 DEF InQueue
      <3>4. QED
        BY <2>5, <3>2, <3>3
    <2>9. QED
      BY <1>3, <1>4, <2>6, <2>7, <2>8 DEF InBox, InQueue, t
  <1>7. QED
    BY <1>5, <1>6

(* What the handling of the first packet must do to keep the invariant.    *)
LEMMA TailPiped ==
  ASSUME NEW h, Good(h), NEW q \in Seq(RxPacket), q # <<>>, NEW a \in [Devices -> Link], Traced(h, q, a),
         KnownFirst(h, q, a), Head(q) \in RxQuiet \/ h.state # NotSent,
         NEW r, Piped(h, q, a, r), NEW g, g = Handled(h, Head(q)), Apt(g),
         \A s \in Nat : Clear(h, s) => Clear(g, s),
         \A s \in Nat : \A psm : Proper(h, psm, s) => Proper(g, psm, s),
         \A s \in Nat : s < h.cid => s < g.cid,
         \A d \in Devices : OnReport(g, d) => (OnReport(h, d) /\ ~Begins(q[1], d)) \/ Tells(q[1], d),
         \A d \in Devices : Counted(g, Tail(q), a, r, d)
  PROVE  Piped(g, Tail(q), a, r)
  <1>. DEFINE t == Tail(q)
  <1>1. /\ Len(q) \in Nat /\ Len(t) \in Nat /\ Len(t) = Len(q) - 1
        /\ \A i \in 1 .. Len(t) : i + 1 \in 1 .. Len(q) /\ t[i] = q[i + 1]
    <2>1. /\ Len(q) \in Nat /\ Len(q) # 0 /\ Len(t) = Len(q) - 1
          /\ \A i \in 1 .. Len(q) - 1 : t[i] = q[i + 1]
      OBVIOUS
    <2>. HIDE DEF t
    <2>2. QED
      BY <2>1
  <1>2. \A i \in 1 .. Len(q) : q[i] \in RxPacket /\ (q[i].evt = "ACL" => q[i] \in RxAcl)
    <2>1. \A p \in RxPacket : p.evt = "ACL" => p \in RxAcl
      BY DEF RxPacket, RxQuiet, RxDevice, DeviceEvents
    <2>2. QED
      BY <2>1
  <1>3. ChannelsApt(g, a)
    <2>1. SUFFICES ASSUME NEW d \in Devices, NEW psm \in DOMAIN a[d].chan
                   PROVE  Proper(g, psm, a[d].chan[psm].scid)
      BY DEF ChannelsApt
    <2>2. a[d].chan[psm].scid \in Nat
      BY DEF Link, ChanMap, Chan, Sids, Cids
    <2>3. Proper(h, psm, a[d].chan[psm].scid)
      BY DEF Piped, ChannelsApt
    <2>4. QED
      BY <2>2, <2>3
  <1>4. Addressed(g, t)
    <2>1. SUFFICES ASSUME NEW d \in Devices, NEW i \in 1 .. Len(t), Carries(t[i], d)
                   PROVE  Reaches(g, t, i, d, t[i].handle)
      BY DEF Addressed
    <2>. DEFINE n == t[i].handle
    <2>2. i + 1 \in 1 .. Len(q) /\ t[i] = q[i + 1]
      BY <1>1
    <2>3. n \in Handles
      BY <1>2, <2>1, <2>2, RxAclParts DEF Carries
    <2>4. Reaches(h, q, i + 1, d, n)
      BY <2>1, <2>2 DEF Piped, Addressed
    <2>. HIDE DEF n
    <2>5. Reaches(Handled(h, Head(q)), Tail(q), i, d, n)
      BY <2>3, <2>4, TailReaches
    <2>6. QED
      BY <2>5 DEF n
  <1>. HIDE DEF t
  <1>5. Kinds(g, t)
    <2>1. SUFFICES ASSUME NEW i \in 1 .. Len(t), t[i].evt = "ACL", ~IsSignal(t[i])
                   PROVE  \E d \in Devices : \/ Part(t[i], d) /\ Clear(g, t[i].into)
                                             \/ Tells(t[i], d) /\ t[i].first /\ t[i].into < g.cid
      BY DEF Kinds, Kind
    <2>2. i + 1 \in 1 .. Len(q) /\ t[i] = q[i + 1]
      BY <1>1
    <2>3. t[i].into \in Nat
      BY <1>2, <2>1, <2>2, RxAclParts
    <2>4. \E d \in Devices : \/ Part(t[i], d) /\ Clear(h, t[i].into)
                             \/ Tells(t[i], d) /\ t[i].first /\ t[i].into < h.cid
      BY <2>1, <2>2 DEF Piped, Kinds, Kind
    <2>5. QED
      BY <2>3, <2>4
  <1>6. Contiguous(g, t, a)
    <2>1. SUFFICES ASSUME NEW d \in Devices, NEW i \in 1 .. Len(t) + 1, Owes(t, a, d, i),
                          NEW k \in 0 .. i - 1, After(g, t, k, d)
                   PROVE  \E l \in k + 1 .. i - 1 : Begins(t[l], d)
      BY DEF Contiguous
    <2>2. i + 1 \in 1 .. Len(q) + 1 /\ Owes(q, a, d, i + 1)
      <3>1. CASE i = Len(t) + 1
        <4>1. i + 1 = Len(q) + 1 /\ i + 1 \in 1 .. Len(q) + 1
          BY <1>1, <3>1
        <4>2. QED
          BY <2>1, <3>1, <4>1 DEF Owes
      <3>2. CASE i # Len(t) + 1
        <4>1. i \in 1 .. Len(t) /\ i + 1 # Len(q) + 1 /\ i + 1 \in 1 .. Len(q) + 1
          BY <1>1, <3>2
        <4>2. QED
          BY <1>1, <2>1, <3>2, <4>1 DEF Owes
      <3>3. QED
        BY <3>1, <3>2
    <2>3. \E j \in 0 .. i : After(h, q, j, d) /\ j <= k + 1 /\ (j < k + 1 => j = 0 /\ ~Begins(q[1], d))
                            /\ (j < k + 1 => k = 0)
      <3>1. CASE k = 0
        <4>1. OnReport(g, d)
          BY <2>1, <3>1 DEF After
        <4>2. CASE Tells(q[1], d)
          <5>1. 1 \in 0 .. i /\ 1 <= k + 1 /\ ~(1 < k + 1) /\ 1 # 0
            BY <3>1
          <5>2. QED
            BY <4>2, <5>1 DEF After
        <4>3. CASE OnReport(h, d) /\ ~Begins(q[1], d)
          <5>1. 0 \in 0 .. i /\ 0 <= k + 1
            BY <3>1
          <5>2. QED
            BY <3>1, <4>3, <5>1 DEF After
        <4>4. QED
          BY <4>1, <4>2, <4>3
      <3>2. CASE k # 0
        <4>1. k \in 1 .. Len(t) /\ Tells(t[k], d) /\ k + 1 \in 0 .. i /\ k + 1 # 0 /\ ~(k + 1 < k + 1)
              /\ k + 1 <= k + 1
          BY <1>1, <2>1, <3>2 DEF After
        <4>2. QED
          BY <1>1, <4>1 DEF After
      <3>3. QED
        BY <3>1, <3>2
    <2>4. PICK j \in 0 .. i : After(h, q, j, d) /\ j <= k + 1
                              /\ (j < k + 1 => j = 0 /\ ~Begins(q[1], d)) /\ (j < k + 1 => k = 0)
      BY <2>3
    <2>5. j \in 0 .. i + 1 - 1
      BY <1>1
    <2>6. PICK l \in j + 1 .. i + 1 - 1 : Begins(q[l], d)
      <3>. DEFINE c == i + 1
      <3>1. c \in 1 .. Len(q) + 1 /\ Owes(q, a, d, c) /\ j \in 0 .. c - 1 /\ After(h, q, j, d)
        BY <2>2, <2>4, <2>5
      <3>. HIDE DEF c
      <3>2. \E l \in j + 1 .. c - 1 : Begins(q[l], d)
        BY <3>1 DEF Piped, Contiguous
      <3>3. QED
        BY <3>2 DEF c
    <2>7. l # 1
      <3>1. CASE j < k + 1
        BY <2>4, <2>6, <3>1
      <3>2. CASE j = k + 1
        BY <3>2
      <3>3. QED
        BY <2>4, <3>1, <3>2
    <2>8. l - 1 \in k + 1 .. i - 1
      BY <2>4, <2>6, <2>7
    <2>9. l - 1 \in 1 .. Len(t) /\ l - 1 + 1 = l
      BY <1>1, <2>8
    <2>10. t[l - 1] = q[l]
      BY <1>1, <2>9
    <2>11. QED
      BY <2>6, <2>8, <2>10
  <1>7. QED
    BY <1>3, <1>4, <1>5, <1>6 DEF Piped, t

(* An event or a signal is handled.                                        *)
LEMMA QuietReceived ==
  ASSUME NEW h, Good(h), NEW q \in Seq(RxPacket), q # <<>>, NEW a \in [Devices -> Link], Traced(h, q, a),
         KnownFirst(h, q, a), Head(q) \in RxQuiet \/ h.state # NotSent,
         NEW r, Piped(h, q, a, r), Head(q).evt = "ACL" => IsSignal(Head(q))
  PROVE  Piped(Handled(h, Head(q)), Tail(q), a, r)
  <1>. DEFINE p == Head(q)
              g == Handled(h, p)
  <1>1. p \in RxPacket /\ p = q[1] /\ h \in Host /\ Apt(h)
    BY DEF Good, Piped
  <1>2. Calm(h, g)
    <2>1. (p \in RxQuiet \/ h.state # NotSent) /\ (p.evt = "ACL" => IsSignal(p))
      OBVIOUS
    <2>. HIDE DEF p
    <2>2. QED
      BY <1>1, <2>1, HandledCalm
  <1>3. g = Handled(h, Head(q))
    OBVIOUS
  <1>4. \A d \in Devices : ~Begins(q[1], d) /\ ~Tells(q[1], d)
    BY <1>1 DEF Begins, Part, Tells, Carries, IsSignal
  <1>. HIDE DEF p, g
  <1>5. Apt(g) /\ g \in Host
    BY <1>2 DEF Calm
  <1>6. /\ \A s \in Nat : Clear(h, s) => Clear(g, s)
        /\ \A s \in Nat : \A psm : Proper(h, psm, s) => Proper(g, psm, s)
        /\ \A d \in Devices : OnReport(g, d) => OnReport(h, d)
        /\ \A s \in Nat : s < h.cid => s < g.cid
    BY <1>1, <1>2, CalmProper
  <1>7. ASSUME NEW d \in Devices PROVE Counted(g, Tail(q), a, r, d)
    <2>1. Inbox(h, d) \in Seq(Load) /\ Inbox(g, d) \in Seq(Load) /\ EndOf(Inbox(g, d), Inbox(h, d))
      BY <1>1, <1>2, <1>5, Numbers DEF Calm, CalmTo
    <2>. DEFINE I == Inbox(h, d)
                J == Inbox(g, d)
                m == NewestOf(r, d)
                s == a[d].sent
    <2>2. m \in Nat /\ s \in Nat /\ m <= s /\ InBox(I, m, s) /\ InQueue(I, q, d, m, s)
      BY DEF Piped, Counted
    <2>3. I \in Seq(Load) /\ J \in Seq(Load) /\ EndOf(J, I)
      BY <2>1
    <2>. HIDE DEF I, J, m, s
    <2>4. InBox(J, m, s) /\ InQueue(J, Tail(q), d, m, s)
      BY <2>2, <2>3, TailCounts
    <2>5. QED
      BY <2>2, <2>4 DEF Counted, J, m, s
  <1>8. QED
    BY <1>3, <1>4, <1>5, <1>6, <1>7, TailPiped

(* What a part p of an answer or a report of d may change: the queue of    *)
(* the socket it is for, if any, and what is under reassembly.             *)
DataPart(h, d, p, g) ==
  LET i == IF p.first THEN p.into ELSE h.bt[d].into
  IN /\ g.inp = h.inp /\ g.cid = h.cid /\ g.tx = h.tx /\ g.kept = h.kept
     /\ \A e \in Devices \ {d} : g.bt[e] = h.bt[e]
     /\ g.bt[d].into = i /\ Sockets(g, d) = Sockets(h, d)
     /\ \A s \in Sockets(h, d) :
          /\ g.bt[d].sockets[s].psm = h.bt[d].sockets[s].psm
          /\ g.bt[d].sockets[s].state = h.bt[d].sockets[s].state
          /\ \/ g.bt[d].sockets[s].q = h.bt[d].sockets[s].q
             \/ s = i /\ g.bt[d].sockets[s].q = Append(h.bt[d].sockets[s].q, p.load)

(* BTDevice.data of a part changes no more than that.                      *)
LEMMA DataParts ==
  ASSUME NEW h \in Host, NEW d \in Devices, NEW p \in RxAcl, ~IsSignal(p)
  PROVE  DataPart(h, d, p, data(h, d, p))
  <1>. DEFINE i == IF p.first THEN p.into ELSE h.bt[d].into
              b == Assembled(h, d, p).bt[d]
              c == [b EXCEPT !.held = 0]
              x == Queued(b.sockets[i].q, p.load)
              k == [c EXCEPT !.sockets[i].q = x]
              Put(y) == [h EXCEPT !.bt[d] = y]
  <1>1. /\ Assembled(h, d, p) = Put(b) /\ b \in Device /\ b.sockets = h.bt[d].sockets
        /\ b.into = i
    BY AssembledDevice
  <1>2. /\ h.bt \in [Devices -> Device] /\ h \in Fields /\ h.bt[d] \in Device
    BY HostParts DEF Fields
  <1>3. \A y : /\ Put(y).bt[d] = y /\ Put(y).inp = h.inp /\ Put(y).cid = h.cid /\ Put(y).tx = h.tx
               /\ Put(y).kept = h.kept /\ \A e \in Devices \ {d} : Put(y).bt[e] = h.bt[e]
    BY <1>2 DEF Fields
  <1>4. p.evt = "ACL" /\ ~(i = 1 /\ p.first)
    BY DEF RxAcl, IsSignal
  <1>5. \A y, z : [Put(y) EXCEPT !.bt[d] = z] = Put(z)
    BY <1>2 DEF Fields
  <1>. DEFINE done == [Put(b) EXCEPT !.bt[d].held = 0]
              full == [done EXCEPT !.bt[d].sockets[i].q = Queued(@, p.load)]
  <1>6. done = Put(c)
    BY <1>2, <1>3 DEF Fields
  <1>7. full = Put(k)
    <2>1. done.bt[d] = c /\ c.sockets = b.sockets
      BY <1>1, <1>3, <1>6 DEF Device
    <2>2. \A y : y.bt[d] = c /\ c.sockets = b.sockets =>
            [y EXCEPT !.bt[d].sockets[i].q = Queued(@, p.load)] = [y EXCEPT !.bt[d] = k]
      <3>. HIDE DEF c, b
      <3>1. QED
        OBVIOUS
    <2>3. full = [done EXCEPT !.bt[d] = k]
      <3>. HIDE DEF done, k
      <3>1. \A y : y.bt[d] = c /\ c.sockets = b.sockets =>
              [y EXCEPT !.bt[d].sockets[i].q = Queued(@, p.load)] = [y EXCEPT !.bt[d] = k]
        BY <2>2
      <3>2. QED
        BY <2>1, <3>1
    <2>4. [Put(c) EXCEPT !.bt[d] = k] = Put(k)
      <3>. HIDE DEF c, k
      <3>1. QED
        BY <1>2 DEF Fields
    <2>. HIDE DEF done, full, Put, k, c
    <2>5. QED
      BY <1>6, <2>3, <2>4
  <1>8. data(h, d, p) \in {Put(b), done} \/ (i \in Sockets(h, d) /\ data(h, d, p) = full)
    BY <1>1, <1>3, <1>4 DEF data, Sockets
  <1>9. /\ c.sockets = b.sockets /\ c.into = i
        /\ i \in Sockets(h, d) => k.into = i /\ k.sockets = [b.sockets EXCEPT ![i].q = x]
    BY <1>1 DEF Device
  <1>10. ASSUME i \in Sockets(h, d)
         PROVE  /\ DOMAIN k.sockets = Sockets(h, d)
                /\ \A s \in Sockets(h, d) :
                     /\ k.sockets[s].psm = h.bt[d].sockets[s].psm
                     /\ k.sockets[s].state = h.bt[d].sockets[s].state
                     /\ \/ k.sockets[s].q = h.bt[d].sockets[s].q
                        \/ s = i /\ k.sockets[s].q = Append(h.bt[d].sockets[s].q, p.load)
    <2>. DEFINE m == h.bt[d].sockets
    <2>1. k.sockets = [m EXCEPT ![i].q = x] /\ DOMAIN m = Sockets(h, d)
      BY <1>1, <1>9, <1>10 DEF Sockets
    <2>2. m[i] \in Socket /\ m \in [Sockets(h, d) -> Socket]
      <3>1. i \in Sockets(h, d)
        BY <1>10
      <3>. HIDE DEF i
      <3>2. m[i] \in Socket
        BY <3>1, SocketParts
      <3>3. m \in SocketMap /\ DOMAIN m = Sockets(h, d)
        BY DeviceParts DEF Sockets
      <3>. HIDE DEF m
      <3>4. m \in [Sockets(h, d) -> Socket]
        BY <3>3, SocketMaps
      <3>5. QED
        BY <3>2, <3>4
    <2>3. x = m[i].q \/ x = Append(m[i].q, p.load)
      BY <1>1 DEF Queued
    <2>. HIDE DEF x, m, k, i
    <2>4. DOMAIN k.sockets = Sockets(h, d) /\ k.sockets[i] = [m[i] EXCEPT !.q = x]
          /\ \A s \in Sockets(h, d) \ {i} : k.sockets[s] = m[s]
      BY <1>10, <2>1, <2>2
    <2>5. k.sockets[i].psm = m[i].psm /\ k.sockets[i].state = m[i].state /\ k.sockets[i].q = x
      BY <2>2, <2>4 DEF Socket
    <2>6. QED
      BY <2>3, <2>4, <2>5 DEF m
  <1>11. ASSUME NEW y, data(h, d, p) = Put(y), y.into = i, DOMAIN y.sockets = Sockets(h, d),
                \A s \in Sockets(h, d) :
                     /\ y.sockets[s].psm = h.bt[d].sockets[s].psm
                     /\ y.sockets[s].state = h.bt[d].sockets[s].state
                     /\ \/ y.sockets[s].q = h.bt[d].sockets[s].q
                        \/ s = i /\ y.sockets[s].q = Append(h.bt[d].sockets[s].q, p.load)
         PROVE  DataPart(h, d, p, data(h, d, p))
    <2>1. /\ Put(y).bt[d] = y /\ Put(y).inp = h.inp /\ Put(y).cid = h.cid /\ Put(y).tx = h.tx
          /\ Put(y).kept = h.kept /\ \A e \in Devices \ {d} : Put(y).bt[e] = h.bt[e]
      BY <1>3
    <2>. HIDE DEF Put
    <2>2. QED
      BY <1>11, <2>1 DEF DataPart, Sockets
  <1>12. DataPart(h, d, p, data(h, d, p))
    <2>1. DOMAIN b.sockets = Sockets(h, d)
      BY <1>1 DEF Sockets
    <2>2. data(h, d, p) = Put(b) => DataPart(h, d, p, data(h, d, p))
      <3>. HIDE DEF b, i, Put
      <3>1. QED
        BY <1>1, <1>11, <2>1
    <2>3. data(h, d, p) = Put(c) => DataPart(h, d, p, data(h, d, p))
      <3>. HIDE DEF b, c, i, Put
      <3>1. QED
        BY <1>1, <1>9, <1>11, <2>1
    <2>4. i \in Sockets(h, d) /\ data(h, d, p) = Put(k) => DataPart(h, d, p, data(h, d, p))
      <3>. HIDE DEF b, k, i, Put
      <3>1. QED
        BY <1>9, <1>10, <1>11
    <2>5. QED
      BY <1>6, <1>7, <1>8, <2>2, <2>3, <2>4
  <1>13. QED
    BY <1>12

(* The interrupt channels after a part: at most what it carries has come   *)
(* on that of its device, and only if that channel is what it is for.      *)
LEMMA DataInbox ==
  ASSUME NEW h \in Host, NEW d \in Devices, NEW p, NEW g, DataPart(h, d, p, g)
  PROVE  /\ \A e \in Devices \ {d} : Inbox(g, e) = Inbox(h, e)
         /\ \/ Inbox(g, d) = Inbox(h, d)
            \/ Inbox(g, d) = Append(Inbox(h, d), p.load) /\ OnReport(g, d)
  <1>1. /\ g.inp = h.inp /\ Sockets(g, d) = Sockets(h, d)
        /\ \A e \in Devices \ {d} : g.bt[e] = h.bt[e]
        /\ \A s \in Sockets(h, d) :
             \/ g.bt[d].sockets[s].q = h.bt[d].sockets[s].q
             \/ s = g.bt[d].into /\ g.bt[d].sockets[s].q = Append(h.bt[d].sockets[s].q, p.load)
    BY DEF DataPart
  <1>2. \A s \in Sockets(h, d) : s # 0
    BY Numbers
  <1>3. \A e \in Devices \ {d} : Inbox(g, e) = Inbox(h, e)
    BY <1>1 DEF Inbox, Sockets
  <1>4. CASE h.inp[d].interrupt \in Sockets(h, d)
    BY <1>1, <1>2, <1>3, <1>4 DEF Inbox, OnReport
  <1>5. CASE h.inp[d].interrupt \notin Sockets(h, d)
    BY <1>1, <1>3, <1>5 DEF Inbox
  <1>6. QED
    BY <1>4, <1>5

(* The numbers of the sockets stay apart.                                  *)
LEMMA DataApt ==
  ASSUME NEW h \in Host, Apt(h), NEW d \in Devices, NEW p, NEW g, DataPart(h, d, p, g),
         p.first => p.into < h.cid
  PROVE  Apt(g) /\ Reads(g) = Reads(h) /\ g.cid = h.cid
  <1>1. /\ g.inp = h.inp /\ g.cid = h.cid /\ g.tx = h.tx /\ g.kept = h.kept
        /\ \A e \in Devices \ {d} : g.bt[e] = h.bt[e]
        /\ g.bt[d].into \in {p.into, h.bt[d].into} /\ (~p.first => g.bt[d].into = h.bt[d].into)
        /\ Sockets(g, d) = Sockets(h, d)
        /\ \A s \in Sockets(h, d) : g.bt[d].sockets[s].psm = h.bt[d].sockets[s].psm
    BY DEF DataPart
  <1>2. Reads(g) = Reads(h)
    BY <1>1 DEF Reads
  <1>3. \A e \in Devices : g.bt[e].into < g.cid
    BY <1>1 DEF Apt
  <1>4. \A e \in Devices : /\ Sockets(g, e) = Sockets(h, e)
                           /\ \A s \in Sockets(h, e) : g.bt[e].sockets[s].psm = h.bt[e].sockets[s].psm
    BY <1>1 DEF Sockets
  <1>5. QED
    BY <1>1, <1>2, <1>3, <1>4 DEF Apt, Proper

(* A part in front of _rx is for the device it is from.                    *)
LEMMA PartAddressed ==
  ASSUME NEW h, Good(h), NEW q \in Seq(RxPacket), q # <<>>, NEW a, Traced(h, q, a),
         Kinds(h, q), Addressed(h, q), Head(q).evt = "ACL", ~IsSignal(Head(q))
  PROVE  \E d \in Devices :
           /\ Matched(h, Head(q)) /\ get_device_by_handle(h, Head(q).handle) = d
           /\ \/ Part(Head(q), d) /\ Clear(h, Head(q).into)
              \/ Tells(Head(q), d) /\ Head(q).first /\ Head(q).into < h.cid
  <1>. DEFINE p == Head(q)
              n == p.handle
  <1>1. p = q[1] /\ 1 \in 1 .. Len(q) /\ p \in RxAcl
    <2>1. p = q[1] /\ 1 \in 1 .. Len(q) /\ p \in RxPacket
      OBVIOUS
    <2>2. p.evt = "ACL"
      OBVIOUS
    <2>. HIDE DEF p
    <2>3. QED
      BY <2>1, <2>2 DEF RxPacket, RxQuiet, RxDevice, DeviceEvents
  <1>2. PICK d \in Devices : \/ Part(p, d) /\ Clear(h, p.into)
                             \/ Tells(p, d) /\ p.first /\ p.into < h.cid
    BY <1>1 DEF Kinds, Kind
  <1>3. n \in Handles
    BY <1>1, RxAclParts
  <1>4. Carries(p, d)
    BY <1>2 DEF Part, Tells
  <1>5. Handle(h, d) = n
    <2>1. Reaches(h, q, 1, d, n)
      BY <1>1, <1>4 DEF Addressed
    <2>. HIDE DEF n
    <2>2. PICK j \in 0 .. 1 - 1 : Told(h, q, j, d, n)
      BY <2>1 DEF Reaches
    <2>3. QED
      BY <2>2 DEF Told
  <1>6. OnHandle(h, n) = {d}
    <2>1. h.bt[d].known
      BY <1>3, <1>5, HandleAssumption DEF Good, KnownOK, NoHandle
    <2>2. \A e \in Devices : e # d => Handle(h, e) # n
      BY <1>3, <1>5 DEF Traced, Apart
    <2>3. QED
      BY <1>5, <2>1, <2>2 DEF OnHandle, Handle
  <1>7. get_device_by_handle(h, n) = d
    BY <1>6 DEF get_device_by_handle
  <1>8. Matched(h, p)
    BY <1>6 DEF Matched
  <1>9. QED
    BY <1>2, <1>7, <1>8

(* A part of an answer or a report is handled.                             *)
LEMMA DataReceived ==
  ASSUME NEW h, Good(h), NEW q \in Seq(RxPacket), q # <<>>, NEW a \in [Devices -> Link], Traced(h, q, a),
         KnownFirst(h, q, a), Head(q) \in RxQuiet \/ h.state # NotSent,
         NEW r, Piped(h, q, a, r), Head(q).evt = "ACL", ~IsSignal(Head(q))
  PROVE  Piped(Handled(h, Head(q)), Tail(q), a, r)
  <1>. DEFINE p == Head(q)
  <1>1. p = q[1] /\ 1 \in 1 .. Len(q) /\ p \in RxAcl /\ p.evt = "ACL"
    <2>1. p = q[1] /\ 1 \in 1 .. Len(q) /\ p \in RxPacket
      OBVIOUS
    <2>2. p.evt = "ACL"
      OBVIOUS
    <2>. HIDE DEF p
    <2>3. QED
      BY <2>1, <2>2 DEF RxPacket, RxQuiet, RxDevice, DeviceEvents
  <1>2. h \in Host /\ Apt(h) /\ Kinds(h, q) /\ Addressed(h, q) /\ Contiguous(h, q, a)
    BY DEF Good, Piped
  <1>3. PICK d \in Devices :
           /\ Matched(h, p) /\ get_device_by_handle(h, p.handle) = d
           /\ \/ Part(p, d) /\ Clear(h, p.into)
              \/ Tells(p, d) /\ p.first /\ p.into < h.cid
    BY <1>2, PartAddressed
  <1>. DEFINE g == data(h, d, p)
  <1>4. DataPart(h, d, p, g)
    <2>1. ~IsSignal(p)
      OBVIOUS
    <2>. HIDE DEF p
    <2>2. QED
      BY <1>1, <1>2, <2>1, DataParts
  <1>5. Handled(h, p) = g
    <2>. HIDE DEF g
    <2>1. ~Configures(h, d, p)
      BY <1>3 DEF Configures, IsSignal, Part, Tells
    <2>2. acl(h, p) = g
      BY <1>3 DEF acl, g
    <2>3. AclEvent(h, p) = g
      BY <1>3, <2>1, <2>2 DEF AclEvent
    <2>4. QED
      BY <1>1, <2>3 DEF Handled
  <1>6. g \in Host
    <2>1. Good(Handled(h, p))
      <3>1. p \in RxQuiet \/ h.state # NotSent
        OBVIOUS
      <3>. HIDE DEF p, g
      <3>2. p \in RxPacket
        BY <1>1 DEF RxPacket, RxQuiet
      <3>3. QED
        BY <3>1, <3>2, HandledGood
    <2>. HIDE DEF p, g
    <2>2. QED
      BY <1>5, <2>1 DEF Good
  <1>. HIDE DEF g
  <1>7. g = Handled(h, Head(q))
    BY <1>5
  <1>. HIDE DEF p
  <1>8. p.into \in Nat /\ p.load \in Load
    BY <1>1, RxAclParts
  <1>9. Apt(g) /\ Reads(g) = Reads(h) /\ g.cid = h.cid
    <2>1. p.first => p.into < h.cid
      BY <1>3 DEF Clear
    <2>2. QED
      BY <1>2, <1>4, <2>1, DataApt
  <1>10. /\ \A s \in Nat : Clear(h, s) => Clear(g, s)
         /\ \A s \in Nat : \A psm : Proper(h, psm, s) => Proper(g, psm, s)
         /\ \A s \in Nat : s < h.cid => s < g.cid
    BY <1>9 DEF Clear, Proper
  <1>11. OnReport(g, d) => Tells(p, d)
    <2>1. SUFFICES ASSUME OnReport(g, d), Part(p, d), Clear(h, p.into) PROVE FALSE
      BY <1>3
    <2>2. g.inp = h.inp /\ g.bt[d].into = IF p.first THEN p.into ELSE h.bt[d].into
      BY <1>4 DEF DataPart
    <2>3. CASE p.first
      <3>1. h.inp[d].interrupt = p.into /\ h.inp[d].interrupt # 0
        BY <2>1, <2>2, <2>3 DEF OnReport
      <3>2. p.into \in Reads(h)
        BY <1>2, <3>1, Numbers
      <3>3. QED
        BY <2>1, <3>2 DEF Clear
    <2>4. CASE ~p.first
      <3>1. OnReport(h, d)
        BY <2>1, <2>2, <2>4 DEF OnReport
      <3>2. After(h, q, 0, d)
        BY <3>1 DEF After
      <3>3. Owes(q, a, d, 1) /\ 1 \in 1 .. Len(q) + 1 /\ 0 \in 0 .. 1 - 1
        BY <1>1, <2>1, <2>4 DEF Owes
      <3>4. \E l \in 0 + 1 .. 1 - 1 : Begins(q[l], d)
        BY <1>2, <3>2, <3>3 DEF Contiguous
      <3>5. QED
        BY <3>4
    <2>5. QED
      BY <2>3, <2>4
  <1>12. \A e \in Devices : e # d => ~Begins(q[1], e) /\ (OnReport(g, e) => OnReport(h, e))
    <2>1. p.from = d
      BY <1>3 DEF Part, Tells, Carries
    <2>2. g.inp = h.inp /\ \A e \in Devices \ {d} : g.bt[e] = h.bt[e]
      BY <1>4 DEF DataPart
    <2>3. QED
      BY <1>1, <2>1, <2>2 DEF Begins, Part, Carries, OnReport
  <1>13. \A e \in Devices : OnReport(g, e) => (OnReport(h, e) /\ ~Begins(q[1], e)) \/ Tells(q[1], e)
    BY <1>1, <1>11, <1>12
  <1>14. ASSUME NEW e \in Devices PROVE Counted(g, Tail(q), a, r, e)
    <2>. DEFINE I == Inbox(h, e)
                J == Inbox(g, e)
                m == NewestOf(r, e)
                s == a[e].sent
    <2>1. I \in Seq(Load) /\ J \in Seq(Load)
      BY <1>2, <1>6, Numbers
    <2>2. m \in Nat /\ s \in Nat /\ m <= s /\ InBox(I, m, s) /\ InQueue(I, q, e, m, s)
      BY DEF Piped, Counted
    <2>3. J = I \/ (Tells(q[1], e) /\ J = Append(I, q[1].load))
      BY <1>1, <1>2, <1>4, <1>11, DataInbox
    <2>4. q[1].load \in Load
      BY <1>1, <1>8
    <2>. HIDE DEF I, J, m, s
    <2>5. EndOf(J, I) \/ (Tells(q[1], e) /\ J = Append(I, q[1].load))
      BY <2>1, <2>3, EndOfEnd
    <2>6. InBox(J, m, s) /\ InQueue(J, Tail(q), e, m, s)
      BY <2>1, <2>2, <2>4, <2>5, TailCounts
    <2>7. QED
      BY <2>2, <2>6 DEF Counted, J, m, s
  <1>15. Piped(g, Tail(q), a, r)
    BY <1>7, <1>9, <1>10, <1>13, <1>14, TailPiped
  <1>16. QED
    BY <1>7, <1>15

(* The host handles the first packet of _rx.                               *)
LEMMA ReceivedPiped ==
  ASSUME NEW h, Good(h), NEW q \in Seq(RxPacket), q # <<>>, NEW a \in [Devices -> Link], Traced(h, q, a),
         KnownFirst(h, q, a), Head(q) \in RxQuiet \/ h.state # NotSent, NEW r, Piped(h, q, a, r)
  PROVE  Piped(Handled(h, Head(q)), Tail(q), a, r)
  <1>1. CASE Head(q).evt = "ACL" => IsSignal(Head(q))
    BY <1>1, QuietReceived
  <1>2. CASE Head(q).evt = "ACL" /\ ~IsSignal(Head(q))
    BY <1>2, DataReceived
  <1>3. QED
    BY <1>1, <1>2

----------------------------------------------------------------------------
(* hid_get returns the first report of an interrupt channel.               *)

(* A channel with a report: l2_recv takes that.                            *)
LEMMA RecvTakes ==
  ASSUME NEW h \in Host, Own(h), NEW d \in Devices, Inbox(h, d) # <<>>
  PROVE  /\ Waiting(h, h.inp[d].interrupt)
         /\ Received(h, h.inp[d].interrupt) = Head(Inbox(h, d))
         /\ Inbox(l2_recv(h, h.inp[d].interrupt), d) = Tail(Inbox(h, d))
  <1>. DEFINE i == h.inp[d].interrupt
              e == get_device_by_socket(h, i)
              t == Tail(h.bt[d].sockets[i].q)
              m == [h.bt[d].sockets EXCEPT ![i].q = t]
              b == [h.bt[d] EXCEPT !.sockets = m]
              g == [h EXCEPT !.bt[d] = b]
  <1>1. i \in Sockets(h, d) /\ Inbox(h, d) = h.bt[d].sockets[i].q
    BY DEF Inbox
  <1>2. Owners(h, i) = {d}
    <2>1. \A x \in Devices : x # d => i \notin Sockets(h, x)
      BY <1>1 DEF Own, Claims
    <2>. HIDE DEF i
    <2>2. QED
      BY <1>1, <2>1 DEF Owners
  <1>3. e = d /\ get_socket(h, i) = h.bt[d].sockets[i]
    BY <1>2 DEF get_device_by_socket, get_socket
  <1>4. Waiting(h, i)
    BY <1>1, <1>2, <1>3 DEF Waiting, HasSocket
  <1>5. Received(h, i) = Head(Inbox(h, d))
    BY <1>1, <1>3 DEF Received
  <1>6. l2_recv(h, i) = g
    <2>1. l2_recv(h, i) = [h EXCEPT !.bt[d].sockets[i].q = Tail(@)]
      BY <1>3, <1>4 DEF l2_recv
    <2>2. [h EXCEPT !.bt[d].sockets[i].q = Tail(@)] = g
      OBVIOUS
    <2>3. QED
      BY <2>1, <2>2
  <1>7. /\ h.bt \in [Devices -> Device] /\ h \in Fields /\ h.bt[d] \in Device
        /\ h.bt[d].sockets[i] \in Socket /\ h.bt[d].sockets \in [Sockets(h, d) -> Socket]
    <2>1. h.bt[d].sockets \in SocketMap /\ DOMAIN h.bt[d].sockets = Sockets(h, d)
      BY DeviceParts DEF Sockets
    <2>2. QED
      BY <1>1, <2>1, HostParts, DeviceParts, SocketParts, SocketMaps
  <1>8. g.bt[d].sockets = m /\ g.inp = h.inp
    BY <1>7 DEF Fields, Device
  <1>9. i \in DOMAIN m /\ m[i].q = t
    BY <1>1, <1>7 DEF Socket
  <1>. HIDE DEF g, m, t
  <1>10. Inbox(g, d) = t
    BY <1>8, <1>9 DEF Inbox, Sockets
  <1>11. QED
    BY <1>1, <1>4, <1>5, <1>6, <1>10 DEF t

(* An end of a queue that is not empty is that queue or an end of its      *)
(* tail, and so is the tail of an end.                                     *)
LEMMA EndOfTail ==
  ASSUME NEW q \in Seq(Load), q # <<>>, NEW r \in Seq(Load), EndOf(r, q)
  PROVE  /\ r = <<>> => EndOf(r, Tail(q))
         /\ r # <<>> => EndOf(Tail(r), Tail(q))
  <1>. DEFINE s == Tail(q)
              t == Tail(r)
  <1>1. s \in Seq(Load) /\ (r # <<>> => t \in Seq(Load))
    OBVIOUS
  <1>2. r = <<>> => EndOf(r, s)
    BY <1>1, EndOfEnd
  <1>3. ASSUME r # <<>> PROVE EndOf(t, s)
    <2>1. /\ Len(q) \in Nat /\ Len(s) = Len(q) - 1 /\ \A k \in 1 .. Len(q) - 1 : s[k] = q[k + 1]
          /\ Len(r) \in Nat /\ Len(r) # 0
      BY <1>3
    <2>2. Len(t) = Len(r) - 1 /\ \A k \in 1 .. Len(r) - 1 : t[k] = r[k + 1]
      BY <1>3
    <2>3. Len(r) <= Len(q) /\ \A k \in 1 .. Len(r) : r[k] = q[k + Len(q) - Len(r)]
      BY DEF EndOf
    <2>. HIDE DEF s, t
    <2>4. ASSUME NEW k \in 1 .. Len(t) PROVE t[k] = s[k + Len(s) - Len(t)]
      <3>1. /\ k \in 1 .. Len(r) - 1 /\ k + 1 \in 1 .. Len(r)
            /\ k + Len(s) - Len(t) \in 1 .. Len(q) - 1
            /\ (k + Len(s) - Len(t)) + 1 = (k + 1) + Len(q) - Len(r)
        BY <2>1, <2>2, <2>3
      <3>2. t[k] = r[k + 1] /\ r[k + 1] = q[(k + 1) + Len(q) - Len(r)]
        BY <2>2, <2>3, <3>1
      <3>3. s[k + Len(s) - Len(t)] = q[(k + Len(s) - Len(t)) + 1]
        BY <2>1, <3>1
      <3>4. QED
        BY <3>1, <3>2, <3>3
    <2>5. QED
      BY <2>1, <2>2, <2>3, <2>4 DEF EndOf
  <1>4. QED
    BY <1>2, <1>3

(* hid_get is mild; if there is a report it is the first one of that       *)
(* device's interrupt channel, and it is taken from there.                 *)
LEMMA GetTakes ==
  ASSUME NEW h, Good(h), Apt(h)
  PROVE  /\ Mild(h, get(h))
         /\ Reporting(h) # {} =>
              /\ Reporter(h) \in Devices /\ Inbox(h, Reporter(h)) # <<>>
              /\ Report(h) = Head(Inbox(h, Reporter(h)))
              /\ EndOf(Inbox(get(h), Reporter(h)), Tail(Inbox(h, Reporter(h))))
  <1>. DEFINE k == Min(Reporting(h))
              d == h.hids[k]
              g == AllServiced(h, k - 1)
              f == l2_recv(g, g.inp[d].interrupt)
              kind == Received(g, g.inp[d].interrupt).kind
  <1>0. h \in Host /\ Own(h)
    BY DEF Good
  <1>1. h.hids \in Seq(Devices) /\ Len(h.hids) \in Nat /\ DOMAIN h.hids = 1 .. Len(h.hids)
    BY HostParts DEF Good
  <1>2. CASE Reporting(h) = {}
    <2>1. get(h) = AllServiced(h, Len(h.hids)) /\ Len(h.hids) \in 0 .. Len(h.hids)
      BY <1>1, <1>2 DEF get
    <2>2. QED
      BY <1>2, <2>1, AllServicedMild
  <1>3. CASE Reporting(h) # {}
    <2>1. k \in Reporting(h)
      <3>1. Reporting(h) \in SUBSET Nat
        BY <1>1 DEF Reporting
      <3>2. QED
        BY <1>3, <3>1, LeastFree
    <2>2. k \in 1 .. Len(h.hids) /\ k - 1 \in 0 .. Len(h.hids) /\ d \in Devices /\ Found(h, d)
      <3>1. k \in DOMAIN h.hids
        BY <2>1 DEF Reporting
      <3>. HIDE DEF k
      <3>2. k \in 1 .. Len(h.hids) /\ k - 1 \in 0 .. Len(h.hids)
        BY <1>1, <3>1
      <3>3. QED
        BY <1>1, <3>1, <3>2 DEF Found, Range
    <2>3. Inbox(h, d) # <<>>
      <3>. DEFINE i == h.inp[d].interrupt
                  e == get_device_by_socket(h, i)
      <3>1. i # 0 /\ Waiting(h, i)
        BY <2>1 DEF Reporting, HasReport
      <3>. HIDE DEF d
      <3>2. /\ e \in Devices /\ i \in Sockets(h, e) /\ h.bt[e].sockets[i].q # <<>>
            /\ get_socket(h, i) = h.bt[e].sockets[i]
        BY <1>0, <3>1, OwnerOf DEF Waiting
      <3>. HIDE DEF e
      <3>3. i \in Claims(h, e) /\ i \in Claims(h, d)
        BY <2>2, <3>1, <3>2 DEF Claims, Ids
      <3>4. e = d
        BY <1>0, <2>2, <3>2, <3>3 DEF Own
      <3>5. QED
        BY <3>2, <3>4 DEF Inbox
    <2>4. Report(h) = Received(h, h.inp[d].interrupt) /\ Reporter(h) = d
      BY DEF Report, Reporter
    <2>5. get(h) = wii_hid(f, d, kind)
      BY <1>3 DEF get, k
    <2>6. Mild(h, g)
      <3>. HIDE DEF k
      <3>1. QED
        BY <2>2, AllServicedMild
    <2>. HIDE DEF k
    <2>7. Good(g) /\ g \in Host /\ Found(g, d) /\ Own(g)
      BY <2>2, AllServicedServes DEF Attends, Serves, Good, Found
    <2>. HIDE DEF g, d, kind
    <2>8. Report(h) = Head(Inbox(h, d))
      BY <1>0, <2>2, <2>3, <2>4, RecvTakes
    <2>9. Mild(g, f)
      BY <2>7, RecvMild
    <2>10. Good(f) /\ Found(f, d)
      <3>1. Keeps(g, f)
        BY <2>7, RecvKeeps
      <3>. HIDE DEF f
      <3>2. Attends(g, f)
        BY <2>7, <3>1, MinorTrans, ServesTrans
      <3>3. QED
        BY <2>7, <3>2 DEF Attends, Serves, Found
    <2>11. EndOf(Inbox(g, d), Inbox(h, d)) /\ Apt(g)
      BY <1>0, <2>2, <2>6, MildCalm DEF Calm, CalmTo
    <2>. DEFINE I == Inbox(h, d)
                J == Inbox(g, d)
                K == Inbox(f, d)
                r == wii_hid(f, d, kind)
                L == Inbox(r, d)
    <2>12. Mild(f, r)
      <3>. HIDE DEF f
      <3>1. QED
        BY <2>2, <2>10, WiiMild
    <2>13. Mild(h, f) /\ Calm(g, f) /\ f \in Host
      <3>. HIDE DEF f
      <3>1. QED
        BY <1>0, <2>6, <2>7, <2>9, <2>11, MildTrans, MildCalm DEF Mild
    <2>14. J # <<>> => K = Tail(J)
      BY <2>2, <2>7, RecvTakes
    <2>. HIDE DEF f
    <2>15. EndOf(K, J) /\ Apt(f)
      BY <2>2, <2>13 DEF Calm, CalmTo
    <2>. HIDE DEF r
    <2>16. EndOf(L, K) /\ r \in Host
      BY <2>2, <2>12, <2>13, <2>15, MildCalm DEF Calm, CalmTo
    <2>17. I \in Seq(Load) /\ J \in Seq(Load) /\ K \in Seq(Load) /\ L \in Seq(Load)
      BY <1>0, <2>2, <2>7, <2>13, <2>16, Numbers
    <2>18. I # <<>> /\ EndOf(J, I)
      BY <2>3, <2>11
    <2>. HIDE DEF I, J, K, L
    <2>19. EndOf(K, Tail(I)) /\ Tail(I) \in Seq(Load)
      <3>1. Tail(I) \in Seq(Load)
        BY <2>17, <2>18
      <3>2. CASE J = <<>>
        <4>1. EndOf(J, Tail(I))
          BY <2>17, <2>18, <3>2, EndOfTail
        <4>2. QED
          BY <2>15, <2>17, <3>1, <4>1, EndOfEnd DEF J, K
      <3>3. CASE J # <<>>
        BY <2>14, <2>17, <2>18, <3>1, <3>3, EndOfTail
      <3>4. QED
        BY <3>2, <3>3, <3>1
    <2>20. EndOf(L, Tail(I))
      BY <2>16, <2>17, <2>19, EndOfEnd DEF K, L
    <2>21. Mild(h, r)
      BY <1>0, <2>12, <2>13, MildTrans
    <2>22. get(h) = r
      BY <2>5 DEF r
    <2>23. QED
      BY <2>2, <2>4, <2>3, <2>8, <2>20, <2>21, <2>22 DEF I, L
  <1>4. QED
    BY <1>2, <1>3

(* The first report of a channel is newer than those returned before, and  *)
(* older than all that are left.                                           *)
LEMMA HeadCounts ==
  ASSUME NEW q, NEW d, NEW I \in Seq(Load), I # <<>>, NEW J \in Seq(Load), EndOf(J, Tail(I)),
         NEW m \in Nat, NEW s \in Nat, InBox(I, m, s), InQueue(I, q, d, m, s)
  PROVE  LET n == Head(I).n
         IN n \in m + 1 .. s /\ InBox(J, n, s) /\ InQueue(J, q, d, n, s)
  <1>. DEFINE n == I[1].n
              t == Tail(I)
  <1>1. /\ Len(I) \in Nat /\ Len(I) # 0 /\ Len(t) = Len(I) - 1 /\ Head(I) = I[1]
        /\ \A k \in 1 .. Len(I) - 1 : t[k] = I[k + 1]
    OBVIOUS
  <1>2. Len(J) \in Nat /\ Len(J) <= Len(t) /\ \A k \in 1 .. Len(J) : J[k] = t[k + Len(t) - Len(J)]
    BY DEF EndOf
  <1>. HIDE DEF t
  <1>3. ASSUME NEW k \in 1 .. Len(J)
        PROVE  /\ k + Len(I) - Len(J) \in 1 .. Len(I) /\ 1 < k + Len(I) - Len(J)
               /\ J[k] = I[k + Len(I) - Len(J)]
    <2>1. k + Len(t) - Len(J) \in 1 .. Len(I) - 1 /\ k + Len(t) - Len(J) + 1 = k + Len(I) - Len(J)
      BY <1>1, <1>2
    <2>2. t[k + Len(t) - Len(J)] = I[k + Len(t) - Len(J) + 1]
      BY <1>1, <2>1
    <2>3. QED
      BY <1>2, <2>1, <2>2
  <1>4. 1 \in 1 .. Len(I)
    BY <1>1
  <1>5. n \in m + 1 .. s
    BY <1>4 DEF InBox
  <1>6. ASSUME NEW k \in 1 .. Len(J) PROVE J[k].n \in n + 1 .. s
    <2>. DEFINE l == k + Len(I) - Len(J)
    <2>1. l \in 1 .. Len(I) /\ 1 < l /\ J[k] = I[l]
      BY <1>3
    <2>. HIDE DEF l
    <2>2. n < I[l].n /\ I[l].n \in m + 1 .. s
      BY <1>4, <2>1 DEF InBox
    <2>. HIDE DEF n
    <2>3. QED
      BY <1>5, <2>1, <2>2
  <1>7. ASSUME NEW k \in 1 .. Len(J), NEW l \in 1 .. Len(J), k < l PROVE J[k].n < J[l].n
    <2>1. k + Len(I) - Len(J) < l + Len(I) - Len(J)
      BY <1>1, <1>2, <1>7
    <2>2. QED
      BY <1>3, <2>1 DEF InBox
  <1>8. ASSUME NEW i \in 1 .. Len(q), Tells(q[i], d)
        PROVE  q[i].load.n \in n + 1 .. s /\ \A k \in 1 .. Len(J) : J[k].n < q[i].load.n
    <2>1. q[i].load.n \in m + 1 .. s /\ \A k \in 1 .. Len(I) : I[k].n < q[i].load.n
      BY <1>8 DEF InQueue
    <2>2. n < q[i].load.n /\ \A k \in 1 .. Len(J) : J[k].n < q[i].load.n
      BY <1>3, <1>4, <2>1
    <2>. HIDE DEF n
    <2>3. QED
      BY <1>5, <2>1, <2>2
  <1>9. InBox(J, n, s) /\ InQueue(J, q, d, n, s)
    <2>. HIDE DEF n
    <2>1. QED
      BY <1>6, <1>7, <1>8 DEF InBox, InQueue
  <1>10. QED
    BY <1>1, <1>5, <1>9

(* hid_get returns it.                                                     *)
LEMMA GotPiped ==
  ASSUME NEW h \in Host, NEW g \in Host, NEW q, NEW a, NEW r, Piped(h, q, a, r), Piped(g, q, a, r),
         NEW d \in Devices, Inbox(h, d) # <<>>, EndOf(Inbox(g, d), Tail(Inbox(h, d)))
  PROVE  LET n == Head(Inbox(h, d)).n
         IN n \in NewestOf(r, d) + 1 .. a[d].sent /\ Piped(g, q, a, [r EXCEPT ![d] = Append(@, n)])
  <1>. DEFINE I == Inbox(h, d)
              J == Inbox(g, d)
              m == NewestOf(r, d)
              s == a[d].sent
              n == Head(I).n
              x == Append(r[d], n)
              z == [r EXCEPT ![d] = Append(@, n)]
  <1>1. m \in Nat /\ s \in Nat /\ InBox(I, m, s) /\ InQueue(I, q, d, m, s)
        /\ r \in [Devices -> Seq(Nat)]
    BY DEF Piped, Counted
  <1>2. I \in Seq(Load) /\ J \in Seq(Load)
    BY Numbers
  <1>3. n \in m + 1 .. s /\ InBox(J, n, s) /\ InQueue(J, q, d, n, s)
    <2>1. I # <<>> /\ EndOf(J, Tail(I))
      OBVIOUS
    <2>. HIDE DEF I, J, m, s
    <2>2. QED
      BY <1>1, <1>2, <2>1, HeadCounts
  <1>. HIDE DEF I, J, m, s
  <1>4. n \in Nat /\ n <= s
    BY <1>1, <1>3
  <1>. HIDE DEF n
  <1>5. x \in Seq(Nat) /\ x # <<>> /\ Last(x) = n
    <2>1. r[d] \in Seq(Nat)
      BY <1>1
    <2>2. /\ x \in Seq(Nat) /\ Len(x) = Len(r[d]) + 1 /\ Len(r[d]) \in Nat
          /\ x[Len(r[d]) + 1] = n
      BY <1>4, <2>1
    <2>. HIDE DEF x
    <2>3. QED
      BY <2>2 DEF Last
  <1>6. z = [r EXCEPT ![d] = x]
    OBVIOUS
  <1>. HIDE DEF x, z
  <1>7. z \in [Devices -> Seq(Nat)] /\ z[d] = x /\ \A e \in Devices : e # d => z[e] = r[e]
    BY <1>1, <1>5, <1>6
  <1>8. NewestOf(z, d) = n
    BY <1>5, <1>7 DEF NewestOf
  <1>9. ASSUME NEW e \in Devices PROVE Counted(g, q, a, z, e)
    <2>1. CASE e = d
      BY <1>1, <1>3, <1>4, <1>8, <2>1 DEF Counted, J, s
    <2>2. CASE e # d
      <3>1. NewestOf(z, e) = NewestOf(r, e)
        BY <1>7, <2>2 DEF NewestOf
      <3>2. Counted(g, q, a, r, e)
        BY DEF Piped
      <3>3. QED
        BY <3>1, <3>2 DEF Counted
    <2>3. QED
      BY <2>1, <2>2
  <1>10. Piped(g, q, a, z)
    BY <1>7, <1>9 DEF Piped
  <1>11. QED
    BY <1>3, <1>10 DEF z, n, I, m, s

----------------------------------------------------------------------------
(* The steps of the specification.                                         *)

Flow == Piped(host, rx, air, got)

(* Only a report sent is counted.                                          *)
PipeSend(a, b) == \/ SameSent(a, b, Devices)
                  \/ \E d \in Devices : /\ b[d].sent = a[d].sent + 1
                                        /\ SameSent(a, b, Devices \ {d})
PipeGet(a, r, z) ==
  \/ z = r
  \/ \E d \in Devices : \E n \in NewestOf(r, d) + 1 .. a[d].sent : z = [r EXCEPT ![d] = Append(@, n)]

LEMMA PipeStepSends ==
  ASSUME NEW h, NEW q, NEW r, NEW a, NEW b, PipeStep(h, q, r, a, b)
  PROVE  PipeSend(a, b)
  BY DEF PipeStep, Hushed, Begun, Continued, Said, PipeSend

(* A step of the controller and the devices, or of the host with both.     *)
LEMMA TellsFlow ==
  ASSUME Sound, Trace, Flow, PipeStep(host, rx, rx', air, air')
  PROVE  Piped(host, rx', air', got) /\ PipeSend(air, air')
  <1>1. host \in Host /\ Air
    BY DEF Sound, Good
  <1>2. \A d \in Devices : \A n : Up(air, d, n) => n \in Handles
    BY <1>1, LinkParts DEF Up, IsUp
  <1>3. Traced(host, rx, air)
    BY DEF Trace, Linked
  <1>4. QED
    BY <1>1, <1>2, <1>3, PipeStepPiped, PipeStepSends DEF Flow

(* A call of the host that brings nothing.                                 *)
LEMMA MildFlow ==
  ASSUME NEW h \in Host, NEW g, Mild(h, g), NEW q \in Seq(RxPacket), NEW a \in [Devices -> Link],
         NEW r, Piped(h, q, a, r), Tracks(h, g)
  PROVE  Piped(g, q, a, r)
  <1>1. Calm(h, g)
    BY MildCalm DEF Piped
  <1>2. \A d \in Devices : Handle(h, d) \in Handles => Handle(g, d) = Handle(h, d)
    BY HandleAssumption DEF Tracks, NoHandle
  <1>3. QED
    BY <1>1, <1>2, CalmPiped

(* hid_update sends the first packet of its queue.                         *)
LEMMA SendFlow ==
  ASSUME Sound, Trace, Flow, Room', Send
  PROVE  Flow' /\ PipeSend(air, air') /\ got' = got
  <1>. DEFINE p == Head(host.tx)
              q == Tail(host.tx)
              g == [host EXCEPT !.tx = q]
  <1>0. /\ Air /\ host \in Host /\ host' \in Host /\ rx \in Seq(RxPacket) /\ Len(rx') < QSIZE
        /\ rx' \in Seq(RxPacket) /\ Air'
    <2>1. Sound'
      BY SoundNext DEF Next
    <2>2. QED
      BY <2>1 DEF Sound, Good, RxOK, Room
  <1>1. host.tx # <<>> /\ host' = g /\ Taken(p) /\ got' = got
    BY DEF Send
  <1>2. host.tx \in Seq(TxPacket)
    BY <1>0, HostParts
  <1>3. /\ p \in TxPacket /\ p = host.tx[1] /\ 1 \in DOMAIN host.tx
        /\ \A k \in DOMAIN q : k + 1 \in DOMAIN host.tx /\ q[k] = host.tx[k + 1]
    BY <1>1, <1>2
  <1>4. Offer(p) => Proper(host, p.psm, p.scid)
    BY <1>3 DEF Flow, Piped, Apt
  <1>5. ChannelsApt(host, air)
    BY DEF Flow, Piped
  <1>6. /\ host'.bt = host.bt /\ host'.inp = host.inp /\ host'.tx = q /\ host'.cid = host.cid
        /\ host'.kept = host.kept
    BY <1>0, <1>1, HostParts DEF Fields
  <1>. HIDE DEF p, q, g
  <1>7. PipeStep(host, rx, rx', air, air')
    BY <1>0, <1>1, <1>3, <1>4, <1>5, TakenPipe
  <1>8. Piped(host, rx', air', got) /\ PipeSend(air, air')
    BY <1>7, TellsFlow
  <1>9. Queues(host, host')
    BY <1>3, <1>6 DEF Queues
  <1>10. Mild(host, host')
    BY <1>0, <1>6, <1>9, SameMild
  <1>11. Calm(host, host')
    BY <1>0, <1>8, <1>10, MildCalm DEF Piped
  <1>12. \A d \in Devices : Handle(host, d) \in Handles => Handle(host', d) = Handle(host, d)
    BY <1>6 DEF Handle
  <1>13. rx' \in Seq(RxPacket) /\ air' \in [Devices -> Link]
    BY <1>0 DEF Air
  <1>14. Piped(host', rx', air', got)
    BY <1>0, <1>8, <1>11, <1>12, <1>13, CalmPiped
  <1>15. QED
    BY <1>1, <1>8, <1>14 DEF Flow

(* The controller may be sent to for the first time.                       *)
LEMMA ReadyFlow ==
  ASSUME Sound, Flow, ready_to_send
  PROVE  Flow'
  <1>. DEFINE g == [host EXCEPT !.state = {}]
              f == Command(g, "RESET")
  <1>0. Good(host) /\ host \in Host /\ rx \in Seq(RxPacket) /\ air \in [Devices -> Link]
    BY DEF Sound, Good, RxOK, Air
  <1>1. {} # NotSent /\ {} \in (SUBSET Flags) \cup {NotSent}
    BY DEF NotSent
  <1>2. g \in Host /\ g.state = {} /\ g.bt = host.bt /\ g.inp = host.inp /\ g.cid = host.cid
        /\ g.kept = host.kept /\ g.tx = host.tx
    <2>1. g \in Host /\ g.state = {} /\ g.bt = host.bt
      BY <1>0, <1>1, PutRest
    <2>2. /\ g.inp = host.inp /\ g.cid = host.cid /\ g.kept = host.kept /\ g.tx = host.tx
      BY <1>0, HostParts DEF Fields
    <2>3. QED
      BY <2>1, <2>2
  <1>3. [Command(host, "RESET") EXCEPT !.state = {}] = f
    BY <1>0, HostParts DEF Command, Cmd, Fields
  <1>4. Mild(host, g)
    <2>. HIDE DEF g
    <2>1. QED
      BY <1>0, <1>2, RestMild
  <1>5. Mild(g, f)
    <2>. HIDE DEF g
    <2>1. QED
      BY <1>1, <1>2, FlagMild DEF HandshakeSteps
  <1>. HIDE DEF g, f
  <1>6. Mild(host, f)
    BY <1>0, <1>2, <1>4, <1>5, MildTrans
  <1>7. host' = f /\ UNCHANGED <<rx, air, got>>
    BY <1>3 DEF ready_to_send
  <1>8. Tracks(host, f)
    BY <1>0, <1>7, ReadyAttends DEF Attends, Serves
  <1>9. Piped(f, rx, air, got)
    BY <1>0, <1>6, <1>8, MildFlow DEF Flow
  <1>10. QED
    BY <1>7, <1>9 DEF Flow

(* hid_get.                                                                *)
LEMMA GetFlow ==
  ASSUME Sound, Flow, Get
  PROVE  Flow' /\ PipeGet(air, got, got') /\ air' = air
  <1>. DEFINE d == Reporter(host)
              g == get(host)
  <1>0. Good(host) /\ host \in Host /\ rx \in Seq(RxPacket) /\ air \in [Devices -> Link]
        /\ Apt(host)
    BY DEF Sound, Good, RxOK, Air, Flow, Piped
  <1>1. /\ host' = g /\ UNCHANGED <<rx, air>>
        /\ got' = IF Reporting(host) = {} THEN got
                  ELSE [got EXCEPT ![d] = Append(@, Report(host).n)]
    BY DEF Get
  <1>2. /\ Mild(host, g)
        /\ Reporting(host) # {} =>
             /\ d \in Devices /\ Inbox(host, d) # <<>> /\ Report(host) = Head(Inbox(host, d))
             /\ EndOf(Inbox(g, d), Tail(Inbox(host, d)))
    BY <1>0, GetTakes
  <1>3. Tracks(host, g)
    BY <1>0, GetGood DEF Attends, Serves
  <1>. HIDE DEF d, g
  <1>4. Piped(g, rx, air, got) /\ g \in Host
    BY <1>0, <1>2, <1>3, MildFlow DEF Flow, Mild
  <1>5. CASE Reporting(host) = {}
    BY <1>1, <1>4, <1>5 DEF Flow, PipeGet
  <1>6. CASE Reporting(host) # {}
    <2>. DEFINE n == Head(Inbox(host, d)).n
    <2>1. /\ n \in NewestOf(got, d) + 1 .. air[d].sent
          /\ Piped(g, rx, air, [got EXCEPT ![d] = Append(@, n)])
      BY <1>0, <1>2, <1>4, <1>6, GotPiped DEF Flow
    <2>2. got' = [got EXCEPT ![d] = Append(@, n)]
      BY <1>1, <1>2, <1>6
    <2>. HIDE DEF n
    <2>3. Flow'
      BY <1>1, <2>1, <2>2 DEF Flow
    <2>4. PipeGet(air, got, got')
      BY <1>2, <1>6, <2>1, <2>2 DEF PipeGet
    <2>5. QED
      BY <1>1, <2>3, <2>4
  <1>7. QED
    BY <1>5, <1>6

(* Every step that leaves room in the queues keeps what is on its way in   *)
(* order, and sends a report, returns one, or does neither.                *)
LEMMA FlowNext ==
  ASSUME Sound, Trace, Flow, Room', [Next]_vars
  PROVE  /\ Flow'
         /\ \/ PipeSend(air, air') /\ got' = got
            \/ PipeGet(air, got, got') /\ air' = air
  <1>0. /\ Air /\ Good(host) /\ host \in Host /\ rx \in Seq(RxPacket) /\ Len(rx') < QSIZE
        /\ ChannelsApt(host, air)
    BY DEF Sound, Good, RxOK, Room, Flow, Piped
  <1>1. CASE ready_to_send
    <2>1. Flow' /\ air' = air /\ got' = got
      BY <1>1, ReadyFlow DEF ready_to_send
    <2>2. QED
      BY <2>1 DEF PipeSend, SameSent
  <1>2. CASE Controller
    <2>1. PipeStep(host, rx, rx', air, air') /\ host' = host /\ got' = got
      BY <1>0, <1>2, AnswersPipe, OwnAccordPipe DEF Controller
    <2>2. Piped(host, rx', air', got) /\ PipeSend(air, air')
      BY <2>1, TellsFlow
    <2>3. QED
      BY <2>1, <2>2 DEF Flow
  <1>3. CASE Send
    BY <1>3, SendFlow
  <1>4. CASE Sent
    BY <1>4 DEF Sent, Flow, PipeSend, SameSent
  <1>5. CASE Receive
    <2>1. rx # <<>> /\ rx' = Tail(rx) /\ host' = Handled(host, Head(rx)) /\ air' = air /\ got' = got
      BY <1>5 DEF Receive
    <2>2. Head(rx) \in RxQuiet \/ host.state # NotSent
      BY <2>1 DEF Sound, RxOK
    <2>. DEFINE g == Handled(host, Head(rx))
    <2>3. Piped(g, Tail(rx), air, got)
      BY <1>0, <2>1, <2>2, ReceivedPiped DEF Trace, Linked, Flow, Air
    <2>. HIDE DEF g
    <2>4. host' = g
      BY <2>1 DEF g
    <2>5. QED
      BY <2>1, <2>3, <2>4 DEF Flow, PipeSend, SameSent
  <1>6. CASE AllReceived
    BY <1>6 DEF AllReceived, Flow, PipeSend, SameSent
  <1>7. CASE Get
    BY <1>7, GetFlow
  <1>8. CASE UNCHANGED vars
    BY <1>8 DEF vars, Flow, PipeSend, SameSent
  <1>9. QED
    BY <1>1, <1>2, <1>3, <1>4, <1>5, <1>6, <1>7, <1>8 DEF Next

(* At the start nothing is on its way.                                     *)
LEMMA FlowInit == Init => Flow /\ Pipe!Init
  <1>. SUFFICES ASSUME Init PROVE Flow /\ Pipe!Init
    OBVIOUS
  <1>1. rx = <<>> /\ Len(rx) = 0 /\ host.tx = <<>> /\ host.kept = <<>> /\ host.cid = FirstCid
        /\ \A k \in 1 .. 0 : FALSE
    BY DEF Init, NothingKept
  <1>2. \A d \in Devices : air[d].chan = <<>> /\ air[d].sent = 0
    BY DEF Init, NoLink
  <1>3. host.bt = [d \in Devices |-> UnknownDevice] /\ host.inp = [d \in Devices |-> NewInputDevice]
        /\ got = [d \in Devices |-> <<>>]
    BY DEF Init
  <1>4. /\ UnknownDevice.into = 0 /\ DOMAIN UnknownDevice.sockets = {}
        /\ NewInputDevice.interrupt = 0
    BY DEF UnknownDevice, NewDevice, NewInputDevice
  <1>5. \A d \in Devices : /\ host.bt[d].into = 0 /\ Sockets(host, d) = {}
                           /\ host.inp[d].interrupt = 0
    BY <1>3, <1>4 DEF Sockets
  <1>6. Reads(host) = {} /\ \A d \in Devices : ~OnReport(host, d) /\ Inbox(host, d) = <<>>
    BY <1>5 DEF Reads, OnReport, Inbox
  <1>7. Apt(host)
    BY <1>1, <1>5, <1>6 DEF Apt, FirstCid
  <1>8. ChannelsApt(host, air)
    BY <1>2 DEF ChannelsApt
  <1>9. Kinds(host, rx) /\ Addressed(host, rx)
    BY <1>1 DEF Kinds, Addressed
  <1>10. Contiguous(host, rx, air)
    <2>1. ASSUME NEW d \in Devices, NEW i \in 1 .. Len(rx) + 1 PROVE ~Owes(rx, air, d, i)
      <3>1. i = Len(rx) + 1
        BY <1>1, <2>1
      <3>2. ~Replying(air, d)
        BY <1>2 DEF Replying
      <3>3. QED
        BY <3>1, <3>2 DEF Owes
    <2>2. QED
      BY <2>1 DEF Contiguous
  <1>11. ASSUME NEW d \in Devices PROVE Counted(host, rx, air, got, d)
    <2>1. NewestOf(got, d) = 0 /\ air[d].sent = 0 /\ Inbox(host, d) = <<>>
      BY <1>2, <1>3, <1>6 DEF NewestOf
    <2>2. InBox(<<>>, 0, 0) /\ InQueue(<<>>, rx, d, 0, 0)
      BY <1>1 DEF InBox, InQueue
    <2>3. QED
      BY <2>1, <2>2 DEF Counted
  <1>12. Flow
    BY <1>3, <1>7, <1>8, <1>9, <1>10, <1>11 DEF Flow, Piped
  <1>13. Pipe!Init
    BY <1>2, <1>3 DEF Pipe!Init
  <1>14. QED
    BY <1>12, <1>13

(* A report sent and one returned are steps of ReportPipe.                 *)
LEMMA FlowRefines ==
  ASSUME Sound, Trace, Flow, Room', [Next]_vars
  PROVE  [Pipe!Next]_<<[d \in Devices |-> air[d].sent], got>>
  <1>. DEFINE sent == [d \in Devices |-> air[d].sent]
  <1>1. Air /\ Air' /\ got \in [Devices -> Seq(Nat)]
    <2>1. Sound'
      BY SoundNext
    <2>2. QED
      BY <2>1 DEF Sound, Flow, Piped
  <1>2. CASE PipeSend(air, air') /\ got' = got
    <2>1. CASE SameSent(air, air', Devices)
      <3>1. sent' = sent
        BY <2>1 DEF SameSent
      <3>2. QED
        BY <1>2, <3>1
    <2>2. CASE \E d \in Devices : air'[d].sent = air[d].sent + 1 /\ SameSent(air, air', Devices \ {d})
      <3>1. PICK d \in Devices : air'[d].sent = air[d].sent + 1 /\ SameSent(air, air', Devices \ {d})
        BY <2>2
      <3>2. sent' = [sent EXCEPT ![d] = sent[d] + 1]
        BY <3>1 DEF SameSent
      <3>3. Pipe!SendReport(d)
        BY <1>2, <3>1, <3>2 DEF Pipe!SendReport
      <3>4. QED
        BY <3>1, <3>3 DEF Pipe!Next
    <2>3. QED
      BY <1>2, <2>1, <2>2 DEF PipeSend
  <1>3. CASE PipeGet(air, got, got') /\ air' = air
    <2>1. sent' = sent
      BY <1>3
    <2>2. CASE got' = got
      BY <2>1, <2>2
    <2>3. CASE \E d \in Devices : \E n \in NewestOf(got, d) + 1 .. air[d].sent :
                 got' = [got EXCEPT ![d] = Append(@, n)]
      <3>1. PICK d \in Devices : \E n \in NewestOf(got, d) + 1 .. air[d].sent :
                   got' = [got EXCEPT ![d] = Append(@, n)]
        BY <2>3
      <3>2. Pipe!Newest(d) = NewestOf(got, d) /\ sent[d] = air[d].sent
        BY <3>1 DEF Pipe!Newest, NewestOf, Pipe!Last, Last
      <3>3. Pipe!GetReport(d)
        BY <2>1, <3>1, <3>2 DEF Pipe!GetReport
      <3>4. QED
        BY <3>1, <3>3 DEF Pipe!Next
    <2>4. QED
      BY <1>3, <2>2, <2>3 DEF PipeGet
  <1>4. QED
    BY <1>2, <1>3, FlowNext

(* If neither queue ever fills up, what hid_get returns for a device is    *)
(* what it sent, in order and no report twice: over lost links, handles    *)
(* and devices that come back, data that overtakes its link, and answers   *)
(* in fragments.                                                           *)
THEOREM ReportsInOrder == Spec /\ []Room => PipeSpec
  <1>1. Spec => []Sound
    BY SoundInit, SoundNext, PTL DEF Spec
  <1>2. Sound /\ Trace /\ Room' /\ [Next]_vars => Trace'
    BY TraceNext
  <1>3. Sound /\ Trace /\ Flow /\ Room' /\ [Next]_vars => Flow'
    BY FlowNext
  <1>4. Sound /\ Trace /\ Flow /\ Room' /\ [Next]_vars
          => [Pipe!Next]_<<[d \in Devices |-> air[d].sent], got>>
    BY FlowRefines
  <1>5. QED
    BY <1>1, <1>2, <1>3, <1>4, TraceInit, FlowInit, PTL DEF Spec, PipeSpec, Pipe!Spec
=============================================================================
