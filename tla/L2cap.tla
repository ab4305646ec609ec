------------------------------- MODULE L2cap -------------------------------
(***************************************************************************)
(* The L2CAP side of a Bluetooth device: class BTDevice and class          *)
(* L2CAPSocket of hid_server/hci_server.cpp.  Everything here runs inside  *)
(* hci_update, on the emulator's thread, so an operator maps the state of  *)
(* the host before a call to its state after it.  The state of the host is *)
(* a record h; the fields used here are                                    *)
(*    h.bt     the BTDevice of each device                                 *)
(*    h.cid    HCI._cid, the id the next socket gets                       *)
(*    h.tx     HCI._tx, the queue of packets for the controller            *)
(* A device opens at most one channel of a kind (psm), so the far end of a *)
(* channel, the code's dcid, is named by the psm; NoEnd is the code's 0.   *)
(* The bits SLAVE and ACTIVE of _flags and the counter _txid are written   *)
(* and never looked at: they are left out.                                 *)
(***************************************************************************)
EXTENDS Integers, Sequences, FiniteSets, SequencesExt

CONSTANTS Devices,          \* devices, named by their addresses
          QSIZE             \* PacketQ: what a queue holds

ASSUME QueueAssumption == QSIZE \in Nat \ {0}

FirstCid == 64              \* _cid starts at 0x40; 0 is no socket
NoEnd == "none"
NoHandle == -1
Psms == {"sdp", "control", "interrupt"}
SocketStates == {"LISTENING", "OPENING", "OPEN", "CLOSED"}
Commands == {"CONN_REQ", "CONN_RSP", "CONF_REQ", "CONF_RSP",
             "DISCONN_REQ", "DISCONN_RSP"}

\* PacketQ.write: a packet that finds the queue full is lost.
Queued(q, p) == IF Len(q) < QSIZE THEN Append(q, p) ELSE q

\* A BTDevice.  seen holds the commands whose bit M(cmd) is set in _flags;
\* held, size and into are the packet under reassembly: the fragments it
\* has, the fragments it needs and the channel it is for.
NewDevice == [known |-> TRUE, handle |-> NoHandle, seen |-> {},
              held |-> 0, size |-> 0, into |-> 0, sockets |-> <<>>]
UnknownDevice == [NewDevice EXCEPT !.known = FALSE]

Sockets(h, d) == DOMAIN h.bt[d].sockets
Owners(h, scid) == {d \in Devices : scid \in Sockets(h, d)}
HasSocket(h, scid) == Owners(h, scid) # {}
get_device_by_socket(h, scid) == CHOOSE d \in Owners(h, scid) : TRUE
get_socket(h, scid) == h.bt[get_device_by_socket(h, scid)].sockets[scid]

\* BTDevice.send: an ACL packet on the device's handle.  (Its cid is psm.)
SendAcl(h, d, cmd, psm, scid) ==
  [h EXCEPT !.tx = Queued(@, [op |-> "ACL", handle |-> h.bt[d].handle,
                              cmd |-> cmd, psm |-> psm, scid |-> scid])]

\* HCI.cmd: a command for the controller.
Cmd(h, op, d) == [h EXCEPT !.tx = Queued(@, [op |-> op, dev |-> d])]

\* Mutant: _cid is not counted on.
l2_open_same_cid(h, d, psm, listen) ==
  LET s == [psm |-> psm, dcid |-> NoEnd, q |-> <<>>,
            state |-> IF listen THEN "LISTENING" ELSE "OPENING"]
      g == [h EXCEPT !.bt[d].sockets = [i \in DOMAIN @ \cup {h.cid} |->
                                          IF i = h.cid THEN s ELSE @[i]]]
  IN IF listen THEN g ELSE SendAcl(g, d, "CONN_REQ", psm, h.cid)

\* BTDevice.l2_open: the socket gets the next id, which is never used again.
l2_open(h, d, psm, listen) ==
  LET scid == h.cid
      s == [psm |-> psm, dcid |-> NoEnd, q |-> <<>>,
            state |-> IF listen THEN "LISTENING" ELSE "OPENING"]
      g == [h EXCEPT !.cid = @ + 1,
                     !.bt[d].sockets = [i \in DOMAIN @ \cup {scid} |->
                                          IF i = scid THEN s ELSE @[i]]]
  IN IF listen THEN g ELSE SendAcl(g, d, "CONN_REQ", psm, scid)

Forgotten(h, d, scid) ==
  [h EXCEPT !.bt[d].sockets = [i \in DOMAIN @ \ {scid} |-> @[i]]]

\* l2_close(scid, this_end): only an OPEN channel is closed at the far end.
l2_close(h, scid, this_end) ==
  IF ~HasSocket(h, scid) THEN h
  ELSE LET d == get_device_by_socket(h, scid)
           s == get_socket(h, scid)
           g == IF this_end /\ s.state = "OPEN"
                THEN SendAcl(h, d, "DISCONN_REQ", s.dcid, scid) ELSE h
       IN Forgotten(g, d, scid)

\* HCI.l2_send.
l2_send(h, scid, data) ==
  IF ~HasSocket(h, scid) THEN h
  ELSE SendAcl(h, get_device_by_socket(h, scid), data, get_socket(h, scid).dcid, scid)

\* HCI.l2_recv returns -1 without the socket, 0 without a packet.
Gone(h, scid) == ~HasSocket(h, scid)
Waiting(h, scid) == HasSocket(h, scid) /\ get_socket(h, scid).q # <<>>
Received(h, scid) == Head(get_socket(h, scid).q)
l2_peek(h, scid) == h       \* mutant: the packet stays in the queue
l2_recv(h, scid) ==
  IF Waiting(h, scid)
  THEN [h EXCEPT !.bt[get_device_by_socket(h, scid)].sockets[scid].q = Tail(@)]
  ELSE h

\* Mutant: the handle of a lost link is kept.
disconnect_keeps_handle(h, d) == [h EXCEPT !.bt[d].sockets = <<>>, !.bt[d].seen = {}]
disconnect_all(h, d) ==
  [h EXCEPT !.bt[d].sockets = <<>>, !.bt[d].handle = NoHandle, !.bt[d].seen = {}]

-----------------------------------------------------------------------------
(* BTDevice.control, one operator per command.                             *)

Marked(h, d, cmd) == [h EXCEPT !.bt[d].seen = @ \cup {cmd}]

\* check_open: the bits are those of the device, not of the channel, and a
\* device that ever asked for a channel of its own never gets here.
OpenOnAnswer == {"CONN_RSP", "CONF_RSP"}    \* mutant: only the own side counts
OpenMask == {"CONN_RSP", "CONF_REQ", "CONF_RSP"}
FoundOpen(h, d, scid) == /\ scid \in Sockets(h, d)
                         /\ "CONN_REQ" \notin h.bt[d].seen
                         /\ OpenMask \subseteq h.bt[d].seen
check_open(h, d, scid) ==
  IF FoundOpen(h, d, scid)
  THEN [h EXCEPT !.bt[d].sockets[scid].state = "OPEN"]
  ELSE h

ConnRsp(h, d, c) ==
  IF c.scid \notin Sockets(h, d) \/ c.status = "pending" THEN h
  ELSE IF c.status = "success"
  THEN SendAcl([h EXCEPT !.bt[d].sockets[c.scid].dcid = c.psm],
               d, "CONF_REQ", c.psm, c.scid)
  ELSE [h EXCEPT !.bt[d].sockets[c.scid].state = "CLOSED"]

ConfReq(h, d, c) ==
  IF c.scid \in Sockets(h, d)
  THEN check_open(SendAcl(h, d, "CONF_RSP", h.bt[d].sockets[c.scid].dcid, c.scid),
                  d, c.scid)
  ELSE h

DisconnReq(h, d, c) ==
  SendAcl(IF c.scid \in Sockets(h, d) THEN Forgotten(h, d, c.scid) ELSE h,
          d, "DISCONN_RSP", c.psm, c.scid)

\* Mutant: the channel is accepted, its configuration is not asked for.
AcceptedNoConf(h, d, psm, i) ==
  SendAcl([h EXCEPT !.bt[d].sockets[i].dcid = psm], d, "CONN_RSP", psm, i)

Accepted(h, d, psm, i) ==
  LET g == SendAcl(h, d, "CONN_RSP", psm, i)
  IN SendAcl([g EXCEPT !.bt[d].sockets[i].state = "OPENING", !.bt[d].sockets[i].dcid = psm],
             d, "CONF_REQ", psm, i)

\* A channel the device asks for: every socket of that psm answers, one
\* the host itself is opening as well; after[k] is the host after the loop
\* has passed the k lowest ids.
ConnReq(h, d, c) ==
  LET after[k \in 0 .. h.cid - FirstCid] ==
        LET i == FirstCid + k - 1 IN
        CASE k = 0 -> h
          [] k > 0 /\ i \in Sockets(h, d) /\ h.bt[d].sockets[i].psm = c.psm ->
               Accepted(after[k - 1], d, c.psm, i)
          [] OTHER -> after[k - 1]
  IN after[h.cid - FirstCid]

control(h, d, c) ==
  LET g == Marked(h, d, c.cmd) IN
  CASE c.cmd = "CONN_RSP" -> ConnRsp(g, d, c)
    [] c.cmd = "CONF_RSP" -> check_open(g, d, c.scid)
    [] c.cmd = "CONF_REQ" -> ConfReq(g, d, c)
    [] c.cmd = "DISCONN_REQ" -> DisconnReq(g, d, c)
    [] c.cmd = "DISCONN_RSP" -> l2_close(g, c.scid, TRUE)
    [] c.cmd = "CONN_REQ" -> ConnReq(g, d, c)

\* BTDevice.data: a first fragment says what the packet needs and where it
\* goes, but does not start the count of what is held anew.  (When a full
\* queue has lost the start of an answer, its rest may be taken for what
\* the start before it announced; as a command it is one control() ignores.)
Assembled(h, d, p) ==
  LET b == h.bt[d]
  IN [h EXCEPT !.bt[d] = [b EXCEPT !.held = b.held + 1,
                                   !.size = IF p.first THEN p.size ELSE b.size,
                                   !.into = IF p.first THEN p.into ELSE b.into]]
data(h, d, p) ==
  LET g == Assembled(h, d, p)
      whole == g.bt[d].held = g.bt[d].size
      scid == g.bt[d].into
      done == [g EXCEPT !.bt[d].held = 0]
  IN CASE ~whole -> g
       [] whole /\ scid = 1 /\ p.first -> control(done, d, p.load)
       [] whole /\ scid \in Sockets(g, d) ->
            [done EXCEPT !.bt[d].sockets[scid].q = Queued(@, p.load)]
       [] OTHER -> done
=============================================================================
