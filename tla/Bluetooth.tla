----------------------------- MODULE Bluetooth -----------------------------
(***************************************************************************)
(* The HCI layer of hid_server/hci_server.cpp, class HCI, composed with    *)
(* L2CAP and the HID host and with the controller (module BtController).   *)
(* The controller's task only writes to _rx and asks whether it may send;  *)
(* everything else runs in the emulator's main loop, which calls           *)
(* hid_update (send what is queued, then handle what has come) and         *)
(* hid_get once a round.                                                   *)
(***************************************************************************)
EXTENDS BtController

CONSTANTS Scenarios         \* what is in range and what may happen

ASSUME ScenarioAssumption == Scenarios \subseteq May

VARIABLES host,             \* the objects HCI and HIDSource
          pc,               \* where the main loop is: send, receive, get
          got               \* per device, the reports hid_get has returned

vars == <<rx, air, may, inquiry, host, pc, got>>

Flags == {"RESET", "READ_BUFFER_SIZE", "READ_BD_ADDR", "INITED", "INQUIRY"}
NotSent == {"-1"}           \* _state = -1: HCI_RESET is not sent yet
NothingKept == <<>>

Command(h, op) == Cmd(h, op, "none")
\* HIDSource.cb: h after the callback to d, if d is an input device.
ToDevice(h, d, called) == IF Found(h, d) THEN called ELSE h
WithFlag(h, f) == [h EXCEPT !.state = @ \cup {f}]

-----------------------------------------------------------------------------
(* The events of HCI.hci, each with the callback it makes.                 *)

start_inquiry(h) ==
  IF "INQUIRY" \in h.state THEN h ELSE Command(WithFlag(h, "INQUIRY"), "INQUIRY")

CommandComplete(h, op) ==
  CASE op = "RESET" -> WithFlag(Command(h, "READ_BUFFER_SIZE"), "RESET")
    [] op = "READ_BUFFER_SIZE" -> WithFlag(Command(h, "READ_BD_ADDR"), "READ_BUFFER_SIZE")
    [] op = "READ_BD_ADDR" ->
         Command(Command(WithFlag(h, "READ_BD_ADDR"), "WRITE_CLASS_OF_DEVICE"),
                 "WRITE_SCAN_ENABLE")
    [] op = "WRITE_SCAN_ENABLE" ->
         Command(start_inquiry(WithFlag(h, "INITED")), "WRITE_AUTH_ENABLE")
    [] OTHER -> h

\* HCI.add_device: a BTDevice for an address not seen before.
Known(h, d) == IF h.bt[d].known THEN h ELSE [h EXCEPT !.bt[d] = NewDevice]

InquiryComp(h) ==
  LET after[k \in 0 .. Len(h.hids)] ==
        IF k = 0 THEN [h EXCEPT !.state = @ \ {"INQUIRY"}]
        ELSE connect(after[k - 1], h.hids[k])
  IN after[Len(h.hids)]

ConnectionRequest(h, d) ==
  LET g == add_device(Known(h, d), d) IN ToDevice(g, d, connection_request(g, d))

\* connection_complete; handle 0 in the event stands for a failure.
ConnectionComplete(h, d, handle) ==
  LET g == [h EXCEPT !.bt[d].handle = IF handle = 0 THEN NoHandle ELSE handle]
  IN CASE ~h.bt[d].known -> h
       [] h.bt[d].known /\ handle # 0 -> ToDevice(g, d, connection_complete(g, d))
       [] OTHER -> g

OnHandle(h, handle) == {d \in Devices : h.bt[d].known /\ h.bt[d].handle = handle}
get_device_by_handle(h, handle) == CHOOSE d \in OnHandle(h, handle) : TRUE

DisconnectionComp(h, handle) ==
  IF OnHandle(h, handle) = {} THEN h
  ELSE LET d == get_device_by_handle(h, handle)
           g == disconnect_all(h, d)
       IN ToDevice(g, d, disconnection_complete(g, d))

AuthComp(h, handle) ==
  IF OnHandle(h, handle) = {} THEN h
  ELSE LET d == get_device_by_handle(h, handle)
       IN ToDevice(h, d, authentication_complete(h, d))

RemoteName(h, d) == ToDevice(h, d, remote_name_response(h, d))

LinkKeyRequest(h, d) ==
  CASE ~h.bt[d].known -> h
    [] h.bt[d].known /\ d \in h.keys -> Cmd(h, "LINK_KEY_REQUEST_REPLY", d)
    [] OTHER -> Cmd(h, "LINK_KEY_REQUEST_NEG_REPLY", d)

\* HCI.acl: to the socket's device, or into the one buffer of _dongle_bug.
Matched(h, p) == OnHandle(h, p.handle) # {}
acl(h, p) ==
  IF Matched(h, p) THEN data(h, get_device_by_handle(h, p.handle), p)
  ELSE [h EXCEPT !.kept = <<p>>]

\* set_state(L2CAP_OPEN) calls back at every configuration packet for which
\* check_open finds the channel open, if it was open before or not.
Configures(h, d, p) == /\ p.into = 1 /\ p.first /\ h.bt[d].held + 1 = p.size
                       /\ p.load.cmd \in {"CONF_REQ", "CONF_RSP"}
AclEvent(h, p) ==
  LET g == acl(h, p)
      d == get_device_by_handle(h, p.handle)
  IN IF Matched(h, p) /\ Configures(h, d, p) /\ FoundOpen(g, d, p.load.scid)
     THEN socket_changed(g, d, p.load.scid)
     ELSE g

\* dongle_bug: what is kept is tried once more and forgotten.
dongle_bug(h) ==
  IF h.kept = NothingKept THEN h
  ELSE [AclEvent(h, h.kept[1]) EXCEPT !.kept = NothingKept]

Handled(h, p) ==
  CASE p.evt = "ACL" -> AclEvent(h, p)
    [] p.evt = "COMMAND_COMPLETE" -> CommandComplete(h, p.arg)
    [] p.evt = "INQUIRY_RESULT" -> add_device(Known(h, p.dev), p.dev)
    [] p.evt = "INQUIRY_COMP" -> InquiryComp(h)
    [] p.evt = "CONNECTION_REQUEST" -> ConnectionRequest(h, p.dev)
    [] p.evt = "CONNECTION_COMP" -> dongle_bug(ConnectionComplete(h, p.dev, p.arg))
    [] p.evt = "DISCONNECTION_COMP" -> DisconnectionComp(h, p.arg)
    [] p.evt = "AUTH_COMP" -> AuthComp(h, p.arg)
    [] p.evt = "RMT_NAME" -> RemoteName(h, p.dev)
    [] p.evt = "LINK_KEY_REQUEST" -> LinkKeyRequest(h, p.dev)
    [] p.evt = "PIN_CODE_REQUEST" -> Cmd(h, "PIN_CODE_REQUEST_REPLY", p.dev)
    [] p.evt = "LINK_KEY_NOTIFICATION" -> [h EXCEPT !.keys = @ \cup {p.dev}]

-----------------------------------------------------------------------------
Init ==
  /\ may \in Scenarios
  /\ rx = <<>> /\ inquiry = NoInquiry /\ air = [d \in Devices |-> NoLink]
  /\ host = [bt |-> [d \in Devices |-> UnknownDevice], cid |-> FirstCid, tx |-> <<>>,
             inp |-> [d \in Devices |-> NewInputDevice], hids |-> <<>>,
             keys |-> {d \in Devices : may.paired[d]},
             state |-> NotSent, slots |-> [i \in WiiSlots |-> {}], kept |-> NothingKept]
  /\ pc = "send"
  /\ got = [d \in Devices |-> <<>>]

\* The controller's task: the first time it may be sent to, HCI_RESET.
ready_to_send ==
  /\ host.state = NotSent
  /\ host' = [Command(host, "RESET") EXCEPT !.state = {}]
  /\ UNCHANGED <<rx, air, may, inquiry, pc, got>>

Controller == (Answers \/ OwnAccord) /\ UNCHANGED <<host, pc, got>>

\* hid_update sends while the controller takes packets ...
Send ==
  /\ pc = "send" /\ host.tx # <<>>
  /\ host' = [host EXCEPT !.tx = Tail(@)]
  /\ Taken(Head(host.tx))
  /\ UNCHANGED <<pc, got>>

\* ... and stops when it has nothing more or the controller does not.
Sent ==
  /\ pc = "send" /\ pc' = "receive"
  /\ UNCHANGED <<rx, air, may, inquiry, host, got>>

Receive ==
  /\ pc = "receive" /\ rx # <<>>
  /\ rx' = Tail(rx)
  /\ host' = Handled(host, Head(rx))
  /\ UNCHANGED <<air, may, inquiry, pc, got>>

AllReceived ==
  /\ pc = "receive" /\ rx = <<>> /\ pc' = "get"
  /\ UNCHANGED <<rx, air, may, inquiry, host, got>>

Get ==
  /\ pc = "get" /\ pc' = "send"
  /\ host' = get(host)
  /\ got' = IF Reporting(host) = {} THEN got
            ELSE [got EXCEPT ![Reporter(host)] = Append(@, Report(host).n)]
  /\ UNCHANGED <<rx, air, may, inquiry>>

Next == ready_to_send \/ Controller \/ Send \/ Sent \/ Receive \/ AllReceived \/ Get

\* The main loop goes round, the controller's task reports that it is ready,
\* answers what it is asked, and takes a packet if it is offered one again
\* and again.  (A step that shortens rx is Receive, one that only shortens
\* tx is Send, and only three actions move pc.)
Fairness ==
  /\ WF_host(host.state = NotSent /\ host' = [Command(host, "RESET") EXCEPT !.state = {}])
  /\ SF_host(pc = "send" /\ host.tx # <<>> /\ host' = [host EXCEPT !.tx = Tail(@)])
  /\ WF_rx(pc = "receive" /\ rx # <<>> /\ rx' = Tail(rx))
  /\ WF_pc(\/ pc = "send" /\ pc' = "receive"
           \/ pc = "receive" /\ rx = <<>> /\ pc' = "get"
           \/ pc = "get" /\ pc' = "send")
  /\ WF_airVars(InquiryResult) /\ WF_airVars(InquiryComplete)
  /\ \A d \in Devices :
       WF_airVars(ConnectionMade(d)) /\ WF_airVars(NameRead(d)) /\ WF_airVars(SdpAnswer(d))

Spec == Init /\ [][Next]_vars /\ Fairness
-----------------------------------------------------------------------------
(* Properties.                                                             *)

Acls == {p \in Range(host.tx) : p.op = "ACL"}
Links == Handles \cup {NoHandle, 0}
DeviceOK(d) ==
  /\ host.bt[d].handle \in Links /\ host.bt[d].held \in Nat
  /\ host.bt[d].seen \subseteq Commands
  /\ \A s \in Sockets(host, d) : /\ host.bt[d].sockets[s].state \in SocketStates
                                 /\ host.bt[d].sockets[s].psm \in Psms
                                 /\ host.bt[d].sockets[s].dcid \in Psms \cup {NoEnd}
  /\ host.inp[d].state \in InputStates /\ host.inp[d].wii \in WiiSlots \cup {NoSlot}
  /\ air[d].link \in LinkStates

\* The variables have their types, and no queue ever holds more than QSIZE.
TypeOK ==
  /\ Len(rx) <= QSIZE /\ Len(host.tx) <= QSIZE
  /\ \A p \in Acls : p.handle \in Links /\ p.psm \in Psms \cup {NoEnd}
  /\ \A d \in Devices : DeviceOK(d)
  /\ host.state \subseteq Flags \/ host.state = NotSent
  /\ pc \in {"send", "receive", "get"}

\* A socket id belongs to one device for good: whatever links come and go,
\* the ids an InputDevice remembers never name a socket of another device,
\* so neither reading nor closing one it has lost can reach a stranger.
IdsOf(d) == {host.inp[d].sdp, host.inp[d].control, host.inp[d].interrupt,
             host.inp[d].handler}
SocketsOwned == \A d \in Devices :
  /\ \A s \in Sockets(host, d) : s < host.cid /\ Owners(host, s) = {d}
  /\ \A s \in IdsOf(d) : Owners(host, s) \subseteq {d}

\* The host's idea of a link is the controller's, but for events that are
\* still in the queue: a device with a handle is linked under it or its
\* disconnection is under way; a link the host does not know of is being
\* reported; a connection marked as in progress is one that will end.
Reported(evt, d) == \E p \in Range(rx) : p.evt = evt /\ p.dev = d
Ending(n) == \E p \in Range(rx) : p.evt = "DISCONNECTION_COMP" /\ p.arg = n
Creating(d) == \E p \in Range(host.tx) : p.op = "CREATE_CONNECTION" /\ p.dev = d
HandleTracksLink == \A d \in Devices :
  LET n == host.bt[d].handle IN
  /\ n \in Handles => (IsUp(d) /\ air[d].handle = n) \/ Ending(n)
  /\ IsUp(d) /\ n # air[d].handle => Reported("CONNECTION_COMP", d)
  /\ n = 0 => \/ Creating(d) \/ air[d].link \in {"calling", "paging"}
              \/ Reported("CONNECTION_COMP", d)

\* To a device that never calls by itself an SDP search goes out on a
\* channel that is open at both ends: the far end has had the host's
\* configuration and the answer to its own.  (A device that called while a
\* connection was made can be asked for its name twice; then a second SDP
\* channel is taken for open as soon as one answer for it is there, since
\* the bits of the first are still set.  A device that has a channel which
\* was meant for the link before under its handle has the bits of that.)
Searching == /\ host.tx # <<>> /\ Head(host.tx).op = "ACL"
             /\ Head(host.tx).cmd = "SEARCH"
SdpAsksOpenChannel ==
  Searching => \A d \in LinkOf(Head(host.tx).handle) :
    ~may.caller[d] /\ DOMAIN air[d].chan = {"sdp"} /\ Channel(d, "sdp").scid = Head(host.tx).scid
      => Usable(d, "sdp")

\* A slot of wii_states is taken exactly by one remote: no two share one,
\* and none stays taken by nobody.
WiiSlotsHeld ==
  /\ \A i \in WiiSlots :
       host.slots[i] # {} <=> \E d \in Devices : host.inp[d].wii = i
  /\ \A d \in Devices : host.inp[d].wii # NoSlot =>
       \A e \in Devices \ {d} : host.inp[e].wii # host.inp[d].wii

\* Only a remote that is linked has a slot: one that is gone does not keep it.
WiiHoldersLinked ==
  \A d \in Devices : host.inp[d].wii # NoSlot => host.bt[d].handle \in Handles

\* The stack implements ReportPipe: what hid_get returns for a device is
\* what it sent, in order and once, over lost links, handles used again and
\* data that overtakes its link.
Pipe == INSTANCE ReportPipe WITH Senders <- Devices, sent <- [d \in Devices |-> air[d].sent],
                                 got <- got
PipeSpec == Pipe!Spec

\* A channel or an authentication asked for on a link that is gone, about
\* to reach the device that has its handle now: what is queued in _tx is not
\* taken back.
Stranger(d, p) ==
  \/ p.op = "ACL" /\ p.cmd \in {"CONN_REQ", "CONN_RSP"} /\ p.scid \notin Sockets(host, d)
  \/ p.op = "AUTHENTICATION_REQUESTED" /\ p.dev # d
Astray(d) == /\ host.tx # <<>> /\ Stranger(d, Head(host.tx))
             /\ d \in LinkOf(Head(host.tx).handle)

\* Links that were all made after the inquiry was over, none of them lost in
\* the middle of a packet, none that got what was meant for another.  (All
\* are needed: a device that calls while the inquiry runs is answered as
\* one that is called; the fragments a lost link leaves are counted against
\* the first packet of the next; a device that has taken another's channel
\* refuses its own; one that is authenticated for another is asked for its
\* channels twice, and only the second, refused ones are read.)
Inquired == "INITED" \in host.state /\ "INQUIRY" \notin host.state
Unbroken(d) == /\ air[d].link # "down" => Inquired
               /\ ~IsUp(d) => host.bt[d].held = 0
               /\ ~Astray(d)
Heard(d) == /\ Usable(d, "interrupt")
            /\ air[d].sent > air[d].before => got[d] # <<>> /\ Last(got[d]) = air[d].sent

\* A device that is called, stays linked and closes no channel ends with an
\* interrupt channel, and all its reports are returned.
HeardOut == \A d \in InputDevices :
  ([]Unbroken(d) /\ <>[](IsUp(d) /\ ~air[d].called) /\ may.closes = 0) => <>[]Heard(d)

\* A device that calls, stays linked and asks for an interrupt channel gets
\* it, and all its reports are returned.
HeardBack == \A d \in InputDevices :
  ([]Unbroken(d) /\ <>[](IsUp(d) /\ air[d].called /\ HasChannel(d, "interrupt")))
    => <>[]Heard(d)
=============================================================================
