------------------------------ MODULE HidHost ------------------------------
(***************************************************************************)
(* The HID host of hid_server/hid_server.cpp: InputDevice (one per input   *)
(* device), SDPParse, the Wii remotes and HIDSource.  Its functions are    *)
(* callbacks of the HCI layer and hid_get; both run on the emulator's      *)
(* thread.  Fields of the host record used here, besides those of L2cap:   *)
(*    h.inp    the InputDevice of each device                              *)
(*    h.hids   HIDSource._devices, in the order they were found            *)
(*    h.keys   devices whose link key is stored in flash                   *)
(*    h.state  HCI._state, the set of its flags                            *)
(*    h.slots  wii_states[].flags, each as a set of flags                  *)
(* What SDPParse finds in a record is kept by nobody but                   *)
(* _hid_descriptor, which is never read: parse() is left out.              *)
(***************************************************************************)
EXTENDS L2cap

CONSTANTS InputDevices,     \* devices whose class is_input_device accepts
          WiiRemotes,       \* devices that is_wii accepts
          WiiSlots          \* the indices of wii_states

ASSUME ClassAssumption == /\ InputDevices \subseteq Devices /\ WiiRemotes \subseteq InputDevices
                          /\ WiiSlots \subseteq Nat

NoSlot == -1
InputStates == {"CLOSED", "CONNECT", "READING_NAME", "READING_SDP",
                "AUTHENTICATING", "OPENING"}

\* handler is the socket of the SDPParse object, 0 without one.
NewInputDevice == [state |-> "CLOSED", reconnect |-> FALSE, sdp |-> 0, control |-> 0,
                   interrupt |-> 0, handler |-> 0, wii |-> NoSlot]

Found(h, d) == d \in Range(h.hids)

\* HIDSource.add_device: an input device not seen before is added.
add_device(h, d) ==
  IF d \in InputDevices /\ ~Found(h, d)
  THEN [h EXCEPT !.hids = Append(@, d), !.inp[d] = NewInputDevice]
  ELSE h

\* InputDevice.connect; HCI.create_connection marks a connection in
\* progress with handle 0.
Connecting(h, d) ==
  IF h.bt[d].handle # NoHandle THEN h
  ELSE Cmd([h EXCEPT !.bt[d].seen = {}, !.bt[d].handle = 0], "CREATE_CONNECTION", d)
connect(h, d) ==
  Connecting([h EXCEPT !.inp[d].reconnect = FALSE, !.inp[d].state = "CONNECT"], d)

connection_request(h, d) ==
  Cmd([h EXCEPT !.inp[d].reconnect = TRUE], "ACCEPT_CONNECTION_REQUEST", d)

\* Both channels in one record: a device that called is listened to.
OpenHid(h, d, listen) ==
  LET g == l2_open(h, d, "control", listen)
  IN [l2_open(g, d, "interrupt", listen) EXCEPT !.inp[d].control = h.cid,
                                                !.inp[d].interrupt = g.cid]

connection_complete(h, d) ==
  LET g == IF h.inp[d].reconnect THEN OpenHid(h, d, TRUE) ELSE h
  IN Cmd([g EXCEPT !.inp[d].state = "READING_NAME"], "REMOTE_NAME_REQUEST", d)

\* HCI.authentication_requested: the command is sent with the handle the
\* device has now, not with its address (dev says whom it was meant for and
\* is looked at by Astray only), and not at all without a handle.
AskAuthentication(h, d) ==
  [h EXCEPT !.tx = Queued(@, [op |-> "AUTHENTICATION_REQUESTED", dev |-> d,
                              handle |-> h.bt[d].handle])]
Authenticate(h, d) ==
  LET g == IF h.bt[d].handle # NoHandle THEN AskAuthentication(h, d) ELSE h
  IN [g EXCEPT !.inp[d].state = "AUTHENTICATING"]

remote_name_response(h, d) ==
  CASE h.inp[d].reconnect -> [h EXCEPT !.inp[d].state = "OPENING"]
    [] ~h.inp[d].reconnect /\ d \in h.keys -> Authenticate(h, d)
    [] OTHER -> [l2_open(h, d, "sdp", FALSE) EXCEPT !.inp[d].sdp = h.cid,
                                                   !.inp[d].state = "READING_SDP"]

\* Mutant: the host waits for channels nobody asks for.
ListensAfterAuth(h, d) == OpenHid(h, d, TRUE)

\* The status is looked at for a message only.
authentication_complete(h, d) ==
  IF h.inp[d].reconnect THEN h ELSE OpenHid(h, d, FALSE)

\* Mutant: the slot of a remote that is gone stays taken.
SlotStaysTaken(h, d) ==
  LET i == h.inp[d]
      g == l2_close(l2_close(l2_close(h, i.sdp, TRUE), i.control, TRUE), i.interrupt, TRUE)
  IN [g EXCEPT !.inp[d] = [i EXCEPT !.reconnect = FALSE, !.interrupt = 0, !.control = 0,
                                    !.state = "CLOSED", !.wii = NoSlot]]

\* Mutant: a remote that is gone keeps the index of its slot.
IndexStays(h, d) ==
  LET i == h.inp[d]
      g == l2_close(l2_close(l2_close(h, i.sdp, TRUE), i.control, TRUE), i.interrupt, TRUE)
  IN [g EXCEPT !.inp[d] = [i EXCEPT !.reconnect = FALSE, !.interrupt = 0, !.control = 0,
                                    !.state = "CLOSED"]]

\* InputDevice.disconnection_complete: the SDP socket's id is not cleared.
disconnection_complete(h, d) ==
  LET i == h.inp[d]
      g == l2_close(l2_close(l2_close(h, i.sdp, TRUE), i.control, TRUE), i.interrupt, TRUE)
  IN [g EXCEPT !.inp[d] = [i EXCEPT !.reconnect = FALSE, !.interrupt = 0, !.control = 0,
                                    !.state = "CLOSED", !.wii = NoSlot],
               !.slots = IF i.wii = NoSlot THEN @ ELSE [@ EXCEPT ![i.wii] = {}]]

\* SDPParse.service_search, first and continued.
SdpSearch(h, s) == l2_send(h, s, "SEARCH")

\* socket_changed acts only when the SDP channel is said to be open, with a
\* new SDPParse: one that is there is deleted, and asks no further.
socket_changed(h, d, scid) ==
  IF d \in InputDevices /\ Found(h, d) /\ scid = h.inp[d].sdp
  THEN SdpSearch([h EXCEPT !.inp[d].handler = scid], scid)
  ELSE h

\* SDPParse.update: an answer that is to be continued is asked on.
SdpAnswered(h, s) ==
  LET g == l2_recv(h, s)
  IN IF Received(h, s) = "MORE" THEN SdpSearch(g, s) ELSE g

\* InputDevice.update_sdp: the last answer closes the channel and
\* authentication starts.
update_sdp(h, d) ==
  LET s == h.inp[d].handler
      g == SdpAnswered(h, s)
  IN CASE s = 0 \/ ~Waiting(h, s) -> h
       [] s # 0 /\ Waiting(h, s) /\ Received(h, s) = "LAST" ->
            Authenticate([l2_close(g, g.inp[d].sdp, TRUE)
                            EXCEPT !.inp[d].handler = 0, !.inp[d].sdp = 0], d)
       [] OTHER -> g

-----------------------------------------------------------------------------
(* WII.hid: a remote takes a free slot with its first report and shows it  *)
(* on its lights; what its reports say drives the questions about an       *)
(* extension.                                                              *)

FreeSlots(h) == {i \in WiiSlots : h.slots[i] = {}}

\* Mutant: a search that finds no free slot gives the index behind the last.
find_slot_past(h, d) ==
  IF h.inp[d].wii # NoSlot THEN h
  ELSE LET i == IF FreeSlots(h) = {} THEN Max(WiiSlots) + 1 ELSE Min(FreeSlots(h))
       IN [h EXCEPT !.inp[d].wii = i, !.slots = [k \in WiiSlots |-> IF k = i THEN {"wiimote"} ELSE @[k]]]

find_slot(h, d) ==
  IF h.inp[d].wii # NoSlot \/ FreeSlots(h) = {} THEN h
  ELSE LET i == Min(FreeSlots(h))
       IN l2_send(l2_send([h EXCEPT !.slots[i] = {"wiimote"}, !.inp[d].wii = i],
                          h.inp[d].interrupt, "LED"),
                  h.inp[d].interrupt, "ASK_STATUS")

Extensions == {"nunchuk"}               \* the kinds of extension, ~0xE
WiiReport(h, d, kind) ==
  LET i == h.inp[d].wii
      f == h.slots[i]
      Say(g, what) == l2_send(g, h.inp[d].interrupt, what)
  IN CASE kind = "status_plugged" -> Say(h, "INIT_EXTENSION")
       [] kind = "status" ->
            [Say(h, "SELECT_REPORT") EXCEPT !.slots[i] = f \ Extensions]
       [] kind = "memory" ->
            [Say(h, "SELECT_REPORT") EXCEPT !.slots[i] = (f \ Extensions) \cup {"nunchuk"}]
       [] kind = "written" /\ "extension_read" \notin f ->
            [Say(h, "READ_TYPE") EXCEPT !.slots[i] = f \cup {"extension_read"}]
       [] kind = "written" /\ "extension_read" \in f /\ "encryption_disabled" \notin f ->
            [Say(h, "NO_ENCRYPTION") EXCEPT !.slots[i] = f \cup {"encryption_disabled"}]
       [] kind = "core" -> Say(h, "SELECT_REPORT")
       [] OTHER -> h                    \* a report of the buttons

wii_hid(h, d, kind) ==
  LET g == find_slot(h, d)
  IN IF d \in WiiRemotes /\ g.inp[d].wii # NoSlot THEN WiiReport(g, d, kind)
     ELSE IF d \in WiiRemotes THEN g ELSE h

-----------------------------------------------------------------------------
(* HIDSource.get: one report a call, the devices in the order they were    *)
(* found; a device whose interrupt channel is gone is closed.              *)

HasReport(h, d) == h.inp[d].interrupt # 0 /\ Waiting(h, h.inp[d].interrupt)

Serviced(h, d) ==
  LET g == IF h.inp[d].interrupt # 0 /\ Gone(h, h.inp[d].interrupt)
           THEN disconnection_complete(h, d) ELSE h
  IN IF g.inp[d].sdp # 0 THEN update_sdp(g, d) ELSE g

Reporting(h) == {k \in DOMAIN h.hids : HasReport(h, h.hids[k])}
Reporter(h) == h.hids[Min(Reporting(h))]
Report(h) == Received(h, h.inp[Reporter(h)].interrupt)

\* The host after the loop has serviced n devices that have no report.
AllServiced(h, n) ==
  LET after[k \in 0 .. n] == IF k = 0 THEN h ELSE Serviced(after[k - 1], h.hids[k])
  IN after[n]

get(h) ==
  IF Reporting(h) = {} THEN AllServiced(h, Len(h.hids))
  ELSE LET k == Min(Reporting(h))
           d == h.hids[k]
           g == AllServiced(h, k - 1)
       IN wii_hid(l2_recv(g, g.inp[d].interrupt), d, Received(g, g.inp[d].interrupt).kind)
=============================================================================
