---------------------------- MODULE BtController ----------------------------
(***************************************************************************)
(* EXTERNAL: the Bluetooth controller of the ESP32 and the devices around  *)
(* it, as far as the code of hid_server/ uses them: what they may answer   *)
(* to a packet of the host, and what they do on their own.  They keep to   *)
(* the protocol.  The controller's task calls notify_host_recv, which puts *)
(* the packet into HCI._rx.                                                *)
(* Of a link, air[d] holds                                                 *)
(*    link    down, calling (a request the host has not answered), paging  *)
(*            (a connection being made) or up                              *)
(*    handle  the link's handle while it is up                             *)
(*    called  the link is one the device asked for                         *)
(*    asked   a name request is not answered yet                           *)
(*    auth    what an authentication waits for: no, key, pin               *)
(*    chan    the channels of the link: the host's end (scid), what the    *)
(*            device waits for (wait), whether it configures its side only *)
(*            after the host (late), whether half an answer is to come     *)
(*    sent    how many reports the device has sent, before this link       *)
(*            (before) and in all                                          *)
(* may says who is in range, calls or is paired, which kinds of reports    *)
(* come, whether the controller scans for calls yet, and bounds what       *)
(* devices do on their own: calls, drops, fails, closes, asks for a        *)
(* channel, data that overtakes and further parts of an SDP answer (more). *)
(***************************************************************************)
EXTENDS HidHost

CONSTANT Handles

\* ESP32's classic links do not have handle 0, the code's mark for a
\* connection in progress.
ASSUME HandleAssumption == Handles \subseteq Nat \ {0}

ReportKinds == {"buttons", "status_plugged", "status", "memory", "written", "core"}
May == [range : [Devices -> BOOLEAN], caller : [Devices -> BOOLEAN],
        paired : [Devices -> BOOLEAN], scan : BOOLEAN, kinds : SUBSET ReportKinds,
        reports : Nat, calls : Nat, drops : Nat, fails : Nat, closes : Nat, asks : Nat,
        overtakes : Nat, more : Nat]

VARIABLES rx,               \* HCI._rx
          air,              \* a link per device
          may,              \* what may still happen by itself
          inquiry           \* devices an inquiry has still to report, or NoInquiry

NoInquiry == {"off"}        \* (a set, as the devices to report are)
airVars == <<rx, air, may, inquiry>>

NoLink == [link |-> "down", handle |-> 0, called |-> FALSE, asked |-> FALSE,
           auth |-> "no", chan |-> <<>>, sent |-> 0, before |-> 0]
LinkStates == {"down", "calling", "paging", "up"}
Downed(l) == [NoLink EXCEPT !.asked = l.asked, !.sent = l.sent, !.before = l.sent]
IsUp(d) == air[d].link = "up"
LinkOf(h) == {d \in Devices : IsUp(d) /\ air[d].handle = h}

Event(evt, d, n) == [evt |-> evt, dev |-> d, arg |-> n]
Notify(ps) == rx' = SubSeq(rx \o ps, 1, Min({Len(rx) + Len(ps), QSIZE}))
Spends(what) == may[what] > 0 /\ may' = [may EXCEPT ![what] = @ - 1]

Packet(d, into, load) == [evt |-> "ACL", handle |-> air[d].handle, from |-> d,
                          first |-> TRUE, size |-> 1, into |-> into, load |-> load]
Signal(d, cmd, psm, scid, status) ==
  Packet(d, 1, [cmd |-> cmd, psm |-> psm, scid |-> scid, status |-> status])

Channel(d, psm) == air[d].chan[psm]
HasChannel(d, psm) == psm \in DOMAIN air[d].chan
WithChannel(d, psm, c) ==
  [air EXCEPT ![d].chan = [p \in DOMAIN @ \cup {psm} |-> IF p = psm THEN c ELSE @[p]]]
WithoutChannel(d, psm) ==
  [air EXCEPT ![d].chan = [p \in DOMAIN @ \ {psm} |-> @[p]]]

\* A channel the device asks for, and one whose ends are known.
Asked == [scid |-> 0, late |-> FALSE, rest |-> FALSE, wait |-> {"CONN_RSP"}]
Joined(scid, late) == [scid |-> scid, late |-> late, rest |-> FALSE,
                       wait |-> {"CONF_REQ", "CONF_RSP"}]
Usable(d, psm) == HasChannel(d, psm) /\ Channel(d, psm).wait = {}
Answering(d) == HasChannel(d, "sdp") /\ Channel(d, "sdp").rest

-----------------------------------------------------------------------------
(* What a packet of the host does, and what answers it: Taken(p).          *)

HandshakeSteps == {"RESET", "READ_BUFFER_SIZE", "READ_BD_ADDR", "WRITE_CLASS_OF_DEVICE",
                   "WRITE_SCAN_ENABLE", "WRITE_AUTH_ENABLE"}

Turns(d, l, evts) == /\ air' = [air EXCEPT ![d] = l] /\ Notify(evts)
                     /\ UNCHANGED <<may, inquiry>>
Ignored == UNCHANGED airVars

\* An authentication asks for the key, then, if there is none, for the PIN;
\* a pairing that fails leaves no key.  What the host asks for by handle it
\* gets for the device that has the handle by now; the answers carry d's
\* address.
TakenAuth(d, op) ==
  LET l == air[d]
      comp == Event("AUTH_COMP", d, l.handle) IN
  CASE op = "AUTHENTICATION_REQUESTED" /\ IsUp(d) ->
         Turns(d, [l EXCEPT !.auth = "key"], <<Event("LINK_KEY_REQUEST", d, 0)>>)
    [] op = "LINK_KEY_REQUEST_REPLY" /\ l.auth = "key" ->
         Turns(d, [l EXCEPT !.auth = "no"], <<comp>>)
    [] op = "LINK_KEY_REQUEST_NEG_REPLY" /\ l.auth = "key" ->
         Turns(d, [l EXCEPT !.auth = "pin"], <<Event("PIN_CODE_REQUEST", d, 0)>>)
    [] op = "PIN_CODE_REQUEST_REPLY" /\ l.auth = "pin" ->
         \/ Turns(d, [l EXCEPT !.auth = "no"], <<Event("LINK_KEY_NOTIFICATION", d, 0), comp>>)
         \/ Turns(d, [l EXCEPT !.auth = "no"], <<comp>>)
    [] OTHER -> Ignored

TakenCommand(p) ==
  LET d == p.dev
      l == air[d] IN
  CASE p.op \in HandshakeSteps ->
         /\ Notify(<<Event("COMMAND_COMPLETE", "none", p.op)>>)
         /\ may' = [may EXCEPT !.scan = @ \/ p.op = "WRITE_SCAN_ENABLE"]
         /\ UNCHANGED <<air, inquiry>>
    [] p.op = "INQUIRY" ->
         inquiry' = {x \in Devices : may.range[x]} /\ UNCHANGED <<rx, air, may>>
    [] p.op = "CREATE_CONNECTION" /\ l.link = "down" ->
         Turns(d, [l EXCEPT !.link = "paging"], <<>>)
    [] p.op = "ACCEPT_CONNECTION_REQUEST" /\ l.link = "calling" ->
         Turns(d, [l EXCEPT !.link = "paging"], <<>>)
    [] p.op = "REMOTE_NAME_REQUEST" -> Turns(d, [l EXCEPT !.asked = TRUE], <<>>)
    [] p.op = "AUTHENTICATION_REQUESTED" ->
         IF LinkOf(p.handle) = {} THEN Ignored
         ELSE TakenAuth(CHOOSE e \in LinkOf(p.handle) : TRUE, p.op)
    [] OTHER -> TakenAuth(d, p.op)

\* A channel the host asks for: refused by a device that has one of that
\* psm, else joined; the device configures its side at once or only when
\* the host has (late).
TakenConnReq(d, p) ==
  IF HasChannel(d, p.psm)
  THEN Turns(d, air[d], <<Signal(d, "CONN_RSP", p.psm, p.scid, "refused")>>)
  ELSE \E late \in BOOLEAN :
         /\ air' = WithChannel(d, p.psm, Joined(p.scid, late))
         /\ Notify(<<Signal(d, "CONN_RSP", p.psm, p.scid, "success")>>
                   \o IF late THEN <<>>
                      ELSE <<Signal(d, "CONF_REQ", p.psm, p.scid, "success")>>)
         /\ UNCHANGED <<may, inquiry>>

OnChannel(d, p, c, cmds) ==
  /\ air' = WithChannel(d, p.psm, c)
  /\ Notify([k \in DOMAIN cmds |-> Signal(d, cmds[k], p.psm, c.scid, "success")])
  /\ UNCHANGED <<may, inquiry>>

TakenAcl(d, p) ==
  LET c == Channel(d, p.psm) IN
  CASE p.cmd = "CONN_REQ" -> TakenConnReq(d, p)
    [] p.cmd # "CONN_REQ" /\ ~HasChannel(d, p.psm) -> Ignored
    [] p.cmd = "CONN_RSP" /\ HasChannel(d, p.psm) ->
         IF "CONN_RSP" \in c.wait
         THEN OnChannel(d, p, Joined(p.scid, FALSE), <<"CONF_REQ">>)
         ELSE Ignored
    [] p.cmd = "CONF_REQ" /\ HasChannel(d, p.psm) ->
         OnChannel(d, p, [c EXCEPT !.wait = @ \ {"CONF_REQ"}, !.late = FALSE],
                   IF c.late THEN <<"CONF_RSP", "CONF_REQ">> ELSE <<"CONF_RSP">>)
    [] p.cmd = "CONF_RSP" /\ HasChannel(d, p.psm) ->
         OnChannel(d, p, [c EXCEPT !.wait = @ \ {"CONF_RSP"}], <<>>)
    [] p.cmd = "DISCONN_REQ" /\ HasChannel(d, p.psm) ->
         /\ Notify(<<Signal(d, "DISCONN_RSP", p.psm, p.scid, "success")>>)
         /\ air' = WithoutChannel(d, p.psm) /\ UNCHANGED <<may, inquiry>>
    [] p.cmd = "SEARCH" /\ p.psm = "sdp" /\ HasChannel(d, p.psm) /\ ~c.rest ->
         \* the answer comes in two fragments; until they are both there a
         \* channel takes no other search
         /\ Notify(<<[Packet(d, c.scid, "MORE") EXCEPT !.size = 2]>>)
         /\ air' = WithChannel(d, "sdp", [c EXCEPT !.rest = TRUE]) /\ UNCHANGED <<may, inquiry>>
    [] OTHER -> Ignored

Taken(p) ==
  IF p.op # "ACL" THEN TakenCommand(p)
  ELSE IF LinkOf(p.handle) = {} THEN Ignored
  ELSE TakenAcl(CHOOSE d \in LinkOf(p.handle) : TRUE, p)

-----------------------------------------------------------------------------
(* What the controller and the devices still owe.                          *)

InquiryResult == \E d \in inquiry \cap Devices :
  /\ inquiry' = inquiry \ {d}
  /\ Notify(<<Event("INQUIRY_RESULT", d, 0)>>) /\ UNCHANGED <<air, may>>

InquiryComplete ==
  /\ inquiry = {} /\ inquiry' = NoInquiry
  /\ Notify(<<Event("INQUIRY_COMP", "none", 0)>>) /\ UNCHANGED <<air, may>>

\* A new link has the lowest handle that is free.
FreeHandle(n) == n \in Handles /\ LinkOf(n) = {} /\ \A m \in Handles : LinkOf(m) = {} => n <= m

ConnectionMade(d) == \E n \in Handles :
  /\ air[d].link = "paging" /\ FreeHandle(n)
  /\ air' = [air EXCEPT ![d].link = "up", ![d].handle = n]
  /\ Notify(<<Event("CONNECTION_COMP", d, n)>>) /\ UNCHANGED <<may, inquiry>>

\* Over USB data can overtake the event that says the link is up.
DataOvertakes(d) == \E n \in Handles :
  /\ air[d].link = "paging" /\ FreeHandle(n) /\ air[d].called /\ Spends("overtakes")
  /\ air' = [air EXCEPT ![d].link = "up", ![d].handle = n,
                        ![d].chan = [p \in {"control"} |-> Asked]]
  /\ Notify(<<[Signal(d, "CONN_REQ", "control", 0, "success") EXCEPT !.handle = n],
              Event("CONNECTION_COMP", d, n)>>)
  /\ UNCHANGED inquiry

NameRead(d) ==
  /\ air[d].asked
  /\ air' = [air EXCEPT ![d].asked = FALSE]
  /\ Notify(<<Event("RMT_NAME", d, 0)>>) /\ UNCHANGED <<may, inquiry>>

\* The second fragment of an answer to an SDP search.
SdpAnswer(d) ==
  /\ IsUp(d) /\ Answering(d)
  /\ \E load \in {"LAST", "MORE"} :
       /\ IF load = "LAST" THEN UNCHANGED may ELSE Spends("more")
       /\ Notify(<<[Packet(d, Channel(d, "sdp").scid, load)
                     EXCEPT !.size = 2, !.first = FALSE]>>)
  /\ air' = WithChannel(d, "sdp", [Channel(d, "sdp") EXCEPT !.rest = FALSE])
  /\ UNCHANGED inquiry

-----------------------------------------------------------------------------
(* What they do on their own.                                              *)

\* A device calls, once the controller scans for calls.
Calls(d) ==
  /\ may.scan /\ may.caller[d] /\ air[d].link = "down" /\ Spends("calls")
  /\ air' = [air EXCEPT ![d].link = "calling", ![d].called = TRUE]
  /\ Notify(<<Event("CONNECTION_REQUEST", d, 0)>>) /\ UNCHANGED inquiry

\* A page or a call times out.
ConnectionFails(d) ==
  /\ air[d].link \in {"calling", "paging"} /\ Spends("fails")
  /\ air' = [air EXCEPT ![d] = Downed(@)]
  /\ Notify(<<Event("CONNECTION_COMP", d, 0)>>) /\ UNCHANGED inquiry

\* A link is lost; an authentication under way ends first, with an error.
Drops(d) ==
  /\ IsUp(d) /\ Spends("drops")
  /\ air' = [air EXCEPT ![d] = Downed(@)]
  /\ Notify((IF air[d].auth = "no" THEN <<>>
             ELSE <<Event("AUTH_COMP", d, air[d].handle)>>)
            \o <<Event("DISCONNECTION_COMP", d, air[d].handle)>>)
  /\ UNCHANGED inquiry

\* A device that called asks for its channels.
AsksChannel(d, psm) ==
  /\ IsUp(d) /\ air[d].called /\ ~HasChannel(d, psm) /\ psm # "sdp" /\ Spends("asks")
  /\ air' = WithChannel(d, psm, Asked)
  /\ Notify(<<Signal(d, "CONN_REQ", psm, 0, "success")>>) /\ UNCHANGED inquiry

ClosesChannel(d, psm) ==
  /\ IsUp(d) /\ Usable(d, psm) /\ psm # "sdp" /\ Spends("closes")
  /\ Notify(<<Signal(d, "DISCONN_REQ", psm, Channel(d, psm).scid, "success")>>)
  /\ air' = WithoutChannel(d, psm) /\ UNCHANGED inquiry

\* A report, but not between the fragments of an answer: those of a packet
\* come one after the other.
Reports(d) ==
  /\ IsUp(d) /\ Usable(d, "interrupt") /\ ~Answering(d) /\ air[d].sent < may.reports
  /\ \E k \in may.kinds :
       Notify(<<Packet(d, Channel(d, "interrupt").scid,
                       [from |-> d, n |-> air[d].sent + 1, kind |-> k])>>)
  /\ air' = [air EXCEPT ![d].sent = @ + 1]
  /\ UNCHANGED <<may, inquiry>>

Answers == \/ InquiryResult \/ InquiryComplete
           \/ \E d \in Devices : ConnectionMade(d) \/ NameRead(d) \/ SdpAnswer(d)
OwnAccord == \E d \in Devices :
  \/ DataOvertakes(d) \/ Calls(d) \/ ConnectionFails(d) \/ Drops(d) \/ Reports(d)
  \/ \E psm \in Psms : AsksChannel(d, psm) \/ ClosesChannel(d, psm)
=============================================================================
