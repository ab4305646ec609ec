----------------------------- MODULE ReportPipe -----------------------------
(***************************************************************************)
(* What the Bluetooth stack promises the emulator: hid_get returns the     *)
(* reports a device sent, in the order it sent them, none twice, none that *)
(* it did not send.  Reports may be lost.  (A report is its number.)       *)
(***************************************************************************)
EXTENDS Integers, SequencesExt

CONSTANT Senders

VARIABLES sent,             \* how many reports each device has sent
          got               \* per device, the reports that hid_get has returned

Init == sent = [d \in Senders |-> 0] /\ got = [d \in Senders |-> <<>>]

SendReport(d) == sent' = [sent EXCEPT ![d] = @ + 1] /\ UNCHANGED got

Newest(d) == IF got[d] = <<>> THEN 0 ELSE Last(got[d])
GetReport(d) ==
  /\ \E n \in Newest(d) + 1 .. sent[d] : got' = [got EXCEPT ![d] = Append(@, n)]
  /\ UNCHANGED sent

Next == \E d \in Senders : SendReport(d) \/ GetReport(d)

Spec == Init /\ [][Next]_<<sent, got>>
=============================================================================
