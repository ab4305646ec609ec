---------------------------- MODULE MCBluetooth ----------------------------
(***************************************************************************)
(* Bluetooth for TLC: two Wii remotes that share one slot and a telephone, *)
(* which is no input device, in small scenarios.                           *)
(***************************************************************************)
EXTENDS Bluetooth

CONSTANTS wii, wii2, phone

Who(ds) == [d \in Devices |-> d \in ds]
Nothing == [range |-> Who({}), caller |-> Who({}), paired |-> Who({}), scan |-> FALSE,
            kinds |-> {"buttons"}, reports |-> 1, calls |-> 0, drops |-> 0, fails |-> 0,
            closes |-> 0, asks |-> 0, overtakes |-> 0, more |-> 0]

MCScenarios == {
  \* a new device: page timeout, lost link, an SDP answer in two parts
  [Nothing EXCEPT !.range = Who({wii}), !.drops = 1, !.fails = 1, !.more = 1, !.reports = 2],
  \* two remotes that are paired, one slot; one may be lost and leave its
  \* handle to the other
  [Nothing EXCEPT !.range = Who({wii, wii2}), !.paired = Who({wii, wii2}), !.drops = 1],
  \* a remote that calls and may be lost; one whose data overtakes its link
  [Nothing EXCEPT !.caller = Who({wii}), !.paired = Who({wii}), !.calls = 1, !.asks = 2,
                  !.drops = 1],
  [Nothing EXCEPT !.caller = Who({wii}), !.paired = Who({wii}), !.calls = 1, !.asks = 1,
                  !.overtakes = 1],
  \* a remote that is found and calls as well
  [Nothing EXCEPT !.range = Who({wii}), !.caller = Who({wii}), !.paired = Who({wii}),
                  !.calls = 1, !.asks = 2],
  \* a new remote that is lost, perhaps in the middle of an SDP answer, and calls
  [Nothing EXCEPT !.range = Who({wii}), !.caller = Who({wii}), !.drops = 1, !.calls = 1,
                  !.asks = 1],
  \* a remote with an extension that closes a channel
  [Nothing EXCEPT !.range = Who({wii}), !.paired = Who({wii}), !.closes = 1, !.reports = 2,
                  !.kinds = {"status_plugged", "status", "memory", "written", "core"}],
  \* a telephone that calls
  [Nothing EXCEPT !.range = Who({wii}), !.caller = Who({phone}), !.calls = 1, !.fails = 1] }
=============================================================================
