---------------------------- MODULE MCBluedroid ----------------------------
(* Instances of Bluedroid for TLC. *)
EXTENDS BluedroidProperties, TLC

CONSTANTS t1, t2, app, free

OneThread == {t1}
TwoThreads == {t1, t2}
Threads == Permutations(TwoThreads)

(* wlan is rfkill0, the Bluetooth switch is rfkill1. *)
Switches == <<"wlan", "bluetooth">>

Nothing == {}
DevupFaults == {"devup"}
PropertyFaults == {"property", "devup"}
SharedFaults == {"property", "devup", "socket"}
RacingFaults == {"open", "asprintf", "socket"}
=============================================================================
