------------------------------ MODULE MCBtTest ------------------------------
(* An instance of BtTest for TLC. *)
EXTENDS BtTest

CONSTANTS t1, app, free

OneThread == {t1}

(* wlan is rfkill0, the Bluetooth switch is rfkill1. *)
Switches == <<"wlan", "bluetooth">>

CallFaults == {"open", "io", "asprintf", "socket", "devup"}
=============================================================================
