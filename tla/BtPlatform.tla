----------------------------- MODULE BtPlatform -----------------------------
(***************************************************************************)
(* What bluedroid/bluetooth.c drives from the outside: the rfkill switch   *)
(* that powers the chip, init's queue of service control requests, the     *)
(* hciattach and bluetoothd daemons, and the kernel's HCI device.  None of *)
(* it is under src/; each operator is what the library's use of it and its *)
(* comments say ("this can only succeed once hciattach has sent the        *)
(* firmware and then turned on hci device", "usleep(HCID_STOP_DELAY_USEC)" *)
(* after a request to stop).                                               *)
(***************************************************************************)
EXTENDS Integers, Sequences

CONSTANTS
  MaxCtl,          \* bound: how many control requests may wait in init
  UseRfkill,       \* the chip's power has an rfkill switch, otherwise it is always on
  DaemonsMayExit   \* whether a running daemon may exit on its own

ASSUME PlatformAssumption ==
  /\ MaxCtl \in Nat \ {0}
  /\ UseRfkill \in BOOLEAN
  /\ DaemonsMayExit \in BOOLEAN

VARIABLES
  power,      \* the rfkill state: is the chip powered
  firmware,   \* the chip runs downloaded firmware (lost with the power)
  hci,        \* the kernel's HCI device
  svc,        \* what each daemon is doing
  ctl,        \* requests accepted by the property service, oldest first
  want        \* the last request accepted for each daemon (history)

platformVars == <<power, firmware, hci, svc, ctl, want>>

Service == {"hciattach", "bluetoothd"}
Verb == {"start", "stop"}
Request == [service : Service, verb : Verb]

PlatformTypeOK ==
  /\ power \in BOOLEAN
  /\ firmware \in BOOLEAN
  /\ hci \in {"absent", "down", "up"}
  /\ svc \in [Service -> {"stopped", "running"}]
  /\ ctl \in Seq(Request)
  /\ want \in [Service -> Verb]

(* The library is loaded with the adapter off, or already brought up by an *)
(* earlier process.                                                        *)
PlatformInit ==
  \E on \in BOOLEAN :
    /\ power = (on \/ ~UseRfkill)
    /\ firmware = on
    /\ hci = IF on THEN "up" ELSE "absent"
    /\ svc = [s \in Service |-> IF on THEN "running" ELSE "stopped"]
    /\ ctl = << >>
    /\ want = [s \in Service |-> IF on THEN "start" ELSE "stop"]
-----------------------------------------------------------------------------
(* A write of '1' or '0' to the rfkill state file. *)
SwitchPower(on) ==
  /\ power' = on
  /\ firmware' = (firmware /\ on)
  /\ UNCHANGED <<hci, svc, ctl, want>>

(* property_set("ctl.<verb>", service): init accepts the request and acts  *)
(* on it later; the caller does not wait.                                  *)
PropertySet(service, verb) ==
  /\ Len(ctl) < MaxCtl
  /\ ctl' = Append(ctl, [service |-> service, verb |-> verb])
  /\ want' = [want EXCEPT ![service] = verb]
  /\ UNCHANGED <<power, firmware, hci, svc>>

(* HCIDEVUP gets through once the device is registered and the chip behind *)
(* it is powered and runs its firmware.                                    *)
DeviceAnswers == hci = "down" /\ power /\ firmware

(* HCIDEVUP and HCIDEVDOWN change the device's state. *)
SetDevice(state) == hci' = state /\ UNCHANGED <<power, firmware, svc, ctl, want>>

(* A daemon that goes away takes what it provided with it: the HCI device  *)
(* lives as long as hciattach holds the line discipline.                   *)
Stopped(service) ==
  /\ svc' = [svc EXCEPT ![service] = "stopped"]
  /\ hci' = IF service = "hciattach" THEN "absent" ELSE hci
-----------------------------------------------------------------------------
(* init acts on the oldest request; starting a running service is a no-op. *)
InitHandles ==
  /\ ctl # << >>
  /\ ctl' = Tail(ctl)
  /\ IF Head(ctl).verb = "stop"
       THEN Stopped(Head(ctl).service)
       ELSE /\ svc' = [svc EXCEPT ![Head(ctl).service] = "running"]
            /\ UNCHANGED hci
  /\ UNCHANGED <<power, firmware, want>>

(* hciattach has sent the firmware to a powered chip and registers the     *)
(* HCI device with HCIUARTSETPROTO.                                        *)
HciattachAttaches ==
  /\ svc["hciattach"] = "running"
  /\ hci = "absent"
  /\ power
  /\ firmware' = TRUE
  /\ hci' = "down"
  /\ UNCHANGED <<power, svc, ctl, want>>

(* A daemon exits or crashes; init is not asked to restart it. *)
DaemonExits(s) ==
  /\ DaemonsMayExit
  /\ svc[s] = "running"
  /\ Stopped(s)
  /\ UNCHANGED <<power, firmware, ctl, want>>

PlatformNext == InitHandles \/ HciattachAttaches \/ \E s \in Service : DaemonExits(s)
=============================================================================
