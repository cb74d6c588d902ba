------------------------- MODULE BluedroidAdapter -------------------------
(***************************************************************************)
(* Bluedroid implements BtAdapter.  The history variable seen records what *)
(* the adapter has been during each call; it changes nothing else.         *)
(***************************************************************************)
EXTENDS BluedroidProperties

VARIABLE seen

(* The adapter is on while the chip is powered and its HCI device is up.   *)
On == power /\ hci = "up"

Calling == [c \in Caller |-> IF thread[c].pc = "idle" THEN "none" ELSE thread[c].op]
Answer == [c \in Caller |-> IF thread[c].pc = "idle" THEN thread[c].ret ELSE -1]

Adapter == INSTANCE BtAdapter WITH on <- On, calling <- Calling, answer <- Answer,
                                      broken <- timedOut

RecordSeen ==
  seen' = [c \in Caller |->
             IF Calling'[c] = "none" THEN {}
             ELSE IF thread[c].pc = "idle" THEN {On'}
             ELSE seen[c] \cup {On'}]

HInit == Init /\ seen = [c \in Caller |-> {}]
HNext == Next /\ RecordSeen
HSpec == HInit /\ [][HNext]_<<vars, seen>>

(* Every answer of the library was true at some moment of the call, also   *)
(* when calls of several threads interleave: bt_is_enabled reads the power *)
(* and the device's flags in two system calls and may still only say       *)
(* "enabled" if both held together at some time while it ran.              *)
ImplementsAdapter == Adapter!AdapterSpec

(* bluetooth.h on bt_is_enabled: "Returns 1 if enabled, 0 if disabled"     *)
(* (line 42): it does not say disabled of an adapter that was enabled all  *)
(* through the call.                                                       *)
DisabledIsSeen ==
  [][\A c \in Caller :
       thread[c].pc = "out" /\ thread[c].op = "is_enabled" /\ thread[c].ret = 0 /\ thread'[c].pc = "idle"
         => FALSE \in seen[c]]_vars
=============================================================================
