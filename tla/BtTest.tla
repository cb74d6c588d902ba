------------------------------- MODULE BtTest -------------------------------
(***************************************************************************)
(* Programs that use libbluedroid, one after the other: tools/bttest.c,    *)
(* which makes one call and ends with its answer as exit status, and any   *)
(* other client, which lives on and calls again (external).  Either can be *)
(* killed between any two system calls.  The statics and descriptors of    *)
(* the library end with the process; the power, the HCI device, the        *)
(* daemons and what waits in init's queue do not.                          *)
(***************************************************************************)
EXTENDS Bluedroid

CONSTANT Main   \* the only thread of each process

ASSUME BtTestAssumption == Caller = {Main}

VARIABLES
  alive,      \* is there a process
  argv,       \* what the current or the last process was started to do
  status,     \* the exit status of the last process
  caughtUp    \* init had nothing left to do when the last call began (history)

processVars == <<alive, argv, status, caughtUp>>

function_table == {"enable", "disable", "is_enabled"}
Killed == 128 + 9   \* what a shell reports of a process that was killed

Idle == At(Main, "idle")
Called == thread[Main].op # "none"

(* The memory and the descriptors of a process go with it. *)
ProcessEnds(code) ==
  /\ alive' = FALSE
  /\ status' = code % 256
  /\ rfkill_id' = None /\ rfkill_state_path' = None
  /\ fds' = [n \in Fd |-> Closed] /\ appFds' = {}
  /\ Becomes(Main, [pc |-> "idle", op |-> "none", ret |-> -1, hci_sock |-> None, attempt |-> 0,
                    job |-> "query", id |-> 0, fd |-> None, val |-> -1])
  /\ UNCHANGED <<platformVars, timedOut, argv, caughtUp>>

(* A process starts; bttest without a name of the table ends at once. *)
Exec(what) ==
  /\ ~alive
  /\ argv' = what
  /\ alive' = (what \in function_table \cup {"client"})
  /\ status' = IF alive' THEN 0 ELSE (-1) % 256
  /\ UNCHANGED <<vars, caughtUp>>

Call(f) ==
  /\ alive /\ \/ argv = "client"
              \/ argv = f /\ ~Called
  /\ Begin(Main, f)
  /\ caughtUp' = (ctl = << >>)
  /\ UNCHANGED <<alive, argv, status>>

(* bttest's main returns what the function returned. *)
(* mutated: main returns 0 *)
MainReturnsZero == alive /\ argv \in function_table /\ Idle /\ Called /\ ProcessEnds(0)
MainReturns == alive /\ argv \in function_table /\ Idle /\ Called /\ ProcessEnds(thread[Main].ret)

Kill == alive /\ ProcessEnds(Killed)

Runs == Step(Main) /\ UNCHANGED processVars

BtTestInit ==
  /\ Init
  /\ alive = FALSE /\ argv = "none" /\ status = 0 /\ caughtUp = FALSE

BtTestNext ==
  \/ \E what \in function_table \cup {"client", "unknown"} : Exec(what)
  \/ \E f \in function_table : Call(f)
  \/ Runs \/ MainReturns \/ Kill
  \/ Platform(PlatformNext) /\ UNCHANGED processVars

btTestVars == <<vars, processVars>>

(* As in Bluedroid; a bttest makes its call and ends, but nobody has to    *)
(* start a process or to kill one, and another client need not call.       *)
BtTestSpec ==
  /\ BtTestInit /\ [][BtTestNext]_btTestVars
  /\ \A f \in function_table : WF_btTestVars(argv = f /\ Call(f))
  /\ WF_btTestVars(Runs) /\ WF_btTestVars(MainReturns)
  /\ WF_btTestVars(Platform(InitHandles) /\ UNCHANGED processVars)
  /\ WF_btTestVars(Platform(HciattachAttaches) /\ UNCHANGED processVars)
-----------------------------------------------------------------------------
(* The last call was f and it succeeded: bttest ended with status 0, or    *)
(* another client has its 0.                                               *)
Succeeded(f) ==
  \/ ~alive /\ argv = f /\ status = 0
  \/ alive /\ argv = "client" /\ Idle /\ thread[Main].op = f /\ thread[Main].ret = 0

(* Wherever former processes were killed or have failed, and whatever they *)
(* left (power without firmware, a device without a daemon, requests half  *)
(* made, a time-out), a bt_enable that succeeds ends with a usable         *)
(* adapter.  It must have begun when init had caught up: a stop that an    *)
(* earlier process left in init's queue takes the device away under it.    *)
EnableRecovers ==
  Succeeded("enable") /\ caughtUp =>
    power /\ firmware /\ hci = "up" /\ want = [s \in Service |-> "start"]

(* And a bt_disable that succeeds has switched everything off.             *)
DisableRecovers ==
  Succeeded("disable") =>
    hci # "up" /\ power = ~UseRfkill /\ want = [s \in Service |-> "stop"]

(* Whatever its predecessors left, a bt_disable cuts the chip's power only *)
(* with the HCI device no longer up and after init has accepted to stop    *)
(* both daemons; a bt_enable that rolls back cuts it under a hciattach it  *)
(* still wants only where the property service may refuse it; and nobody   *)
(* takes the device down before the stop of bluetoothd is asked for.  It   *)
(* says nothing of when the daemons do stop: the delay of bt_disable waits *)
(* for none of them.                                                       *)
StopBeforeCut ==
  [][/\ power /\ ~power' =>
          \/ thread[Main].op = "disable" /\ hci # "up" /\ want = [s \in Service |-> "stop"]
          \/ thread[Main].op = "enable" /\ (want["hciattach"] = "stop" \/ Fails("property"))
     /\ hci = "up" /\ hci' = "down" => want["bluetoothd"] = "stop"]_btTestVars

(* bttest ends: no state that a killed predecessor leaves makes it hang.   *)
BttestEnds == alive /\ argv \in function_table ~> ~alive

(* After a successful bt_disable and no further process or call, both      *)
(* daemons end and the HCI device disappears, although a start that a      *)
(* killed process has asked for may still have been waiting in init.       *)
DisableEndsAll ==
  Succeeded("disable") ~>
    \/ hci = "absent" /\ svc = [s \in Service |-> "stopped"]
    \/ ~Succeeded("disable")
=============================================================================
