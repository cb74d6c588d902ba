------------------------ MODULE BluedroidProperties ------------------------
(***************************************************************************)
(* What bt_enable, bt_disable and bt_is_enabled must keep.                 *)
(***************************************************************************)
EXTENDS Bluedroid

(* Where a call holds the HCI socket it created, and the rfkill file.      *)
HoldsSock(t) ==
  \/ t.pc \in {"devup", "retry", "start_bluetoothd", "devdown", "stop_hciattach", "devinfo"}
  \/ t.pc \in PowerPc /\ t.job \in {"daemon_off", "disable_off"}
  \/ t.pc = "out" /\ t.hci_sock # None
HoldsRfd(t) == t.pc \in {"rf_io", "rf_out"} /\ t.fd # None

OwnedAs(n, c, what) == n \in Fd /\ fds[n] = [owner |-> c, kind |-> what]

(* No descriptor is ever lost: one that a call opened and nobody closed is *)
(* one that the call still holds in hci_sock or in fd, on every path       *)
(* through the retries, the failures and the label out.                    *)
NoFdLeak ==
  \A n \in Fd : \A c \in Caller :
    fds[n].owner = c =>
      \/ HoldsSock(thread[c]) /\ n = thread[c].hci_sock
      \/ HoldsRfd(thread[c]) /\ n = thread[c].fd

(* As long as no bt_enable has run out of attempts (after which it closes  *)
(* its last socket twice, the second time under whoever has the number by  *)
(* then), a call's descriptors are its own until it closes them, and so    *)
(* are those of the rest of the process.                                   *)
FdsIntactUntilTimeout ==
  ~timedOut =>
    /\ \A c \in Caller :
         /\ HoldsSock(thread[c]) => OwnedAs(thread[c].hci_sock, c, "hci")
         /\ HoldsRfd(thread[c]) => OwnedAs(thread[c].fd, c, "rfkill")
    /\ \A n \in appFds : fds[n].owner = App

(* The two statics, set in two steps by any thread that finds them unset   *)
(* and never under a lock, only ever name a Bluetooth switch, and there is *)
(* no path without an id.                                                  *)
RfkillStateValid ==
  /\ rfkill_id # None =>
       rfkill_id < Len(RfkillTypes) /\ RfkillTypes[rfkill_id + 1] = "bluetooth"
  /\ rfkill_state_path \in {None, rfkill_id}
-----------------------------------------------------------------------------
Returned(c, f, r) == thread[c].pc = "idle" /\ thread[c].op = f /\ thread[c].ret = r

(* For one thread calling the library in any order, with HCIDEVUP failing  *)
(* at any point: after bt_enable has returned 0, and until the next call,  *)
(* the chip is powered and runs its firmware, the HCI device is up and     *)
(* both daemons have been asked for; nothing a former call left undone     *)
(* takes them away (unless a former bt_enable had run out of attempts).    *)
EnabledMeansUsable ==
  \A c \in Caller :
    Returned(c, "enable", 0) /\ ~timedOut =>
      power /\ firmware /\ hci = "up" /\ want = [s \in Service |-> "start"]

(* However a bt_enable fails (a request to init refused, every HCIDEVUP in *)
(* vain, daemons that crash), the chip's power is off when it is about to  *)
(* return -1.  Left out are a failure to get a socket in the retry loop,   *)
(* which goes to out with the power on (line 180), and, in a process that  *)
(* opens other descriptors, calls after a first time-out, whose second     *)
(* close may have made such a descriptor and the rfkill file share a       *)
(* number.                                                                 *)
FailedEnableCutsPower ==
  MaxAppFds = 0 \/ ~timedOut =>
    \A c \in Caller :
      LET t == thread[c] IN
        t.pc = "out" /\ t.op = "enable" /\ t.ret = -1 /\ ~(t.hci_sock = None /\ t.attempt > 0)
          => ~power

(* One thread, no failing system call: bt_is_enabled and bt_disable always *)
(* succeed, and bt_enable fails only by running out of attempts.           *)
NoSpuriousFailure ==
  \A c \in Caller :
    thread[c].pc = "idle" /\ thread[c].op # "none" /\ thread[c].ret = -1 =>
      thread[c].op = "enable" /\ timedOut
-----------------------------------------------------------------------------
(* Every call returns: the retries are bounded and nothing waits for a     *)
(* daemon.                                                                 *)
CallsReturn == \A c \in Caller : thread[c].pc # "idle" ~> thread[c].pc = "idle"

(* After a successful bt_enable and no further call, bluetoothd runs, even *)
(* though requests of former calls may still wait in init's queue.         *)
EnableStartsDaemon ==
  \A c \in Caller :
    Returned(c, "enable", 0) ~> svc["bluetoothd"] = "running" \/ thread[c].pc # "idle"

(* After a successful bt_disable and no further call, both daemons end and *)
(* the HCI device disappears.                                              *)
DisableStopsAll ==
  \A c \in Caller :
    Returned(c, "disable", 0) ~>
      \/ hci = "absent" /\ svc = [s \in Service |-> "stopped"]
      \/ thread[c].pc # "idle"
-----------------------------------------------------------------------------
(* What bluetooth.h says of bt_enable: "Returns 0 on success, -ve on       *)
(* error" (line 30).  Success includes that bluetoothd was started.        *)
EnableReportsDaemonFailure ==
  \A c \in Caller : Returned(c, "enable", 0) => want["bluetoothd"] = "start"

(* bluetooth.h on bt_disable: "Will block until power down is complete,    *)
(* and it is safe to immediately call enable()" (lines 35-37): the HCI     *)
(* device such an enable brought up stays.                                 *)
EnableAfterDisableIsSafe ==
  \A c \in Caller : Returned(c, "enable", 0) /\ ~timedOut => hci = "up"

(* bluetooth.h on bt_is_enabled: "Returns 1 if enabled, 0 if disabled, and *)
(* -ve on error" (line 42): with no system call failing, there is no error *)
(* to report.                                                              *)
QueryNeverErrs ==
  \A c \in Caller : ~Returned(c, "is_enabled", -1)
=============================================================================
