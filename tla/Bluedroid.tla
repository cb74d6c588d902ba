------------------------------ MODULE Bluedroid ------------------------------
(***************************************************************************)
(* libbluedroid (bluedroid/bluetooth.c): bt_enable, bt_disable and         *)
(* bt_is_enabled run by several threads of one process, with no lock, one  *)
(* action per system call.  Local computation belongs to the system call   *)
(* before it.  UseRfkill is FALSE in a build that defines                  *)
(* BLUETOOTH_DOES_NOT_USE_RFKILL.  The process's descriptor table is       *)
(* shared with threads that know nothing of Bluetooth ("the rest of the    *)
(* process").                                                              *)
(***************************************************************************)
EXTENDS BtPlatform, FiniteSets

CONSTANTS
  Caller,       \* the threads that call the library
  App,          \* owner of the descriptors of the rest of the process
  Free,         \* owner of a descriptor number that is not in use
  Attempts,     \* tries of HCIDEVUP before bt_enable gives up (100 in the code)
  MaxFd,        \* the descriptor numbers are 0 .. MaxFd
  MaxAppFds,    \* bound: descriptors the rest of the process has open
  RfkillTypes,  \* contents of /sys/class/rfkill/rfkill<id>/type, id = 0, 1, ...
  MayFail       \* the kinds of system call that may fail for no modelled reason

Fault == {"open", "io", "asprintf", "socket", "property", "devup"}

ASSUME BluedroidAssumption ==
  /\ App # Free /\ App \notin Caller /\ Free \notin Caller
  /\ Attempts \in Nat \ {0} /\ MaxFd \in Nat /\ MaxAppFds \in Nat
  /\ RfkillTypes \in Seq(STRING)
  /\ MayFail \subseteq Fault

VARIABLES
  rfkill_id,          \* static int rfkill_id
  rfkill_state_path,  \* static char *rfkill_state_path, as the id it names
  fds,                \* the descriptor table: who opened what
  appFds,             \* the descriptors the rest of the process believes it has
  thread,             \* where each caller is, with its locals
  timedOut            \* some bt_enable has run out of attempts (history)

staticVars == <<rfkill_id, rfkill_state_path>>
vars == <<platformVars, staticVars, fds, appFds, thread, timedOut>>

Fd == 0 .. MaxFd
None == -1
Closed == [owner |-> Free, kind |-> "none"]

Op == {"enable", "disable", "is_enabled"}
Job == {"enable_on", "attach_off", "timeout_off", "daemon_off", "disable_off", "query"}
PowerPc == {"rf_enter", "rf_probe", "rf_path", "rf_open", "rf_io", "rf_out"}
Pc == {"idle", "start_hciattach", "mksock", "devup", "retry", "timeout", "start_bluetoothd",
       "stop_bluetoothd", "devdown", "stop_hciattach", "devinfo", "out"} \cup PowerPc

(* op, ret, hci_sock and attempt are those of the function being executed  *)
(* (op and ret also tell what the last call returned); job, id, fd and val *)
(* those of set_bluetooth_power or check_bluetooth_power, job being the    *)
(* call to come back to and val their ret.                                 *)
Thread == [pc : Pc, op : Op \cup {"none"}, ret : {-1, 0, 1}, hci_sock : Fd \cup {None},
           attempt : 0 .. Attempts,
           job : Job, id : Nat, fd : Fd \cup {None}, val : {-1, 0, 1}]

TypeOK ==
  /\ PlatformTypeOK
  /\ rfkill_id \in Nat \cup {None}
  /\ rfkill_state_path \in Nat \cup {None}
  /\ fds \in [Fd -> [owner : Caller \cup {App, Free}, kind : {"hci", "rfkill", "other", "none"}]]
  /\ appFds \subseteq Fd
  /\ thread \in [Caller -> Thread]
  /\ timedOut \in BOOLEAN

Init ==
  /\ PlatformInit
  /\ rfkill_id = None
  /\ rfkill_state_path = None
  /\ fds = [n \in Fd |-> Closed]
  /\ appFds = {}
  /\ thread = [c \in Caller |->
       [pc |-> "idle", op |-> "none", ret |-> -1, hci_sock |-> None, attempt |-> 0,
        job |-> "query", id |-> 0, fd |-> None, val |-> -1]]
  /\ timedOut = FALSE
-----------------------------------------------------------------------------
(* Helpers *)

At(c, l) == thread[c].pc = l
Becomes(c, t) == thread' = [thread EXCEPT ![c] = t]
Goto(c, l) == Becomes(c, [thread[c] EXCEPT !.pc = l])
Fails(kind) == kind \in MayFail
Refused == Fails("property") /\ UNCHANGED platformVars

(* open() and socket() take the lowest free number and fail when there is  *)
(* none; close() frees the number whoever opened it.                       *)
IsFree(n) == fds[n].owner = Free
TableFull == \A n \in Fd : ~IsFree(n)
OpenFd(who, what, n) ==
  /\ IsFree(n) /\ \A m \in Fd : IsFree(m) => n <= m
  /\ fds' = [fds EXCEPT ![n] = [owner |-> who, kind |-> what]]
(* mutated: the test is "> 0" *)
CloseFdAboveZero(n) == fds' = [m \in Fd |-> IF m = n /\ n > 0 THEN Closed ELSE fds[m]]
CloseFd(n) == fds' = [m \in Fd |-> IF m = n THEN Closed ELSE fds[m]]
IsOpenOn(n, what) == ~IsFree(n) /\ fds[n].kind = what

(* The call of [set|check]_bluetooth_power on behalf of job j; `other' is  *)
(* where the caller goes in a build that does not use rfkill.              *)
CallPower(c, j, other) ==
  IF UseRfkill THEN Becomes(c, [thread[c] EXCEPT !.pc = "rf_enter", !.job = j])
               ELSE Goto(c, other)
-----------------------------------------------------------------------------
(* A thread calls one of the three functions. *)

FirstStep(f) ==
  CASE f = "disable"                    -> "stop_bluetoothd"
    [] f # "disable" /\ UseRfkill       -> "rf_enter"
    [] f = "enable" /\ ~UseRfkill       -> "start_hciattach"
    [] f = "is_enabled" /\ ~UseRfkill   -> "mksock"

Begin(c, f) ==
  /\ At(c, "idle")
  /\ Becomes(c, [thread[c] EXCEPT !.op = f, !.ret = -1, !.pc = FirstStep(f),
                                 !.job = IF f = "enable" THEN "enable_on" ELSE "query"])
  /\ UNCHANGED <<platformVars, staticVars, fds, appFds, timedOut>>
-----------------------------------------------------------------------------
(* init_rfkill, set_bluetooth_power and check_bluetooth_power *)

(* The test of the static rfkill_id that decides whether to search. *)
EnterPower(c) ==
  /\ At(c, "rf_enter")
  /\ Goto(c, IF rfkill_id = None THEN "rf_probe" ELSE "rf_open")
  /\ UNCHANGED <<platformVars, staticVars, fds, timedOut>>

(* mutated: memcmp() # 0 *)
IsBluetoothInverted(id) == RfkillTypes[id + 1] # "bluetooth"
IsBluetooth(id) == RfkillTypes[id + 1] = "bluetooth"

(* One round of init_rfkill's loop: open, read and close one type file.    *)
(* The descriptor does not outlive the round, so the round is one step.    *)
ProbeRfkill(c) ==
  LET id == thread[c].id IN
  /\ At(c, "rf_probe")
  /\ \/ /\ TableFull \/ Fails("open") \/ id >= Len(RfkillTypes)
        /\ Goto(c, "rf_out")
        /\ UNCHANGED rfkill_id
     \/ /\ ~TableFull /\ id < Len(RfkillTypes) /\ IsBluetooth(id)
        /\ Goto(c, "rf_path")
        /\ rfkill_id' = id
     \/ /\ ~TableFull /\ id < Len(RfkillTypes) /\ (~IsBluetooth(id) \/ Fails("io"))
        /\ Becomes(c, [thread[c] EXCEPT !.id = id + 1])
        /\ UNCHANGED rfkill_id
  /\ UNCHANGED <<platformVars, rfkill_state_path, fds, timedOut>>

(* asprintf(&rfkill_state_path, ...): a failure leaves no path, and        *)
(* init_rfkill returns 0 all the same.                                     *)
SetStatePath(c) ==
  /\ At(c, "rf_path")
  /\ \/ rfkill_state_path' = rfkill_id
     \/ Fails("asprintf") /\ rfkill_state_path' = None
  /\ Goto(c, "rf_open")
  /\ UNCHANGED <<platformVars, rfkill_id, fds, timedOut>>

OpenStatePath(c) ==
  /\ At(c, "rf_open")
  /\ \/ /\ TableFull \/ Fails("open") \/ rfkill_state_path = None
        /\ Goto(c, "rf_out")
        /\ UNCHANGED fds
     \/ /\ rfkill_state_path # None
        /\ \E n \in Fd : /\ OpenFd(c, "rfkill", n)
                         /\ Becomes(c, [thread[c] EXCEPT !.pc = "rf_io", !.fd = n])
  /\ UNCHANGED <<platformVars, staticVars, timedOut>>

(* The argument of set_bluetooth_power. *)
(* mutated: only bt_disable switches off *)
TurnsOnWrongly(j) == j # "disable_off"
(* mutated: '0' and '1' swapped *)
TurnsOnInverted(j) == j # "enable_on"
TurnsOn(j) == j = "enable_on"

(* The read or write of one character.  On a number that meanwhile names   *)
(* another file the result is whatever that file gives.                    *)
StateFileIo(c) ==
  LET query == thread[c].job = "query"
      Done(v) == Becomes(c, [thread[c] EXCEPT !.pc = "rf_out", !.val = v])
  IN
  /\ At(c, "rf_io")
  /\ \/ /\ IsOpenOn(thread[c].fd, "rfkill")
        /\ Done(IF query /\ power THEN 1 ELSE 0)
        /\ IF query THEN UNCHANGED platformVars ELSE SwitchPower(TurnsOn(thread[c].job))
     \/ /\ Fails("io") \/ ~IsOpenOn(thread[c].fd, "rfkill")
        /\ Done(-1)
        /\ UNCHANGED platformVars
     \/ /\ ~IsFree(thread[c].fd) /\ ~IsOpenOn(thread[c].fd, "rfkill")
        /\ \E v \in {0, 1} : (v = 1 => query) /\ Done(v)
        /\ UNCHANGED platformVars
  /\ UNCHANGED <<staticVars, fds, timedOut>>

(* How the function that asked for the power goes on: only bt_disable      *)
(* looks at a failure to switch off.                                       *)
(* mutated: bt_is_enabled goes on when the power is off *)
AfterPowerOff(t) ==
  CASE t.job = "enable_on" -> [t EXCEPT !.pc = IF t.val < 0 THEN "out" ELSE "start_hciattach"]
    [] t.job = "disable_off" -> [t EXCEPT !.pc = "out", !.ret = t.val]
    [] t.job = "query" /\ t.val >= 0 -> [t EXCEPT !.pc = "mksock"]
    [] OTHER -> [t EXCEPT !.pc = "out"]
AfterPower(t) ==
  CASE t.job = "enable_on" -> [t EXCEPT !.pc = IF t.val < 0 THEN "out" ELSE "start_hciattach"]
    [] t.job = "disable_off" -> [t EXCEPT !.pc = "out", !.ret = t.val]
    [] t.job = "query" /\ t.val = 1 -> [t EXCEPT !.pc = "mksock"]
    [] t.job = "query" /\ t.val # 1 -> [t EXCEPT !.pc = "out", !.ret = t.val]
    [] OTHER -> [t EXCEPT !.pc = "out"]

(* The label out: the locals fd, ret and id end with the function.         *)
LeavePower(c) ==
  /\ At(c, "rf_out")
  /\ CloseFd(thread[c].fd)
  /\ Becomes(c, [AfterPower(thread[c]) EXCEPT !.job = "query", !.id = 0, !.fd = None, !.val = -1])
  /\ UNCHANGED <<platformVars, staticVars, timedOut>>
-----------------------------------------------------------------------------
(* The body of bt_enable after the power is on *)

StartHciattach(c) ==
  /\ At(c, "start_hciattach")
  /\ \/ /\ PropertySet("hciattach", "start")
        /\ Becomes(c, [thread[c] EXCEPT !.pc = "mksock", !.attempt = Attempts])
     \/ Refused /\ CallPower(c, "attach_off", "out")
  /\ UNCHANGED <<staticVars, fds, timedOut>>

(* mutated: bt_disable leaves the device up *)
WithSocketNoDown(f) ==
  CASE f = "enable" -> "devup" [] f = "disable" -> "stop_hciattach" [] f = "is_enabled" -> "devinfo"
WithSocket(f) ==
  CASE f = "enable" -> "devup" [] f = "disable" -> "devdown" [] f = "is_enabled" -> "devinfo"

(* create_hci_sock, called by all three functions *)
create_hci_sock(c) ==
  /\ At(c, "mksock")
  /\ \/ /\ TableFull \/ Fails("socket")
        /\ Becomes(c, [thread[c] EXCEPT !.pc = "out", !.hci_sock = None])
        /\ UNCHANGED fds
     \/ \E n \in Fd :
          /\ OpenFd(c, "hci", n)
          /\ Becomes(c, [thread[c] EXCEPT !.pc = WithSocket(thread[c].op), !.hci_sock = n])
  /\ UNCHANGED <<platformVars, staticVars, timedOut>>

(* ioctl(HCIDEVUP): 0, EALREADY or another error *)
HciDevUp(c) ==
  LET open == IsOpenOn(thread[c].hci_sock, "hci")
      Outcome(r, l) == Becomes(c, [thread[c] EXCEPT !.pc = l, !.ret = r])
  IN
  /\ At(c, "devup")
  /\ \/ open /\ DeviceAnswers /\ SetDevice("up") /\ Outcome(0, "start_bluetoothd")
     \/ open /\ hci = "up" /\ UNCHANGED platformVars /\ Outcome(-1, "start_bluetoothd")
     \/ /\ ~open \/ Fails("devup") \/ ~(DeviceAnswers \/ hci = "up")
        /\ UNCHANGED platformVars
        /\ Outcome(-1, "retry")
  /\ UNCHANGED <<staticVars, fds, timedOut>>

(* mutated: one attempt too many *)
LastAttemptLate(c) == thread[c].attempt < 1
LastAttempt(c) == thread[c].attempt <= 1

(* mutated: attempt is not counted down *)
AttemptsKept(c) == thread[c].attempt
AttemptsLeft(c) == thread[c].attempt - 1

(* close(hci_sock) without forgetting the number, 100 ms, attempt-- *)
RetryDevUp(c) ==
  /\ At(c, "retry")
  /\ CloseFd(thread[c].hci_sock)
  /\ Becomes(c, [thread[c] EXCEPT !.attempt = AttemptsLeft(c),
                                 !.pc = IF LastAttempt(c) THEN "timeout" ELSE "mksock"])
  /\ timedOut' = (timedOut \/ LastAttempt(c))
  /\ UNCHANGED <<platformVars, staticVars>>

(* Out of attempts: stop hciattach, whatever the answer, and power off. *)
GiveUp(c) ==
  /\ At(c, "timeout")
  /\ PropertySet("hciattach", "stop") \/ Refused
  /\ CallPower(c, "timeout_off", "out")
  /\ UNCHANGED <<staticVars, fds, timedOut>>

(* A failure to start bluetoothd powers off and leaves ret as HCIDEVUP set *)
(* it.                                                                     *)
(* mutated: the wrong service *)
StartBluetoothdWrongly(c) ==
  /\ At(c, "start_bluetoothd")
  /\ PropertySet("hciattach", "start")
  /\ Becomes(c, [thread[c] EXCEPT !.pc = "out", !.ret = 0])
  /\ UNCHANGED <<staticVars, fds, timedOut>>
StartBluetoothd(c) ==
  /\ At(c, "start_bluetoothd")
  /\ \/ /\ PropertySet("bluetoothd", "start")
        /\ Becomes(c, [thread[c] EXCEPT !.pc = "out", !.ret = 0])
     \/ Refused /\ CallPower(c, "daemon_off", "out")
  /\ UNCHANGED <<staticVars, fds, timedOut>>
-----------------------------------------------------------------------------
(* The body of bt_disable *)

(* The request and the wait of HCID_STOP_DELAY_USEC, which ends whether or *)
(* not bluetoothd is gone.                                                 *)
(* mutated: bluetoothd is not stopped *)
StopBluetoothdNot(c) ==
  At(c, "stop_bluetoothd") /\ Goto(c, "mksock") /\ UNCHANGED <<platformVars, staticVars, fds, timedOut>>
StopBluetoothd(c) ==
  /\ At(c, "stop_bluetoothd")
  /\ \/ PropertySet("bluetoothd", "stop") /\ Goto(c, "mksock")
     \/ Refused /\ Goto(c, "out")
  /\ UNCHANGED <<staticVars, fds, timedOut>>

(* ioctl(HCIDEVDOWN), result ignored *)
HciDevDown(c) ==
  /\ At(c, "devdown")
  /\ SetDevice(IF IsOpenOn(thread[c].hci_sock, "hci") /\ hci = "up" THEN "down" ELSE hci)
  /\ Goto(c, "stop_hciattach")
  /\ UNCHANGED <<staticVars, fds, timedOut>>

StopHciattach(c) ==
  /\ At(c, "stop_hciattach")
  /\ \/ /\ PropertySet("hciattach", "stop")
        /\ IF UseRfkill THEN Becomes(c, [thread[c] EXCEPT !.pc = "rf_enter", !.job = "disable_off"])
                        ELSE Becomes(c, [thread[c] EXCEPT !.pc = "out", !.ret = 0])
     \/ Refused /\ Goto(c, "out")
  /\ UNCHANGED <<staticVars, fds, timedOut>>
-----------------------------------------------------------------------------
(* The end of bt_is_enabled, and the label out of all three functions *)

HciGetDevInfo(c) ==
  /\ At(c, "devinfo")
  /\ Becomes(c, [thread[c] EXCEPT !.pc = "out", !.ret =
                                 IF IsOpenOn(thread[c].hci_sock, "hci") /\ hci = "up" THEN 1 ELSE 0])
  /\ UNCHANGED <<platformVars, staticVars, fds, timedOut>>

(* The locals end with the call, and start the next one as initialised.    *)
(* mutated: hci_sock survives the call *)
ReturnKeepingSock(c) ==
  /\ At(c, "out")
  /\ CloseFd(thread[c].hci_sock)
  /\ Becomes(c, [thread[c] EXCEPT !.pc = "idle", !.attempt = 0])
  /\ UNCHANGED <<platformVars, staticVars, timedOut>>
Return(c) ==
  /\ At(c, "out")
  /\ CloseFd(thread[c].hci_sock)
  /\ Becomes(c, [thread[c] EXCEPT !.pc = "idle", !.attempt = 0, !.hci_sock = None])
  /\ UNCHANGED <<platformVars, staticVars, timedOut>>
-----------------------------------------------------------------------------
(* The rest of the process opens and closes descriptors of its own. *)

AppOpen(n) ==
  /\ Cardinality(appFds) < MaxAppFds
  /\ OpenFd(App, "other", n)
  /\ appFds' = appFds \cup {n}
  /\ UNCHANGED <<platformVars, staticVars, thread, timedOut>>

AppClose(n) ==
  /\ n \in appFds
  /\ CloseFd(n)
  /\ appFds' = appFds \ {n}
  /\ UNCHANGED <<platformVars, staticVars, thread, timedOut>>
-----------------------------------------------------------------------------
Step(c) ==
  /\ \/ EnterPower(c) \/ ProbeRfkill(c) \/ SetStatePath(c)
     \/ OpenStatePath(c) \/ StateFileIo(c) \/ LeavePower(c)
     \/ StartHciattach(c) \/ create_hci_sock(c) \/ HciDevUp(c) \/ RetryDevUp(c)
     \/ GiveUp(c) \/ StartBluetoothd(c)
     \/ StopBluetoothd(c) \/ HciDevDown(c) \/ StopHciattach(c)
     \/ HciGetDevInfo(c) \/ Return(c)
  /\ UNCHANGED appFds

Platform(A) == A /\ UNCHANGED <<staticVars, fds, appFds, thread, timedOut>>

Next ==
  \/ \E c \in Caller : (\E f \in Op : Begin(c, f)) \/ Step(c)
  \/ \E n \in Fd : AppOpen(n) \/ AppClose(n)
  \/ Platform(PlatformNext)

Spec == Init /\ [][Next]_vars

(* Threads inside the library keep running, init serves its queue and      *)
(* hciattach finishes the attach it started; nobody has to call.           *)
Fairness ==
  /\ \A c \in Caller : WF_vars(Step(c))
  /\ WF_vars(Platform(InitHandles))
  /\ WF_vars(Platform(HciattachAttaches))

FairSpec == Spec /\ Fairness
=============================================================================
