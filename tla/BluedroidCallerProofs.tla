------------------------ MODULE BluedroidCallerProofs ------------------------
(***************************************************************************)
(* Proofs about Bluedroid for a process in which one thread calls the      *)
(* library: what a failed and what a successful call leaves behind, and    *)
(* that nothing else makes a call fail; for any descriptor table with room *)
(* for the call, any contents of the rfkill directory with a Bluetooth     *)
(* switch in it, any number of attempts and any backlog of init.           *)
(***************************************************************************)
EXTENDS BluedroidProofs, FiniteSetTheorems

(* The power routine can do its work: the directory names a Bluetooth      *)
(* switch, its files can be opened, read and written and memory for the    *)
(* path can be had, and the rest of the process leaves the library two     *)
(* descriptors.                                                            *)
HasSwitch == \E i \in 1 .. Len(RfkillTypes) : RfkillTypes[i] = "bluetooth"
PowerWorks ==
  /\ UseRfkill => HasSwitch
  /\ MayFail \cap {"open", "io", "asprintf"} = {}
  /\ MaxAppFds < MaxFd

(* The rest of the process knows of every descriptor it has open, and has  *)
(* no more of them than it is allowed.                                     *)
AppInv ==
  /\ \A n \in Fd : fds[n].owner = App => n \in appFds
  /\ IsFiniteSet(appFds) /\ Cardinality(appFds) <= MaxAppFds

(* How far init_rfkill has come: what it found is in the statics, and what *)
(* the search has passed was not a Bluetooth switch.                       *)
SwitchInv(t) ==
  /\ rfkill_id # None /\ t.pc # "rf_path" => rfkill_state_path = rfkill_id
  /\ t.pc \in {"rf_path", "rf_open"} => rfkill_id # None
  /\ t.pc \notin PowerPc \/ t.pc = "rf_enter" => t.id = 0
  /\ t.pc = "rf_probe" => \A i \in 1 .. t.id : RfkillTypes[i] # "bluetooth"

(* No number names two files: nobody but the library opens any, or no call *)
(* has closed a socket twice yet.                                          *)
Quiet == MaxAppFds = 0 \/ ~timedOut

(* Then the power routine always does what it was called for.              *)
FailsOn(t) ==
  t.pc = "out" /\ t.op = "enable" /\ t.ret = -1 /\ ~(t.hci_sock = None /\ t.attempt > 0)
PowerInv(c, t) ==
  /\ t.pc = "rf_io" => OwnedAs(t.fd, c, "rfkill")
  /\ t.pc = "rf_out" => t.val # -1
  /\ t.pc = "rf_out" /\ t.job \notin {"enable_on", "query"} => ~power
  /\ UseRfkill /\ FailsOn(t) => ~power

AnswersInv(t) == (t.pc # "idle" => Answers(t)) /\ (t.pc # "rf_out" => t.val = -1)

PInv(c) ==
  /\ IInv /\ AppInv /\ AlwaysPowered
  /\ SwitchInv(thread[c]) /\ AnswersInv(thread[c])
  /\ Quiet => PowerInv(c, thread[c])
-----------------------------------------------------------------------------
(* hciattach's requests in init's queue. *)
Asks(i, v) == i \in 1 .. Len(ctl) /\ ctl[i] = [service |-> "hciattach", verb |-> v]
Waits(v) == \E i \in 1 .. Len(ctl) : Asks(i, v)
InOrder(v, w) == \E i, j \in 1 .. Len(ctl) : i < j /\ Asks(i, v) /\ Asks(j, w)

Attaching(t) == t.op = "enable" /\ t.pc \in {"mksock", "devup", "retry"}
FoundUp(t) == t.op = "enable" /\ (t.pc = "start_bluetoothd" \/ t.ret = 0)
PowersOff(t) == t.pc \in PowerPc /\ t.job = "disable_off"

(* No start of hciattach waits between two stops; a stop that waits finds  *)
(* no start before it once the device is gone; and outside the retry loop  *)
(* of bt_enable there is no start behind a stop, and none at all when the  *)
(* device is gone.                                                         *)
QueueInv(t) ==
  /\ \A i, j, k \in 1 .. Len(ctl) :
       i < j /\ j < k /\ Asks(i, "stop") /\ Asks(j, "start") => ~Asks(k, "stop")
  /\ hci = "absent" => ~InOrder("start", "stop")
  /\ hci = "absent" /\ Waits("stop") => svc["hciattach"] = "stopped"
  /\ ~Attaching(t) => ~InOrder("stop", "start")
  /\ ~Attaching(t) /\ hci = "absent" => svc["hciattach"] = "stopped" /\ ~Waits("start")

(* A stop that waits has had the firmware go with the power, so that only  *)
(* a new hciattach, after it, can bring the device back.                   *)
DeviceInv(t) ==
  /\ Waits("stop") => ~firmware \/ (PowersOff(t) /\ t.pc # "rf_out")
  /\ hci = "up" => power /\ firmware /\ ~Waits("stop") /\ ~PowersOff(t) /\ t.pc # "stop_hciattach"
  /\ FoundUp(t) => hci = "up"
  /\ Attaching(t) \/ FoundUp(t) => want["hciattach"] = "start"
  /\ t.pc \in PowerPc => t.job \in {"enable_on", "disable_off", "query"}
  /\ t.op = "enable" /\ t.ret = 0 => t.pc \in {"start_bluetoothd", "out", "idle"}
  /\ t.op = "enable" /\ t.ret = 0 /\ t.pc # "start_bluetoothd" => want["bluetoothd"] = "start"

UInv(c) == PInv(c) /\ (~timedOut => QueueInv(thread[c]) /\ DeviceInv(thread[c]))
-----------------------------------------------------------------------------
(* No call fails but a bt_enable out of attempts. *)
OnlyTimeouts(t) ==
  /\ t.pc \in {"out", "idle"} /\ t.op # "none" /\ t.ret = -1 => t.op = "enable" /\ timedOut
  /\ t.pc \in PowerPc => t.job \notin {"attach_off", "daemon_off"}
NInv(c) == PInv(c) /\ OnlyTimeouts(thread[c])
-----------------------------------------------------------------------------
(* Room for the library in the descriptor table. *)

LEMMA InitAppInv == Init => AppInv
<1> SUFFICES ASSUME Init PROVE AppInv
  OBVIOUS
<1>1. /\ fds = [n \in Fd |-> Closed] /\ appFds = {}
  BY DEF Init
<1>2. IsFiniteSet({}) /\ Cardinality({}) = 0 /\ MaxAppFds \in Nat
  BY FS_EmptySet, BluedroidAssumption
<1> QED BY <1>1, <1>2, ConstantFacts DEF AppInv, Closed

(* The library opens descriptors of its own only. *)
LEMMA CallerKeepsApp ==
  ASSUME IInv, AppInv, NEW c \in Caller, Step(c)
  PROVE  AppInv'
<1>1. /\ thread \in [Caller -> Thread] /\ LocalInv(thread[c]) /\ UNCHANGED appFds
      /\ fds \in [Fd -> [owner : Caller \cup {App, Free}, kind : {"hci", "rfkill", "other", "none"}]]
      /\ (Late(thread[c]) => timedOut) /\ timedOut \in BOOLEAN
  BY DEF IInv, TypeOK, Step
<1>2. ASSUME NEW n, NEW what, OpenFd(c, what, n) PROVE \A m \in Fd : fds'[m].owner = App => fds[m].owner = App
  BY <1>1, <1>2, ConstantFacts DEF OpenFd
<1>3. ASSUME NEW n, CloseFd(n) PROVE \A m \in Fd : fds'[m].owner = App => fds[m].owner = App
  <2>1. \A m \in Fd : fds'[m] = IF m = n THEN Closed ELSE fds[m]
    BY <1>3 DEF CloseFd
  <2>2. Closed.owner # App
    BY ConstantFacts DEF Closed
  <2> QED BY <2>1, <2>2
<1>4. \/ UNCHANGED fds
      \/ \E n, what : OpenFd(c, what, n)
      \/ \E n : CloseFd(n)
  BY DEF Step, EnterPower, ProbeRfkill, SetStatePath, OpenStatePath, StateFileIo, LeavePower,
     StartHciattach, create_hci_sock, HciDevUp, RetryDevUp, GiveUp, StartBluetoothd,
     StopBluetoothd, HciDevDown, StopHciattach, HciGetDevInfo, Return
<1> QED BY <1>1, <1>2, <1>3, <1>4 DEF AppInv

LEMMA AppKeepsApp ==
  ASSUME IInv, AppInv, NEW n \in Fd, AppOpen(n) \/ AppClose(n)
  PROVE  AppInv'
<1>1. /\ fds \in [Fd -> [owner : Caller \cup {App, Free}, kind : {"hci", "rfkill", "other", "none"}]]
      /\ IsFiniteSet(appFds) /\ Cardinality(appFds) <= MaxAppFds /\ Cardinality(appFds) \in Nat
      /\ MaxAppFds \in Nat
  BY FS_CardinalityType, BluedroidAssumption DEF IInv, TypeOK, AppInv
<1>2. CASE AppOpen(n)
  <2>1. /\ Cardinality(appFds) < MaxAppFds /\ appFds' = appFds \cup {n}
        /\ \A m \in Fd : m # n => fds'[m] = fds[m]
    BY <1>1, <1>2 DEF AppOpen, OpenFd
  <2>2. /\ IsFiniteSet(appFds \cup {n})
        /\ Cardinality(appFds \cup {n}) = Cardinality(appFds)
             \/ Cardinality(appFds \cup {n}) = Cardinality(appFds) + 1
    BY <1>1, FS_AddElement
  <2>3. Cardinality(appFds') <= MaxAppFds
    BY <1>1, <2>1, <2>2
  <2> QED BY <2>1, <2>2, <2>3 DEF AppInv
<1>3. CASE AppClose(n)
  <2>1. /\ appFds' = appFds \ {n} /\ n \in appFds
        /\ \A m \in Fd : fds'[m] = IF m = n THEN Closed ELSE fds[m]
    BY <1>1, <1>3 DEF AppClose, CloseFd
  <2>2. /\ IsFiniteSet(appFds \ {n})
        /\ Cardinality(appFds \ {n}) = Cardinality(appFds) - 1
    BY <1>1, <2>1, FS_RemoveElement
  <2>3. Cardinality(appFds') <= MaxAppFds
    BY <1>1, <2>1, <2>2
  <2>4. Closed.owner # App
    BY ConstantFacts DEF Closed
  <2> QED BY <2>1, <2>2, <2>3, <2>4 DEF AppInv
<1> QED BY <1>2, <1>3

(* A lone caller finds a free number wherever it opens a file: it has at   *)
(* most the HCI socket open by then.                                       *)
LEMMA RoomLeft ==
  ASSUME NEW c \in Caller, Caller = {c}, PowerWorks, IInv, AppInv,
         thread[c].pc \in {"rf_probe", "rf_open", "mksock"}
  PROVE  ~TableFull
<1> SUFFICES ASSUME TableFull PROVE FALSE
  OBVIOUS
<1> DEFINE s == thread[c].hci_sock
           Taken == appFds \cup {s}
<1>1. /\ MaxFd \in Nat /\ MaxAppFds \in Nat /\ MaxAppFds < MaxFd
      /\ IsFiniteSet(appFds) /\ Cardinality(appFds) <= MaxAppFds /\ Cardinality(appFds) \in Nat
  BY FS_CardinalityType, BluedroidAssumption DEF PowerWorks, AppInv
<1>2. Fd \subseteq Taken
  <2> SUFFICES ASSUME NEW n \in Fd PROVE n \in Taken
    OBVIOUS
  <2>1. fds[n].owner \in {c, App}
    BY DEF TableFull, IsFree, IInv, TypeOK
  <2>2. fds[n].owner = App => n \in appFds
    BY DEF AppInv
  <2>3. fds[n].owner = c => n = s
    BY DEF IInv, NoFdLeak, HoldsRfd
  <2> QED BY <2>1, <2>2, <2>3
<1>3. IsFiniteSet(Taken) /\ Cardinality(Taken) <= Cardinality(appFds) + 1
  <2>1. /\ IsFiniteSet(appFds \cup {s})
        /\ Cardinality(appFds \cup {s}) = Cardinality(appFds)
             \/ Cardinality(appFds \cup {s}) = Cardinality(appFds) + 1
    BY <1>1, FS_AddElement
  <2> QED BY <1>1, <2>1
<1>4. Cardinality(Fd) = MaxFd + 1 /\ IsFiniteSet(Fd)
  <2>1. 0 \in Int /\ MaxFd \in Int /\ ~(0 > MaxFd) /\ MaxFd - 0 + 1 = MaxFd + 1
    BY <1>1
  <2>2. /\ IsFiniteSet(0 .. MaxFd)
        /\ Cardinality(0 .. MaxFd) = IF 0 > MaxFd THEN 0 ELSE MaxFd - 0 + 1
    BY <2>1, FS_Interval
  <2> QED BY <2>1, <2>2 DEF Fd
<1>5. Cardinality(Fd) <= Cardinality(Taken)
  BY <1>2, <1>3, FS_Subset
<1>6. Cardinality(Taken) \in Nat
  BY <1>3, FS_CardinalityType
<1> QED BY <1>1, <1>3, <1>4, <1>5, <1>6

-----------------------------------------------------------------------------
(* The search for the switch and the opening of its file succeed. *)

LEMMA SearchSucceeds ==
  ASSUME NEW c \in Caller, Caller = {c}, PowerWorks, PInv(c), ProbeRfkill(c)
  PROVE  LET x == thread[c]
             y == thread'[c]
         IN  /\ y.job = x.job
             /\ \/ y.pc = "rf_path" /\ rfkill_id' # None
                \/ /\ y.pc = "rf_probe" /\ UNCHANGED rfkill_id
                   /\ \A i \in 1 .. y.id : RfkillTypes[i] # "bluetooth"
<1> DEFINE x == thread[c]
           y == thread'[c]
           id == x.id
<1>1. /\ thread \in [Caller -> Thread] /\ x \in Thread /\ x.pc = "rf_probe" /\ id \in Nat
      /\ IInv /\ AppInv /\ SwitchInv(x) /\ UseRfkill /\ RfkillTypes \in Seq(STRING)
  <2>1. x.pc = "rf_probe" /\ thread \in [Caller -> Thread]
    BY DEF ProbeRfkill, At, PInv, IInv, TypeOK
  <2>2. UseRfkill
    BY <2>1 DEF PInv, AlwaysPowered, PowerPc
  <2> QED BY <2>1, <2>2, BluedroidAssumption DEF PInv, Thread
<1>2. ~TableFull /\ ~Fails("open") /\ ~Fails("io")
  BY <1>1, RoomLeft DEF PowerWorks, Fails
<1>3. id < Len(RfkillTypes) /\ ~(id >= Len(RfkillTypes))
  <2>1. PICK i \in 1 .. Len(RfkillTypes) : RfkillTypes[i] = "bluetooth"
    BY <1>1 DEF PowerWorks, HasSwitch
  <2>2. i \notin 1 .. id
    BY <1>1, <2>1 DEF SwitchInv
  <2> QED BY <1>1, <2>1, <2>2
<1>4. \/ IsBluetooth(id) /\ Goto(c, "rf_path") /\ rfkill_id' = id
      \/ ~IsBluetooth(id) /\ Becomes(c, [x EXCEPT !.id = id + 1]) /\ UNCHANGED rfkill_id
  BY <1>2, <1>3 DEF ProbeRfkill
<1>5. CASE IsBluetooth(id) /\ Goto(c, "rf_path") /\ rfkill_id' = id
  <2>1. id # None
    BY <1>1 DEF None
  <2> QED BY <1>1, <1>5, <2>1, GotoStep DEF SamePower
<1>6. CASE ~IsBluetooth(id) /\ Becomes(c, [x EXCEPT !.id = id + 1]) /\ UNCHANGED rfkill_id
  <2>1. y = [x EXCEPT !.id = id + 1]
    BY <1>1, <1>6 DEF Becomes
  <2>2. y.pc = "rf_probe" /\ y.job = x.job /\ y.id = id + 1
    BY <1>1, <2>1 DEF Thread
  <2>3. \A i \in 1 .. id : RfkillTypes[i] # "bluetooth"
    BY <1>1 DEF SwitchInv
  <2>4. RfkillTypes[id + 1] # "bluetooth"
    BY <1>6 DEF IsBluetooth
  <2>5. \A i \in 1 .. y.id : i \in 1 .. id \/ i = id + 1
    BY <1>1, <2>2
  <2> QED BY <1>6, <2>2, <2>3, <2>4, <2>5
<1> QED BY <1>4, <1>5, <1>6

LEMMA OpenSucceeds ==
  ASSUME NEW c \in Caller, Caller = {c}, PowerWorks, PInv(c), OpenStatePath(c)
  PROVE  thread'[c].pc = "rf_io" /\ OwnedAs(thread[c].fd, c, "rfkill")'
<1>1. /\ thread \in [Caller -> Thread] /\ IInv /\ AppInv /\ SwitchInv(thread[c]) /\ LocalInv(thread[c])
      /\ fds \in [Fd -> [owner : Caller \cup {App, Free}, kind : {"hci", "rfkill", "other", "none"}]]
  BY DEF PInv, IInv, TypeOK
<1>2. thread[c].pc = "rf_open" /\ rfkill_state_path # None
  BY <1>1, OpenStatePathStep DEF SwitchInv
<1>3. ~TableFull /\ ~Fails("open")
  BY <1>1, <1>2, RoomLeft DEF PowerWorks, Fails
<1>4. thread'[c].pc = "rf_io" /\ OpenFd(c, "rfkill", thread'[c].fd)
  BY <1>1, <1>2, <1>3, OpenStatePathStep
<1>5. thread'[c].fd \in Fd
  <2>1. PICK n \in Fd : Becomes(c, [thread[c] EXCEPT !.pc = "rf_io", !.fd = n])
    BY <1>1, <1>2, <1>3 DEF OpenStatePath
  <2>2. thread'[c] = [thread[c] EXCEPT !.pc = "rf_io", !.fd = n] /\ thread[c] \in Thread
    BY <1>1, <2>1 DEF Becomes
  <2> QED BY <2>2 DEF Thread
<1> QED BY <1>1, <1>4, <1>5 DEF OpenFd, OwnedAs

LEMMA SwitchSteps ==
  ASSUME NEW c \in Caller, Caller = {c}, PowerWorks, PInv(c), Step(c)
  PROVE  SwitchInv(thread[c])'
<1> DEFINE x == thread[c]
           y == thread'[c]
<1>0. thread \in [Caller -> Thread] /\ SwitchInv(x) /\ x \in Thread /\ LocalInv(x)
  BY DEF PInv, IInv, TypeOK
<1> USE <1>0 DEF SwitchInv, PowerPc, staticVars
<1>1. CASE EnterPower(c)
  <2>1. \A i \in 1 .. 0 : RfkillTypes[i] # "bluetooth"
    OBVIOUS
  <2> QED BY <1>1, <2>1, EnterPowerStep DEF SamePower
<1>2. CASE ProbeRfkill(c)
  BY <1>2, SearchSucceeds, ProbeRfkillStep
<1>3. CASE SetStatePath(c)
  <2>1. rfkill_state_path' = rfkill_id /\ rfkill_id' = rfkill_id /\ rfkill_id # None
    BY <1>3 DEF SetStatePath, At, Fails, PowerWorks
  <2> QED BY <1>3, <2>1, SetStatePathStep
<1>4. CASE OpenStatePath(c)
  BY <1>4, OpenSucceeds, OpenStatePathStep
<1>5. CASE StateFileIo(c)
  BY <1>5, StateFileIoStep
<1>6. CASE LeavePower(c)
  BY <1>6, LeavePowerStep DEF Thread, Job
<1>7. CASE StartHciattach(c)
  BY <1>7, StartHciattachStep, ConstantFacts
<1>8. CASE create_hci_sock(c)
  BY <1>8, CreateSockStep DEF SamePower, WithSocket, Op, LocalInv
<1>9. CASE HciDevUp(c)
  BY <1>9, HciDevUpStep DEF SamePower
<1>10. CASE RetryDevUp(c)
  BY <1>10, RetryDevUpStep DEF SamePower
<1>11. CASE GiveUp(c)
  BY <1>11, GiveUpStep, ConstantFacts
<1>12. CASE StartBluetoothd(c)
  BY <1>12, StartBluetoothdStep, ConstantFacts
<1>13. CASE StopBluetoothd(c)
  BY <1>13, StopBluetoothdStep DEF SamePower
<1>14. CASE HciDevDown(c)
  BY <1>14, HciDevDownStep DEF SamePower
<1>15. CASE StopHciattach(c)
  BY <1>15, StopHciattachStep, ConstantFacts
<1>16. CASE HciGetDevInfo(c)
  BY <1>16, HciGetDevInfoStep DEF SamePower
<1>17. CASE Return(c)
  BY <1>17, ReturnStep DEF SamePower
<1> QED
  BY <1>1, <1>2, <1>3, <1>4, <1>5, <1>6, <1>7, <1>8, <1>9, <1>10, <1>11, <1>12, <1>13, <1>14,
     <1>15, <1>16, <1>17 DEF Step

LEMMA PowerSteps ==
  ASSUME NEW c \in Caller, Caller = {c}, PowerWorks, PInv(c), Step(c), Quiet
  PROVE  PowerInv(c, thread[c])'
<1> DEFINE x == thread[c]
           y == thread'[c]
<1>0. /\ thread \in [Caller -> Thread] /\ PowerInv(c, x) /\ x \in Thread /\ LocalInv(x)
      /\ UseRfkill \in BOOLEAN /\ (UseRfkill \/ x.pc \notin PowerPc)
  BY ConstantFacts DEF PInv, IInv, TypeOK, AlwaysPowered
<1> USE <1>0 DEF PowerInv, FailsOn, PowerPc, platformVars
<1>1. CASE EnterPower(c)
  BY <1>1, EnterPowerStep
<1>2. CASE ProbeRfkill(c)
  BY <1>2, SearchSucceeds
<1>3. CASE SetStatePath(c)
  BY <1>3, SetStatePathStep
<1>4. CASE OpenStatePath(c)
  BY <1>4, OpenSucceeds
<1>5. CASE StateFileIo(c)
  <2>1. x.pc = "rf_io" /\ OwnedAs(x.fd, c, "rfkill")
    BY <1>5, StateFileIoStep
  <2>2. IsOpenOn(x.fd, "rfkill") /\ ~Fails("io")
    BY <2>1, ConstantFacts DEF OwnedAs, IsOpenOn, IsFree, Fails, PowerWorks
  <2>3. /\ y.pc = "rf_out" /\ y.job = x.job
        /\ y.val = IF x.job = "query" /\ power THEN 1 ELSE 0
        /\ IF x.job = "query" THEN UNCHANGED platformVars ELSE SwitchPower(TurnsOn(x.job))
    BY <1>5, <2>2, StateFileIoStep
  <2>4. y.val # -1
    BY <2>3
  <2>5. x.job \notin {"enable_on", "query"} => power' = FALSE
    BY <2>3 DEF SwitchPower, TurnsOn
  <2> QED BY <2>3, <2>4, <2>5
<1>6. CASE LeavePower(c)
  <2>1. x.job = "enable_on" => y.pc = "start_hciattach"
    BY <1>6, LeavePowerStep DEF Thread
  <2>2. x.job = "query" => y.op # "enable"
    BY <1>6, LeavePowerStep DEF LocalInv
  <2>3. power' = power /\ y.pc \notin {"rf_io", "rf_out"} /\ x.pc = "rf_out"
    BY <1>6, LeavePowerStep
  <2> QED BY <2>1, <2>2, <2>3
<1>7. CASE StartHciattach(c)
  BY <1>7, StartHciattachStep
<1>8. CASE create_hci_sock(c)
  <2>1. y.pc = "out" /\ y.op = "enable" => y.hci_sock = None /\ y.attempt > 0
    BY <1>8, CreateSockStep DEF LocalInv, WithSocket, Thread
  <2>2. y.pc \notin {"rf_io", "rf_out"}
    BY <1>8, CreateSockStep DEF LocalInv, WithSocket, Op
  <2> QED BY <2>1, <2>2
<1>9. CASE HciDevUp(c)
  BY <1>9, HciDevUpStep
<1>10. CASE RetryDevUp(c)
  BY <1>10, RetryDevUpStep
<1>11. CASE GiveUp(c)
  BY <1>11, GiveUpStep
<1>12. CASE StartBluetoothd(c)
  <2>1. y.pc # "out" \/ y.ret = 0 \/ ~UseRfkill
    BY <1>12, StartBluetoothdStep
  <2>2. y.pc \notin {"rf_io", "rf_out"}
    BY <1>12, StartBluetoothdStep
  <2>3. y.ret = 0 => y.ret # -1
    OBVIOUS
  <2> QED BY <2>1, <2>2, <2>3
<1>13. CASE StopBluetoothd(c)
  BY <1>13, StopBluetoothdStep DEF SameCall, LocalInv
<1>14. CASE HciDevDown(c)
  BY <1>14, HciDevDownStep
<1>15. CASE StopHciattach(c)
  <2>1. x.op # "enable"
    BY <1>15, StopHciattachStep DEF PInv, AnswersInv, Answers
  <2> QED BY <1>15, <2>1, StopHciattachStep
<1>16. CASE HciGetDevInfo(c)
  <2>1. y.ret # -1 /\ y.pc = "out"
    BY <1>16, HciGetDevInfoStep
  <2> QED BY <2>1
<1>17. CASE Return(c)
  BY <1>17, ReturnStep
<1> QED
  BY <1>1, <1>2, <1>3, <1>4, <1>5, <1>6, <1>7, <1>8, <1>9, <1>10, <1>11, <1>12, <1>13, <1>14,
     <1>15, <1>16, <1>17 DEF Step

LEMMA InitPInv ==
  ASSUME NEW c \in Caller
  PROVE  Init => PInv(c)
<1> SUFFICES ASSUME Init PROVE PInv(c)
  OBVIOUS
<1>1. IInv /\ AppInv
  BY InitIInv, InitAppInv
<1>2. \A d \in Caller : /\ thread[d].pc = "idle" /\ thread[d].op = "none" /\ thread[d].val = -1
                        /\ thread[d].id = 0
  BY DEF Init
<1>3. rfkill_id = None /\ (~UseRfkill => power)
  BY DEF Init, PlatformInit
<1>4. AlwaysPowered
  BY <1>2, <1>3 DEF AlwaysPowered, PowerPc
<1>5. SwitchInv(thread[c]) /\ AnswersInv(thread[c]) /\ PowerInv(c, thread[c])
  BY <1>2, <1>3 DEF SwitchInv, AnswersInv, PowerInv, FailsOn, PowerPc
<1> QED BY <1>1, <1>4, <1>5 DEF PInv

LEMMA NextPInv ==
  ASSUME NEW c \in Caller, Caller = {c}, PowerWorks
  PROVE  PInv(c) /\ [Next]_vars => PInv(c)'
<1> SUFFICES ASSUME PInv(c), [Next]_vars PROVE PInv(c)'
  OBVIOUS
<1> DEFINE x == thread[c]
           y == thread'[c]
<1>0. /\ IInv /\ IInv' /\ AppInv /\ AlwaysPowered /\ SwitchInv(x) /\ AnswersInv(x)
      /\ thread \in [Caller -> Thread] /\ x \in Thread /\ LocalInv(x) /\ timedOut \in BOOLEAN
      /\ UseRfkill \in BOOLEAN
  BY NextIInv, ConstantFacts DEF PInv, IInv, TypeOK
<1>1. ASSUME Step(c) PROVE PInv(c)'
  <2>1. AppInv' /\ AlwaysPowered'
    BY <1>0, <1>1, CallerKeepsApp, StepPowered
  <2>2. SwitchInv(x)'
    BY <1>1, SwitchSteps
  <2>3. AnswersInv(x)'
    BY <1>0, <1>1, StepInCall, StepAnswers DEF AnswersInv
  <2>4. Quiet' => Quiet
    BY <1>1, StepTimedOut DEF Quiet
  <2>5. Quiet => PowerInv(c, x)'
    BY <1>1, PowerSteps
  <2> QED BY <1>0, <2>1, <2>2, <2>3, <2>4, <2>5 DEF PInv
<1>2. ASSUME NEW f \in Op, Begin(c, f) PROVE PInv(c)'
  <2>1. /\ x.pc = "idle" /\ y.pc = FirstStep(f) /\ y.op = f /\ y.ret = -1
        /\ y.job = IF f = "enable" THEN "enable_on" ELSE "query"
        /\ y.id = x.id /\ y.fd = x.fd /\ y.val = x.val
        /\ UNCHANGED <<platformVars, staticVars, fds, appFds, timedOut>>
    BY <1>0, <1>2, BeginStep
  <2>2. /\ FirstStep(f) \in {"stop_bluetoothd", "rf_enter", "start_hciattach", "mksock"}
        /\ FirstStep(f) = "rf_enter" => UseRfkill /\ f # "disable"
        /\ FirstStep(f) = "stop_bluetoothd" => f = "disable"
        /\ FirstStep(f) = "start_hciattach" => f = "enable"
        /\ FirstStep(f) = "mksock" => f = "is_enabled"
    BY <1>0 DEF FirstStep, Op
  <2>3. AppInv'
    BY <1>0, <2>1 DEF AppInv
  <2>4. AlwaysPowered'
    BY <1>0, <2>1, <2>2 DEF AlwaysPowered, PowerPc, platformVars
  <2>5. SwitchInv(x)'
    BY <1>0, <2>1, <2>2 DEF SwitchInv, PowerPc, staticVars
  <2>6. AnswersInv(x)'
    BY <1>0, <2>1, <2>2 DEF AnswersInv, Answers, PowerPc
  <2>7. PowerInv(c, x)'
    BY <2>1, <2>2 DEF PowerInv, FailsOn
  <2> QED BY <1>0, <2>3, <2>4, <2>5, <2>6, <2>7 DEF PInv
<1>3. ASSUME NEW n \in Fd, AppOpen(n) \/ AppClose(n) PROVE PInv(c)'
  <2>1. AppInv' /\ UNCHANGED <<platformVars, staticVars, thread, timedOut>>
    BY <1>0, <1>3, AppKeepsApp DEF AppOpen, AppClose
  <2>2. power' = power /\ rfkill_id' = rfkill_id /\ rfkill_state_path' = rfkill_state_path
    BY <2>1 DEF platformVars, staticVars
  <2>3. Quiet /\ x.pc = "rf_io" => OwnedAs(x.fd, c, "rfkill")'
    <3>1. CASE timedOut
      <4>1. SUFFICES ASSUME MaxAppFds = 0 PROVE FALSE
        BY <1>0, <3>1 DEF Quiet
      <4>2. Cardinality(appFds) = 0 /\ IsFiniteSet(appFds)
        BY <1>0, <4>1, FS_CardinalityType DEF AppInv
      <4>3. appFds = {}
        BY <4>2, FS_EmptySet
      <4> QED BY <1>3, <4>1, <4>2, <4>3 DEF AppOpen, AppClose
    <3>2. CASE ~timedOut
      <4>1. ~timedOut' /\ x.fd = thread'[c].fd /\ x.pc = thread'[c].pc
        BY <2>1, <3>2
      <4>2. FdsIntactUntilTimeout' /\ LocalInv(x)
        BY <1>0 DEF IInv
      <4>3. x.pc = "rf_io" => HoldsRfd(x)'
        BY <4>1, <4>2 DEF HoldsRfd, LocalInv
      <4> QED BY <4>1, <4>2, <4>3 DEF FdsIntactUntilTimeout, OwnedAs
    <3> QED BY <1>0, <3>1, <3>2
  <2>4. Quiet => PowerInv(c, x)'
    BY <2>1, <2>2, <2>3 DEF PInv, PowerInv, FailsOn, OwnedAs
  <2>5. Quiet' <=> Quiet
    BY <2>1 DEF Quiet
  <2> QED BY <1>0, <2>1, <2>2, <2>4, <2>5 DEF PInv, AlwaysPowered, SwitchInv, AnswersInv
<1>4. ASSUME UNCHANGED <<staticVars, fds, appFds, thread, timedOut, power>> PROVE PInv(c)'
  BY <1>0, <1>4 DEF PInv, AppInv, AlwaysPowered, SwitchInv, AnswersInv, PowerInv, FailsOn, Quiet, OwnedAs,
     staticVars
<1>5. ASSUME Platform(PlatformNext) PROVE PInv(c)'
  <2>1. UNCHANGED <<staticVars, fds, appFds, thread, timedOut, power>>
    BY <1>5 DEF Platform, PlatformNext, InitHandles, HciattachAttaches, DaemonExits
  <2> QED BY <1>4, <2>1
<1>6. CASE UNCHANGED vars
  BY <1>4, <1>6 DEF vars, platformVars
<1> QED BY <1>1, <1>2, <1>3, <1>5, <1>6 DEF Next

(* However the only bt_enable of a process fails, it has cut the power     *)
(* when it is about to return, whatever the property service refuses,      *)
(* however often HCIDEVUP fails and whichever daemons crash.               *)
THEOREM FailureCutsPower ==
  ASSUME NEW c, Caller = {c}, UseRfkill, PowerWorks
  PROVE  Spec => []FailedEnableCutsPower
<1>1. c \in Caller
  OBVIOUS
<1>2. PInv(c) => FailedEnableCutsPower
  BY DEF PInv, PowerInv, FailsOn, Quiet, FailedEnableCutsPower
<1>3. Init => PInv(c)
  BY <1>1, InitPInv
<1>4. PInv(c) /\ [Next]_vars => PInv(c)'
  BY <1>1, NextPInv
<1> QED BY <1>2, <1>3, <1>4, PTL DEF Spec

-----------------------------------------------------------------------------
(* Nothing fails but HCIDEVUP. *)

LEMMA OnlyTimeoutsSteps ==
  ASSUME NEW c \in Caller, Caller = {c}, PowerWorks, MaxAppFds = 0, MayFail \subseteq {"devup"},
         NInv(c), Step(c)
  PROVE  OnlyTimeouts(thread[c])'
<1> DEFINE x == thread[c]
           y == thread'[c]
<1>0. /\ thread \in [Caller -> Thread] /\ PowerInv(c, x) /\ x \in Thread /\ LocalInv(x) /\ Answers(x)
      /\ UseRfkill \in BOOLEAN /\ (UseRfkill \/ x.pc \notin PowerPc) /\ OnlyTimeouts(x)
      /\ IInv /\ AppInv /\ PInv(c) /\ (Late(x) => timedOut) /\ timedOut \in BOOLEAN
  BY StepInCall, ConstantFacts DEF NInv, PInv, AnswersInv, IInv, TypeOK, AlwaysPowered, Quiet
<1>1. /\ ~Fails("property") /\ ~Fails("socket") /\ ~Refused
  BY DEF Fails, Refused
<1> USE <1>0 DEF OnlyTimeouts, PowerPc
<1>2. CASE EnterPower(c) \/ SetStatePath(c)
  BY <1>2, EnterPowerStep, SetStatePathStep DEF SamePower
<1>3. CASE ProbeRfkill(c)
  BY <1>3, SearchSucceeds, ProbeRfkillStep
<1>4. CASE OpenStatePath(c)
  BY <1>4, OpenSucceeds, OpenStatePathStep
<1>5. CASE StateFileIo(c)
  BY <1>5, StateFileIoStep
<1>6. CASE LeavePower(c)
  <2>1. /\ x.pc = "rf_out" /\ x.job \in {"enable_on", "timeout_off", "disable_off", "query"}
        /\ timedOut' = timedOut /\ y.op = x.op /\ y.pc \in {"out", "start_hciattach", "mksock"}
    BY <1>6, LeavePowerStep DEF Thread, Job
  <2>2. CASE x.job = "timeout_off"
    BY <2>1, <2>2 DEF Late, Answers
  <2>3. CASE x.job = "enable_on"
    BY <1>6, <2>1, <2>3, LeavePowerStep DEF Thread, PowerInv
  <2>4. CASE x.job \in {"disable_off", "query"}
    <3>1. y.pc = "out" => y.ret = x.val /\ x.val # -1
      BY <1>6, <2>1, <2>4, LeavePowerStep DEF PowerInv
    <3> QED BY <2>1, <3>1
  <2> QED BY <2>1, <2>2, <2>3, <2>4
<1>7. CASE StartHciattach(c)
  BY <1>1, <1>7, StartHciattachStep
<1>8. CASE create_hci_sock(c)
  <2>1. x.pc = "mksock"
    BY <1>8, CreateSockStep
  <2>2. ~TableFull
    BY <2>1, RoomLeft
  <2> QED BY <1>1, <1>8, <2>2, CreateSockStep DEF WithSocket, LocalInv, Op
<1>9. CASE HciDevUp(c)
  BY <1>9, HciDevUpStep
<1>10. CASE RetryDevUp(c)
  BY <1>10, RetryDevUpStep
<1>11. CASE GiveUp(c)
  <2>1. x.pc = "timeout" /\ y.op = x.op /\ timedOut' = timedOut /\ y.pc \in {"rf_enter", "out"}
        /\ (y.pc = "rf_enter" => y.job = "timeout_off")
    BY <1>11, GiveUpStep DEF SameCall
  <2> QED BY <2>1 DEF Late, Answers
<1>12. CASE StartBluetoothd(c)
  <2>1. y.pc = "out" /\ y.ret = 0
    BY <1>1, <1>12, StartBluetoothdStep
  <2>2. y.ret # -1
    BY <2>1
  <2> QED BY <2>1, <2>2
<1>13. CASE StopBluetoothd(c)
  BY <1>1, <1>13, StopBluetoothdStep
<1>14. CASE HciDevDown(c)
  BY <1>14, HciDevDownStep
<1>15. CASE StopHciattach(c)
  <2>1. IF UseRfkill THEN y.pc = "rf_enter" /\ y.job = "disable_off" ELSE y.pc = "out" /\ y.ret = 0
    BY <1>1, <1>15, StopHciattachStep
  <2>2. y.ret = 0 => y.ret # -1
    OBVIOUS
  <2> QED BY <2>1, <2>2
<1>16. CASE HciGetDevInfo(c)
  <2>1. y.ret # -1 /\ y.pc = "out"
    BY <1>16, HciGetDevInfoStep
  <2> QED BY <2>1
<1>17. CASE Return(c)
  BY <1>17, ReturnStep
<1> QED
  BY <1>2, <1>3, <1>4, <1>5, <1>6, <1>7, <1>8, <1>9, <1>10, <1>11, <1>12, <1>13, <1>14,
     <1>15, <1>16, <1>17 DEF Step

(* With one thread, no system call failing but HCIDEVUP and nobody else    *)
(* opening descriptors, bt_is_enabled and bt_disable never fail and        *)
(* bt_enable fails only after all its attempts.                            *)
THEOREM OnlyTimeoutsFail ==
  ASSUME NEW c, Caller = {c}, PowerWorks, MaxAppFds = 0, MayFail \subseteq {"devup"}
  PROVE  Spec => []NoSpuriousFailure
<1>1. c \in Caller
  OBVIOUS
<1>2. NInv(c) => NoSpuriousFailure
  BY DEF NInv, OnlyTimeouts, NoSpuriousFailure
<1>3. Init => NInv(c)
  <2> SUFFICES ASSUME Init PROVE NInv(c)
    OBVIOUS
  <2>1. PInv(c)
    BY <1>1, InitPInv
  <2>2. thread[c].pc = "idle" /\ thread[c].op = "none"
    BY <1>1 DEF Init
  <2> QED BY <2>1, <2>2 DEF NInv, OnlyTimeouts, PowerPc
<1>4. NInv(c) /\ [Next]_vars => NInv(c)'
  <2> SUFFICES ASSUME NInv(c), [Next]_vars PROVE NInv(c)'
    OBVIOUS
  <2>1. PInv(c)'
    BY <1>1, NextPInv DEF NInv
  <2>2. thread \in [Caller -> Thread] /\ timedOut \in BOOLEAN
    BY DEF NInv, PInv, IInv, TypeOK
  <2>3. CASE Step(c)
    BY <1>1, <2>1, <2>3, OnlyTimeoutsSteps DEF NInv
  <2>4. ASSUME NEW f \in Op, Begin(c, f) PROVE NInv(c)'
    <3>1. /\ thread'[c].pc = FirstStep(f)
          /\ thread'[c].job = IF f = "enable" THEN "enable_on" ELSE "query"
      BY <1>1, <2>2, <2>4, BeginStep
    <3>2. FirstStep(f) \in {"stop_bluetoothd", "rf_enter", "start_hciattach", "mksock"}
      BY ConstantFacts DEF FirstStep, Op
    <3> QED BY <2>1, <3>1, <3>2 DEF NInv, OnlyTimeouts
  <2>5. ASSUME UNCHANGED <<thread, timedOut>> PROVE NInv(c)'
    BY <2>1, <2>5 DEF NInv, OnlyTimeouts
  <2> QED BY <2>3, <2>4, <2>5 DEF Next, AppOpen, AppClose, Platform, vars
<1> QED BY <1>2, <1>3, <1>4, PTL DEF Spec

-----------------------------------------------------------------------------
(* init's queue, as far as hciattach goes. *)

LEMMA AsksAppended ==
  ASSUME PlatformTypeOK, NEW s \in Service, NEW v \in Verb, PropertySet(s, v)
  PROVE  /\ Len(ctl) \in Nat /\ Len(ctl') = Len(ctl) + 1
         /\ \A i, w : Asks(i, w)' <=> Asks(i, w) \/ (i = Len(ctl) + 1 /\ s = "hciattach" /\ w = v)
<1> DEFINE q == [service |-> s, verb |-> v]
<1>1. ctl \in Seq(Request) /\ q \in Request /\ ctl' = Append(ctl, q)
  BY DEF PropertySet, PlatformTypeOK, Request
<1> SUFFICES ASSUME NEW i, NEW w
             PROVE  /\ Len(ctl) \in Nat /\ Len(ctl') = Len(ctl) + 1
                    /\ Asks(i, w)' <=> Asks(i, w) \/ (i = Len(ctl) + 1 /\ s = "hciattach" /\ w = v)
  OBVIOUS
<1> DEFINE e == [service |-> "hciattach", verb |-> w]
<1>2. e = q <=> s = "hciattach" /\ w = v
  <2>1. e.service = "hciattach" /\ e.verb = w /\ q.service = s /\ q.verb = v
    OBVIOUS
  <2> QED BY <2>1
<1> HIDE DEF q, e
<1>3. /\ Len(ctl') = Len(ctl) + 1 /\ Len(ctl) \in Nat
      /\ \A j \in 1 .. Len(ctl) : ctl'[j] = ctl[j]
      /\ ctl'[Len(ctl) + 1] = q
  BY <1>1
<1>4. i \in 1 .. Len(ctl') <=> i \in 1 .. Len(ctl) \/ i = Len(ctl) + 1
  BY <1>3
<1>5. Asks(i, w) <=> i \in 1 .. Len(ctl) /\ ctl[i] = e
  BY DEF Asks, e
<1>6. Asks(i, w)' <=> i \in 1 .. Len(ctl') /\ ctl'[i] = e
  BY DEF Asks, e
<1>7. i = Len(ctl) + 1 => i \notin 1 .. Len(ctl)
  BY <1>3
<1> QED BY <1>2, <1>3, <1>4, <1>5, <1>6, <1>7

LEMMA AsksHandled ==
  ASSUME PlatformTypeOK, InitHandles
  PROVE  /\ Len(ctl) \in Nat
         /\ \A i, w : Asks(i, w)' => i \in Nat /\ i >= 1 /\ Asks(i + 1, w)
         /\ \/ Asks(1, "stop") /\ hci' = "absent" /\ svc'["hciattach"] = "stopped"
            \/ Asks(1, "start") /\ hci' = hci
            \/ hci' = hci /\ svc'["hciattach"] = svc["hciattach"]
<1> DEFINE q == Head(ctl)
<1>1. /\ ctl \in Seq(Request) /\ ctl # << >> /\ ctl' = Tail(ctl) /\ q \in Request
      /\ svc \in [Service -> {"stopped", "running"}]
  BY DEF InitHandles, PlatformTypeOK
<1>2. /\ Len(ctl) \in Nat /\ Len(ctl) >= 1 /\ Len(ctl') = Len(ctl) - 1 /\ q = ctl[1]
      /\ \A i \in 1 .. Len(ctl') : ctl'[i] = ctl[i + 1]
  BY <1>1
<1>3. \A i, w : Asks(i, w)' => i \in Nat /\ i >= 1 /\ Asks(i + 1, w)
  <2> SUFFICES ASSUME NEW i, NEW w, Asks(i, w)' PROVE i \in Nat /\ i >= 1 /\ Asks(i + 1, w)
    OBVIOUS
  <2>1. i \in 1 .. Len(ctl') /\ ctl'[i] = [service |-> "hciattach", verb |-> w]
    BY DEF Asks
  <2>2. i + 1 \in 1 .. Len(ctl) /\ ctl[i + 1] = ctl'[i] /\ i \in Nat /\ i >= 1
    BY <1>2, <2>1
  <2> QED BY <2>1, <2>2 DEF Asks
<1>4. q.service = "hciattach" => Asks(1, q.verb)
  <2>1. q = [service |-> q.service, verb |-> q.verb]
    BY <1>1 DEF Request
  <2>2. 1 \in 1 .. Len(ctl)
    BY <1>2
  <2> QED BY <1>2, <2>1, <2>2 DEF Asks
<1>5. /\ q.service \in {"hciattach", "bluetoothd"} /\ q.verb \in {"start", "stop"}
      /\ IF q.verb = "stop"
           THEN /\ svc' = [svc EXCEPT ![q.service] = "stopped"]
                /\ hci' = IF q.service = "hciattach" THEN "absent" ELSE hci
           ELSE svc' = [svc EXCEPT ![q.service] = "running"] /\ hci' = hci
  BY <1>1 DEF InitHandles, Stopped, Request, Service, Verb
<1> QED BY <1>1, <1>2, <1>3, <1>4, <1>5 DEF Service

(* Nothing asked of hciattach and nothing gone: the queue stays in order.  *)
LEMMA QueueKept ==
  ASSUME NEW c \in Caller, QueueInv(thread[c]), \A i, w : Asks(i, w)' => Asks(i, w),
         svc'["hciattach"] = svc["hciattach"], hci' = "absent" => hci = "absent",
         Attaching(thread[c]) => Attaching(thread'[c]) \/ (~Waits("stop") /\ hci' # "absent")
  PROVE  QueueInv(thread[c])'
<1>1. \A i, w : Asks(i, w) => i \in 1 .. Len(ctl)
  BY DEF Asks
<1>2. \A v : Waits(v)' => Waits(v)
  BY <1>1 DEF Waits
<1>3. \A v, w : InOrder(v, w)' => InOrder(v, w) /\ Waits(v)
  BY <1>1 DEF InOrder, Waits
<1>4. \A i, j, k \in 1 .. Len(ctl') :
        i < j /\ j < k /\ Asks(i, "stop")' /\ Asks(j, "start")' => ~Asks(k, "stop")'
  BY <1>1 DEF QueueInv
<1> QED BY <1>2, <1>3, <1>4 DEF QueueInv

(* The steps of a lone caller in order, before any time-out. *)
LEMMA QueueSteps ==
  ASSUME NEW c \in Caller, Caller = {c}, UseRfkill, PowerWorks, MayFail \subseteq {"devup"},
         UInv(c), Step(c), ~timedOut, ~timedOut'
  PROVE  QueueInv(thread[c])'
<1> DEFINE x == thread[c]
           y == thread'[c]
<1>0. /\ thread \in [Caller -> Thread] /\ x \in Thread /\ LocalInv(x) /\ Answers(x) /\ ~Late(x)
      /\ IInv /\ AppInv /\ PlatformTypeOK /\ QueueInv(x) /\ DeviceInv(x)
  BY StepInCall DEF UInv, PInv, AnswersInv, IInv, TypeOK
<1>1. y.op = x.op
  BY <1>0, StepKeepsOp
<1>2. ~Fails("property") /\ ~Fails("socket") /\ ~Refused
  BY DEF Fails, Refused
<1>3. (UNCHANGED platformVars) =>
         /\ \A i, w : Asks(i, w)' => Asks(i, w)
         /\ svc'["hciattach"] = svc["hciattach"] /\ hci' = hci
  BY DEF platformVars, Asks
<1>4. CASE EnterPower(c) \/ ProbeRfkill(c) \/ SetStatePath(c) \/ OpenStatePath(c) \/ LeavePower(c)
           \/ HciGetDevInfo(c) \/ Return(c)
  <2>1. UNCHANGED platformVars /\ x.pc \notin {"mksock", "devup", "retry"}
    BY <1>0, <1>4, EnterPowerStep, ProbeRfkillStep, SetStatePathStep, OpenStatePathStep, LeavePowerStep,
       HciGetDevInfoStep, ReturnStep
  <2>2. ~Attaching(x)
    BY <2>1 DEF Attaching
  <2> QED BY <1>0, <1>3, <2>1, <2>2, QueueKept
<1>5. CASE StateFileIo(c)
  <2>1. x.pc = "rf_io" /\ hci' = hci /\ UNCHANGED <<svc, ctl>>
    BY <1>0, <1>5, StateFileIoStep DEF SwitchPower, platformVars
  <2>2. ~Attaching(x) /\ \A i, w : Asks(i, w)' => Asks(i, w)
    BY <2>1 DEF Attaching, Asks
  <2> QED BY <1>0, <2>1, <2>2, QueueKept
<1>6. CASE StartHciattach(c)
  <2>1. /\ PropertySet("hciattach", "start") /\ x.op = "enable" /\ y.pc = "mksock"
        /\ hci' = hci /\ svc' = svc
    BY <1>0, <1>2, <1>6, StartHciattachStep DEF LocalInv, PropertySet
  <2>2. Attaching(y)
    BY <1>1, <2>1 DEF Attaching
  <2>3. /\ Len(ctl) \in Nat /\ Len(ctl') = Len(ctl) + 1
        /\ \A i, w : Asks(i, w)' <=> Asks(i, w) \/ (i = Len(ctl) + 1 /\ w = "start")
    BY <1>0, <2>1, AsksAppended DEF Service, Verb
  <2>4. \A i : Asks(i, "stop")' <=> Asks(i, "stop")
    BY <2>3
  <2>5. \A i, w : Asks(i, w) => i \in 1 .. Len(ctl)
    BY DEF Asks
  <2>6. Waits("stop")' => Waits("stop")
    BY <2>4, <2>5 DEF Waits
  <2>7. \A i, k : i < k /\ Asks(i, "start")' /\ Asks(k, "stop")' => Asks(i, "start") /\ Asks(k, "stop")
    BY <2>3, <2>5
  <2>8. InOrder("start", "stop")' => InOrder("start", "stop")
    BY <2>5, <2>7 DEF InOrder
  <2>9. \A i, j, k \in 1 .. Len(ctl') :
          i < j /\ j < k /\ Asks(i, "stop")' /\ Asks(j, "start")' => ~Asks(k, "stop")'
    BY <1>0, <2>4, <2>5, <2>7 DEF QueueInv
  <2> QED BY <1>0, <2>1, <2>2, <2>6, <2>8, <2>9 DEF QueueInv
<1>7. CASE create_hci_sock(c)
  <2>1. UNCHANGED platformVars /\ x.pc = "mksock" /\ ~TableFull
    BY <1>0, <1>7, CreateSockStep, RoomLeft
  <2>2. Attaching(x) => Attaching(y)
    BY <1>0, <1>1, <1>2, <1>7, <2>1, CreateSockStep DEF Attaching, WithSocket
  <2> QED BY <1>0, <1>3, <2>1, <2>2, QueueKept
<1>8. CASE HciDevUp(c)
  <2>1. x.pc = "devup" /\ x.op = "enable"
    BY <1>0, <1>8, HciDevUpStep DEF LocalInv
  <2>2. Waits("stop") => ~firmware
    BY <1>0, <2>1 DEF DeviceInv, PowersOff, PowerPc
  <2>3. CASE DeviceAnswers /\ SetDevice("up")
    <3>1. hci' = "up" /\ UNCHANGED <<svc, ctl>> /\ ~Waits("stop")
      BY <2>2, <2>3 DEF DeviceAnswers, SetDevice
    <3>2. \A i, w : Asks(i, w)' => Asks(i, w)
      BY <3>1 DEF Asks
    <3> QED BY <1>0, <3>1, <3>2, QueueKept
  <2>4. CASE hci = "up" /\ UNCHANGED platformVars
    <3>1. ~Waits("stop")
      BY <1>0, <2>4 DEF DeviceInv
    <3> QED BY <1>0, <1>3, <2>4, <3>1, QueueKept
  <2>5. CASE UNCHANGED platformVars /\ y.pc = "retry"
    <3>1. Attaching(y)
      BY <1>1, <2>1, <2>5 DEF Attaching
    <3> QED BY <1>0, <1>3, <2>5, <3>1, QueueKept
  <2> QED BY <1>0, <1>8, <2>3, <2>4, <2>5, HciDevUpStep
<1>9. CASE RetryDevUp(c)
  <2>1. y.pc = "mksock" /\ x.pc = "retry" /\ x.op = "enable" /\ UNCHANGED platformVars
    BY <1>0, <1>9, RetryDevUpStep DEF LocalInv
  <2>2. Attaching(y)
    BY <1>1, <2>1 DEF Attaching
  <2> QED BY <1>0, <1>3, <2>1, <2>2, QueueKept
<1>10. CASE GiveUp(c)
  BY <1>0, <1>10, GiveUpStep DEF Late
<1>11. CASE StartBluetoothd(c) \/ StopBluetoothd(c)
  <2>1. /\ x.pc \in {"start_bluetoothd", "stop_bluetoothd"}
        /\ \E v \in Verb : PropertySet("bluetoothd", v)
    BY <1>0, <1>2, <1>11, StartBluetoothdStep, StopBluetoothdStep DEF Verb
  <2>2. ~Attaching(x) /\ hci' = hci /\ svc' = svc
    BY <2>1 DEF Attaching, PropertySet
  <2>3. \A i, w : Asks(i, w)' => Asks(i, w)
    BY <1>0, <2>1, AsksAppended DEF Service
  <2> QED BY <1>0, <2>2, <2>3, QueueKept
<1>12. CASE HciDevDown(c)
  <2>1. x.pc = "devdown" /\ hci' = (IF IsOpenOn(x.hci_sock, "hci") /\ hci = "up" THEN "down" ELSE hci)
        /\ UNCHANGED <<svc, ctl>>
    BY <1>0, <1>12, HciDevDownStep DEF SetDevice
  <2>2. /\ ~Attaching(x) /\ \A i, w : Asks(i, w)' => Asks(i, w)
        /\ hci' = "absent" => hci = "absent"
    BY <2>1 DEF Attaching, Asks
  <2> QED BY <1>0, <2>1, <2>2, QueueKept
<1>13. CASE StopHciattach(c)
  <2>1. /\ PropertySet("hciattach", "stop") /\ x.pc = "stop_hciattach"
        /\ hci' = hci /\ svc' = svc /\ y.pc = "rf_enter"
    BY <1>0, <1>2, <1>13, StopHciattachStep DEF PropertySet
  <2>2. ~Attaching(x)
    BY <2>1 DEF Attaching
  <2>3. /\ Len(ctl) \in Nat /\ Len(ctl') = Len(ctl) + 1
        /\ \A i, w : Asks(i, w)' <=> Asks(i, w) \/ (i = Len(ctl) + 1 /\ w = "stop")
    BY <1>0, <2>1, AsksAppended DEF Service, Verb
  <2>4. \A i : Asks(i, "start")' <=> Asks(i, "start")
    BY <2>3
  <2>5. \A i, w : Asks(i, w) => i \in 1 .. Len(ctl)
    BY DEF Asks
  <2>6. Waits("start")' => Waits("start")
    BY <2>4, <2>5 DEF Waits
  <2>7. \A i, j : i < j /\ Asks(i, "stop")' /\ Asks(j, "start")' => Asks(i, "stop") /\ Asks(j, "start")
    BY <2>3, <2>5
  <2>8. ~InOrder("stop", "start")
    BY <1>0, <2>2 DEF QueueInv
  <2>9. ~InOrder("stop", "start")'
    BY <2>5, <2>7, <2>8 DEF InOrder
  <2>10. \A i, j, k \in 1 .. Len(ctl') :
          i < j /\ j < k /\ Asks(i, "stop")' /\ Asks(j, "start")' => ~Asks(k, "stop")'
    BY <2>9 DEF InOrder
  <2>11. hci' = "absent" => svc["hciattach"] = "stopped" /\ ~Waits("start")'
    BY <1>0, <2>1, <2>2, <2>6 DEF QueueInv
  <2>12. InOrder("start", "stop")' => Waits("start")'
    BY DEF InOrder, Waits
  <2> QED BY <2>1, <2>9, <2>10, <2>11, <2>12 DEF QueueInv
<1> QED
  BY <1>4, <1>5, <1>6, <1>7, <1>8, <1>9, <1>10, <1>11, <1>12, <1>13 DEF Step

(* What a step may do to the device and the queue without DeviceInv being  *)
(* in question.                                                            *)
LEMMA DeviceKept ==
  ASSUME NEW c \in Caller, DeviceInv(thread[c]), UNCHANGED <<power, firmware, hci>>,
         Waits("stop")' => Waits("stop"), want'["hciattach"] = want["hciattach"],
         thread'[c].op = thread[c].op, thread'[c].pc # "idle",
         thread'[c].op = "enable" => thread'[c].ret # 0 /\ thread'[c].pc # "start_bluetoothd",
         Attaching(thread'[c]) => Attaching(thread[c]),
         PowersOff(thread[c]) /\ thread[c].pc # "rf_out" <=> PowersOff(thread'[c]) /\ thread'[c].pc # "rf_out",
         PowersOff(thread'[c]) => PowersOff(thread[c]),
         thread'[c].pc = "stop_hciattach" => hci # "up",
         thread'[c].pc \in PowerPc => thread'[c].job \in {"enable_on", "disable_off", "query"}
  PROVE  DeviceInv(thread[c])'
  BY DEF DeviceInv, FoundUp

LEMMA DeviceSteps ==
  ASSUME NEW c \in Caller, Caller = {c}, UseRfkill, PowerWorks, MayFail \subseteq {"devup"},
         UInv(c), Step(c), ~timedOut, ~timedOut'
  PROVE  DeviceInv(thread[c])'
<1> DEFINE x == thread[c]
           y == thread'[c]
<1>0. /\ thread \in [Caller -> Thread] /\ x \in Thread /\ LocalInv(x) /\ Answers(x) /\ ~Late(x)
      /\ IInv /\ AppInv /\ PlatformTypeOK /\ QueueInv(x) /\ DeviceInv(x) /\ PInv(c)
  BY StepInCall DEF UInv, PInv, AnswersInv, IInv, TypeOK
<1>1. y.op = x.op
  BY <1>0, StepKeepsOp
<1>2. ~Fails("property") /\ ~Fails("socket") /\ ~Fails("io") /\ ~Refused
  BY DEF Fails, Refused
<1>3. (UNCHANGED platformVars) =>
         /\ UNCHANGED <<power, firmware, hci, want>>
         /\ Waits("stop")' => Waits("stop")
  BY DEF platformVars, Waits, Asks
<1>4. x.op = "enable" /\ x.ret = 0 => x.pc \in {"start_bluetoothd", "out"}
  BY <1>0, StepInCall DEF DeviceInv
<1> USE DEF Attaching, PowersOff, PowerPc
<1>5. CASE EnterPower(c) \/ SetStatePath(c)
  BY <1>0, <1>1, <1>3, <1>4, <1>5, EnterPowerStep, SetStatePathStep, DeviceKept
     DEF SameCall, SamePower, DeviceInv
<1>6. CASE ProbeRfkill(c)
  BY <1>0, <1>1, <1>3, <1>4, <1>6, ProbeRfkillStep, SearchSucceeds, DeviceKept DEF SameCall, DeviceInv
<1>7. CASE OpenStatePath(c)
  BY <1>0, <1>1, <1>3, <1>4, <1>7, OpenStatePathStep, OpenSucceeds, DeviceKept DEF SameCall, DeviceInv
<1>8. CASE StateFileIo(c)
  <2>1. /\ x.pc = "rf_io" /\ IsOpenOn(x.fd, "rfkill") /\ y.pc = "rf_out" /\ y.job = x.job /\ y.ret = x.ret
        /\ x.job \in {"enable_on", "disable_off", "query"}
    BY <1>0, <1>8, StateFileIoStep, OwnDescriptors DEF SameCall, DeviceInv
  <2>2. x.op = "enable" => y.ret # 0
    BY <1>4, <2>1
  <2>3. IF x.job = "query" THEN UNCHANGED platformVars ELSE SwitchPower(TurnsOn(x.job))
    BY <1>0, <1>2, <1>8, <2>1, StateFileIoStep
  <2>4. CASE x.job = "query"
    BY <1>0, <1>1, <1>3, <2>1, <2>2, <2>3, <2>4, DeviceKept
  <2>5. CASE x.job = "enable_on"
    <3>1. power' /\ (firmware' <=> firmware) /\ UNCHANGED <<hci, ctl, want>>
      BY <2>3, <2>5 DEF SwitchPower, TurnsOn
    <3>2. Waits("stop")' <=> Waits("stop")
      BY <3>1 DEF Waits, Asks
    <3> QED BY <1>0, <1>1, <2>1, <2>2, <2>5, <3>1, <3>2 DEF DeviceInv, FoundUp
  <2>6. CASE x.job = "disable_off"
    <3>1. ~firmware' /\ UNCHANGED <<hci, ctl, want>> /\ hci # "up"
      BY <1>0, <2>1, <2>3, <2>6 DEF SwitchPower, TurnsOn, DeviceInv
    <3> QED BY <1>0, <1>1, <2>1, <2>2, <3>1 DEF DeviceInv, FoundUp
  <2> QED BY <2>1, <2>4, <2>5, <2>6
<1>9. CASE LeavePower(c)
  <2>1. /\ x.pc = "rf_out" /\ x.job \in {"enable_on", "disable_off", "query"}
        /\ y.pc \in {"out", "start_hciattach", "mksock"} /\ UNCHANGED platformVars
    BY <1>0, <1>9, LeavePowerStep DEF DeviceInv
  <2>2. x.op = "enable" => x.job = "enable_on"
    BY <1>0, <2>1 DEF Answers, LocalInv
  <2>3. x.op = "enable" => y.ret # 0 /\ y.pc # "mksock"
    BY <1>4, <1>9, <1>0, <2>1, <2>2, LeavePowerStep
  <2> QED BY <1>0, <1>1, <1>3, <2>1, <2>3, DeviceKept
<1>10. CASE StartHciattach(c)
  <2>1. /\ PropertySet("hciattach", "start") /\ x.op = "enable" /\ y.pc = "mksock"
        /\ x.pc = "start_hciattach" /\ y.ret = x.ret
    BY <1>0, <1>2, <1>10, StartHciattachStep DEF LocalInv
  <2>2. want'["hciattach"] = "start" /\ UNCHANGED <<power, firmware, hci>>
    BY <1>0, <2>1, RequestMade DEF Service, Verb
  <2>3. \A i : Asks(i, "stop")' => Asks(i, "stop")
    BY <1>0, <2>1, AsksAppended DEF Service, Verb
  <2>4. Waits("stop")' => Waits("stop")
    BY <2>3 DEF Waits, Asks
  <2> QED BY <1>0, <1>1, <1>4, <2>1, <2>2, <2>4 DEF DeviceInv, FoundUp
<1>11. CASE create_hci_sock(c)
  <2>1. UNCHANGED platformVars /\ x.pc = "mksock" /\ ~TableFull
    BY <1>0, <1>11, CreateSockStep, RoomLeft
  <2>2. y.pc \in {"devup", "devdown", "devinfo"} /\ y.ret = x.ret /\ (y.pc = "devup" => y.op = "enable")
    BY <1>0, <1>1, <1>2, <1>11, <2>1, CreateSockStep DEF WithSocket, Op, LocalInv
  <2> QED BY <1>0, <1>1, <1>3, <1>4, <2>1, <2>2, DeviceKept
<1>12. CASE HciDevUp(c)
  <2>1. x.pc = "devup" /\ x.op = "enable"
    BY <1>0, <1>12, HciDevUpStep DEF LocalInv
  <2>2. (Waits("stop") => ~firmware) /\ want["hciattach"] = "start"
    BY <1>0, <2>1 DEF DeviceInv
  <2>3. CASE DeviceAnswers /\ SetDevice("up") /\ y.pc = "start_bluetoothd" /\ y.ret = 0
    <3>1. hci' = "up" /\ power' /\ firmware' /\ want'["hciattach"] = "start" /\ ~Waits("stop")'
      BY <2>2, <2>3 DEF DeviceAnswers, SetDevice, Waits, Asks
    <3> QED BY <1>1, <2>1, <2>3, <3>1 DEF DeviceInv, FoundUp
  <2>4. CASE hci = "up" /\ UNCHANGED platformVars /\ y.pc = "start_bluetoothd" /\ y.ret = -1
    <3>1. y.ret # 0
      BY <2>4
    <3> QED BY <1>0, <1>1, <1>3, <2>1, <2>2, <2>4, <3>1 DEF DeviceInv, FoundUp
  <2>5. CASE UNCHANGED platformVars /\ y.pc = "retry" /\ y.ret = -1
    <3>1. y.ret # 0
      BY <2>5
    <3> QED BY <1>0, <1>1, <1>3, <2>1, <2>5, <3>1, DeviceKept
  <2> QED BY <1>0, <1>12, <2>3, <2>4, <2>5, HciDevUpStep
<1>13. CASE RetryDevUp(c)
  <2>1. y.pc = "mksock" /\ x.pc = "retry" /\ x.op = "enable" /\ UNCHANGED platformVars /\ y.ret = x.ret
    BY <1>0, <1>13, RetryDevUpStep DEF LocalInv
  <2> QED BY <1>0, <1>1, <1>3, <1>4, <2>1, DeviceKept
<1>14. CASE GiveUp(c)
  BY <1>0, <1>14, GiveUpStep DEF Late
<1>15. CASE StartBluetoothd(c)
  <2>1. /\ x.pc = "start_bluetoothd" /\ x.op = "enable" /\ PropertySet("bluetoothd", "start")
        /\ y.pc = "out" /\ y.ret = 0
    BY <1>0, <1>2, <1>15, StartBluetoothdStep DEF Answers
  <2>2. /\ want'["hciattach"] = want["hciattach"] /\ want'["bluetoothd"] = "start"
        /\ UNCHANGED <<power, firmware, hci>>
    BY <1>0, <2>1, RequestMade DEF Service, Verb
  <2>3. \A i, w : Asks(i, w)' => Asks(i, w)
    BY <1>0, <2>1, AsksAppended DEF Service, Verb
  <2>4. Waits("stop")' => Waits("stop")
    BY <2>3 DEF Waits, Asks
  <2>5. hci = "up" /\ want["hciattach"] = "start"
    BY <1>0, <2>1 DEF DeviceInv, FoundUp
  <2> QED BY <1>0, <1>1, <2>1, <2>2, <2>4, <2>5 DEF DeviceInv, FoundUp
<1>16. CASE StopBluetoothd(c)
  <2>1. /\ x.pc = "stop_bluetoothd" /\ x.op = "disable" /\ PropertySet("bluetoothd", "stop")
        /\ y.pc = "mksock"
    BY <1>0, <1>2, <1>16, StopBluetoothdStep DEF LocalInv
  <2>2. want'["hciattach"] = want["hciattach"] /\ UNCHANGED <<power, firmware, hci>>
    BY <1>0, <2>1, RequestMade DEF Service, Verb
  <2>3. \A i, w : Asks(i, w)' => Asks(i, w)
    BY <1>0, <2>1, AsksAppended DEF Service, Verb
  <2>4. Waits("stop")' => Waits("stop")
    BY <2>3 DEF Waits, Asks
  <2> QED BY <1>0, <1>1, <2>1, <2>2, <2>4, DeviceKept
<1>17. CASE HciDevDown(c)
  <2>1. /\ x.pc = "devdown" /\ y.pc = "stop_hciattach" /\ x.op = "disable"
        /\ SetDevice(IF IsOpenOn(x.hci_sock, "hci") /\ hci = "up" THEN "down" ELSE hci)
    BY <1>0, <1>17, HciDevDownStep DEF Answers
  <2>2. hci' # "up" /\ UNCHANGED <<power, firmware, ctl, want>>
    BY <1>0, <2>1, OwnDescriptors DEF SetDevice
  <2>3. Waits("stop")' => Waits("stop")
    BY <2>2 DEF Waits, Asks
  <2> QED BY <1>0, <1>1, <2>1, <2>2, <2>3 DEF DeviceInv, FoundUp
<1>18. CASE StopHciattach(c)
  <2>1. /\ x.pc = "stop_hciattach" /\ x.op = "disable" /\ PropertySet("hciattach", "stop")
        /\ y.pc = "rf_enter" /\ y.job = "disable_off"
    BY <1>0, <1>2, <1>18, StopHciattachStep DEF Answers
  <2>2. hci # "up" /\ hci' = hci
    BY <1>0, <2>1 DEF PropertySet, DeviceInv
  <2> QED BY <1>1, <2>1, <2>2 DEF DeviceInv, FoundUp
<1>19. CASE HciGetDevInfo(c)
  <2>1. x.pc = "devinfo" /\ y.pc = "out" /\ x.op = "is_enabled" /\ UNCHANGED platformVars
    BY <1>0, <1>19, HciGetDevInfoStep DEF Answers
  <2> QED BY <1>0, <1>1, <1>3, <2>1, DeviceKept
<1>20. CASE Return(c)
  <2>1. x.pc = "out" /\ y.pc = "idle" /\ y.ret = x.ret /\ UNCHANGED platformVars
    BY <1>0, <1>20, ReturnStep
  <2> QED BY <1>0, <1>1, <1>3, <2>1 DEF DeviceInv, FoundUp
<1> QED
  BY <1>5, <1>6, <1>7, <1>8, <1>9, <1>10, <1>11, <1>12, <1>13, <1>14, <1>15, <1>16, <1>17, <1>18,
     <1>19, <1>20 DEF Step

(* What init, hciattach and new calls do to the queue and the device. *)
LEMMA InitHandlesUInv ==
  ASSUME NEW c \in Caller, PlatformTypeOK, InitHandles, UNCHANGED thread,
         QueueInv(thread[c]), DeviceInv(thread[c])
  PROVE  QueueInv(thread[c])' /\ DeviceInv(thread[c])'
<1> DEFINE x == thread[c]
<1>0. x = thread'[c] /\ UNCHANGED <<power, firmware, want>>
  BY DEF InitHandles
<1>1. /\ Len(ctl) \in Nat
      /\ \A i, w : Asks(i, w)' => i \in Nat /\ i >= 1 /\ Asks(i + 1, w)
      /\ \/ Asks(1, "stop") /\ hci' = "absent" /\ svc'["hciattach"] = "stopped"
         \/ Asks(1, "start") /\ hci' = hci
         \/ hci' = hci /\ svc'["hciattach"] = svc["hciattach"]
  BY AsksHandled
<1>2. \A i, w : Asks(i, w) => i \in 1 .. Len(ctl)
  BY DEF Asks
<1>3. \A w : Waits(w)' => \E i \in 1 .. Len(ctl) : i > 1 /\ Asks(i, w)
  <2> SUFFICES ASSUME NEW w, Waits(w)' PROVE \E i \in 1 .. Len(ctl) : i > 1 /\ Asks(i, w)
    OBVIOUS
  <2>1. PICK i : Asks(i, w)'
    BY DEF Waits
  <2>2. i + 1 \in 1 .. Len(ctl) /\ i + 1 > 1 /\ Asks(i + 1, w)
    BY <1>1, <1>2, <2>1
  <2> QED BY <2>2
<1>4. \A v, w : InOrder(v, w)' =>
        \E i, j \in 1 .. Len(ctl) : 1 < i /\ i < j /\ Asks(i, v) /\ Asks(j, w)
  <2> SUFFICES ASSUME NEW v, NEW w, InOrder(v, w)'
               PROVE  \E i, j \in 1 .. Len(ctl) : 1 < i /\ i < j /\ Asks(i, v) /\ Asks(j, w)
    OBVIOUS
  <2>1. PICK i, j \in 1 .. Len(ctl') : i < j /\ Asks(i, v)' /\ Asks(j, w)'
    BY DEF InOrder
  <2>2. /\ i + 1 \in 1 .. Len(ctl) /\ j + 1 \in 1 .. Len(ctl) /\ 1 < i + 1 /\ i + 1 < j + 1
        /\ Asks(i + 1, v) /\ Asks(j + 1, w)
    BY <1>1, <1>2, <2>1
  <2> QED BY <2>2
<1>5. \A i, j, k \in 1 .. Len(ctl') :
        i < j /\ j < k /\ Asks(i, "stop")' /\ Asks(j, "start")' => ~Asks(k, "stop")'
  <2> SUFFICES ASSUME NEW i \in 1 .. Len(ctl'), NEW j \in 1 .. Len(ctl'), NEW k \in 1 .. Len(ctl'),
                      i < j, j < k, Asks(i, "stop")', Asks(j, "start")', Asks(k, "stop")'
               PROVE  FALSE
    OBVIOUS
  <2>1. /\ i + 1 < j + 1 /\ j + 1 < k + 1 /\ Asks(i + 1, "stop") /\ Asks(j + 1, "start")
        /\ Asks(k + 1, "stop")
    BY <1>1
  <2> QED BY <1>2, <2>1 DEF QueueInv
<1>6. \A w : Waits(w)' => Waits(w)
  BY <1>3 DEF Waits
<1>7. \A v, w : InOrder(v, w)' => InOrder(v, w)
  BY <1>4 DEF InOrder
<1>8. CASE Asks(1, "stop") /\ hci' = "absent" /\ svc'["hciattach"] = "stopped"
  <2>1. 1 \in 1 .. Len(ctl) /\ Waits("stop")
    BY <1>2, <1>8 DEF Waits
  <2>2. ~InOrder("start", "stop")'
    BY <1>4, <1>8, <2>1 DEF QueueInv
  <2>3. ~Attaching(x) => ~Waits("start")'
    <3>1. Waits("start")' => InOrder("stop", "start")
      BY <1>3, <1>8, <2>1 DEF InOrder
    <3> QED BY <3>1 DEF QueueInv
  <2>4. hci # "up" /\ ~FoundUp(x)
    BY <2>1 DEF DeviceInv
  <2>5. QueueInv(x)'
    BY <1>0, <1>5, <1>7, <1>8, <2>2, <2>3 DEF QueueInv
  <2> QED BY <1>0, <1>6, <1>8, <2>4, <2>5 DEF DeviceInv
<1>9. CASE Asks(1, "start") /\ hci' = hci
  <2>1. 1 \in 1 .. Len(ctl) /\ Waits("start")
    BY <1>2, <1>9 DEF Waits
  <2>2. Waits("stop")' => InOrder("start", "stop")
    BY <1>3, <1>9, <2>1 DEF InOrder
  <2>3. QueueInv(x)'
    BY <1>0, <1>5, <1>7, <1>9, <2>1, <2>2 DEF QueueInv
  <2> QED BY <1>0, <1>6, <1>9, <2>3 DEF DeviceInv
<1>10. CASE hci' = hci /\ svc'["hciattach"] = svc["hciattach"]
  <2>1. QueueInv(x)'
    BY <1>0, <1>5, <1>6, <1>7, <1>10 DEF QueueInv
  <2> QED BY <1>0, <1>6, <1>10, <2>1 DEF DeviceInv
<1> QED BY <1>1, <1>8, <1>9, <1>10

LEMMA InitUInv ==
  ASSUME NEW c \in Caller
  PROVE  Init => UInv(c)
<1> SUFFICES ASSUME Init PROVE UInv(c)
  OBVIOUS
<1>1. PInv(c) /\ thread[c].pc = "idle" /\ thread[c].op = "none"
  BY InitPInv DEF Init
<1>2. PICK on \in BOOLEAN :
        /\ power = (on \/ ~UseRfkill) /\ firmware = on
        /\ hci = IF on THEN "up" ELSE "absent"
        /\ svc = [s \in Service |-> IF on THEN "running" ELSE "stopped"]
        /\ ctl = << >>
  BY DEF Init, PlatformInit
<1>3. Len(ctl) = 0
  BY <1>2
<1>4. \A i, v : ~Asks(i, v)
  BY <1>3 DEF Asks
<1>5. hci = "absent" => svc["hciattach"] = "stopped"
  BY <1>2 DEF Service
<1>6. hci = "up" => power /\ firmware
  BY <1>2
<1>7. QueueInv(thread[c])
  BY <1>4, <1>5 DEF QueueInv, InOrder, Waits
<1>8. DeviceInv(thread[c])
  BY <1>1, <1>4, <1>6 DEF DeviceInv, Waits, FoundUp, Attaching, PowersOff, PowerPc
<1> QED BY <1>1, <1>7, <1>8 DEF UInv

LEMMA NextUInv ==
  ASSUME NEW c \in Caller, Caller = {c}, UseRfkill, PowerWorks, ~DaemonsMayExit, MayFail \subseteq {"devup"}
  PROVE  UInv(c) /\ [Next]_vars => UInv(c)'
<1> SUFFICES ASSUME UInv(c), [Next]_vars PROVE UInv(c)'
  OBVIOUS
<1> DEFINE x == thread[c]
           y == thread'[c]
<1>0. /\ PInv(c) /\ PInv(c)' /\ thread \in [Caller -> Thread] /\ PlatformTypeOK /\ LocalInv(x)
      /\ timedOut \in BOOLEAN
  BY NextPInv DEF UInv, PInv, IInv, TypeOK
<1> SUFFICES ASSUME ~timedOut' PROVE QueueInv(x)' /\ DeviceInv(x)'
  BY <1>0 DEF UInv
<1>1. ASSUME Step(c) PROVE QueueInv(x)' /\ DeviceInv(x)'
  BY <1>0, <1>1, StepTimedOut, QueueSteps, DeviceSteps
<1>2. ASSUME UNCHANGED timedOut PROVE QueueInv(x) /\ DeviceInv(x)
  BY <1>2 DEF UInv
<1>3. ASSUME UNCHANGED platformVars
      PROVE  /\ \A i, w : Asks(i, w)' => Asks(i, w)
             /\ Waits("stop")' => Waits("stop")
             /\ svc'["hciattach"] = svc["hciattach"] /\ UNCHANGED <<power, firmware, hci, want>>
  BY <1>3 DEF platformVars, Waits, Asks
<1>4. ASSUME NEW f \in Op, Begin(c, f) PROVE QueueInv(x)' /\ DeviceInv(x)'
  <2>1. /\ x.pc = "idle" /\ y.pc = FirstStep(f) /\ y.op = f /\ y.ret = -1
        /\ y.job = IF f = "enable" THEN "enable_on" ELSE "query"
        /\ UNCHANGED platformVars /\ UNCHANGED timedOut
    BY <1>0, <1>4, BeginStep
  <2>2. /\ FirstStep(f) \in {"stop_bluetoothd", "rf_enter"}
        /\ FirstStep(f) = "rf_enter" => f # "disable"
    BY DEF FirstStep, Op
  <2>3. y.ret # 0 /\ ~Attaching(x) /\ ~Attaching(y) /\ ~PowersOff(y) /\ ~PowersOff(x)
    BY <2>1, <2>2 DEF Attaching, PowersOff, PowerPc
  <2>4. QueueInv(x)'
    BY <1>2, <1>3, <2>1, <2>3, QueueKept
  <2> QED BY <1>2, <1>3, <2>1, <2>2, <2>3, <2>4 DEF DeviceInv, FoundUp
<1>5. ASSUME UNCHANGED <<platformVars, thread, timedOut>> PROVE QueueInv(x)' /\ DeviceInv(x)'
  <2>1. QueueInv(x)'
    BY <1>2, <1>3, <1>5, QueueKept
  <2> QED BY <1>2, <1>3, <1>5, <2>1 DEF DeviceInv
<1>6. ASSUME Platform(InitHandles) PROVE QueueInv(x)' /\ DeviceInv(x)'
  BY <1>0, <1>2, <1>6, InitHandlesUInv DEF Platform
<1>7. ASSUME Platform(HciattachAttaches) PROVE QueueInv(x)' /\ DeviceInv(x)'
  <2>1. /\ svc["hciattach"] = "running" /\ hci = "absent" /\ power /\ firmware' /\ hci' = "down"
        /\ UNCHANGED <<power, svc, ctl, want, thread, timedOut>>
    BY <1>7 DEF Platform, HciattachAttaches
  <2>2. QueueInv(x) /\ DeviceInv(x) /\ x = y
    BY <1>2, <2>1
  <2>3. Attaching(x) /\ ~Waits("stop") /\ ~FoundUp(x)
    BY <2>1, <2>2 DEF QueueInv, DeviceInv
  <2>4. /\ \A i, w : Asks(i, w)' => Asks(i, w)
        /\ Waits("stop")' => Waits("stop")
    BY <2>1 DEF Waits, Asks
  <2>5. QueueInv(x)'
    BY <2>1, <2>2, <2>4, QueueKept
  <2> QED BY <2>1, <2>2, <2>3, <2>4, <2>5 DEF DeviceInv
<1> QED
  BY <1>1, <1>4, <1>5, <1>6, <1>7 DEF Next, AppOpen, AppClose, Platform, PlatformNext, DaemonExits, vars

(* A bt_enable that answers 0 leaves a usable adapter, until the next call *)
(* of the process: no request of a former call that still waits in init's  *)
(* queue takes the device away, however often HCIDEVUP fails (before the   *)
(* first call that runs out of attempts).                                  *)
THEOREM SuccessMeansUsable ==
  ASSUME NEW c, Caller = {c}, UseRfkill, PowerWorks, ~DaemonsMayExit, MayFail \subseteq {"devup"}
  PROVE  Spec => []EnabledMeansUsable
<1>1. c \in Caller
  OBVIOUS
<1>2. UInv(c) => EnabledMeansUsable
  <2> SUFFICES ASSUME UInv(c), Returned(c, "enable", 0), ~timedOut
               PROVE  power /\ firmware /\ hci = "up" /\ want = [s \in Service |-> "start"]
    BY DEF EnabledMeansUsable
  <2>1. /\ power /\ firmware /\ hci = "up"
        /\ want["hciattach"] = "start" /\ want["bluetoothd"] = "start"
    BY DEF UInv, DeviceInv, FoundUp, Returned
  <2>2. want \in [Service -> Verb]
    BY DEF UInv, PInv, IInv, TypeOK, PlatformTypeOK
  <2> QED BY <2>1, <2>2 DEF Service
<1>3. Init => UInv(c)
  BY <1>1, InitUInv
<1>4. UInv(c) /\ [Next]_vars => UInv(c)'
  BY <1>1, NextUInv
<1> QED BY <1>2, <1>3, <1>4, PTL DEF Spec

=============================================================================
