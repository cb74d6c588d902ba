---------------------------- MODULE BtTestProofs ----------------------------
(***************************************************************************)
(* Proofs about BtTest: what the exit status 0 of an enable and a disable  *)
(* means whatever former processes left behind, and in which order a       *)
(* process stops what runs on the chip and cuts its power; for every       *)
(* descriptor table, number of attempts and length of init's queue.        *)
(***************************************************************************)
EXTENDS BtTest, BluedroidProofs

(* A process is dead, or in the one call that it was started for, or is    *)
(* another client.                                                         *)
ProcessInv ==
  /\ ~alive => Idle /\ ~Called
  /\ alive /\ argv # "client" /\ Called => thread[Main].op = argv
  /\ ~Idle => Answers(thread[Main])
  /\ thread[Main].pc # "rf_out" => thread[Main].val = -1

(* Nobody else has descriptors, so the process holds what it opened, also  *)
(* after a time-out.                                                       *)
OwnFiles(t) ==
  /\ \/ t.pc \in {"devup", "retry", "start_bluetoothd", "devdown", "stop_hciattach", "devinfo"}
     \/ t.pc \in PowerPc /\ t.job \in {"daemon_off", "disable_off"}
     => OwnedAs(t.hci_sock, Main, "hci")
  /\ HoldsRfd(t) => OwnedAs(t.fd, Main, "rfkill")

BInv == IInv /\ AlwaysPowered /\ ProcessInv /\ OwnFiles(thread[Main])
-----------------------------------------------------------------------------
(* How far a bt_disable has come: bluetoothd asked to stop, then the       *)
(* device down, then hciattach asked to stop, then the power off.          *)
Asked(verb) == want["hciattach"] = verb /\ want["bluetoothd"] = verb
SwitchingOff(t) == t.pc \in PowerPc /\ t.job = "disable_off"
Disabled(t) == t.op = "disable" /\ t.ret = 0

DisableInv(t) ==
  /\ t.op = "disable" /\ t.pc \in {"mksock", "devdown", "stop_hciattach"} =>
       want["bluetoothd"] = "stop"
  /\ t.pc = "stop_hciattach" \/ SwitchingOff(t) \/ Disabled(t) => hci # "up"
  /\ SwitchingOff(t) \/ Disabled(t) => Asked("stop")
  /\ (SwitchingOff(t) /\ t.pc = "rf_out" /\ t.val = 0) \/ Disabled(t) => power = ~UseRfkill

(* What a bttest that has disabled leaves stays until the next process.    *)
LeftDisabled ==
  ~alive /\ argv = "disable" /\ status = 0 => hci # "up" /\ Asked("stop") /\ power = ~UseRfkill

DInv == BInv /\ DisableInv(thread[Main]) /\ LeftDisabled
-----------------------------------------------------------------------------
(* A chip whose power was cut under its device has hciattach on the way    *)
(* out; it takes the device with it.                                       *)
Pending(s, verb) == \E i \in 1 .. Len(ctl) : ctl[i] = [service |-> s, verb |-> verb]
GivingUp(t) == t.pc \in PowerPc /\ t.job = "timeout_off"

CutInv(t) ==
  /\ t.pc \in PowerPc => t.job \notin {"attach_off", "daemon_off"}
  /\ GivingUp(t) => want["hciattach"] = "stop"
  /\ GivingUp(t) /\ hci = "up" => Pending("hciattach", "stop")
  /\ hci = "up" => (power /\ firmware) \/ Pending("hciattach", "stop")

(* A bt_enable up to the end of its attempts; where it has asked for       *)
(* hciattach; and where it has found the device up.                        *)
Trying(t) ==
  /\ t.op = "enable"
  /\ \/ t.pc \in {"start_hciattach", "mksock", "devup", "retry", "timeout", "start_bluetoothd"}
     \/ t.pc \in PowerPc /\ t.job = "enable_on"
     \/ t.ret = 0
Attached(t) == t.op = "enable" /\ (t.pc \in {"mksock", "devup", "retry", "start_bluetoothd"} \/ t.ret = 0)
FoundUp(t) == t.op = "enable" /\ (t.pc = "start_bluetoothd" \/ t.ret = 0)

NothingStops == \A s \in Service : ~Pending(s, "stop")

EnableInv(t) ==
  /\ t.op = "enable" /\ t.pc \notin {"out", "idle", "start_bluetoothd"} => t.ret # 0
  /\ Attached(t) => want["hciattach"] = "start"
  /\ t.op = "enable" /\ t.ret = 0 /\ t.pc \in {"out", "idle"} => want["bluetoothd"] = "start"
  /\ caughtUp /\ Trying(t) => NothingStops
  /\ caughtUp /\ FoundUp(t) => hci = "up"

LeftEnabled ==
  ~alive /\ argv = "enable" /\ status = 0 /\ caughtUp =>
    hci = "up" /\ Asked("start") /\ NothingStops

CInv == DInv /\ CutInv(thread[Main])
EInv == CInv /\ EnableInv(thread[Main]) /\ LeftEnabled
-----------------------------------------------------------------------------
LEMMA MainFacts ==
  /\ Main \in Caller /\ Caller = {Main}
  /\ IInv => /\ thread \in [Caller -> Thread] /\ thread[Main] \in Thread /\ LocalInv(thread[Main])
             /\ fds \in [Fd -> [owner : Caller \cup {App, Free}, kind : {"hci", "rfkill", "other", "none"}]]
             /\ PlatformTypeOK /\ timedOut \in BOOLEAN
  BY BtTestAssumption DEF IInv, TypeOK

(* The thread when its process is gone. *)
LEMMA Ended ==
  ASSUME thread \in [Caller -> Thread], NEW code, ProcessEnds(code)
  PROVE  LET y == thread'[Main]
         IN  /\ thread' \in [Caller -> Thread]
             /\ y.pc = "idle" /\ y.op = "none" /\ y.ret = -1 /\ y.hci_sock = None /\ y.job = "query"
             /\ y.fd = None /\ y.val = -1
             /\ ~alive' /\ status' = code % 256 /\ UNCHANGED <<platformVars, timedOut, argv, caughtUp>>
<1> DEFINE t == [pc |-> "idle", op |-> "none", ret |-> -1, hci_sock |-> None, attempt |-> 0,
                 job |-> "query", id |-> 0, fd |-> None, val |-> -1]
<1>1. t \in Thread
  BY RangeFacts DEF Thread, Pc, Op, Job
<1>2. thread' = [thread EXCEPT ![Main] = t]
  BY DEF ProcessEnds, Becomes
<1>3. thread' \in [Caller -> Thread] /\ thread'[Main] = t
  BY <1>1, <1>2, MainFacts
<1> QED BY <1>3 DEF ProcessEnds

LEMMA EndIInv ==
  ASSUME IInv, NEW code, ProcessEnds(code)
  PROVE  IInv'
<1> USE MainFacts, ConstantFacts
<1>1. /\ thread' \in [Caller -> Thread] /\ UNCHANGED <<platformVars, timedOut>>
      /\ thread'[Main].pc = "idle" /\ thread'[Main].hci_sock = None /\ thread'[Main].fd = None
  BY Ended
<1>2. rfkill_id' = None /\ rfkill_state_path' = None /\ appFds' = {} /\ fds' = [n \in Fd |-> Closed]
  BY DEF ProcessEnds
<1>3. \A n \in Fd : fds'[n].owner = Free
  BY <1>2 DEF Closed
<1>4. TypeOK'
  <2>1. PlatformTypeOK'
    BY <1>1 DEF PlatformTypeOK, platformVars
  <2>2. Closed \in [owner : Caller \cup {App, Free}, kind : {"hci", "rfkill", "other", "none"}]
    BY DEF Closed
  <2> HIDE DEF Closed
  <2>3. fds' \in [Fd -> [owner : Caller \cup {App, Free}, kind : {"hci", "rfkill", "other", "none"}]]
    BY <1>2, <2>2
  <2> QED BY <1>1, <1>2, <2>1, <2>3 DEF TypeOK
<1>5. LocalInv(thread'[Main]) /\ ~Late(thread'[Main])
  BY <1>1 DEF LocalInv, Late, PowerPc
<1>6. NoFdLeak'
  BY <1>3 DEF NoFdLeak
<1>7. FdsIntactUntilTimeout'
  BY <1>1, <1>2 DEF FdsIntactUntilTimeout, HoldsSock, HoldsRfd, PowerPc
<1> QED BY <1>4, <1>5, <1>6, <1>7 DEF IInv

(* Daemons and init never bring the device up, nor change what was asked.  *)
LEMMA PlatformMoves ==
  ASSUME Platform(PlatformNext)
  PROVE  /\ UNCHANGED <<thread, fds, timedOut, power, want>>
         /\ hci' = "up" => hci = "up"
         /\ hci = "up" => hci' \in {"up", "absent"}
  BY DEF Platform, PlatformNext, InitHandles, HciattachAttaches, DaemonExits, Stopped

LEMMA OwnFilesKept ==
  ASSUME IInv, OwnFiles(thread[Main]), Step(Main)
  PROVE  OwnFiles(thread[Main])'
<1> DEFINE x == thread[Main]
           y == thread'[Main]
           F == [owner : Caller \cup {App, Free}, kind : {"hci", "rfkill", "other", "none"}]
<1>0. /\ Main \in Caller /\ thread \in [Caller -> Thread] /\ x \in Thread /\ LocalInv(x)
      /\ fds \in [Fd -> F]
  BY MainFacts
<1>1. ASSUME NEW n, NEW what, OpenFd(Main, what, n), n \in Fd
      PROVE  /\ OwnedAs(n, Main, what)'
             /\ \A m, w : OwnedAs(m, Main, w) => OwnedAs(m, Main, w)'
  BY <1>0, <1>1, ConstantFacts DEF OpenFd, OwnedAs, IsFree
<1>2. \A m, w : UNCHANGED fds => (OwnedAs(m, Main, w)' <=> OwnedAs(m, Main, w))
  BY DEF OwnedAs
<1>3. /\ x.pc \in {"retry", "devup", "devdown", "devinfo", "start_bluetoothd", "stop_hciattach"}
           => x.fd = None
      /\ x.pc \notin {"rf_io", "rf_out"} => x.fd = None
  BY <1>0 DEF LocalInv
<1> USE <1>0 DEF OwnFiles, HoldsRfd, PowerPc
<1>4. CASE EnterPower(Main)
  BY <1>2, <1>4, EnterPowerStep DEF SameCall, SamePower
<1>5. CASE ProbeRfkill(Main)
  BY <1>2, <1>3, <1>5, ProbeRfkillStep DEF SameCall
<1>6. CASE SetStatePath(Main)
  BY <1>2, <1>6, SetStatePathStep DEF SameCall, SamePower
<1>7. CASE OpenStatePath(Main)
  <2>1. /\ x.pc = "rf_open" /\ y.pc \in {"rf_io", "rf_out"} /\ SameCall(x, y) /\ y.job = x.job
        /\ y.pc = "rf_io" => OpenFd(Main, "rfkill", y.fd)
        /\ y.pc = "rf_out" => UNCHANGED fds
    BY <1>7, OpenStatePathStep
  <2>2. thread' \in [Caller -> Thread] /\ LocalInv(y)
    BY OthersStay
  <2>3. CASE y.pc = "rf_io"
    <3>1. y.fd \in Fd
      BY <2>2, <2>3 DEF Thread, LocalInv
    <3> QED BY <1>1, <2>1, <2>3, <3>1 DEF SameCall
  <2>4. CASE y.pc = "rf_out"
    <3>1. y.fd = x.fd
      <4>1. \/ y = [x EXCEPT !.pc = "rf_out"]
            \/ \E n \in Fd : y = [x EXCEPT !.pc = "rf_io", !.fd = n]
        BY <1>7 DEF OpenStatePath, Goto, Becomes
      <4> QED BY <2>4, <4>1 DEF Thread
    <3> QED BY <1>2, <1>3, <2>1, <2>4, <3>1 DEF SameCall
  <2> QED BY <2>1, <2>3, <2>4
<1>8. CASE StateFileIo(Main)
  BY <1>2, <1>8, StateFileIoStep DEF SameCall
<1>9. CASE LeavePower(Main)
  BY <1>9, LeavePowerStep DEF Thread, Job
<1>10. CASE StartHciattach(Main)
  BY <1>3, <1>10, StartHciattachStep
<1>11. CASE create_hci_sock(Main)
  BY <1>1, <1>3, <1>11, CreateSockStep DEF SamePower
<1>12. CASE HciDevUp(Main)
  BY <1>2, <1>12, HciDevUpStep DEF SamePower
<1>13. CASE RetryDevUp(Main)
  BY <1>13, RetryDevUpStep
<1>14. CASE GiveUp(Main)
  BY <1>3, <1>14, GiveUpStep
<1>15. CASE StartBluetoothd(Main)
  BY <1>2, <1>15, StartBluetoothdStep
<1>16. CASE StopBluetoothd(Main)
  BY <1>16, StopBluetoothdStep
<1>17. CASE HciDevDown(Main)
  BY <1>2, <1>17, HciDevDownStep DEF SameCall, SamePower
<1>18. CASE StopHciattach(Main)
  BY <1>2, <1>18, StopHciattachStep
<1>19. CASE HciGetDevInfo(Main)
  BY <1>19, HciGetDevInfoStep
<1>20. CASE Return(Main)
  BY <1>20, ReturnStep
<1> QED
  BY <1>4, <1>5, <1>6, <1>7, <1>8, <1>9, <1>10, <1>11, <1>12, <1>13, <1>14, <1>15, <1>16, <1>17,
     <1>18, <1>19, <1>20 DEF Step

LEMMA InitBInv == BtTestInit => BInv
<1> SUFFICES ASSUME BtTestInit PROVE BInv
  OBVIOUS
<1>1. IInv /\ Init
  BY InitIInv DEF BtTestInit
<1>2. thread[Main].pc = "idle" /\ thread[Main].op = "none" /\ thread[Main].val = -1
  BY <1>1, MainFacts DEF Init
<1>3. AlwaysPowered
  BY <1>1, <1>2, MainFacts DEF Init, PlatformInit, AlwaysPowered, PowerPc
<1>4. ProcessInv
  BY <1>2 DEF BtTestInit, ProcessInv, Idle, At, Called
<1>5. OwnFiles(thread[Main])
  BY <1>2 DEF OwnFiles, HoldsRfd, PowerPc
<1> QED BY <1>1, <1>3, <1>4, <1>5 DEF BInv

(* A call of the library begins only in a living process. *)
LEMMA CallMoves ==
  ASSUME IInv, NEW f \in function_table, Call(f)
  PROVE  LET x == thread[Main]
             y == thread'[Main]
         IN  /\ f \in Op /\ Begin(Main, f) /\ alive
             /\ y.pc = FirstStep(f) /\ y.op = f /\ y.ret = -1
             /\ y.job = IF f = "enable" THEN "enable_on" ELSE "query"
             /\ x.pc = "idle" /\ y.fd = None /\ y.val = x.val
             /\ y.pc \in {"stop_bluetoothd", "rf_enter", "start_hciattach", "mksock"}
             /\ y.pc = "stop_bluetoothd" <=> f = "disable"
             /\ y.pc = "start_hciattach" => f = "enable" /\ ~UseRfkill
             /\ y.pc = "mksock" => f = "is_enabled"
             /\ y.pc = "rf_enter" => UseRfkill
             /\ argv # "client" => f = argv
             /\ caughtUp' = (ctl = << >>)
             /\ UNCHANGED <<platformVars, fds, alive, argv, status, timedOut>>
<1>1. f \in Op /\ Begin(Main, f) /\ alive /\ (argv # "client" => f = argv)
      /\ caughtUp' = (ctl = << >>) /\ UNCHANGED <<alive, argv, status>>
  BY DEF Call, function_table, Op
<1>2. /\ thread[Main].pc = "idle" /\ thread[Main].fd = None
  BY <1>1, MainFacts DEF Begin, At, LocalInv
<1>3. FirstStep(f) \in {"stop_bluetoothd", "rf_enter", "start_hciattach", "mksock"}
      /\ (FirstStep(f) = "stop_bluetoothd" <=> f = "disable")
      /\ (FirstStep(f) = "start_hciattach" => f = "enable" /\ ~UseRfkill)
      /\ (FirstStep(f) = "mksock" => f = "is_enabled")
      /\ (FirstStep(f) = "rf_enter" => UseRfkill)
  BY <1>1, ConstantFacts DEF FirstStep, Op
<1> QED BY <1>1, <1>2, <1>3, BeginStep, MainFacts

LEMMA NextBInv == BInv /\ [BtTestNext]_btTestVars => BInv'
<1> SUFFICES ASSUME BInv, [BtTestNext]_btTestVars PROVE BInv'
  OBVIOUS
<1> DEFINE x == thread[Main]
           y == thread'[Main]
<1>0. /\ IInv /\ AlwaysPowered /\ ProcessInv /\ OwnFiles(x)
      /\ thread \in [Caller -> Thread] /\ x \in Thread /\ LocalInv(x)
      /\ Main \in Caller /\ Caller = {Main}
  BY MainFacts DEF BInv
<1>1. ASSUME UNCHANGED vars, alive' => alive' \/ alive, ProcessInv' PROVE BInv'
  <2>1. IInv'
    BY <1>0, <1>1, NextIInv
  <2>2. UNCHANGED <<thread, fds, power>>
    BY <1>1 DEF vars, platformVars
  <2> QED BY <1>0, <1>1, <2>1, <2>2 DEF BInv, AlwaysPowered, OwnFiles, OwnedAs
<1>2. ASSUME NEW what, Exec(what) PROVE BInv'
  <2>1. UNCHANGED vars /\ UNCHANGED thread /\ ~alive
    BY <1>2 DEF Exec, vars
  <2>2. ProcessInv'
    BY <1>0, <2>1 DEF ProcessInv, Idle, At, Called
  <2> QED BY <1>1, <2>1, <2>2
<1>3. ASSUME NEW f \in function_table, Call(f) PROVE BInv'
  <2>1. /\ f \in Op /\ Begin(Main, f) /\ alive
        /\ y.pc = FirstStep(f) /\ y.op = f /\ y.ret = -1
        /\ y.job = IF f = "enable" THEN "enable_on" ELSE "query"
        /\ x.pc = "idle" /\ y.fd = None /\ y.val = x.val
        /\ y.pc \in {"stop_bluetoothd", "rf_enter", "start_hciattach", "mksock"}
        /\ y.pc = "rf_enter" => UseRfkill
        /\ argv # "client" => f = argv
        /\ UNCHANGED <<platformVars, fds, alive, argv>>
    BY <1>0, <1>3, CallMoves
  <2>2. IInv'
    BY <1>0, <2>1, NextIInv DEF Next
  <2>3. AlwaysPowered'
    BY <1>0, <2>1 DEF AlwaysPowered, PowerPc, platformVars
  <2>4. ProcessInv'
    BY <1>0, <2>1 DEF ProcessInv, Idle, At, Called, Answers, PowerPc
  <2>5. OwnFiles(thread[Main])'
    BY <2>1 DEF OwnFiles, HoldsRfd, PowerPc
  <2> QED BY <2>2, <2>3, <2>4, <2>5 DEF BInv
<1>4. ASSUME Runs PROVE BInv'
  <2>1. Step(Main) /\ UNCHANGED processVars
    BY <1>4 DEF Runs
  <2>2. IInv'
    BY <1>0, <2>1, NextIInv DEF Next
  <2>3. AlwaysPowered'
    BY <1>0, <2>1, StepPowered
  <2>4. x.pc # "idle" /\ alive
    BY <1>0, <2>1, MainFacts, StepInCall DEF ProcessInv, Idle, At
  <2>5. Answers(y) /\ (y.pc # "rf_out" => y.val = -1)
    BY <1>0, <2>1, <2>4, StepAnswers DEF ProcessInv, Idle, At
  <2>6. y.op = x.op
    BY <1>0, <2>1, StepKeepsOp
  <2>7. ProcessInv'
    BY <1>0, <2>1, <2>4, <2>5, <2>6 DEF ProcessInv, Idle, At, Called, processVars
  <2>8. OwnFiles(thread[Main])'
    BY <1>0, <2>1, OwnFilesKept
  <2> QED BY <2>2, <2>3, <2>7, <2>8 DEF BInv
<1>5. ASSUME NEW code, ProcessEnds(code) PROVE BInv'
  <2>1. IInv'
    BY <1>0, <1>5, EndIInv
  <2>2. /\ y.pc = "idle" /\ y.op = "none" /\ y.val = -1 /\ ~alive' /\ power' = power
    BY <1>0, <1>5, Ended DEF platformVars
  <2>3. AlwaysPowered'
    BY <1>0, <2>2 DEF AlwaysPowered, PowerPc
  <2>4. ProcessInv'
    BY <2>2 DEF ProcessInv, Idle, At, Called
  <2>5. OwnFiles(thread[Main])'
    BY <2>2 DEF OwnFiles, HoldsRfd, PowerPc
  <2> QED BY <2>1, <2>3, <2>4, <2>5 DEF BInv
<1>6. ASSUME Platform(PlatformNext), UNCHANGED processVars PROVE BInv'
  <2>1. UNCHANGED <<thread, fds, timedOut, power, want>>
    BY <1>6, PlatformMoves
  <2>2. IInv'
    BY <1>0, <1>6, NextIInv DEF Next
  <2> QED BY <1>0, <1>6, <2>1, <2>2 DEF BInv, AlwaysPowered, ProcessInv, Idle, At, Called, OwnFiles, OwnedAs,
             processVars
<1>7. CASE UNCHANGED btTestVars
  BY <1>0, <1>1, <1>7 DEF btTestVars, processVars, ProcessInv, vars, Idle, At, Called
<1> QED
  BY <1>2, <1>3, <1>4, <1>5, <1>6, <1>7 DEF BtTestNext, MainReturns, Kill
-----------------------------------------------------------------------------
(* bt_disable, step by step. *)

LEMMA DisableSteps ==
  ASSUME BInv, DisableInv(thread[Main]), Step(Main)
  PROVE  DisableInv(thread[Main])'
<1> DEFINE x == thread[Main]
           y == thread'[Main]
<1>0. /\ IInv /\ AlwaysPowered /\ ProcessInv /\ OwnFiles(x)
      /\ thread \in [Caller -> Thread] /\ x \in Thread /\ LocalInv(x)
      /\ Main \in Caller /\ PlatformTypeOK /\ UseRfkill \in BOOLEAN
  BY MainFacts, ConstantFacts DEF BInv
<1>1. Answers(x) \/ x.pc = "idle"
  BY <1>0 DEF ProcessInv, Idle, At
<1>2. ASSUME NEW s \in Service, NEW v \in Verb, PropertySet(s, v) \/ Refused
      PROVE  /\ UNCHANGED <<power, hci>> /\ \A r \in Service \ {s} : want'[r] = want[r]
             /\ want'[s] \in {v, want[s]}
             /\ ~Fails("property") => want'[s] = v
  BY <1>0, <1>2, RequestMade DEF Refused, platformVars
<1>s. /\ "hciattach" \in Service /\ "bluetoothd" \in Service /\ "start" \in Verb /\ "stop" \in Verb
      /\ "hciattach" # "bluetoothd"
  BY DEF Service, Verb
<1> USE <1>0, <1>1 DEF DisableInv, SwitchingOff, Disabled, Asked, PowerPc, platformVars, Answers
<1>3. CASE EnterPower(Main)
  BY <1>3, EnterPowerStep DEF SameCall, SamePower
<1>4. CASE ProbeRfkill(Main)
  BY <1>4, ProbeRfkillStep DEF SameCall, ProcessInv
<1>5. CASE SetStatePath(Main)
  BY <1>5, SetStatePathStep DEF SameCall, SamePower
<1>6. CASE OpenStatePath(Main)
  BY <1>6, OpenStatePathStep DEF SameCall, ProcessInv
<1>7. CASE StateFileIo(Main)
  <2>1. x.pc = "rf_io" /\ IsOpenOn(x.fd, "rfkill")
    <3>1. OwnedAs(x.fd, Main, "rfkill") /\ x.pc = "rf_io"
      BY <1>7, StateFileIoStep DEF OwnFiles, HoldsRfd, LocalInv
    <3> QED BY <3>1, ConstantFacts DEF OwnedAs, IsOpenOn, IsFree
  <2>2. FALSE = ~UseRfkill
    BY <2>1 DEF AlwaysPowered
  <2>3. \/ IF x.job = "query" THEN UNCHANGED platformVars ELSE SwitchPower(TurnsOn(x.job))
        \/ y.val # 0 /\ UNCHANGED platformVars
    BY <1>7, <2>1, StateFileIoStep
  <2>4. UNCHANGED <<hci, want>>
    BY <2>3 DEF SwitchPower
  <2>5. x.job = "disable_off" => power' = FALSE \/ (y.val # 0 /\ power' = power)
    BY <2>3 DEF SwitchPower, TurnsOn
  <2>6. x.op = "disable" => x.job = "disable_off"
    BY <2>1 DEF LocalInv, Thread, Job
  <2>7. y.pc = "rf_out" /\ SameCall(x, y) /\ y.job = x.job
    BY <1>7, StateFileIoStep
  <2>8. x.pc = "rf_io" /\ y.op = x.op /\ y.ret = x.ret
    BY <2>1, <2>7 DEF SameCall
  <2>9. Disabled(y) => power' = ~UseRfkill
    BY <2>2, <2>5, <2>6, <2>8
  <2>10. SwitchingOff(y) /\ y.val = 0 => power' = ~UseRfkill
    BY <2>2, <2>5, <2>7
  <2> QED BY <2>4, <2>7, <2>8, <2>9, <2>10
<1>8. CASE LeavePower(Main)
  BY <1>8, LeavePowerStep DEF Thread, Job, LocalInv
<1>9. CASE StartHciattach(Main)
  <2>1. UNCHANGED <<power, hci>> /\ want'["bluetoothd"] = want["bluetoothd"]
    BY <1>2, <1>9, <1>s, StartHciattachStep
  <2> QED BY <1>9, <2>1, StartHciattachStep DEF LocalInv
<1>10. CASE create_hci_sock(Main)
  BY <1>10, CreateSockStep DEF SamePower, WithSocket, Op
<1>11. CASE HciDevUp(Main)
  BY <1>11, HciDevUpStep DEF SamePower, LocalInv
<1>12. CASE RetryDevUp(Main)
  BY <1>12, RetryDevUpStep DEF SamePower, LocalInv
<1>13. CASE GiveUp(Main)
  BY <1>13, GiveUpStep DEF SameCall
<1>14. CASE StartBluetoothd(Main)
  BY <1>14, StartBluetoothdStep
<1>15. CASE StopBluetoothd(Main)
  <2>1. /\ UNCHANGED <<power, hci>> /\ want'["hciattach"] = want["hciattach"]
        /\ y.pc = "mksock" => want'["bluetoothd"] = "stop"
        /\ want'["bluetoothd"] \in {"stop", want["bluetoothd"]}
    BY <1>2, <1>15, <1>s, StopBluetoothdStep, RequestMade
  <2> QED BY <1>15, <2>1, StopBluetoothdStep DEF SameCall, SamePower, LocalInv
<1>16. CASE HciDevDown(Main)
  <2>1. IsOpenOn(x.hci_sock, "hci")
    BY <1>16, HciDevDownStep, ConstantFacts DEF OwnFiles, OwnedAs, IsOpenOn, IsFree
  <2> QED BY <1>16, <2>1, HciDevDownStep DEF SetDevice, SameCall, SamePower
<1>17. CASE StopHciattach(Main)
  <2>1. /\ UNCHANGED <<power, hci>> /\ want'["bluetoothd"] = want["bluetoothd"]
        /\ PropertySet("hciattach", "stop") => want'["hciattach"] = "stop"
        /\ want'["hciattach"] \in {"stop", want["hciattach"]}
    BY <1>2, <1>17, <1>s, StopHciattachStep, RequestMade
  <2> QED BY <1>17, <2>1, StopHciattachStep DEF AlwaysPowered
<1>18. CASE HciGetDevInfo(Main)
  BY <1>18, HciGetDevInfoStep DEF SamePower
<1>19. CASE Return(Main)
  BY <1>19, ReturnStep DEF SamePower
<1> QED
  BY <1>3, <1>4, <1>5, <1>6, <1>7, <1>8, <1>9, <1>10, <1>11, <1>12, <1>13, <1>14, <1>15, <1>16,
     <1>17, <1>18, <1>19 DEF Step

(* The statuses that tell an answer from a kill. *)
LEMMA StatusZero ==
  /\ \A r \in {-1, 0, 1} : r % 256 = 0 => r = 0
  /\ Killed % 256 # 0
  BY DEF Killed

LEMMA InitDInv == BtTestInit => DInv
<1> SUFFICES ASSUME BtTestInit PROVE DInv
  OBVIOUS
<1>1. BInv
  BY InitBInv
<1>2. thread[Main].pc = "idle" /\ thread[Main].op = "none" /\ argv = "none"
  BY MainFacts DEF BtTestInit, Init
<1> QED BY <1>1, <1>2 DEF DInv, DisableInv, SwitchingOff, Disabled, LeftDisabled, PowerPc

LEMMA NextDInv == DInv /\ [BtTestNext]_btTestVars => DInv'
<1> SUFFICES ASSUME DInv, [BtTestNext]_btTestVars PROVE DInv'
  OBVIOUS
<1> DEFINE x == thread[Main]
           y == thread'[Main]
<1>0. /\ IInv /\ BInv /\ BInv' /\ DisableInv(x) /\ LeftDisabled /\ ProcessInv
      /\ thread \in [Caller -> Thread] /\ x \in Thread
  BY NextBInv, MainFacts DEF DInv, BInv
<1>1. ASSUME UNCHANGED <<thread, power, want>>, hci' = "up" => hci = "up" PROVE DisableInv(x)'
  BY <1>0, <1>1 DEF DisableInv, SwitchingOff, Disabled, Asked
<1>2. ASSUME NEW what \in function_table \cup {"client", "unknown"}, Exec(what) PROVE DInv'
  <2>1. UNCHANGED <<thread, power, want, hci>> /\ ~(~alive' /\ argv' = "disable")
    BY <1>2 DEF Exec, vars, platformVars, function_table
  <2> QED BY <1>0, <1>1, <2>1 DEF DInv, LeftDisabled
<1>3. ASSUME NEW f \in function_table, Call(f) PROVE DInv'
  <2>1. /\ alive' /\ y.pc = FirstStep(f) /\ y.op = f /\ y.ret = -1
        /\ y.job \in {"enable_on", "query"}
        /\ y.pc \in {"stop_bluetoothd", "rf_enter", "start_hciattach", "mksock"}
        /\ y.pc = "stop_bluetoothd" <=> f = "disable"
    BY <1>0, <1>3, CallMoves
  <2>2. y.ret # 0
    BY <2>1
  <2> QED BY <1>0, <2>1, <2>2 DEF DInv, DisableInv, SwitchingOff, Disabled, LeftDisabled
<1>4. ASSUME Runs PROVE DInv'
  <2>1. Step(Main) /\ UNCHANGED processVars
    BY <1>4 DEF Runs
  <2>2. DisableInv(x)'
    BY <1>0, <2>1, DisableSteps
  <2>3. alive
    BY <1>0, <2>1, MainFacts, StepInCall DEF ProcessInv, Idle, At
  <2> QED BY <1>0, <2>1, <2>2, <2>3 DEF DInv, LeftDisabled, processVars
<1>5. ASSUME NEW code, ProcessEnds(code), argv = "disable" /\ code % 256 = 0 => Disabled(x) PROVE DInv'
  <2>1. /\ y.pc = "idle" /\ y.op = "none" /\ status' = code % 256
        /\ UNCHANGED <<platformVars, argv>>
    BY <1>0, <1>5, Ended
  <2>2. DisableInv(x)'
    BY <2>1 DEF DisableInv, SwitchingOff, Disabled, PowerPc
  <2>3. LeftDisabled'
    BY <1>0, <1>5, <2>1 DEF DisableInv, LeftDisabled, Asked, platformVars
  <2> QED BY <1>0, <2>2, <2>3 DEF DInv
<1>6. CASE MainReturns
  <2>1. ProcessEnds(x.ret) /\ (argv = "disable" => x.op = "disable")
    BY <1>0, <1>6 DEF MainReturns, ProcessInv, function_table, Called
  <2>2. x.ret % 256 = 0 => x.ret = 0
    BY <1>0, StatusZero DEF Thread
  <2> QED BY <1>5, <2>1, <2>2 DEF Disabled
<1>7. CASE Kill
  BY <1>5, <1>7, StatusZero DEF Kill
<1>8. ASSUME Platform(PlatformNext), UNCHANGED processVars PROVE DInv'
  <2>1. UNCHANGED <<thread, power, want>> /\ (hci' = "up" => hci = "up")
    BY <1>8, PlatformMoves
  <2> QED BY <1>0, <1>1, <1>8, <2>1 DEF DInv, LeftDisabled, Asked, processVars
<1>9. CASE UNCHANGED btTestVars
  <2>1. UNCHANGED <<thread, power, want, hci, alive, argv, status>>
    BY <1>9 DEF btTestVars, processVars, vars, platformVars
  <2> QED BY <1>0, <1>1, <2>1 DEF DInv, LeftDisabled, Asked
<1> QED
  BY <1>2, <1>3, <1>4, <1>6, <1>7, <1>8, <1>9 DEF BtTestNext

LEMMA DisableInvariant == BtTestSpec => []DInv
  BY InitDInv, NextDInv, PTL DEF BtTestSpec

(* A bt_disable that answers 0, or a bttest that ends with status 0 for    *)
(* it, has taken the device down, cut the power and asked both daemons to  *)
(* stop, after any history of kills, failures and time-outs.               *)
THEOREM DisableAlwaysRecovers == BtTestSpec => []DisableRecovers
<1>1. DInv => DisableRecovers
  <2> SUFFICES ASSUME DInv, Succeeded("disable")
               PROVE  hci # "up" /\ power = ~UseRfkill /\ want = [s \in Service |-> "stop"]
    BY DEF DisableRecovers
  <2>1. hci # "up" /\ Asked("stop") /\ power = ~UseRfkill
    BY DEF DInv, LeftDisabled, DisableInv, Disabled, Succeeded
  <2>2. want = [s \in Service |-> want[s]]
    BY MainFacts DEF DInv, BInv, PlatformTypeOK
  <2> QED BY <2>1, <2>2 DEF Asked, Service
<1> QED BY <1>1, DisableInvariant, PTL

-----------------------------------------------------------------------------
(* init's queue: a request stays in it until init acts on it. *)

LEMMA RequestQueued ==
  ASSUME PlatformTypeOK, NEW s \in Service, NEW v \in Verb, PropertySet(s, v)
  PROVE  \A r, w : Pending(r, w)' <=> Pending(r, w) \/ (r = s /\ w = v)
<1> DEFINE q == [service |-> s, verb |-> v]
<1>1. ctl \in Seq(Request) /\ q \in Request /\ ctl' = Append(ctl, q)
  BY DEF PropertySet, PlatformTypeOK, Request
<1> SUFFICES ASSUME NEW r, NEW w PROVE Pending(r, w)' <=> Pending(r, w) \/ (r = s /\ w = v)
  OBVIOUS
<1> DEFINE e == [service |-> r, verb |-> w]
<1>2. e = q <=> r = s /\ w = v
  <2>1. e.service = r /\ e.verb = w /\ q.service = s /\ q.verb = v
    OBVIOUS
  <2> QED BY <2>1
<1> HIDE DEF q, e
<1>3. Pending(r, w) <=> \E i \in 1 .. Len(ctl) : ctl[i] = e
  BY DEF Pending, e
<1>4. Pending(r, w)' <=> \E i \in 1 .. Len(ctl') : ctl'[i] = e
  BY DEF Pending, e
<1>5. /\ Len(ctl') = Len(ctl) + 1 /\ Len(ctl) \in Nat
      /\ \A i \in 1 .. Len(ctl) : ctl'[i] = ctl[i]
      /\ ctl'[Len(ctl) + 1] = q
  BY <1>1
<1>6. (\E i \in 1 .. Len(ctl') : ctl'[i] = e) <=> (\E i \in 1 .. Len(ctl) : ctl[i] = e) \/ e = q
  BY <1>5
<1> QED BY <1>2, <1>3, <1>4, <1>6

LEMMA RequestHandled ==
  ASSUME PlatformTypeOK, InitHandles
  PROVE  /\ \A s, v : Pending(s, v)' => Pending(s, v)
         /\ Pending("hciattach", "stop") => Pending("hciattach", "stop")' \/ hci' = "absent"
         /\ NothingStops => hci' = hci
<1> DEFINE q == Head(ctl)
<1>1. /\ ctl \in Seq(Request) /\ ctl # << >> /\ ctl' = Tail(ctl) /\ q \in Request
  BY DEF InitHandles, PlatformTypeOK
<1>2. /\ Len(ctl) \in Nat /\ Len(ctl) >= 1 /\ Len(ctl') = Len(ctl) - 1 /\ q = ctl[1]
      /\ \A i \in 1 .. Len(ctl') : ctl'[i] = ctl[i + 1]
  BY <1>1
<1>3. \A s, v : Pending(s, v)' => Pending(s, v)
  BY <1>2 DEF Pending
<1>4. ASSUME Pending("hciattach", "stop"), ~Pending("hciattach", "stop")'
      PROVE  hci' = "absent"
  <2>1. q = [service |-> "hciattach", verb |-> "stop"]
    <3>1. PICK i \in 1 .. Len(ctl) : ctl[i] = [service |-> "hciattach", verb |-> "stop"]
      BY <1>4 DEF Pending
    <3>2. i # 1 => i - 1 \in 1 .. Len(ctl') /\ ctl'[i - 1] = ctl[i]
      BY <1>2
    <3>3. i = 1
      BY <1>4, <3>1, <3>2 DEF Pending
    <3> QED BY <1>2, <3>1, <3>3
  <2>2. q.verb = "stop" /\ q.service = "hciattach"
    BY <2>1
  <2> QED BY <2>2 DEF InitHandles, Stopped
<1>5. ASSUME NothingStops PROVE hci' = hci
  <2>1. q.verb # "stop"
    <3> SUFFICES ASSUME q.verb = "stop" PROVE FALSE
      OBVIOUS
    <3>1. q.service \in Service /\ q = [service |-> q.service, verb |-> "stop"]
      BY <1>1 DEF Request
    <3>2. Pending(q.service, "stop")
      BY <1>2, <3>1 DEF Pending
    <3> QED BY <1>5, <3>1, <3>2 DEF NothingStops
  <2> QED BY <2>1 DEF InitHandles
<1> QED BY <1>3, <1>4, <1>5

-----------------------------------------------------------------------------
(* The order of stops and power cut. *)

LEMMA CutSteps ==
  ASSUME "property" \notin MayFail, DInv, CutInv(thread[Main]), Step(Main)
  PROVE  CutInv(thread[Main])'
<1> DEFINE x == thread[Main]
           y == thread'[Main]
<1>0. /\ DisableInv(x) /\ thread \in [Caller -> Thread] /\ x \in Thread /\ LocalInv(x)
      /\ Main \in Caller /\ PlatformTypeOK /\ UseRfkill \in BOOLEAN /\ ~Fails("property")
      /\ x.pc \notin PowerPc \/ UseRfkill
  BY MainFacts, ConstantFacts DEF DInv, BInv, Fails, AlwaysPowered
<1>1. UNCHANGED ctl => (Pending("hciattach", "stop")' <=> Pending("hciattach", "stop"))
  BY DEF Pending
<1>2. ASSUME NEW s \in Service, NEW v \in Verb, PropertySet(s, v) \/ Refused
      PROVE  /\ UNCHANGED <<power, firmware, hci>> /\ PropertySet(s, v)
             /\ Pending("hciattach", "stop") => Pending("hciattach", "stop")'
             /\ s = "hciattach" /\ v = "stop" => Pending("hciattach", "stop")' /\ want'["hciattach"] = "stop"
             /\ s # "hciattach" => want'["hciattach"] = want["hciattach"]
  <2>1. PropertySet(s, v)
    BY <1>0, <1>2 DEF Refused
  <2> QED BY <1>0, <2>1, RequestMade, RequestQueued DEF Service
<1>3. /\ "hciattach" \in Service /\ "bluetoothd" \in Service /\ "start" \in Verb /\ "stop" \in Verb
  BY DEF Service, Verb
<1> USE <1>0 DEF CutInv, GivingUp, PowerPc, platformVars
<1>4. CASE EnterPower(Main) \/ SetStatePath(Main)
  BY <1>1, <1>4, EnterPowerStep, SetStatePathStep DEF SameCall, SamePower
<1>5. CASE ProbeRfkill(Main)
  BY <1>1, <1>5, ProbeRfkillStep DEF SameCall
<1>6. CASE OpenStatePath(Main)
  BY <1>1, <1>6, OpenStatePathStep DEF SameCall
<1>7. CASE StateFileIo(Main)
  <2>1. x.pc = "rf_io" /\ y.pc = "rf_out" /\ y.job = x.job
    BY <1>7, StateFileIoStep
  <2>2. \/ UNCHANGED platformVars
        \/ x.job # "query" /\ SwitchPower(TurnsOn(x.job))
    BY <1>7, StateFileIoStep
  <2>3. CASE UNCHANGED platformVars
    BY <1>1, <2>1, <2>3
  <2>4. CASE x.job # "query" /\ SwitchPower(TurnsOn(x.job))
    <3>1. UNCHANGED <<hci, ctl, want>>
      BY <2>4 DEF SwitchPower
    <3>2. x.job = "enable_on" => power' = TRUE /\ firmware' = (firmware /\ TRUE)
      BY <2>4 DEF SwitchPower, TurnsOn
    <3>3. x.job \in {"enable_on", "timeout_off", "disable_off"}
      BY <2>1, <2>4 DEF Thread, Job
    <3>4. x.job = "disable_off" => hci # "up"
      BY <2>1 DEF DisableInv, SwitchingOff
    <3> QED BY <1>1, <2>1, <3>1, <3>2, <3>3, <3>4
  <2> QED BY <2>2, <2>3, <2>4
<1>8. CASE LeavePower(Main)
  BY <1>1, <1>8, LeavePowerStep DEF Thread, Job
<1>9. CASE StartHciattach(Main)
  <2>1. PropertySet("hciattach", "start") /\ y.pc = "mksock"
    BY <1>9, StartHciattachStep DEF Refused
  <2> QED BY <1>2, <1>3, <2>1
<1>10. CASE create_hci_sock(Main)
  BY <1>1, <1>10, CreateSockStep DEF SamePower, WithSocket, Op, LocalInv
<1>11. CASE HciDevUp(Main)
  BY <1>1, <1>11, HciDevUpStep DEF SamePower, SetDevice, DeviceAnswers
<1>12. CASE RetryDevUp(Main)
  BY <1>1, <1>12, RetryDevUpStep
<1>13. CASE GiveUp(Main)
  <2>1. PropertySet("hciattach", "stop") /\ y.pc \in {"rf_enter", "out"}
        /\ (y.pc = "rf_enter" => y.job = "timeout_off")
    BY <1>13, GiveUpStep DEF Refused
  <2> QED BY <1>2, <1>3, <2>1
<1>14. CASE StartBluetoothd(Main)
  <2>1. PropertySet("bluetoothd", "start") /\ y.pc = "out"
    BY <1>14, StartBluetoothdStep DEF Refused
  <2> QED BY <1>2, <1>3, <2>1
<1>15. CASE StopBluetoothd(Main)
  <2>1. PropertySet("bluetoothd", "stop") /\ y.pc = "mksock"
    BY <1>15, StopBluetoothdStep DEF Refused
  <2> QED BY <1>2, <1>3, <2>1
<1>16. CASE HciDevDown(Main)
  BY <1>1, <1>16, HciDevDownStep DEF SetDevice
<1>17. CASE StopHciattach(Main)
  <2>1. PropertySet("hciattach", "stop") /\ y.pc \in {"rf_enter", "out"}
        /\ (y.pc = "rf_enter" => y.job = "disable_off")
    BY <1>17, StopHciattachStep DEF Refused
  <2> QED BY <1>2, <1>3, <2>1
<1>18. CASE HciGetDevInfo(Main)
  BY <1>1, <1>18, HciGetDevInfoStep
<1>19. CASE Return(Main)
  BY <1>1, <1>19, ReturnStep
<1> QED
  BY <1>4, <1>5, <1>6, <1>7, <1>8, <1>9, <1>10, <1>11, <1>12, <1>13, <1>14, <1>15, <1>16,
     <1>17, <1>18, <1>19 DEF Step

LEMMA InitCInv == BtTestInit => CInv
<1> SUFFICES ASSUME BtTestInit PROVE CInv
  OBVIOUS
<1>1. DInv
  BY InitDInv
<1>2. thread[Main].pc = "idle"
  BY MainFacts DEF BtTestInit, Init
<1>3. hci = "up" => power /\ firmware
  BY DEF BtTestInit, Init, PlatformInit
<1> QED BY <1>1, <1>2, <1>3 DEF CInv, CutInv, GivingUp, PowerPc

LEMMA NextCInv ==
  ASSUME "property" \notin MayFail
  PROVE  CInv /\ [BtTestNext]_btTestVars => CInv'
<1> SUFFICES ASSUME CInv, [BtTestNext]_btTestVars PROVE CInv'
  OBVIOUS
<1> DEFINE x == thread[Main]
           y == thread'[Main]
<1>0. /\ DInv /\ DInv' /\ CutInv(x) /\ IInv
      /\ thread \in [Caller -> Thread] /\ PlatformTypeOK
  BY NextDInv, MainFacts DEF CInv, DInv, BInv
<1>1. ASSUME UNCHANGED platformVars, y = x \/ y.pc \notin PowerPc \/ y.job \in {"enable_on", "query"}
      PROVE  CInv'
  <2>1. UNCHANGED <<power, firmware, hci, want>>
        /\ (Pending("hciattach", "stop")' <=> Pending("hciattach", "stop"))
    BY <1>1 DEF platformVars, Pending
  <2> QED BY <1>0, <1>1, <2>1 DEF CInv, CutInv, GivingUp
<1>2. ASSUME NEW what, Exec(what) PROVE CInv'
  BY <1>1, <1>2 DEF Exec, vars
<1>3. ASSUME NEW f \in function_table, Call(f) PROVE CInv'
  <2>1. UNCHANGED platformVars /\ y.job \in {"enable_on", "query"}
    BY <1>0, <1>3, CallMoves
  <2> QED BY <1>1, <2>1
<1>4. ASSUME Runs PROVE CInv'
  BY <1>0, <1>4, CutSteps DEF CInv, Runs
<1>5. ASSUME NEW code, ProcessEnds(code) PROVE CInv'
  <2>1. UNCHANGED platformVars /\ y.pc = "idle"
    BY <1>0, <1>5, Ended
  <2> QED BY <1>1, <2>1 DEF PowerPc
<1>6. ASSUME Platform(PlatformNext) PROVE CInv'
  <2>1. UNCHANGED <<thread, power, want>> /\ (hci' = "up" => hci = "up")
    BY <1>6, PlatformMoves
  <2>2. firmware' = firmware \/ firmware' = TRUE
    BY <1>6 DEF Platform, PlatformNext, InitHandles, HciattachAttaches, DaemonExits
  <2>3. Pending("hciattach", "stop") /\ hci' = "up" => Pending("hciattach", "stop")'
    <3>1. CASE InitHandles
      BY <1>0, <3>1, RequestHandled
    <3>2. CASE UNCHANGED ctl
      BY <3>2 DEF Pending
    <3> QED BY <1>6, <3>1, <3>2 DEF Platform, PlatformNext, HciattachAttaches, DaemonExits
  <2> QED BY <1>0, <2>1, <2>2, <2>3 DEF CInv, CutInv, GivingUp
<1>7. CASE UNCHANGED btTestVars
  BY <1>1, <1>7 DEF btTestVars, vars
<1> QED
  BY <1>2, <1>3, <1>4, <1>5, <1>6, <1>7 DEF BtTestNext, MainReturns, Kill

(* What a step of the library does to the power and to the device. *)
LEMMA CutOrder ==
  ASSUME DInv, Fails("property") \/ CutInv(thread[Main]), Step(Main)
  PROVE  /\ power /\ ~power' =>
              \/ thread[Main].op = "disable" /\ hci # "up" /\ want = [s \in Service |-> "stop"]
              \/ thread[Main].op = "enable" /\ (want["hciattach"] = "stop" \/ Fails("property"))
         /\ hci = "up" /\ hci' = "down" => want["bluetoothd"] = "stop"
<1> DEFINE x == thread[Main]
           Rolls == x.op = "enable" /\ (want["hciattach"] = "stop" \/ Fails("property"))
           Switches == x.op = "disable" /\ hci # "up" /\ want = [s \in Service |-> "stop"]
<1>0. /\ DisableInv(x) /\ thread \in [Caller -> Thread] /\ x \in Thread /\ LocalInv(x)
      /\ Main \in Caller /\ (x.pc # "idle" => Answers(x)) /\ PlatformTypeOK
  BY MainFacts DEF DInv, BInv, ProcessInv, Idle, At
<1>1. CASE StateFileIo(Main)
  <2>1. /\ x.pc = "rf_io" /\ Answers(x) /\ x.pc \in PowerPc
        /\ UNCHANGED platformVars \/ (x.job # "query" /\ SwitchPower(TurnsOn(x.job)))
    BY <1>0, <1>1, StateFileIoStep DEF PowerPc
  <2>2. CASE UNCHANGED platformVars
    BY <2>2 DEF platformVars
  <2>3. CASE x.job # "query" /\ SwitchPower(TurnsOn(x.job))
    <3>1. hci' = hci /\ power' = (x.job = "enable_on")
      BY <2>3 DEF SwitchPower, TurnsOn
    <3>2. x.job \in {"enable_on", "attach_off", "timeout_off", "daemon_off", "disable_off"}
      BY <1>0, <2>3 DEF Thread, Job
    <3>3. CASE x.job = "disable_off"
      <4>1. x.op = "disable" /\ hci # "up" /\ Asked("stop")
        BY <1>0, <2>1, <3>3 DEF Answers, DisableInv, SwitchingOff
      <4>2. want = [s \in Service |-> want[s]]
        BY <1>0 DEF PlatformTypeOK
      <4>3. Switches
        BY <4>1, <4>2 DEF Asked, Service
      <4> QED BY <3>1, <4>1, <4>3
    <3>4. CASE x.job \in {"attach_off", "timeout_off", "daemon_off"}
      <4>1. Rolls
        BY <2>1, <3>4 DEF Answers, CutInv, GivingUp
      <4> QED BY <3>1, <4>1
    <3> QED BY <3>1, <3>2, <3>3, <3>4
  <2> QED BY <2>1, <2>2, <2>3
<1>2. CASE HciDevDown(Main)
  <2>1. x.op = "disable" /\ x.pc = "devdown"
    BY <1>0, <1>2, HciDevDownStep DEF Answers
  <2>2. power' = power
    BY <1>2 DEF HciDevDown, SetDevice
  <2> QED BY <1>0, <2>1, <2>2 DEF DisableInv
<1>3. CASE HciDevUp(Main)
  BY <1>0, <1>3, HciDevUpStep DEF SetDevice, platformVars
<1>4. CASE UNCHANGED <<power, hci>>
  BY <1>4
<1>5. CASE StartHciattach(Main) \/ GiveUp(Main) \/ StartBluetoothd(Main) \/ StopBluetoothd(Main)
           \/ StopHciattach(Main)
  BY <1>4, <1>5 DEF StartHciattach, GiveUp, StartBluetoothd, StopBluetoothd, StopHciattach,
     PropertySet, Refused, platformVars
<1>6. CASE EnterPower(Main) \/ ProbeRfkill(Main) \/ SetStatePath(Main) \/ OpenStatePath(Main)
           \/ LeavePower(Main) \/ create_hci_sock(Main) \/ RetryDevUp(Main) \/ HciGetDevInfo(Main)
           \/ Return(Main)
  BY <1>4, <1>6 DEF EnterPower, ProbeRfkill, SetStatePath, OpenStatePath, LeavePower,
     create_hci_sock, RetryDevUp, HciGetDevInfo, Return, platformVars
<1> QED BY <1>1, <1>2, <1>3, <1>5, <1>6 DEF Step

(* After any history of kills, failures, time-outs and refused requests, a *)
(* bt_disable cuts the power only after it has taken the device down and   *)
(* init has accepted both stops, a bt_enable only after hciattach is asked *)
(* to stop or where the property service may refuse a request, and the     *)
(* device goes down only after the stop of bluetoothd is asked for.        *)
THEOREM StopsComeFirst == BtTestSpec => StopBeforeCut
<1> DEFINE A == /\ power /\ ~power' =>
                     \/ thread[Main].op = "disable" /\ hci # "up" /\ want = [s \in Service |-> "stop"]
                     \/ thread[Main].op = "enable" /\ (want["hciattach"] = "stop" \/ Fails("property"))
                /\ hci = "up" /\ hci' = "down" => want["bluetoothd"] = "stop"
           J == DInv /\ (Fails("property") \/ CutInv(thread[Main]))
<1>1. J /\ [BtTestNext]_btTestVars => [A]_btTestVars
  <2> SUFFICES ASSUME J, [BtTestNext]_btTestVars PROVE A \/ UNCHANGED btTestVars
    OBVIOUS
  <2>1. thread \in [Caller -> Thread] /\ IInv
    BY MainFacts DEF DInv, BInv
  <2>2. ASSUME UNCHANGED platformVars PROVE A
    BY <2>2 DEF platformVars
  <2>3. ASSUME NEW what, Exec(what) PROVE A
    BY <2>2, <2>3 DEF Exec, vars
  <2>4. ASSUME NEW f \in function_table, Call(f) PROVE A
    BY <2>1, <2>2, <2>4, CallMoves
  <2>5. CASE Runs
    BY <2>5, CutOrder DEF Runs
  <2>6. ASSUME NEW code, ProcessEnds(code) PROVE A
    BY <2>2, <2>6 DEF ProcessEnds
  <2>7. CASE Platform(PlatformNext)
    BY <2>7, PlatformMoves
  <2> QED BY <2>3, <2>4, <2>5, <2>6, <2>7 DEF BtTestNext, MainReturns, Kill
<1>2. J /\ [BtTestNext]_btTestVars => J'
  <2>1. CASE Fails("property")
    BY <2>1, NextDInv
  <2>2. CASE "property" \notin MayFail
    BY <2>2, NextCInv, NextDInv DEF CInv
  <2> QED BY <2>1, <2>2 DEF Fails
<1>3. BtTestInit => J
  BY InitCInv DEF CInv
<1> QED BY <1>1, <1>2, <1>3, PTL DEF BtTestSpec, StopBeforeCut
-----------------------------------------------------------------------------
(* bt_enable, step by step: what it finds up is powered, because a device  *)
(* on a chip whose power was cut has a stop waiting, and none is waiting.  *)

LEMMA EnableSteps ==
  ASSUME "property" \notin MayFail, CInv, EnableInv(thread[Main]), Step(Main), UNCHANGED caughtUp
  PROVE  EnableInv(thread[Main])'
<1> DEFINE x == thread[Main]
           y == thread'[Main]
<1>0. /\ CutInv(x) /\ thread \in [Caller -> Thread] /\ x \in Thread /\ LocalInv(x)
      /\ Main \in Caller /\ PlatformTypeOK /\ UseRfkill \in BOOLEAN /\ ~Fails("property")
      /\ Answers(x) /\ Answers(y)
  <2>1. Main \in Caller /\ Answers(x) /\ LocalInv(x) /\ thread \in [Caller -> Thread]
        /\ (x.pc # "rf_out" => x.val = -1)
    BY StepInCall, MainFacts DEF CInv, DInv, BInv, ProcessInv, Idle, At
  <2>2. Answers(y)
    BY <2>1, StepAnswers
  <2> QED BY <2>1, <2>2, MainFacts, ConstantFacts DEF CInv, DInv, BInv, Fails
<1>1. UNCHANGED ctl => (NothingStops' <=> NothingStops)
  BY DEF NothingStops, Pending
<1>2. ASSUME NEW s \in Service, NEW v \in Verb, PropertySet(s, v) \/ Refused
      PROVE  /\ hci' = hci /\ PropertySet(s, v)
             /\ v = "start" => (NothingStops => NothingStops')
             /\ want'[s] = v /\ \A r \in Service \ {s} : want'[r] = want[r]
  <2>1. PropertySet(s, v)
    BY <1>0, <1>2 DEF Refused
  <2> QED BY <1>0, <2>1, RequestMade, RequestQueued DEF NothingStops
<1>3. /\ "hciattach" \in Service /\ "bluetoothd" \in Service /\ "start" \in Verb /\ "stop" \in Verb
      /\ "hciattach" # "bluetoothd"
  BY DEF Service, Verb
<1> USE <1>0 DEF EnableInv, Trying, Attached, FoundUp, PowerPc, platformVars
<1>4. CASE EnterPower(Main) \/ SetStatePath(Main)
  BY <1>1, <1>4, EnterPowerStep, SetStatePathStep DEF SameCall, SamePower
<1>5. CASE ProbeRfkill(Main)
  BY <1>1, <1>5, ProbeRfkillStep DEF SameCall
<1>6. CASE OpenStatePath(Main)
  BY <1>1, <1>6, OpenStatePathStep DEF SameCall
<1>7. CASE StateFileIo(Main)
  <2>1. /\ x.pc = "rf_io" /\ y.pc = "rf_out" /\ y.job = x.job /\ SameCall(x, y)
    BY <1>7, StateFileIoStep
  <2>2. UNCHANGED <<hci, ctl, want>>
    BY <1>7, StateFileIoStep DEF SwitchPower
  <2> QED BY <1>1, <2>1, <2>2 DEF SameCall
<1>8. CASE LeavePower(Main)
  BY <1>1, <1>8, LeavePowerStep DEF Thread, Job, LocalInv, Answers
<1>9. CASE StartHciattach(Main)
  <2>1. PropertySet("hciattach", "start") /\ x.pc = "start_hciattach" /\ y.pc = "mksock"
        /\ y.op = x.op /\ y.ret = x.ret
    BY <1>9, StartHciattachStep DEF Refused
  <2> QED BY <1>2, <1>3, <2>1
<1>10. CASE create_hci_sock(Main)
  BY <1>1, <1>10, CreateSockStep DEF SamePower, WithSocket, Op, LocalInv
<1>11. CASE HciDevUp(Main)
  <2>1. /\ x.pc = "devup" /\ y.op = x.op /\ x.op = "enable"
        /\ \/ y.pc = "start_bluetoothd" /\ (SetDevice("up") \/ (hci = "up" /\ UNCHANGED platformVars))
           \/ y.pc = "retry" /\ y.ret = -1 /\ UNCHANGED platformVars
    BY <1>11, HciDevUpStep DEF LocalInv
  <2>2. UNCHANGED <<ctl, want>> /\ (y.pc = "start_bluetoothd" => hci' = "up")
        /\ (y.pc = "retry" => y.ret # 0)
    BY <2>1 DEF SetDevice
  <2> QED BY <1>1, <2>1, <2>2
<1>12. CASE RetryDevUp(Main)
  BY <1>1, <1>12, RetryDevUpStep DEF SamePower
<1>13. CASE GiveUp(Main)
  <2>1. PropertySet("hciattach", "stop") /\ x.pc = "timeout" /\ y.pc \in {"rf_enter", "out"}
        /\ (y.pc = "rf_enter" => y.job = "timeout_off") /\ y.op = x.op /\ y.ret = x.ret
    BY <1>13, GiveUpStep DEF Refused, SameCall
  <2> QED BY <1>2, <1>3, <2>1 DEF Answers
<1>14. CASE StartBluetoothd(Main)
  <2>1. PropertySet("bluetoothd", "start") /\ x.pc = "start_bluetoothd" /\ y.pc = "out"
        /\ y.op = x.op
    BY <1>14, StartBluetoothdStep DEF Refused
  <2> QED BY <1>2, <1>3, <2>1
<1>15. CASE StopBluetoothd(Main)
  BY <1>15, StopBluetoothdStep DEF LocalInv, SameCall
<1>16. CASE HciDevDown(Main)
  BY <1>16, HciDevDownStep DEF SameCall, Answers
<1>17. CASE StopHciattach(Main)
  BY <1>17, StopHciattachStep DEF Answers
<1>18. CASE HciGetDevInfo(Main)
  BY <1>18, HciGetDevInfoStep DEF Answers
<1>19. CASE Return(Main)
  BY <1>1, <1>19, ReturnStep
<1> QED
  BY <1>4, <1>5, <1>6, <1>7, <1>8, <1>9, <1>10, <1>11, <1>12, <1>13, <1>14, <1>15, <1>16,
     <1>17, <1>18, <1>19 DEF Step

LEMMA InitEInv == BtTestInit => EInv
<1> SUFFICES ASSUME BtTestInit PROVE EInv
  OBVIOUS
<1>1. CInv /\ argv = "none"
  BY InitCInv DEF BtTestInit
<1>2. thread[Main].op = "none"
  BY MainFacts DEF BtTestInit, Init
<1> QED BY <1>1, <1>2 DEF EInv, EnableInv, Trying, Attached, FoundUp, LeftEnabled

LEMMA NextEInv ==
  ASSUME "property" \notin MayFail, ~DaemonsMayExit
  PROVE  EInv /\ [BtTestNext]_btTestVars => EInv'
<1> SUFFICES ASSUME EInv, [BtTestNext]_btTestVars PROVE EInv'
  OBVIOUS
<1> DEFINE x == thread[Main]
           y == thread'[Main]
<1>0. /\ CInv /\ CInv' /\ EnableInv(x) /\ LeftEnabled /\ IInv /\ ProcessInv
      /\ thread \in [Caller -> Thread] /\ x \in Thread /\ PlatformTypeOK /\ Main \in Caller
  BY NextCInv, MainFacts DEF EInv, CInv, DInv, BInv
<1>1. ASSUME UNCHANGED <<thread, want, caughtUp>>, NothingStops => NothingStops',
             NothingStops /\ hci = "up" => hci' = "up"
      PROVE  EnableInv(x)'
  BY <1>0, <1>1 DEF EnableInv, Trying, Attached, FoundUp
<1>2. UNCHANGED ctl => (NothingStops' <=> NothingStops)
  BY DEF NothingStops, Pending
<1>3. ASSUME NEW what \in function_table \cup {"client", "unknown"}, Exec(what) PROVE EInv'
  <2>1. UNCHANGED <<thread, want, hci, ctl, caughtUp>> /\ ~(~alive' /\ argv' = "enable")
    BY <1>3 DEF Exec, vars, platformVars, function_table
  <2> QED BY <1>0, <1>1, <1>2, <2>1 DEF EInv, LeftEnabled
<1>4. ASSUME NEW f \in function_table, Call(f) PROVE EInv'
  <2>1. /\ alive' /\ y.op = f /\ y.ret = -1
        /\ y.pc \in {"stop_bluetoothd", "rf_enter", "start_hciattach", "mksock"}
        /\ y.pc = "mksock" => f = "is_enabled"
        /\ caughtUp' = (ctl = << >>) /\ UNCHANGED platformVars
    BY <1>0, <1>4, CallMoves
  <2>2. caughtUp' => NothingStops'
    <3>1. ctl = << >> => NothingStops
      BY DEF NothingStops, Pending
    <3> QED BY <1>2, <2>1, <3>1 DEF platformVars
  <2>3. y.ret # 0
    BY <2>1
  <2>4. EnableInv(x)'
    BY <2>1, <2>2, <2>3 DEF EnableInv, Trying, Attached, FoundUp
  <2> QED BY <1>0, <2>1, <2>4 DEF EInv, LeftEnabled
<1>5. ASSUME Runs PROVE EInv'
  <2>1. Step(Main) /\ UNCHANGED processVars
    BY <1>5 DEF Runs
  <2>2. EnableInv(x)'
    BY <1>0, <2>1, EnableSteps DEF processVars
  <2>3. alive
    BY <1>0, <2>1, StepInCall DEF ProcessInv, Idle, At
  <2> QED BY <1>0, <2>1, <2>2, <2>3 DEF EInv, LeftEnabled, processVars
<1>6. ASSUME NEW code, ProcessEnds(code),
             argv = "enable" /\ code % 256 = 0 => x.op = "enable" /\ x.ret = 0 /\ x.pc = "idle"
      PROVE  EInv'
  <2>1. /\ y.op = "none" /\ status' = code % 256
        /\ UNCHANGED <<platformVars, argv, caughtUp>>
    BY <1>0, <1>6, Ended
  <2>2. EnableInv(x)'
    BY <2>1 DEF EnableInv, Trying, Attached, FoundUp
  <2>3. LeftEnabled'
    <3> SUFFICES ASSUME argv = "enable", code % 256 = 0, caughtUp
                 PROVE  hci = "up" /\ Asked("start") /\ NothingStops
      BY <1>2, <2>1 DEF LeftEnabled, Asked, platformVars
    <3> QED BY <1>0, <1>6 DEF EnableInv, Trying, Attached, FoundUp, Asked
  <2> QED BY <1>0, <2>2, <2>3 DEF EInv
<1>7. CASE MainReturns
  <2>1. ProcessEnds(x.ret) /\ (argv = "enable" => x.op = "enable") /\ x.pc = "idle"
    BY <1>0, <1>7 DEF MainReturns, ProcessInv, function_table, Called, Idle, At
  <2>2. x.ret % 256 = 0 => x.ret = 0
    BY <1>0, StatusZero DEF Thread
  <2> QED BY <1>6, <2>1, <2>2
<1>8. CASE Kill
  BY <1>6, <1>8, StatusZero DEF Kill
<1>9. ASSUME Platform(PlatformNext), UNCHANGED processVars PROVE EInv'
  <2>1. UNCHANGED <<thread, want, caughtUp, alive, argv, status>>
    BY <1>9, PlatformMoves DEF processVars
  <2>2. (NothingStops => NothingStops') /\ (NothingStops /\ hci = "up" => hci' = "up")
    <3>1. CASE InitHandles
      BY <1>0, <3>1, RequestHandled DEF NothingStops
    <3>2. CASE HciattachAttaches
      BY <1>2, <3>2 DEF HciattachAttaches
    <3> QED BY <1>9, <3>1, <3>2 DEF Platform, PlatformNext, DaemonExits
  <2> QED BY <1>0, <1>1, <2>1, <2>2 DEF EInv, LeftEnabled, Asked
<1>10. CASE UNCHANGED btTestVars
  <2>1. UNCHANGED <<thread, want, hci, ctl, alive, argv, status, caughtUp>>
    BY <1>10 DEF btTestVars, processVars, vars, platformVars
  <2> QED BY <1>0, <1>1, <1>2, <2>1 DEF EInv, LeftEnabled, Asked
<1> QED
  BY <1>3, <1>4, <1>5, <1>7, <1>8, <1>9, <1>10 DEF BtTestNext

(* A bt_enable that answers 0 has a powered chip with firmware, a device   *)
(* that is up and both daemons asked for, if init had caught up when it    *)
(* began, the property service takes the requests and no daemon exits on   *)
(* its own; kills, failures and time-outs of former processes included.    *)
THEOREM EnableAlwaysRecovers ==
  ASSUME "property" \notin MayFail, ~DaemonsMayExit
  PROVE  BtTestSpec => []EnableRecovers
<1>1. EInv => EnableRecovers
  <2> SUFFICES ASSUME EInv, Succeeded("enable"), caughtUp
               PROVE  power /\ firmware /\ hci = "up" /\ want = [s \in Service |-> "start"]
    BY DEF EnableRecovers
  <2>1. hci = "up" /\ Asked("start") /\ NothingStops
    BY DEF EInv, LeftEnabled, EnableInv, Trying, Attached, FoundUp, Asked, Succeeded, Idle, At
  <2>2. power /\ firmware
    BY <2>1 DEF EInv, CInv, CutInv, NothingStops, Service
  <2>3. want = [s \in Service |-> want[s]]
    BY MainFacts DEF EInv, CInv, DInv, BInv, PlatformTypeOK
  <2> QED BY <2>1, <2>2, <2>3 DEF Asked, Service
<1>2. EInv /\ [BtTestNext]_btTestVars => EInv'
  BY NextEInv
<1> QED BY <1>1, <1>2, InitEInv, PTL DEF BtTestSpec

=============================================================================
