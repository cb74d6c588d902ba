-------------------------- MODULE BluedroidProofs --------------------------
(***************************************************************************)
(* Proofs about Bluedroid for any number of callers, descriptors and       *)
(* attempts, any faults and either build.                                  *)
(***************************************************************************)
EXTENDS BluedroidProperties, TLAPS

(* What the program counter of a call says of its locals.                  *)
LocalInv(t) ==
  /\ t.pc \in {"devup", "retry"} => t.op = "enable" /\ t.attempt >= 1
  /\ t.pc = "mksock" => t.op \in Op /\ (t.op = "enable" => t.attempt >= 1)
  /\ t.pc = "stop_bluetoothd" => t.op = "disable"
  /\ t.pc = "start_hciattach" => t.op = "enable"
  /\ t.pc \in PowerPc /\ t.job = "enable_on" => t.op = "enable"
  /\ t.pc \in PowerPc /\ t.job = "query" => t.op = "is_enabled"
  /\ t.pc \in {"idle", "start_hciattach", "stop_bluetoothd"} => t.hci_sock = None
  /\ t.pc \in PowerPc /\ t.job \in {"enable_on", "attach_off", "query"} => t.hci_sock = None
  /\ t.pc \in {"devup", "retry", "start_bluetoothd", "devdown", "stop_hciattach", "devinfo"} =>
       t.hci_sock # None
  /\ t.pc \in PowerPc /\ t.job \in {"daemon_off", "disable_off"} => t.hci_sock # None
  /\ t.pc \notin {"rf_io", "rf_out"} => t.fd = None
  /\ t.pc = "rf_io" => t.fd # None

(* A call that gives up has counted its attempts down. *)
Late(t) == t.pc = "timeout" \/ (t.pc \in PowerPc /\ t.job = "timeout_off")

IInv ==
  /\ TypeOK
  /\ \A c \in Caller : LocalInv(thread[c]) /\ (Late(thread[c]) => timedOut)
  /\ NoFdLeak
  /\ FdsIntactUntilTimeout
-----------------------------------------------------------------------------
LEMMA ConstantFacts ==
  /\ App # Free /\ App \notin Caller /\ Free \notin Caller
  /\ UseRfkill \in BOOLEAN
  BY BluedroidAssumption, PlatformAssumption

LEMMA RangeFacts ==
  /\ 0 \in 0 .. Attempts /\ Attempts \in 0 .. Attempts /\ Attempts >= 1
  /\ \A a \in 0 .. Attempts : a >= 1 => a - 1 \in 0 .. Attempts
  /\ \A a \in 0 .. Attempts : ~(a <= 1) => a - 1 >= 1
  /\ None \notin Fd
  BY BluedroidAssumption DEF Fd, None

(* A step of c changes the record of c alone, to one that is well formed.  *)
LEMMA OneThreadMoves ==
  ASSUME thread \in [Caller -> Thread], NEW c \in Caller, NEW t \in Thread, Becomes(c, t)
  PROVE  /\ thread' \in [Caller -> Thread]
         /\ thread'[c] = t
         /\ \A d \in Caller \ {c} : thread'[d] = thread[d]
  BY DEF Becomes

LEMMA StepLocal ==
  ASSUME NEW c \in Caller, thread \in [Caller -> Thread], LocalInv(thread[c]), Step(c)
  PROVE  \E t \in Thread : LocalInv(t) /\ Becomes(c, t)
<1> DEFINE x == thread[c]
<1>0. x \in Thread
  OBVIOUS
<1> USE <1>0, ConstantFacts, RangeFacts DEF Thread, LocalInv, Pc, PowerPc, Job, Op, At
<1>1. CASE EnterPower(c)
  BY <1>1 DEF EnterPower, Goto
<1>2. CASE ProbeRfkill(c)
  <2>1. x \in Thread /\ x.pc = "rf_probe"
    BY <1>2 DEF ProbeRfkill
  <2>2. [x EXCEPT !.id = x.id + 1] \in Thread /\ LocalInv([x EXCEPT !.id = x.id + 1])
    BY <2>1
  <2>3. \A l \in {"rf_out", "rf_path"} :
          [x EXCEPT !.pc = l] \in Thread /\ LocalInv([x EXCEPT !.pc = l])
    BY <2>1
  <2> QED BY <1>2, <2>2, <2>3 DEF ProbeRfkill, Goto
<1>3. CASE SetStatePath(c)
  BY <1>3 DEF SetStatePath, Goto
<1>4. CASE OpenStatePath(c)
  <2>1. ASSUME NEW n \in Fd
        PROVE  /\ [x EXCEPT !.pc = "rf_io", !.fd = n] \in Thread
               /\ LocalInv([x EXCEPT !.pc = "rf_io", !.fd = n])
    BY <1>4 DEF OpenStatePath
  <2>2. [x EXCEPT !.pc = "rf_out"] \in Thread /\ LocalInv([x EXCEPT !.pc = "rf_out"])
    BY <1>4 DEF OpenStatePath
  <2>3. \/ Goto(c, "rf_out")
        \/ \E n \in Fd : Becomes(c, [x EXCEPT !.pc = "rf_io", !.fd = n])
    BY <1>4 DEF OpenStatePath
  <2>4. CASE Goto(c, "rf_out")
    BY <2>2, <2>4 DEF Goto
  <2>5. ASSUME NEW n \in Fd, Becomes(c, [x EXCEPT !.pc = "rf_io", !.fd = n])
        PROVE  \E t \in Thread : LocalInv(t) /\ Becomes(c, t)
    <3> HIDE DEF Thread, LocalInv
    <3> QED BY <2>1, <2>5
  <2> QED BY <2>3, <2>4, <2>5
<1>5. CASE StateFileIo(c)
  <2>1. \E v \in {-1, 0, 1} : Becomes(c, [x EXCEPT !.pc = "rf_out", !.val = v])
    BY <1>5 DEF StateFileIo
  <2>2. x \in Thread /\ x.pc = "rf_io"
    BY <1>5 DEF StateFileIo
  <2>3. \A v \in {-1, 0, 1} : /\ [x EXCEPT !.pc = "rf_out", !.val = v] \in Thread
                             /\ LocalInv([x EXCEPT !.pc = "rf_out", !.val = v])
    BY <2>2
  <2> HIDE DEF Thread, LocalInv
  <2> QED BY <2>1, <2>3
<1>6. CASE LeavePower(c)
  <2> DEFINE y == AfterPower(x)
             t == [y EXCEPT !.job = "query", !.id = 0, !.fd = None, !.val = -1]
  <2>1. y \in Thread /\ y.pc \in {"out", "start_hciattach", "mksock"} /\ y.op = x.op
        /\ y.hci_sock = x.hci_sock
    BY <1>6 DEF LeavePower, AfterPower
  <2>2. /\ y.pc = "start_hciattach" => x.job = "enable_on"
        /\ y.pc = "mksock" => x.job = "query"
    BY <1>6 DEF LeavePower, AfterPower
  <2>3. t \in Thread
    BY <2>1
  <2>4. LocalInv(t)
    BY <1>6, <2>1, <2>2 DEF LeavePower
  <2> QED BY <1>6, <2>3, <2>4 DEF LeavePower
<1>7. CASE StartHciattach(c)
  <2>1. x.pc = "start_hciattach"
    BY <1>7 DEF StartHciattach
  <2>2. \/ Becomes(c, [x EXCEPT !.pc = "mksock", !.attempt = Attempts])
        \/ Becomes(c, [x EXCEPT !.pc = "rf_enter", !.job = "attach_off"])
        \/ Becomes(c, [x EXCEPT !.pc = "out"])
    BY <1>7 DEF StartHciattach, Goto, CallPower
  <2>3. [x EXCEPT !.pc = "mksock", !.attempt = Attempts] \in Thread
    <3> HIDE DEF LocalInv
    <3> QED BY RangeFacts
  <2>4. LocalInv([x EXCEPT !.pc = "mksock", !.attempt = Attempts])
    BY <2>1
  <2>5. /\ [x EXCEPT !.pc = "rf_enter", !.job = "attach_off"] \in Thread
        /\ LocalInv([x EXCEPT !.pc = "rf_enter", !.job = "attach_off"])
        /\ [x EXCEPT !.pc = "out"] \in Thread
        /\ LocalInv([x EXCEPT !.pc = "out"])
    BY <2>1
  <2> HIDE DEF Thread, LocalInv
  <2> QED BY <2>2, <2>3, <2>4, <2>5
<1>8. CASE create_hci_sock(c)
  <2>1. x \in Thread /\ x.pc = "mksock" /\ x.op \in Op
    BY <1>8 DEF create_hci_sock
  <2>2. WithSocket(x.op) \in {"devup", "devdown", "devinfo"}
        /\ (WithSocket(x.op) = "devup" => x.op = "enable")
    BY <2>1 DEF WithSocket
  <2>3. \A n \in Fd : [x EXCEPT !.pc = WithSocket(x.op), !.hci_sock = n] \in Thread
    <3> HIDE DEF LocalInv
    <3> QED BY <2>1, <2>2
  <2>4. \A n \in Fd : LocalInv([x EXCEPT !.pc = WithSocket(x.op), !.hci_sock = n])
    BY <2>1, <2>2
  <2>5. /\ [x EXCEPT !.pc = "out", !.hci_sock = None] \in Thread
        /\ LocalInv([x EXCEPT !.pc = "out", !.hci_sock = None])
    BY <2>1
  <2>6. \/ Becomes(c, [x EXCEPT !.pc = "out", !.hci_sock = None])
        \/ \E n \in Fd : Becomes(c, [x EXCEPT !.pc = WithSocket(x.op), !.hci_sock = n])
    BY <1>8 DEF create_hci_sock
  <2> HIDE DEF Thread, LocalInv
  <2> QED BY <2>3, <2>4, <2>5, <2>6
<1>9. CASE HciDevUp(c)
  BY <1>9 DEF HciDevUp
<1>10. CASE RetryDevUp(c)
  <2> DEFINE l == IF LastAttempt(c) THEN "timeout" ELSE "mksock"
             t == [x EXCEPT !.attempt = AttemptsLeft(c), !.pc = l]
  <2>1. x \in Thread /\ x.pc = "retry" /\ x.op = "enable" /\ x.attempt >= 1
    BY <1>10 DEF RetryDevUp
  <2>2. AttemptsLeft(c) \in 0 .. Attempts /\ (~LastAttempt(c) => AttemptsLeft(c) >= 1)
    BY <2>1 DEF AttemptsLeft, LastAttempt
  <2>3. t \in Thread
    <3> HIDE DEF LocalInv
    <3> QED BY <2>1, <2>2
  <2>4. LocalInv(t)
    BY <2>1, <2>2
  <2>5. Becomes(c, t)
    BY <1>10 DEF RetryDevUp
  <2> HIDE DEF t, Thread, LocalInv
  <2> QED BY <2>3, <2>4, <2>5
<1>11. CASE GiveUp(c)
  BY <1>11 DEF GiveUp, CallPower, Goto
<1>12. CASE StartBluetoothd(c)
  BY <1>12 DEF StartBluetoothd, CallPower, Goto
<1>13. CASE StopBluetoothd(c)
  BY <1>13 DEF StopBluetoothd, Goto
<1>14. CASE HciDevDown(c)
  BY <1>14 DEF HciDevDown, Goto
<1>15. CASE StopHciattach(c)
  BY <1>15 DEF StopHciattach, Goto
<1>16. CASE HciGetDevInfo(c)
  BY <1>16 DEF HciGetDevInfo
<1>17. CASE Return(c)
  BY <1>17 DEF Return
<1> QED
  BY <1>1, <1>2, <1>3, <1>4, <1>5, <1>6, <1>7, <1>8, <1>9, <1>10, <1>11, <1>12, <1>13, <1>14,
     <1>15, <1>16, <1>17 DEF Step

(* A new call starts well formed. *)
LEMMA BeginLocal ==
  ASSUME NEW c \in Caller, NEW f \in Op, thread \in [Caller -> Thread], LocalInv(thread[c]), Begin(c, f)
  PROVE  \E t \in Thread : LocalInv(t) /\ Becomes(c, t)
<1> DEFINE t == [thread[c] EXCEPT !.op = f, !.ret = -1, !.pc = FirstStep(f),
                                   !.job = IF f = "enable" THEN "enable_on" ELSE "query"]
<1>1. FirstStep(f) \in {"stop_bluetoothd", "rf_enter", "start_hciattach", "mksock"}
  BY ConstantFacts DEF FirstStep, Op
<1>2. t \in Thread
  <2>1. FirstStep(f) \in Pc /\ thread[c] \in Thread
    BY <1>1 DEF Pc, PowerPc
  <2>2. \A l \in Pc, j \in {"enable_on", "query"} :
          [thread[c] EXCEPT !.op = f, !.ret = -1, !.pc = l, !.job = j] \in Thread
    BY <2>1 DEF Thread, Job
  <2> QED BY <2>1, <2>2
<1>3. LocalInv(t)
  BY ConstantFacts, RangeFacts DEF Begin, At, FirstStep, LocalInv, Op, PowerPc, Pc, Thread
<1> QED BY <1>2, <1>3 DEF Begin

(* What the operators of the environment leave well typed. *)
LEMMA RequestType ==
  ASSUME PlatformTypeOK, NEW s \in Service, NEW v \in Verb, PropertySet(s, v)
  PROVE  PlatformTypeOK'
<1>1. ctl' \in Seq(Request)
  <2> DEFINE r == [service |-> s, verb |-> v]
  <2>1. r \in Request /\ ctl \in Seq(Request) BY DEF PlatformTypeOK, Request
  <2> HIDE DEF r
  <2>2. Append(ctl, r) \in Seq(Request) BY <2>1
  <2> QED BY <2>2 DEF PropertySet, r
<1>2. want' \in [Service -> Verb]
  BY DEF PropertySet, PlatformTypeOK
<1> QED BY <1>1, <1>2 DEF PropertySet, PlatformTypeOK

LEMMA PowerType ==
  ASSUME PlatformTypeOK, NEW b \in BOOLEAN, SwitchPower(b)
  PROVE  PlatformTypeOK'
  BY DEF SwitchPower, PlatformTypeOK

LEMMA DeviceType ==
  ASSUME PlatformTypeOK, NEW h \in {"absent", "down", "up"}, SetDevice(h)
  PROVE  PlatformTypeOK'
  BY DEF SetDevice, PlatformTypeOK

LEMMA PlatformNextType ==
  ASSUME PlatformTypeOK, PlatformNext
  PROVE  PlatformTypeOK'
<1>1. CASE InitHandles
  <2>1. ctl \in Seq(Request) /\ ctl # << >> BY <1>1 DEF InitHandles, PlatformTypeOK
  <2>2. Tail(ctl) \in Seq(Request) /\ Head(ctl) \in Request BY <2>1
  <2> QED BY <1>1, <2>2 DEF InitHandles, PlatformTypeOK, Stopped, Request, Service
<1>2. CASE HciattachAttaches
  BY <1>2 DEF HciattachAttaches, PlatformTypeOK
<1>3. CASE \E s \in Service : DaemonExits(s)
  BY <1>3 DEF DaemonExits, PlatformTypeOK, Stopped
<1> QED BY <1>1, <1>2, <1>3 DEF PlatformNext
-----------------------------------------------------------------------------
(* The four things a step can do to the descriptors, with x the record of  *)
(* the caller before the step and y after it.                              *)
Keeps(x, y) ==
  /\ UNCHANGED <<fds, timedOut>>
  /\ HoldsSock(x) => HoldsSock(y) /\ y.hci_sock = x.hci_sock
  /\ HoldsRfd(x) => HoldsRfd(y) /\ y.fd = x.fd
  /\ HoldsSock(y) /\ ~timedOut => HoldsSock(x)
  /\ HoldsRfd(y) => HoldsRfd(x)

OpensSock(c, x, y) ==
  /\ y.hci_sock \in Fd /\ OpenFd(c, "hci", y.hci_sock) /\ UNCHANGED timedOut
  /\ HoldsSock(y)
  /\ ~HoldsSock(x) /\ ~HoldsRfd(x) /\ ~HoldsRfd(y)

OpensRfd(c, x, y) ==
  /\ y.fd \in Fd /\ OpenFd(c, "rfkill", y.fd) /\ UNCHANGED timedOut
  /\ HoldsRfd(y) /\ ~HoldsRfd(x)
  /\ y.hci_sock = x.hci_sock /\ (HoldsSock(y) <=> HoldsSock(x))

ClosesRfd(x, y) ==
  /\ CloseFd(x.fd) /\ UNCHANGED timedOut
  /\ HoldsRfd(x) \/ x.fd = None
  /\ ~HoldsRfd(y)
  /\ y.hci_sock = x.hci_sock
  /\ HoldsSock(x) /\ x.hci_sock # None => HoldsSock(y)
  /\ HoldsSock(y) /\ ~timedOut => HoldsSock(x)

ClosesSock(x, y) ==
  /\ CloseFd(x.hci_sock) /\ (timedOut => timedOut')
  /\ HoldsSock(x) \/ x.hci_sock = None
  /\ ~HoldsSock(y) /\ ~HoldsRfd(x) /\ ~HoldsRfd(y)

Effect(c, x, y) ==
  Keeps(x, y) \/ OpensSock(c, x, y) \/ OpensRfd(c, x, y) \/ ClosesRfd(x, y) \/ ClosesSock(x, y)

LEMMA StepEffect ==
  ASSUME NEW c \in Caller, thread \in [Caller -> Thread], LocalInv(thread[c]),
         Late(thread[c]) => timedOut, timedOut \in BOOLEAN, Step(c)
  PROVE  Effect(c, thread[c], thread'[c])
<1> DEFINE x == thread[c]
           y == thread'[c]
<1>0. x \in Thread /\ LocalInv(x)
  OBVIOUS
<1> USE <1>0, ConstantFacts, RangeFacts
    DEF Thread, LocalInv, Late, Effect, HoldsSock, HoldsRfd, PowerPc, At, Becomes
<1>1. CASE EnterPower(c)
  BY <1>1 DEF EnterPower, Goto, Keeps
<1>2. CASE ProbeRfkill(c)
  BY <1>2 DEF ProbeRfkill, Goto, Keeps
<1>3. CASE SetStatePath(c)
  BY <1>3 DEF SetStatePath, Goto, Keeps
<1>4. CASE OpenStatePath(c)
  <2>1. CASE Goto(c, "rf_out") /\ UNCHANGED fds
    BY <1>4, <2>1 DEF OpenStatePath, Goto, Keeps
  <2>2. ASSUME NEW n \in Fd, OpenFd(c, "rfkill", n), Becomes(c, [x EXCEPT !.pc = "rf_io", !.fd = n])
        PROVE  OpensRfd(c, x, y)
    <3>1. y = [x EXCEPT !.pc = "rf_io", !.fd = n] /\ x.pc = "rf_open" /\ UNCHANGED timedOut
      BY <1>4, <2>2 DEF OpenStatePath
    <3>2. y.fd = n /\ y.pc = "rf_io" /\ y.hci_sock = x.hci_sock /\ y.job = x.job /\ n # None
      BY <3>1
    <3> QED BY <2>2, <3>1, <3>2 DEF OpensRfd
  <2> QED BY <1>4, <2>1, <2>2 DEF OpenStatePath
<1>5. CASE StateFileIo(c)
  <2>1. /\ x.pc = "rf_io" /\ y.pc = "rf_out" /\ UNCHANGED <<fds, timedOut>>
        /\ y.hci_sock = x.hci_sock /\ y.fd = x.fd /\ y.job = x.job
    <3> HIDE DEF LocalInv, Late, Effect, HoldsSock, HoldsRfd
    <3>1. \E v \in {-1, 0, 1} : Becomes(c, [x EXCEPT !.pc = "rf_out", !.val = v])
      BY <1>5 DEF StateFileIo
    <3>2. x.pc = "rf_io" /\ UNCHANGED <<fds, timedOut>>
      BY <1>5 DEF StateFileIo
    <3> QED BY <3>1, <3>2
  <2> QED BY <2>1 DEF Keeps
<1>6. CASE LeavePower(c)
  <2>1. /\ x.pc = "rf_out" /\ CloseFd(x.fd) /\ UNCHANGED timedOut
        /\ y.fd = None /\ y.hci_sock = x.hci_sock
        /\ y.pc \in {"out", "start_hciattach", "mksock"}
        /\ y.pc # "out" => x.job \in {"enable_on", "query"}
    BY <1>6 DEF LeavePower, AfterPower
  <2>2. x.hci_sock # None => x.job \in {"daemon_off", "disable_off"} \/ timedOut
    BY <2>1 DEF Job
  <2> QED BY <2>1, <2>2 DEF ClosesRfd
<1>7. CASE StartHciattach(c)
  <2>1. /\ x.pc = "start_hciattach" /\ UNCHANGED <<fds, timedOut>>
        /\ y.hci_sock = x.hci_sock /\ y.fd = x.fd
        /\ y.pc \in {"mksock", "out", "rf_enter"} /\ (y.pc = "rf_enter" => y.job = "attach_off")
    <3> HIDE DEF LocalInv, Late, Effect, HoldsSock, HoldsRfd
    <3>1. \/ Becomes(c, [x EXCEPT !.pc = "mksock", !.attempt = Attempts])
          \/ Becomes(c, [x EXCEPT !.pc = "rf_enter", !.job = "attach_off"])
          \/ Becomes(c, [x EXCEPT !.pc = "out"])
      BY <1>7 DEF StartHciattach, Goto, CallPower
    <3>2. x.pc = "start_hciattach" /\ UNCHANGED <<fds, timedOut>>
      BY <1>7 DEF StartHciattach
    <3>3. CASE Becomes(c, [x EXCEPT !.pc = "mksock", !.attempt = Attempts])
      BY <3>2, <3>3
    <3>4. CASE Becomes(c, [x EXCEPT !.pc = "rf_enter", !.job = "attach_off"])
      BY <3>2, <3>4
    <3>5. CASE Becomes(c, [x EXCEPT !.pc = "out"])
      BY <3>2, <3>5
    <3> QED BY <3>1, <3>3, <3>4, <3>5
  <2> QED BY <2>1 DEF Keeps
<1>8. CASE create_hci_sock(c)
  <2>1. CASE Becomes(c, [x EXCEPT !.pc = "out", !.hci_sock = None]) /\ UNCHANGED fds
    <3>1. y = [x EXCEPT !.pc = "out", !.hci_sock = None] /\ x.pc = "mksock" /\ UNCHANGED timedOut
      BY <1>8, <2>1 DEF create_hci_sock
    <3>2. y.pc = "out" /\ y.hci_sock = None /\ y.fd = x.fd
      BY <3>1
    <3> QED BY <2>1, <3>1, <3>2 DEF Keeps
  <2>2. ASSUME NEW n \in Fd, OpenFd(c, "hci", n),
               Becomes(c, [x EXCEPT !.pc = WithSocket(x.op), !.hci_sock = n])
        PROVE  OpensSock(c, x, y)
    <3>1. y = [x EXCEPT !.pc = WithSocket(x.op), !.hci_sock = n]
          /\ x.pc = "mksock" /\ UNCHANGED timedOut
      BY <1>8, <2>2 DEF create_hci_sock
    <3>2. WithSocket(x.op) \in {"devup", "devdown", "devinfo"}
      BY <3>1 DEF WithSocket, Op
    <3>3. y.hci_sock = n /\ y.pc \in {"devup", "devdown", "devinfo"} /\ y.fd = x.fd
      BY <3>1, <3>2
    <3> QED BY <2>2, <3>1, <3>3 DEF OpensSock
  <2> QED BY <1>8, <2>1, <2>2 DEF create_hci_sock
<1>9. CASE HciDevUp(c)
  <2>1. /\ x.pc = "devup" /\ UNCHANGED <<fds, timedOut>>
        /\ y.hci_sock = x.hci_sock /\ y.fd = x.fd /\ y.pc \in {"start_bluetoothd", "retry"}
    <3> HIDE DEF LocalInv, Late, Effect, HoldsSock, HoldsRfd
    <3>1. \E r \in {-1, 0}, l \in {"start_bluetoothd", "retry"} :
            Becomes(c, [x EXCEPT !.pc = l, !.ret = r])
      BY <1>9 DEF HciDevUp
    <3>2. x.pc = "devup" /\ UNCHANGED <<fds, timedOut>>
      BY <1>9 DEF HciDevUp
    <3> QED BY <3>1, <3>2
  <2> QED BY <2>1 DEF Keeps
<1>10. CASE RetryDevUp(c)
  BY <1>10 DEF RetryDevUp, ClosesSock
<1>11. CASE GiveUp(c)
  <2>1. /\ x.pc = "timeout" /\ UNCHANGED <<fds, timedOut>>
        /\ y.hci_sock = x.hci_sock /\ y.fd = x.fd
        /\ y.pc \in {"out", "rf_enter"} /\ (y.pc = "rf_enter" => y.job = "timeout_off")
    <3> HIDE DEF LocalInv, Late, Effect, HoldsSock, HoldsRfd
    <3>1. \/ Becomes(c, [x EXCEPT !.pc = "rf_enter", !.job = "timeout_off"])
          \/ Becomes(c, [x EXCEPT !.pc = "out"])
      BY <1>11 DEF GiveUp, Goto, CallPower
    <3>2. x.pc = "timeout" /\ UNCHANGED <<fds, timedOut>>
      BY <1>11 DEF GiveUp
    <3>3. CASE Becomes(c, [x EXCEPT !.pc = "rf_enter", !.job = "timeout_off"])
      BY <3>2, <3>3
    <3>4. CASE Becomes(c, [x EXCEPT !.pc = "out"])
      BY <3>2, <3>4
    <3> QED BY <3>1, <3>3, <3>4
  <2> QED BY <2>1 DEF Keeps
<1>12. CASE StartBluetoothd(c)
  <2>1. /\ x.pc = "start_bluetoothd" /\ UNCHANGED <<fds, timedOut>>
        /\ y.hci_sock = x.hci_sock /\ y.fd = x.fd
        /\ y.pc \in {"out", "rf_enter"} /\ (y.pc = "rf_enter" => y.job = "daemon_off")
    <3> HIDE DEF LocalInv, Late, Effect, HoldsSock, HoldsRfd
    <3>1. \/ Becomes(c, [x EXCEPT !.pc = "rf_enter", !.job = "daemon_off"])
          \/ Becomes(c, [x EXCEPT !.pc = "out"])
          \/ Becomes(c, [x EXCEPT !.pc = "out", !.ret = 0])
      BY <1>12 DEF StartBluetoothd, Goto, CallPower
    <3>2. x.pc = "start_bluetoothd" /\ UNCHANGED <<fds, timedOut>>
      BY <1>12 DEF StartBluetoothd
    <3>3. CASE Becomes(c, [x EXCEPT !.pc = "rf_enter", !.job = "daemon_off"])
      BY <3>2, <3>3
    <3>4. CASE Becomes(c, [x EXCEPT !.pc = "out"])
      BY <3>2, <3>4
    <3>5. CASE Becomes(c, [x EXCEPT !.pc = "out", !.ret = 0])
      BY <3>2, <3>5
    <3> QED BY <3>1, <3>3, <3>4, <3>5
  <2> QED BY <2>1 DEF Keeps
<1>13. CASE StopBluetoothd(c)
  BY <1>13 DEF StopBluetoothd, Goto, Keeps
<1>14. CASE HciDevDown(c)
  BY <1>14 DEF HciDevDown, Goto, Keeps
<1>15. CASE StopHciattach(c)
  <2>1. /\ x.pc = "stop_hciattach" /\ UNCHANGED <<fds, timedOut>>
        /\ y.hci_sock = x.hci_sock /\ y.fd = x.fd
        /\ y.pc \in {"out", "rf_enter"} /\ (y.pc = "rf_enter" => y.job = "disable_off")
    <3> HIDE DEF LocalInv, Late, Effect, HoldsSock, HoldsRfd
    <3>1. \/ Becomes(c, [x EXCEPT !.pc = "rf_enter", !.job = "disable_off"])
          \/ Becomes(c, [x EXCEPT !.pc = "out"])
          \/ Becomes(c, [x EXCEPT !.pc = "out", !.ret = 0])
      BY <1>15 DEF StopHciattach, Goto
    <3>2. x.pc = "stop_hciattach" /\ UNCHANGED <<fds, timedOut>>
      BY <1>15 DEF StopHciattach
    <3>3. CASE Becomes(c, [x EXCEPT !.pc = "rf_enter", !.job = "disable_off"])
      BY <3>2, <3>3
    <3>4. CASE Becomes(c, [x EXCEPT !.pc = "out"])
      BY <3>2, <3>4
    <3>5. CASE Becomes(c, [x EXCEPT !.pc = "out", !.ret = 0])
      BY <3>2, <3>5
    <3> QED BY <3>1, <3>3, <3>4, <3>5
  <2> QED BY <2>1 DEF Keeps
<1>16. CASE HciGetDevInfo(c)
  <2>1. /\ x.pc = "devinfo" /\ UNCHANGED <<fds, timedOut>>
        /\ y.hci_sock = x.hci_sock /\ y.fd = x.fd /\ y.pc = "out"
    BY <1>16 DEF HciGetDevInfo
  <2> QED BY <2>1 DEF Keeps
<1>17. CASE Return(c)
  BY <1>17 DEF Return, ClosesSock
<1> QED
  BY <1>1, <1>2, <1>3, <1>4, <1>5, <1>6, <1>7, <1>8, <1>9, <1>10, <1>11, <1>12, <1>13, <1>14,
     <1>15, <1>16, <1>17 DEF Step
-----------------------------------------------------------------------------
(* Each of the four effects preserves what the table must satisfy.         *)
FdInv ==
  /\ fds \in [Fd -> [owner : Caller \cup {App, Free}, kind : {"hci", "rfkill", "other", "none"}]]
  /\ appFds \subseteq Fd
  /\ NoFdLeak
  /\ FdsIntactUntilTimeout

(* A call that closes a number of its own leaves everybody else's, and the *)
(* socket it may still hold, as they were.                                 *)
LEMMA CloseIntact ==
  ASSUME FdInv, NEW c \in Caller,
         \A d \in Caller \ {c} : thread'[d] = thread[d],
         timedOut \in BOOLEAN, timedOut' \in BOOLEAN, timedOut => timedOut', UNCHANGED appFds,
         NEW n, CloseFd(n), NEW k \in {"hci", "rfkill"},
         ~timedOut' => (n \in Fd => fds[n] = [owner |-> c, kind |-> k]),
         ~HoldsRfd(thread'[c]),
         HoldsSock(thread'[c]) /\ ~timedOut' =>
           HoldsSock(thread[c]) /\ thread'[c].hci_sock = thread[c].hci_sock /\ k = "rfkill"
  PROVE  FdsIntactUntilTimeout'
<1> SUFFICES ASSUME ~timedOut' PROVE FdsIntactUntilTimeout'
  BY DEF FdsIntactUntilTimeout
<1>1. \A m \in Fd \ {n} : fds'[m] = fds[m]
  BY DEF CloseFd
<1>2. \A m \in Fd : fds[m].owner # c => fds'[m] = fds[m]
  BY <1>1
<1>3. \A m \in Fd : fds[m].kind # k => fds'[m] = fds[m]
  BY <1>1
<1>4. ~timedOut
  OBVIOUS
<1>5. ASSUME NEW d \in Caller
      PROVE  /\ HoldsSock(thread'[d]) => OwnedAs(thread[d].hci_sock, d, "hci")'
             /\ HoldsRfd(thread'[d]) => OwnedAs(thread[d].fd, d, "rfkill")'
  <2>1. CASE d # c
    <3>1. /\ HoldsSock(thread[d]) => OwnedAs(thread[d].hci_sock, d, "hci")
          /\ HoldsRfd(thread[d]) => OwnedAs(thread[d].fd, d, "rfkill")
      BY <1>4 DEF FdInv, FdsIntactUntilTimeout
    <3> QED BY <1>2, <2>1, <3>1 DEF OwnedAs
  <2>2. CASE d = c
    <3>1. HoldsSock(thread[c]) => OwnedAs(thread[c].hci_sock, c, "hci")
      BY <1>4 DEF FdInv, FdsIntactUntilTimeout
    <3> QED BY <1>3, <2>2, <3>1 DEF OwnedAs
  <2> QED BY <2>1, <2>2
<1>6. \A m \in appFds : fds[m].owner = App /\ m \in Fd
  BY <1>4 DEF FdInv, FdsIntactUntilTimeout
<1>7. \A m \in appFds' : fds'[m].owner = App
  BY <1>2, <1>6, ConstantFacts
<1> QED BY <1>5, <1>7 DEF FdsIntactUntilTimeout

LEMMA EffectFdInv ==
  ASSUME FdInv, NEW c \in Caller, thread \in [Caller -> Thread], thread' \in [Caller -> Thread],
         \A d \in Caller \ {c} : thread'[d] = thread[d],
         timedOut \in BOOLEAN, timedOut' \in BOOLEAN,
         UNCHANGED appFds, Effect(c, thread[c], thread'[c])
  PROVE  FdInv'
<1> DEFINE x == thread[c]
           y == thread'[c]
<1> USE ConstantFacts, RangeFacts DEF FdInv
<1>1. CASE Keeps(x, y)
  <2>1. NoFdLeak'
    BY <1>1 DEF Keeps, NoFdLeak
  <2>2. FdsIntactUntilTimeout'
    BY <1>1 DEF Keeps, FdsIntactUntilTimeout, OwnedAs
  <2> QED BY <1>1, <2>1, <2>2 DEF Keeps
<1>2. CASE OpensSock(c, x, y)
  <2>1. fds' \in [Fd -> [owner : Caller \cup {App, Free}, kind : {"hci", "rfkill", "other", "none"}]]
    BY <1>2 DEF OpensSock, OpenFd
  <2>2. NoFdLeak'
    BY <1>2 DEF OpensSock, OpenFd, NoFdLeak
  <2>3. FdsIntactUntilTimeout'
    BY <1>2 DEF OpensSock, OpenFd, IsFree, FdsIntactUntilTimeout, OwnedAs
  <2> QED BY <2>1, <2>2, <2>3
<1>3. CASE OpensRfd(c, x, y)
  <2>1. fds' \in [Fd -> [owner : Caller \cup {App, Free}, kind : {"hci", "rfkill", "other", "none"}]]
    BY <1>3 DEF OpensRfd, OpenFd
  <2>2. NoFdLeak'
    BY <1>3 DEF OpensRfd, OpenFd, NoFdLeak
  <2>3. FdsIntactUntilTimeout'
    BY <1>3 DEF OpensRfd, OpenFd, IsFree, FdsIntactUntilTimeout, OwnedAs
  <2> QED BY <2>1, <2>2, <2>3
<1>4. CASE ClosesRfd(x, y)
  <2>1. fds' \in [Fd -> [owner : Caller \cup {App, Free}, kind : {"hci", "rfkill", "other", "none"}]]
    BY <1>4 DEF ClosesRfd, CloseFd, Closed
  <2>2. NoFdLeak'
    BY <1>4 DEF ClosesRfd, CloseFd, Closed, NoFdLeak
  <2>3. ~timedOut' => (x.fd \in Fd => fds[x.fd] = [owner |-> c, kind |-> "rfkill"])
    BY <1>4 DEF ClosesRfd, FdsIntactUntilTimeout, OwnedAs
  <2>4. (HoldsSock(y) /\ ~timedOut' => HoldsSock(x)) /\ y.hci_sock = x.hci_sock /\ ~HoldsRfd(y)
    BY <1>4 DEF ClosesRfd
  <2>5. FdsIntactUntilTimeout'
    BY <1>4, <2>3, <2>4, CloseIntact DEF ClosesRfd
  <2> QED BY <2>1, <2>2, <2>5
<1>5. CASE ClosesSock(x, y)
  <2>1. fds' \in [Fd -> [owner : Caller \cup {App, Free}, kind : {"hci", "rfkill", "other", "none"}]]
    BY <1>5 DEF ClosesSock, CloseFd, Closed
  <2>2. NoFdLeak'
    BY <1>5 DEF ClosesSock, CloseFd, Closed, NoFdLeak
  <2>3. ~timedOut' => (x.hci_sock \in Fd => fds[x.hci_sock] = [owner |-> c, kind |-> "hci"])
    BY <1>5 DEF ClosesSock, FdsIntactUntilTimeout, OwnedAs
  <2>4. ~HoldsSock(y) /\ ~HoldsRfd(y)
    BY <1>5 DEF ClosesSock
  <2>5. FdsIntactUntilTimeout'
    BY <1>5, <2>3, <2>4, CloseIntact DEF ClosesSock
  <2> QED BY <2>1, <2>2, <2>5
<1> QED BY <1>1, <1>2, <1>3, <1>4, <1>5 DEF Effect

(* The rest of the process minds its own descriptors. *)
LEMMA AppFdInv ==
  ASSUME FdInv, NEW n \in Fd, AppOpen(n) \/ AppClose(n), timedOut \in BOOLEAN
  PROVE  FdInv'
<1> USE ConstantFacts DEF FdInv
<1>1. CASE AppOpen(n)
  <2>1. /\ fds' \in [Fd -> [owner : Caller \cup {App, Free}, kind : {"hci", "rfkill", "other", "none"}]]
        /\ appFds' \subseteq Fd
    BY <1>1 DEF AppOpen, OpenFd
  <2>2. NoFdLeak'
    BY <1>1 DEF AppOpen, OpenFd, NoFdLeak
  <2>3. FdsIntactUntilTimeout'
    BY <1>1 DEF AppOpen, OpenFd, IsFree, FdsIntactUntilTimeout, OwnedAs
  <2> QED BY <2>1, <2>2, <2>3
<1>2. CASE AppClose(n)
  <2>1. /\ fds' \in [Fd -> [owner : Caller \cup {App, Free}, kind : {"hci", "rfkill", "other", "none"}]]
        /\ appFds' \subseteq Fd
    BY <1>2 DEF AppClose, CloseFd, Closed
  <2>2. NoFdLeak'
    BY <1>2 DEF AppClose, CloseFd, Closed, NoFdLeak
  <2>3. FdsIntactUntilTimeout'
    BY <1>2 DEF AppClose, CloseFd, Closed, FdsIntactUntilTimeout, OwnedAs
  <2> QED BY <2>1, <2>2, <2>3
<1> QED BY <1>1, <1>2
-----------------------------------------------------------------------------
(* What a step leaves of the environment and of the statics is well typed. *)
LEMMA StepTypes ==
  ASSUME NEW c \in Caller, thread \in [Caller -> Thread], PlatformTypeOK,
         rfkill_id \in Nat \cup {None}, rfkill_state_path \in Nat \cup {None},
         timedOut \in BOOLEAN, Step(c)
  PROVE  /\ PlatformTypeOK'
         /\ rfkill_id' \in Nat \cup {None} /\ rfkill_state_path' \in Nat \cup {None}
         /\ timedOut' \in BOOLEAN
<1>0. thread[c] \in Thread /\ thread[c].id \in Nat
  BY DEF Thread
<1>u. UNCHANGED platformVars => PlatformTypeOK'
  BY DEF platformVars, PlatformTypeOK
<1> USE <1>0, <1>u DEF staticVars
<1>1. CASE EnterPower(c)
  BY <1>1 DEF EnterPower
<1>2. CASE ProbeRfkill(c)
  BY <1>2 DEF ProbeRfkill
<1>3. CASE SetStatePath(c)
  BY <1>3 DEF SetStatePath
<1>4. CASE OpenStatePath(c)
  BY <1>4 DEF OpenStatePath
<1>5. CASE StateFileIo(c)
  BY <1>5, PowerType DEF StateFileIo, TurnsOn
<1>6. CASE LeavePower(c)
  BY <1>6 DEF LeavePower
<1>7. CASE StartHciattach(c)
  BY <1>7, RequestType DEF StartHciattach, Refused, Service, Verb
<1>8. CASE create_hci_sock(c)
  BY <1>8 DEF create_hci_sock
<1>9. CASE HciDevUp(c)
  BY <1>9, DeviceType DEF HciDevUp
<1>10. CASE RetryDevUp(c)
  BY <1>10 DEF RetryDevUp, LastAttempt
<1>11. CASE GiveUp(c)
  BY <1>11, RequestType DEF GiveUp, Refused, Service, Verb
<1>12. CASE StartBluetoothd(c)
  BY <1>12, RequestType DEF StartBluetoothd, Refused, Service, Verb
<1>13. CASE StopBluetoothd(c)
  BY <1>13, RequestType DEF StopBluetoothd, Refused, Service, Verb
<1>14. CASE HciDevDown(c)
  BY <1>14, DeviceType DEF HciDevDown, PlatformTypeOK
<1>15. CASE StopHciattach(c)
  BY <1>15, RequestType DEF StopHciattach, Refused, Service, Verb
<1>16. CASE HciGetDevInfo(c)
  BY <1>16 DEF HciGetDevInfo
<1>17. CASE Return(c)
  BY <1>17 DEF Return
<1> QED
  BY <1>1, <1>2, <1>3, <1>4, <1>5, <1>6, <1>7, <1>8, <1>9, <1>10, <1>11, <1>12, <1>13, <1>14,
     <1>15, <1>16, <1>17 DEF Step

(* A call is late only after it has recorded the time-out. *)
LEMMA StepLate ==
  ASSUME NEW c \in Caller, thread \in [Caller -> Thread], LocalInv(thread[c]),
         timedOut \in BOOLEAN, Late(thread[c]) => timedOut, Step(c)
  PROVE  Late(thread'[c]) => timedOut'
<1>0. thread[c] \in Thread
  OBVIOUS
<1> USE <1>0 DEF Late, PowerPc, At, Becomes, Thread
<1>1. CASE EnterPower(c)
  BY <1>1 DEF EnterPower, Goto
<1>2. CASE ProbeRfkill(c)
  BY <1>2 DEF ProbeRfkill, Goto
<1>3. CASE SetStatePath(c)
  BY <1>3 DEF SetStatePath, Goto
<1>4. CASE OpenStatePath(c)
  BY <1>4 DEF OpenStatePath, Goto
<1>5. CASE StateFileIo(c)
  <2>1. UNCHANGED timedOut /\ thread[c].pc = "rf_io"
    BY <1>5 DEF StateFileIo
  <2>2. \E v \in {-1, 0, 1} : Becomes(c, [thread[c] EXCEPT !.pc = "rf_out", !.val = v])
    <3> HIDE DEF Becomes, Late, Thread
    <3> QED BY <1>5 DEF StateFileIo
  <2>3. thread'[c].job = thread[c].job /\ thread'[c].pc = "rf_out"
    BY <2>2
  <2> QED BY <2>1, <2>3
<1>6. CASE LeavePower(c)
  BY <1>6 DEF LeavePower, AfterPower
<1>7. CASE StartHciattach(c)
  <2>1. \/ Becomes(c, [thread[c] EXCEPT !.pc = "mksock", !.attempt = Attempts])
        \/ Becomes(c, [thread[c] EXCEPT !.pc = "rf_enter", !.job = "attach_off"])
        \/ Becomes(c, [thread[c] EXCEPT !.pc = "out"])
    <3> HIDE DEF Becomes, Late, Thread
    <3> QED BY <1>7 DEF StartHciattach, CallPower, Goto
  <2>2. CASE Becomes(c, [thread[c] EXCEPT !.pc = "mksock", !.attempt = Attempts])
    BY <2>2
  <2>3. CASE Becomes(c, [thread[c] EXCEPT !.pc = "rf_enter", !.job = "attach_off"])
    BY <2>3
  <2>4. CASE Becomes(c, [thread[c] EXCEPT !.pc = "out"])
    BY <2>4
  <2> QED BY <2>1, <2>2, <2>3, <2>4
<1>8. CASE create_hci_sock(c)
  <2>1. /\ UNCHANGED timedOut
        /\ \/ Becomes(c, [thread[c] EXCEPT !.pc = "out", !.hci_sock = None])
           \/ \E n \in Fd : Becomes(c, [thread[c] EXCEPT !.pc = WithSocket(thread[c].op), !.hci_sock = n])
    BY <1>8 DEF create_hci_sock
  <2>2. /\ WithSocket(thread[c].op) # "timeout" /\ WithSocket(thread[c].op) \notin PowerPc
        /\ thread[c].op \in Op \cup {"none"}
    BY <1>8, ConstantFacts DEF create_hci_sock, WithSocket, Op, LocalInv
  <2>3. CASE Becomes(c, [thread[c] EXCEPT !.pc = "out", !.hci_sock = None])
    BY <2>1, <2>3
  <2>4. ASSUME NEW n \in Fd, Becomes(c, [thread[c] EXCEPT !.pc = WithSocket(thread[c].op), !.hci_sock = n])
        PROVE  ~Late(thread'[c])
    <3>1. thread'[c].pc = WithSocket(thread[c].op)
      BY <2>4
    <3> QED BY <2>2, <3>1
  <2> QED BY <2>1, <2>3, <2>4
<1>9. CASE HciDevUp(c)
  <2>1. \E r \in {-1, 0}, l \in {"start_bluetoothd", "retry"} :
          Becomes(c, [thread[c] EXCEPT !.pc = l, !.ret = r])
    BY <1>9 DEF HciDevUp
  <2> QED BY <2>1
<1>10. CASE RetryDevUp(c)
  BY <1>10 DEF RetryDevUp, LastAttempt
<1>11. CASE GiveUp(c)
  BY <1>11 DEF GiveUp, CallPower, Goto
<1>12. CASE StartBluetoothd(c)
  <2>0. UNCHANGED timedOut BY <1>12 DEF StartBluetoothd
  <2>x. \/ Becomes(c, [thread[c] EXCEPT !.pc = "rf_enter", !.job = "daemon_off"])
        \/ Becomes(c, [thread[c] EXCEPT !.pc = "out"])
        \/ Becomes(c, [thread[c] EXCEPT !.pc = "out", !.ret = 0])
    BY <1>12 DEF StartBluetoothd, CallPower, Goto
  <2>1. CASE Becomes(c, [thread[c] EXCEPT !.pc = "rf_enter", !.job = "daemon_off"])
    BY <2>0, <2>1
  <2>2. CASE Becomes(c, [thread[c] EXCEPT !.pc = "out"])
    BY <2>0, <2>2
  <2>3. CASE Becomes(c, [thread[c] EXCEPT !.pc = "out", !.ret = 0])
    BY <2>0, <2>3
  <2> HIDE DEF Late, Becomes, Thread
  <2> QED BY <2>x, <2>1, <2>2, <2>3
<1>13. CASE StopBluetoothd(c)
  BY <1>13 DEF StopBluetoothd, Goto
<1>14. CASE HciDevDown(c)
  BY <1>14 DEF HciDevDown, Goto
<1>15. CASE StopHciattach(c)
  <2>0. UNCHANGED timedOut BY <1>15 DEF StopHciattach
  <2>x. \/ Becomes(c, [thread[c] EXCEPT !.pc = "rf_enter", !.job = "disable_off"])
        \/ Becomes(c, [thread[c] EXCEPT !.pc = "out"])
        \/ Becomes(c, [thread[c] EXCEPT !.pc = "out", !.ret = 0])
    BY <1>15 DEF StopHciattach, Goto
  <2>1. CASE Becomes(c, [thread[c] EXCEPT !.pc = "rf_enter", !.job = "disable_off"])
    BY <2>0, <2>1
  <2>2. CASE Becomes(c, [thread[c] EXCEPT !.pc = "out"])
    BY <2>0, <2>2
  <2>3. CASE Becomes(c, [thread[c] EXCEPT !.pc = "out", !.ret = 0])
    BY <2>0, <2>3
  <2> HIDE DEF Late, Becomes, Thread
  <2> QED BY <2>x, <2>1, <2>2, <2>3
<1>16. CASE HciGetDevInfo(c)
  BY <1>16 DEF HciGetDevInfo
<1>17. CASE Return(c)
  BY <1>17 DEF Return
<1> QED
  BY <1>1, <1>2, <1>3, <1>4, <1>5, <1>6, <1>7, <1>8, <1>9, <1>10, <1>11, <1>12, <1>13, <1>14,
     <1>15, <1>16, <1>17 DEF Step
-----------------------------------------------------------------------------
LEMMA InitIInv == Init => IInv
<1> SUFFICES ASSUME Init PROVE IInv
  OBVIOUS
<1> USE ConstantFacts, RangeFacts DEF Init
<1>1. PlatformTypeOK
  <2>1. << >> \in Seq(Request)
    OBVIOUS
  <2> QED BY <2>1 DEF PlatformInit, PlatformTypeOK, Service, Verb
<1>2. thread \in [Caller -> Thread]
  BY DEF Thread, Pc, PowerPc, Op, Job
<1>3. TypeOK
  BY <1>1, <1>2 DEF TypeOK, Closed
<1>4. \A c \in Caller : thread[c].pc = "idle" /\ thread[c].hci_sock = None /\ thread[c].fd = None
  OBVIOUS
<1>5. \A c \in Caller : LocalInv(thread[c]) /\ ~Late(thread[c])
  BY <1>4 DEF LocalInv, Late, PowerPc
<1>6. NoFdLeak
  BY DEF NoFdLeak, Closed
<1>7. FdsIntactUntilTimeout
  BY <1>4 DEF FdsIntactUntilTimeout, HoldsSock, HoldsRfd, PowerPc
<1> QED BY <1>3, <1>5, <1>6, <1>7 DEF IInv

LEMMA NextIInv == IInv /\ [Next]_vars => IInv'
<1> SUFFICES ASSUME IInv, [Next]_vars PROVE IInv'
  OBVIOUS
<1>1. /\ TypeOK /\ FdInv /\ PlatformTypeOK /\ timedOut \in BOOLEAN /\ thread \in [Caller -> Thread]
      /\ \A c \in Caller : LocalInv(thread[c]) /\ (Late(thread[c]) => timedOut)
  BY DEF IInv, TypeOK, FdInv
<1>2. ASSUME NEW c \in Caller, Step(c)
      PROVE  IInv'
  <2>1. PICK t \in Thread : LocalInv(t) /\ Becomes(c, t)
    BY <1>1, <1>2, StepLocal
  <2>2. /\ thread' \in [Caller -> Thread] /\ thread'[c] = t
        /\ \A d \in Caller \ {c} : thread'[d] = thread[d]
    BY <1>1, <2>1, OneThreadMoves
  <2>3. /\ PlatformTypeOK'
        /\ rfkill_id' \in Nat \cup {None} /\ rfkill_state_path' \in Nat \cup {None}
        /\ timedOut' \in BOOLEAN
    BY <1>1, <1>2, StepTypes DEF TypeOK
  <2>4. UNCHANGED appFds
    BY <1>2 DEF Step
  <2>5. Effect(c, thread[c], thread'[c])
    BY <1>1, <1>2, StepEffect
  <2>6. FdInv'
    BY <1>1, <2>2, <2>3, <2>4, <2>5, EffectFdInv
  <2>7. timedOut => timedOut'
    BY <2>5 DEF Effect, Keeps, OpensSock, OpensRfd, ClosesRfd, ClosesSock
  <2>8. Late(thread'[c]) => timedOut'
    BY <1>1, <1>2, StepLate
  <2>9. \A d \in Caller : LocalInv(thread'[d]) /\ (Late(thread'[d]) => timedOut')
    BY <1>1, <2>1, <2>2, <2>7, <2>8
  <2> QED BY <2>2, <2>3, <2>6, <2>9 DEF IInv, FdInv, TypeOK
<1>3. ASSUME NEW c \in Caller, NEW f \in Op, Begin(c, f)
      PROVE  IInv'
  <2>1. PICK t \in Thread : LocalInv(t) /\ Becomes(c, t)
    BY <1>1, <1>3, BeginLocal
  <2>2. /\ thread' \in [Caller -> Thread] /\ thread'[c] = t
        /\ \A d \in Caller \ {c} : thread'[d] = thread[d]
    BY <1>1, <2>1, OneThreadMoves
  <2>3. UNCHANGED <<platformVars, staticVars, fds, appFds, timedOut>>
    BY <1>3 DEF Begin
  <2>4. /\ thread[c].pc = "idle" /\ thread'[c].pc = FirstStep(f)
        /\ thread'[c].job \in {"enable_on", "query"}
    <3>1. thread'[c] = [thread[c] EXCEPT !.op = f, !.ret = -1, !.pc = FirstStep(f),
                               !.job = IF f = "enable" THEN "enable_on" ELSE "query"]
      BY <1>1, <1>3 DEF Begin, Becomes
    <3>2. thread[c] \in Thread
      BY <1>1
    <3> QED BY <1>3, <3>1, <3>2 DEF Begin, At, Thread
  <2>5. FirstStep(f) \in {"stop_bluetoothd", "rf_enter", "start_hciattach", "mksock"}
    BY ConstantFacts DEF FirstStep, Op
  <2>6. Keeps(thread[c], thread'[c])
    BY <1>1, <2>3, <2>4, <2>5 DEF Keeps, HoldsSock, HoldsRfd, PowerPc, LocalInv
  <2>7. FdInv'
    BY <1>1, <2>2, <2>3, <2>6, EffectFdInv DEF Effect
  <2>8. ~Late(thread'[c])
    BY <2>4, <2>5 DEF Late, PowerPc
  <2>9. \A d \in Caller : LocalInv(thread'[d]) /\ (Late(thread'[d]) => timedOut')
    BY <1>1, <2>1, <2>2, <2>3, <2>8
  <2>10. TypeOK'
    BY <1>1, <2>2, <2>3, <2>7 DEF TypeOK, FdInv, platformVars, staticVars, PlatformTypeOK
  <2> QED BY <2>7, <2>9, <2>10 DEF IInv, FdInv
<1>4. ASSUME NEW n \in Fd, AppOpen(n) \/ AppClose(n)
      PROVE  IInv'
  <2>1. FdInv'
    BY <1>1, <1>4, AppFdInv
  <2>2. UNCHANGED <<platformVars, staticVars, thread, timedOut>>
    BY <1>4 DEF AppOpen, AppClose
  <2>3. TypeOK'
    BY <1>1, <2>1, <2>2 DEF TypeOK, FdInv, platformVars, staticVars, PlatformTypeOK
  <2> QED BY <1>1, <2>1, <2>2, <2>3 DEF IInv, FdInv
<1>5. ASSUME UNCHANGED <<staticVars, fds, appFds, thread, timedOut>>, PlatformTypeOK'
      PROVE  IInv'
  <2>1. TypeOK'
    BY <1>1, <1>5 DEF TypeOK, staticVars
  <2>2. NoFdLeak' /\ FdsIntactUntilTimeout'
    BY <1>1, <1>5 DEF FdInv, NoFdLeak, FdsIntactUntilTimeout, OwnedAs
  <2> QED BY <1>1, <1>5, <2>1, <2>2 DEF IInv
<1>6. CASE Platform(PlatformNext)
  BY <1>1, <1>5, <1>6, PlatformNextType DEF Platform
<1>7. CASE UNCHANGED vars
  BY <1>1, <1>5, <1>7 DEF vars, staticVars, platformVars, PlatformTypeOK
<1> QED BY <1>2, <1>3, <1>4, <1>6, <1>7 DEF Next

(* Every reachable state satisfies the inductive invariant. *)
THEOREM InductiveInvariant == Spec => []IInv
  BY InitIInv, NextIInv, PTL DEF Spec

(* The type invariant holds for any number of threads, descriptors and     *)
(* attempts and any faults: among others, attempt never goes below 0.      *)
THEOREM TypeCorrect == Spec => []TypeOK
<1>1. IInv => TypeOK
  BY DEF IInv
<1> QED BY <1>1, InductiveInvariant, PTL

(* No path through the three functions, with any number of threads inside  *)
(* at once, loses a descriptor.                                            *)
THEOREM NoDescriptorIsLost == Spec => []NoFdLeak
<1>1. IInv => NoFdLeak
  BY DEF IInv
<1> QED BY <1>1, InductiveInvariant, PTL

(* Until some bt_enable runs out of attempts, no close of the library hits *)
(* a descriptor of another thread: the double close after a time-out is    *)
(* the only one.                                                           *)
THEOREM ForeignDescriptorsAreSafe == Spec => []FdsIntactUntilTimeout
<1>1. IInv => FdsIntactUntilTimeout
  BY DEF IInv
<1> QED BY <1>1, InductiveInvariant, PTL
-----------------------------------------------------------------------------
(* The device has one Bluetooth switch.                                    *)
OneSwitch ==
  \A i, j \in 1 .. Len(RfkillTypes) :
    RfkillTypes[i] = "bluetooth" /\ RfkillTypes[j] = "bluetooth" => i = j

(* A second thread that searches finds the switch the first has found, so  *)
(* the path the first has set stays that of rfkill_id.                     *)
LEMMA SearchKeepsStatics ==
  ASSUME OneSwitch, TypeOK, RfkillStateValid, NEW c \in Caller, ProbeRfkill(c)
  PROVE  RfkillStateValid'
<1> DEFINE id == thread[c].id
<1>1. CASE UNCHANGED rfkill_id
  BY <1>1 DEF ProbeRfkill, RfkillStateValid
<1>2. CASE rfkill_id' = id /\ id < Len(RfkillTypes) /\ IsBluetooth(id)
  <2>1. id \in Nat /\ rfkill_id \in Nat \cup {None} /\ Len(RfkillTypes) \in Nat
    BY BluedroidAssumption DEF TypeOK, Thread
  <2>2. rfkill_state_path' = rfkill_state_path
    BY DEF ProbeRfkill
  <2> HIDE DEF id
  <2>3. RfkillTypes[id + 1] = "bluetooth" /\ id + 1 \in 1 .. Len(RfkillTypes)
    BY <1>2, <2>1 DEF IsBluetooth
  <2>4. CASE rfkill_id = None
    BY <1>2, <2>2, <2>3, <2>4 DEF RfkillStateValid, IsBluetooth
  <2>5. CASE rfkill_id # None
    <3>1. /\ rfkill_id \in Nat /\ rfkill_id + 1 \in 1 .. Len(RfkillTypes)
          /\ RfkillTypes[rfkill_id + 1] = "bluetooth"
      BY <2>1, <2>5 DEF RfkillStateValid
    <3>2. id + 1 = rfkill_id + 1
      BY <2>3, <3>1 DEF OneSwitch
    <3>3. rfkill_id' = rfkill_id
      BY <1>2, <2>1, <3>1, <3>2
    <3> QED
      BY <2>2, <3>3 DEF RfkillStateValid
  <2> QED
    BY <2>4, <2>5
<1> QED
  BY <1>1, <1>2 DEF ProbeRfkill

LEMMA NextKeepsStatics ==
  ASSUME OneSwitch, TypeOK, RfkillStateValid, [Next]_vars
  PROVE  RfkillStateValid'
<1>1. CASE UNCHANGED staticVars
  BY <1>1 DEF staticVars, RfkillStateValid
<1>2. ASSUME NEW c \in Caller, ProbeRfkill(c) PROVE RfkillStateValid'
  BY <1>2, SearchKeepsStatics
<1>3. ASSUME NEW c \in Caller, SetStatePath(c) PROVE RfkillStateValid'
  BY <1>3 DEF SetStatePath, RfkillStateValid
<1>4. ASSUME NEW c \in Caller, Step(c) PROVE RfkillStateValid'
  <2>1. ProbeRfkill(c) \/ SetStatePath(c) \/ UNCHANGED staticVars
    BY <1>4 DEF Step, EnterPower, OpenStatePath, StateFileIo, LeavePower, StartHciattach,
                create_hci_sock, HciDevUp, RetryDevUp, GiveUp, StartBluetoothd, StopBluetoothd,
                HciDevDown, StopHciattach, HciGetDevInfo, Return, staticVars
  <2> QED
    BY <1>1, <1>2, <1>3, <2>1
<1>5. ASSUME NEW c \in Caller, NEW f \in Op, Begin(c, f) PROVE RfkillStateValid'
  BY <1>1, <1>5 DEF Begin
<1>6. ASSUME NEW n \in Fd, AppOpen(n) \/ AppClose(n) PROVE RfkillStateValid'
  BY <1>1, <1>6 DEF AppOpen, AppClose
<1>7. CASE Platform(PlatformNext)
  BY <1>1, <1>7 DEF Platform
<1>8. CASE UNCHANGED vars
  BY <1>1, <1>8 DEF vars
<1> QED
  BY <1>4, <1>5, <1>6, <1>7, <1>8 DEF Next

(* On a device with one Bluetooth switch the unlocked statics name it or   *)
(* nothing, with any number of threads in init_rfkill at once: a thread    *)
(* may see the id without the path, never a wrong one.                     *)
THEOREM StaticsNameTheSwitch ==
  ASSUME OneSwitch PROVE Spec => []RfkillStateValid
<1>1. Init => RfkillStateValid
  BY DEF Init, RfkillStateValid, None
<1>2. TypeOK /\ RfkillStateValid /\ [Next]_vars => RfkillStateValid'
  BY OneSwitch, NextKeepsStatics
<1> QED
  BY <1>1, <1>2, TypeCorrect, PTL DEF Spec

-----------------------------------------------------------------------------
(* What each action of Bluedroid does to the record of its thread, field   *)
(* by field: the lemmas that the proofs about answers, power and callers   *)
(* rest on.                                                                *)

(* The fields of the function in progress, and those of the power routine. *)
SameCall(x, y) ==
  y.op = x.op /\ y.ret = x.ret /\ y.hci_sock = x.hci_sock /\ y.attempt = x.attempt
SamePower(x, y) == y.job = x.job /\ y.id = x.id /\ y.fd = x.fd /\ y.val = x.val

(* A step of c leaves every other thread where it is.                      *)
LEMMA OthersStay ==
  ASSUME NEW c \in Caller, thread \in [Caller -> Thread], LocalInv(thread[c]), Step(c)
  PROVE  /\ thread' \in [Caller -> Thread] /\ LocalInv(thread'[c])
         /\ \A d \in Caller \ {c} : thread'[d] = thread[d]
<1>1. PICK t \in Thread : LocalInv(t) /\ Becomes(c, t)
  BY StepLocal
<1> HIDE DEF Thread, LocalInv
<1> QED BY <1>1, OneThreadMoves

LEMMA EnterPowerStep ==
  ASSUME NEW c \in Caller, thread \in [Caller -> Thread], EnterPower(c)
  PROVE  /\ thread[c].pc = "rf_enter" /\ thread'[c].pc \in {"rf_probe", "rf_open"}
         /\ thread'[c].pc = "rf_probe" <=> rfkill_id = None
         /\ SameCall(thread[c], thread'[c]) /\ SamePower(thread[c], thread'[c])
         /\ UNCHANGED <<platformVars, staticVars, fds, timedOut>>
  BY DEF EnterPower, Goto, Becomes, At, Thread, SameCall, SamePower

LEMMA ProbeRfkillStep ==
  ASSUME NEW c \in Caller, thread \in [Caller -> Thread], ProbeRfkill(c)
  PROVE  /\ thread[c].pc = "rf_probe" /\ thread'[c].pc \in {"rf_probe", "rf_path", "rf_out"}
         /\ SameCall(thread[c], thread'[c])
         /\ thread'[c].job = thread[c].job /\ thread'[c].val = thread[c].val
         /\ thread'[c].fd = thread[c].fd
         /\ UNCHANGED <<platformVars, rfkill_state_path, fds, timedOut>>
  BY DEF ProbeRfkill, Goto, Becomes, At, Thread, SameCall

LEMMA SetStatePathStep ==
  ASSUME NEW c \in Caller, thread \in [Caller -> Thread], SetStatePath(c)
  PROVE  /\ thread[c].pc = "rf_path" /\ thread'[c].pc = "rf_open"
         /\ SameCall(thread[c], thread'[c]) /\ SamePower(thread[c], thread'[c])
         /\ UNCHANGED <<platformVars, rfkill_id, fds, timedOut>>
  BY DEF SetStatePath, Goto, Becomes, At, Thread, SameCall, SamePower

LEMMA OpenStatePathStep ==
  ASSUME NEW c \in Caller, thread \in [Caller -> Thread], OpenStatePath(c)
  PROVE  /\ thread[c].pc = "rf_open" /\ thread'[c].pc \in {"rf_io", "rf_out"}
         /\ SameCall(thread[c], thread'[c])
         /\ thread'[c].job = thread[c].job /\ thread'[c].val = thread[c].val
         /\ thread'[c].id = thread[c].id
         /\ thread'[c].pc = "rf_io" => OpenFd(c, "rfkill", thread'[c].fd)
         /\ thread'[c].pc = "rf_out" =>
              (TableFull \/ Fails("open") \/ rfkill_state_path = None) /\ UNCHANGED fds
         /\ UNCHANGED <<platformVars, staticVars, timedOut>>
<1> DEFINE x == thread[c]
           y == thread'[c]
<1>0. x \in Thread /\ x.pc = "rf_open" /\ UNCHANGED <<platformVars, staticVars, timedOut>>
  BY DEF OpenStatePath, At
<1>1. CASE /\ TableFull \/ Fails("open") \/ rfkill_state_path = None
           /\ Becomes(c, [x EXCEPT !.pc = "rf_out"]) /\ UNCHANGED fds
  <2>1. y = [x EXCEPT !.pc = "rf_out"]
    BY <1>1 DEF Becomes
  <2> QED BY <1>0, <1>1, <2>1 DEF Thread, SameCall
<1>2. ASSUME NEW n \in Fd, OpenFd(c, "rfkill", n), Becomes(c, [x EXCEPT !.pc = "rf_io", !.fd = n])
      PROVE  /\ y.pc = "rf_io" /\ y.fd = n /\ SameCall(x, y)
             /\ y.job = x.job /\ y.val = x.val /\ y.id = x.id
  <2>1. y = [x EXCEPT !.pc = "rf_io", !.fd = n]
    BY <1>2 DEF Becomes
  <2> QED BY <1>0, <2>1 DEF Thread, SameCall
<1> QED BY <1>0, <1>1, <1>2 DEF OpenStatePath, Goto

(* The one step that touches the power.                                    *)
LEMMA StateFileIoStep ==
  ASSUME NEW c \in Caller, thread \in [Caller -> Thread], StateFileIo(c)
  PROVE  /\ thread[c].pc = "rf_io" /\ thread'[c].pc = "rf_out"
         /\ SameCall(thread[c], thread'[c])
         /\ thread'[c].job = thread[c].job /\ thread'[c].fd = thread[c].fd
         /\ thread'[c].id = thread[c].id
         /\ \/ /\ IsOpenOn(thread[c].fd, "rfkill")
               /\ thread'[c].val = IF thread[c].job = "query" /\ power THEN 1 ELSE 0
               /\ IF thread[c].job = "query" THEN UNCHANGED platformVars
                                             ELSE SwitchPower(TurnsOn(thread[c].job))
            \/ /\ Fails("io") \/ ~IsOpenOn(thread[c].fd, "rfkill")
               /\ thread'[c].val \in {-1, 0, 1}
               /\ thread'[c].val # -1 => ~IsOpenOn(thread[c].fd, "rfkill")
               /\ thread'[c].val = 1 => thread[c].job = "query"
               /\ UNCHANGED platformVars
         /\ UNCHANGED <<staticVars, fds, timedOut>>
<1> DEFINE x == thread[c]
           y == thread'[c]
<1>0. x \in Thread /\ x.pc = "rf_io" /\ UNCHANGED <<staticVars, fds, timedOut>>
  BY DEF StateFileIo, At
<1>1. ASSUME NEW v, Becomes(c, [x EXCEPT !.pc = "rf_out", !.val = v])
      PROVE  /\ y.pc = "rf_out" /\ y.val = v /\ SameCall(x, y)
             /\ y.job = x.job /\ y.fd = x.fd /\ y.id = x.id
  <2>1. y = [x EXCEPT !.pc = "rf_out", !.val = v]
    BY <1>1 DEF Becomes
  <2> QED BY <1>0, <2>1 DEF Thread, SameCall
<1>2. CASE /\ IsOpenOn(x.fd, "rfkill")
           /\ Becomes(c, [x EXCEPT !.pc = "rf_out", !.val = IF x.job = "query" /\ power THEN 1 ELSE 0])
           /\ IF x.job = "query" THEN UNCHANGED platformVars ELSE SwitchPower(TurnsOn(x.job))
  BY <1>0, <1>1, <1>2
<1>3. CASE /\ Fails("io") \/ ~IsOpenOn(x.fd, "rfkill")
           /\ Becomes(c, [x EXCEPT !.pc = "rf_out", !.val = -1])
           /\ UNCHANGED platformVars
  <2>1. /\ y.pc = "rf_out" /\ y.val = -1 /\ SameCall(x, y)
        /\ y.job = x.job /\ y.fd = x.fd /\ y.id = x.id
    BY <1>1, <1>3
  <2>2. y.val \in {-1, 0, 1} /\ y.val # 1
    BY <2>1
  <2> QED BY <1>0, <1>3, <2>1, <2>2
<1>4. ASSUME NEW v \in {0, 1}, v = 1 => x.job = "query", ~IsOpenOn(x.fd, "rfkill"),
             Becomes(c, [x EXCEPT !.pc = "rf_out", !.val = v]), UNCHANGED platformVars
      PROVE  /\ y.val \in {-1, 0, 1} /\ (y.val = 1 => x.job = "query")
             /\ y.pc = "rf_out" /\ SameCall(x, y) /\ y.job = x.job /\ y.fd = x.fd /\ y.id = x.id
  BY <1>0, <1>1, <1>4
<1> QED BY <1>0, <1>2, <1>3, <1>4 DEF StateFileIo

(* The power routine returns to the function that called it. *)
LEMMA LeavePowerStep ==
  ASSUME NEW c \in Caller, thread \in [Caller -> Thread], LeavePower(c)
  PROVE  LET x == thread[c]
             y == thread'[c]
         IN  /\ x.pc = "rf_out" /\ CloseFd(x.fd)
             /\ y.op = x.op /\ y.hci_sock = x.hci_sock /\ y.attempt = x.attempt
             /\ y.job = "query" /\ y.id = 0 /\ y.fd = None /\ y.val = -1
             /\ x.job = "enable_on" => y.pc = IF x.val < 0 THEN "out" ELSE "start_hciattach"
             /\ x.job = "query" => y.pc = IF x.val = 1 THEN "mksock" ELSE "out"
             /\ x.job \notin {"enable_on", "query"} => y.pc = "out"
             /\ y.ret = IF x.job = "disable_off" \/ (x.job = "query" /\ x.val # 1) THEN x.val ELSE x.ret
             /\ UNCHANGED <<platformVars, staticVars, timedOut>>
<1> DEFINE x == thread[c]
           y == thread'[c]
           z == AfterPower(x)
<1>1. x \in Thread /\ x.pc = "rf_out" /\ CloseFd(x.fd)
  BY DEF LeavePower, At
<1>2. /\ z \in Thread /\ z.op = x.op /\ z.hci_sock = x.hci_sock /\ z.attempt = x.attempt
      /\ x.job = "enable_on" => z.pc = IF x.val < 0 THEN "out" ELSE "start_hciattach"
      /\ x.job = "query" => z.pc = IF x.val = 1 THEN "mksock" ELSE "out"
      /\ x.job \notin {"enable_on", "query"} => z.pc = "out"
      /\ z.ret = IF x.job = "disable_off" \/ (x.job = "query" /\ x.val # 1) THEN x.val ELSE x.ret
  BY <1>1 DEF AfterPower, Thread, Pc, Job
<1> HIDE DEF z
<1>3. y = [z EXCEPT !.job = "query", !.id = 0, !.fd = None, !.val = -1]
  BY DEF LeavePower, Becomes, z
<1>4. /\ y.op = z.op /\ y.hci_sock = z.hci_sock /\ y.attempt = z.attempt /\ y.pc = z.pc
      /\ y.ret = z.ret /\ y.job = "query" /\ y.id = 0 /\ y.fd = None /\ y.val = -1
  BY <1>2, <1>3 DEF Thread
<1>5. UNCHANGED <<platformVars, staticVars, timedOut>>
  BY DEF LeavePower
<1> QED BY <1>1, <1>2, <1>4, <1>5

(* The calls of the power routine, and what a build without rfkill does    *)
(* in their place.                                                         *)
LEMMA CallPowerStep ==
  ASSUME NEW c \in Caller, thread \in [Caller -> Thread], NEW j, NEW l, CallPower(c, j, l)
  PROVE  /\ SameCall(thread[c], thread'[c])
         /\ UseRfkill => thread'[c].pc = "rf_enter" /\ thread'[c].job = j
         /\ ~UseRfkill => thread'[c].pc = l /\ thread'[c].job = thread[c].job
         /\ thread'[c].id = thread[c].id /\ thread'[c].fd = thread[c].fd
         /\ thread'[c].val = thread[c].val
<1> DEFINE x == thread[c]
<1>1. x \in Thread
  OBVIOUS
<1>2. CASE UseRfkill
  <2>1. thread'[c] = [x EXCEPT !.pc = "rf_enter", !.job = j]
    BY <1>2 DEF CallPower, Becomes
  <2> QED BY <1>1, <1>2, <2>1 DEF Thread, SameCall
<1>3. CASE ~UseRfkill
  <2>1. thread'[c] = [x EXCEPT !.pc = l]
    BY <1>3 DEF CallPower, Goto, Becomes
  <2> QED BY <1>1, <1>3, <2>1 DEF Thread, SameCall
<1> QED BY <1>2, <1>3

LEMMA GotoStep ==
  ASSUME NEW c \in Caller, thread \in [Caller -> Thread], NEW l, Goto(c, l)
  PROVE  /\ thread'[c].pc = l
         /\ SameCall(thread[c], thread'[c]) /\ SamePower(thread[c], thread'[c])
  BY DEF Goto, Becomes, Thread, SameCall, SamePower

LEMMA StartHciattachStep ==
  ASSUME NEW c \in Caller, thread \in [Caller -> Thread], StartHciattach(c)
  PROVE  LET x == thread[c]
             y == thread'[c]
         IN  /\ x.pc = "start_hciattach"
             /\ y.op = x.op /\ y.ret = x.ret /\ y.hci_sock = x.hci_sock
             /\ y.id = x.id /\ y.fd = x.fd /\ y.val = x.val
             /\ \/ /\ PropertySet("hciattach", "start")
                   /\ y.pc = "mksock" /\ y.attempt = Attempts /\ y.job = x.job
                \/ /\ Refused /\ y.attempt = x.attempt
                   /\ IF UseRfkill THEN y.pc = "rf_enter" /\ y.job = "attach_off"
                                   ELSE y.pc = "out" /\ y.job = x.job
             /\ UNCHANGED <<staticVars, fds, timedOut>>
<1> DEFINE x == thread[c]
           y == thread'[c]
<1>1. x \in Thread /\ x.pc = "start_hciattach" /\ UNCHANGED <<staticVars, fds, timedOut>>
  BY DEF StartHciattach, At
<1>2. ASSUME Becomes(c, [x EXCEPT !.pc = "mksock", !.attempt = Attempts])
      PROVE  /\ y.op = x.op /\ y.ret = x.ret /\ y.hci_sock = x.hci_sock /\ SamePower(x, y)
             /\ y.pc = "mksock" /\ y.attempt = Attempts
  BY <1>1, <1>2 DEF Becomes, Thread, SamePower
<1>3. ASSUME CallPower(c, "attach_off", "out")
      PROVE  /\ y.op = x.op /\ y.ret = x.ret /\ y.hci_sock = x.hci_sock /\ y.attempt = x.attempt
             /\ y.id = x.id /\ y.fd = x.fd /\ y.val = x.val
             /\ IF UseRfkill THEN y.pc = "rf_enter" /\ y.job = "attach_off"
                             ELSE y.pc = "out" /\ y.job = x.job
  BY <1>3, CallPowerStep DEF SameCall
<1> QED BY <1>1, <1>2, <1>3 DEF StartHciattach, SamePower

LEMMA CreateSockStep ==
  ASSUME NEW c \in Caller, thread \in [Caller -> Thread], create_hci_sock(c)
  PROVE  LET x == thread[c]
             y == thread'[c]
         IN  /\ x.pc = "mksock"
             /\ y.op = x.op /\ y.ret = x.ret /\ y.attempt = x.attempt /\ SamePower(x, y)
             /\ \/ /\ TableFull \/ Fails("socket")
                   /\ y.pc = "out" /\ y.hci_sock = None /\ UNCHANGED fds
                \/ /\ y.hci_sock \in Fd /\ OpenFd(c, "hci", y.hci_sock)
                   /\ y.pc = WithSocket(x.op)
             /\ UNCHANGED <<platformVars, staticVars, timedOut>>
<1> DEFINE x == thread[c]
           y == thread'[c]
<1>1. x \in Thread /\ x.pc = "mksock" /\ UNCHANGED <<platformVars, staticVars, timedOut>>
  BY DEF create_hci_sock, At
<1>2. ASSUME NEW l, NEW n, Becomes(c, [x EXCEPT !.pc = l, !.hci_sock = n])
      PROVE  /\ y.op = x.op /\ y.ret = x.ret /\ y.attempt = x.attempt /\ SamePower(x, y)
             /\ y.pc = l /\ y.hci_sock = n
  BY <1>1, <1>2 DEF Becomes, Thread, SamePower
<1> QED BY <1>1, <1>2 DEF create_hci_sock

(* HCIDEVUP brings the device up, finds it up, or fails.                   *)
LEMMA HciDevUpStep ==
  ASSUME NEW c \in Caller, thread \in [Caller -> Thread], HciDevUp(c)
  PROVE  LET x == thread[c]
             y == thread'[c]
             open == IsOpenOn(x.hci_sock, "hci")
         IN  /\ x.pc = "devup"
             /\ y.op = x.op /\ y.hci_sock = x.hci_sock /\ y.attempt = x.attempt /\ SamePower(x, y)
             /\ \/ /\ open /\ DeviceAnswers /\ SetDevice("up")
                   /\ y.pc = "start_bluetoothd" /\ y.ret = 0
                \/ /\ open /\ hci = "up" /\ UNCHANGED platformVars
                   /\ y.pc = "start_bluetoothd" /\ y.ret = -1
                \/ UNCHANGED platformVars /\ y.pc = "retry" /\ y.ret = -1
             /\ UNCHANGED <<staticVars, fds, timedOut>>
<1> DEFINE x == thread[c]
           y == thread'[c]
<1>1. x \in Thread /\ x.pc = "devup" /\ UNCHANGED <<staticVars, fds, timedOut>>
  BY DEF HciDevUp, At
<1>2. ASSUME NEW r, NEW l, Becomes(c, [x EXCEPT !.pc = l, !.ret = r])
      PROVE  /\ y.op = x.op /\ y.hci_sock = x.hci_sock /\ y.attempt = x.attempt /\ SamePower(x, y)
             /\ y.pc = l /\ y.ret = r
  BY <1>1, <1>2 DEF Becomes, Thread, SamePower
<1> QED BY <1>1, <1>2 DEF HciDevUp

LEMMA RetryDevUpStep ==
  ASSUME NEW c \in Caller, thread \in [Caller -> Thread], RetryDevUp(c)
  PROVE  LET x == thread[c]
             y == thread'[c]
         IN  /\ x.pc = "retry" /\ y.pc = IF x.attempt <= 1 THEN "timeout" ELSE "mksock"
             /\ y.op = x.op /\ y.ret = x.ret /\ y.hci_sock = x.hci_sock /\ SamePower(x, y)
             /\ y.attempt = x.attempt - 1
             /\ CloseFd(x.hci_sock)
             /\ timedOut' = (timedOut \/ x.attempt <= 1)
             /\ UNCHANGED <<platformVars, staticVars>>
<1> DEFINE x == thread[c]
           y == thread'[c]
           l == IF x.attempt <= 1 THEN "timeout" ELSE "mksock"
           a == x.attempt - 1
<1>1. /\ x \in Thread /\ x.pc = "retry" /\ CloseFd(x.hci_sock)
      /\ timedOut' = (timedOut \/ x.attempt <= 1) /\ UNCHANGED <<platformVars, staticVars>>
  BY DEF RetryDevUp, At, LastAttempt
<1>2. y = [x EXCEPT !.attempt = a, !.pc = l]
  BY DEF RetryDevUp, Becomes, AttemptsLeft, LastAttempt
<1> HIDE DEF a, l
<1>3. /\ y.pc = l /\ y.attempt = a
      /\ y.op = x.op /\ y.ret = x.ret /\ y.hci_sock = x.hci_sock /\ SamePower(x, y)
  BY <1>1, <1>2 DEF Thread, SamePower
<1> QED BY <1>1, <1>3 DEF a, l

LEMMA GiveUpStep ==
  ASSUME NEW c \in Caller, thread \in [Caller -> Thread], GiveUp(c)
  PROVE  LET x == thread[c]
             y == thread'[c]
         IN  /\ x.pc = "timeout" /\ SameCall(x, y)
             /\ y.id = x.id /\ y.fd = x.fd /\ y.val = x.val
             /\ PropertySet("hciattach", "stop") \/ Refused
             /\ IF UseRfkill THEN y.pc = "rf_enter" /\ y.job = "timeout_off"
                             ELSE y.pc = "out" /\ y.job = x.job
             /\ UNCHANGED <<staticVars, fds, timedOut>>
<1>1. CallPower(c, "timeout_off", "out")
  BY DEF GiveUp
<1> QED BY <1>1, CallPowerStep DEF GiveUp, At

LEMMA StartBluetoothdStep ==
  ASSUME NEW c \in Caller, thread \in [Caller -> Thread], StartBluetoothd(c)
  PROVE  LET x == thread[c]
             y == thread'[c]
         IN  /\ x.pc = "start_bluetoothd"
             /\ y.op = x.op /\ y.hci_sock = x.hci_sock /\ y.attempt = x.attempt
             /\ y.id = x.id /\ y.fd = x.fd /\ y.val = x.val
             /\ \/ /\ PropertySet("bluetoothd", "start")
                   /\ y.pc = "out" /\ y.ret = 0 /\ y.job = x.job
                \/ /\ Refused /\ y.ret = x.ret
                   /\ IF UseRfkill THEN y.pc = "rf_enter" /\ y.job = "daemon_off"
                                   ELSE y.pc = "out" /\ y.job = x.job
             /\ UNCHANGED <<staticVars, fds, timedOut>>
<1> DEFINE x == thread[c]
           y == thread'[c]
<1>1. x \in Thread /\ x.pc = "start_bluetoothd" /\ UNCHANGED <<staticVars, fds, timedOut>>
  BY DEF StartBluetoothd, At
<1>2. ASSUME Becomes(c, [x EXCEPT !.pc = "out", !.ret = 0])
      PROVE  /\ y.op = x.op /\ y.hci_sock = x.hci_sock /\ y.attempt = x.attempt /\ SamePower(x, y)
             /\ y.pc = "out" /\ y.ret = 0
  BY <1>1, <1>2 DEF Becomes, Thread, SamePower
<1>3. ASSUME CallPower(c, "daemon_off", "out")
      PROVE  /\ SameCall(x, y) /\ y.id = x.id /\ y.fd = x.fd /\ y.val = x.val
             /\ IF UseRfkill THEN y.pc = "rf_enter" /\ y.job = "daemon_off"
                             ELSE y.pc = "out" /\ y.job = x.job
  BY <1>3, CallPowerStep
<1> QED BY <1>1, <1>2, <1>3 DEF StartBluetoothd, SamePower, SameCall

LEMMA StopBluetoothdStep ==
  ASSUME NEW c \in Caller, thread \in [Caller -> Thread], StopBluetoothd(c)
  PROVE  LET x == thread[c]
             y == thread'[c]
         IN  /\ x.pc = "stop_bluetoothd" /\ SameCall(x, y) /\ SamePower(x, y)
             /\ \/ PropertySet("bluetoothd", "stop") /\ y.pc = "mksock"
                \/ Refused /\ y.pc = "out"
             /\ UNCHANGED <<staticVars, fds, timedOut>>
  BY GotoStep DEF StopBluetoothd, At

LEMMA HciDevDownStep ==
  ASSUME NEW c \in Caller, thread \in [Caller -> Thread], HciDevDown(c)
  PROVE  LET x == thread[c]
             y == thread'[c]
         IN  /\ x.pc = "devdown" /\ y.pc = "stop_hciattach" /\ SameCall(x, y) /\ SamePower(x, y)
             /\ SetDevice(IF IsOpenOn(x.hci_sock, "hci") /\ hci = "up" THEN "down" ELSE hci)
             /\ UNCHANGED <<staticVars, fds, timedOut>>
  BY GotoStep DEF HciDevDown, At

LEMMA StopHciattachStep ==
  ASSUME NEW c \in Caller, thread \in [Caller -> Thread], StopHciattach(c)
  PROVE  LET x == thread[c]
             y == thread'[c]
         IN  /\ x.pc = "stop_hciattach"
             /\ y.op = x.op /\ y.hci_sock = x.hci_sock /\ y.attempt = x.attempt
             /\ y.id = x.id /\ y.fd = x.fd /\ y.val = x.val
             /\ \/ /\ PropertySet("hciattach", "stop")
                   /\ IF UseRfkill THEN y.pc = "rf_enter" /\ y.job = "disable_off" /\ y.ret = x.ret
                                   ELSE y.pc = "out" /\ y.job = x.job /\ y.ret = 0
                \/ Refused /\ y.pc = "out" /\ y.job = x.job /\ y.ret = x.ret
             /\ UNCHANGED <<staticVars, fds, timedOut>>
<1> DEFINE x == thread[c]
           y == thread'[c]
<1>1. x \in Thread /\ x.pc = "stop_hciattach" /\ UNCHANGED <<staticVars, fds, timedOut>>
  BY DEF StopHciattach, At
<1>2. ASSUME Becomes(c, [x EXCEPT !.pc = "rf_enter", !.job = "disable_off"])
      PROVE  /\ SameCall(x, y) /\ y.id = x.id /\ y.fd = x.fd /\ y.val = x.val
             /\ y.pc = "rf_enter" /\ y.job = "disable_off"
  BY <1>1, <1>2 DEF Becomes, Thread, SameCall
<1>3. ASSUME Becomes(c, [x EXCEPT !.pc = "out", !.ret = 0])
      PROVE  /\ y.op = x.op /\ y.hci_sock = x.hci_sock /\ y.attempt = x.attempt /\ SamePower(x, y)
             /\ y.pc = "out" /\ y.ret = 0
  BY <1>1, <1>3 DEF Becomes, Thread, SamePower
<1>4. Goto(c, "out") => y.pc = "out" /\ SameCall(x, y) /\ SamePower(x, y)
  BY GotoStep
<1>5. \/ PropertySet("hciattach", "stop") /\ UseRfkill
         /\ Becomes(c, [x EXCEPT !.pc = "rf_enter", !.job = "disable_off"])
      \/ PropertySet("hciattach", "stop") /\ ~UseRfkill
         /\ Becomes(c, [x EXCEPT !.pc = "out", !.ret = 0])
      \/ Refused /\ Goto(c, "out")
  BY DEF StopHciattach
<1> QED BY <1>1, <1>2, <1>3, <1>4, <1>5 DEF SamePower, SameCall

LEMMA HciGetDevInfoStep ==
  ASSUME NEW c \in Caller, thread \in [Caller -> Thread], HciGetDevInfo(c)
  PROVE  LET x == thread[c]
             y == thread'[c]
         IN  /\ x.pc = "devinfo" /\ y.pc = "out"
             /\ y.op = x.op /\ y.hci_sock = x.hci_sock /\ y.attempt = x.attempt /\ SamePower(x, y)
             /\ y.ret = IF IsOpenOn(x.hci_sock, "hci") /\ hci = "up" THEN 1 ELSE 0
             /\ UNCHANGED <<platformVars, staticVars, fds, timedOut>>
  BY DEF HciGetDevInfo, At, Becomes, Thread, SamePower

LEMMA ReturnStep ==
  ASSUME NEW c \in Caller, thread \in [Caller -> Thread], Return(c)
  PROVE  LET x == thread[c]
             y == thread'[c]
         IN  /\ x.pc = "out" /\ y.pc = "idle" /\ CloseFd(x.hci_sock)
             /\ y.op = x.op /\ y.ret = x.ret /\ SamePower(x, y)
             /\ y.attempt = 0 /\ y.hci_sock = None
             /\ UNCHANGED <<platformVars, staticVars, timedOut>>
  BY DEF Return, At, Becomes, Thread, SamePower

LEMMA BeginStep ==
  ASSUME NEW c \in Caller, thread \in [Caller -> Thread], NEW f \in Op, Begin(c, f)
  PROVE  LET x == thread[c]
             y == thread'[c]
         IN  /\ x.pc = "idle"
             /\ y.pc = FirstStep(f) /\ y.op = f /\ y.ret = -1
             /\ y.job = IF f = "enable" THEN "enable_on" ELSE "query"
             /\ y.hci_sock = x.hci_sock /\ y.attempt = x.attempt
             /\ y.id = x.id /\ y.fd = x.fd /\ y.val = x.val
             /\ \A d \in Caller \ {c} : thread'[d] = thread[d]
             /\ UNCHANGED <<platformVars, staticVars, fds, appFds, timedOut>>
<1> DEFINE x == thread[c]
           y == thread'[c]
           l == FirstStep(f)
           j == IF f = "enable" THEN "enable_on" ELSE "query"
<1>1. /\ x \in Thread /\ x.pc = "idle" /\ y = [x EXCEPT !.op = f, !.ret = -1, !.pc = l, !.job = j]
      /\ \A d \in Caller \ {c} : thread'[d] = thread[d]
      /\ UNCHANGED <<platformVars, staticVars, fds, appFds, timedOut>>
  BY DEF Begin, At, Becomes
<1> HIDE DEF l, j
<1>2. /\ y.pc = l /\ y.op = f /\ y.ret = -1 /\ y.job = j
      /\ y.hci_sock = x.hci_sock /\ y.attempt = x.attempt
      /\ y.id = x.id /\ y.fd = x.fd /\ y.val = x.val
  BY <1>1 DEF Thread
<1> QED BY <1>1, <1>2 DEF l, j
-----------------------------------------------------------------------------
(* Only bt_is_enabled answers 1. *)
Answers(t) ==
  /\ t.op \in Op /\ (t.ret = 1 => t.op = "is_enabled")
  /\ t.pc = "rf_out" /\ t.val = 1 => t.op = "is_enabled"
  /\ t.pc = "devinfo" => t.op = "is_enabled"
  /\ t.pc \in {"devdown", "stop_hciattach"} => t.op = "disable"
  /\ t.pc \in {"start_bluetoothd", "timeout"} => t.op = "enable"
  /\ t.pc \in PowerPc /\ t.job = "disable_off" => t.op = "disable"
  /\ t.pc \in PowerPc /\ t.job \in {"attach_off", "timeout_off", "daemon_off"} => t.op = "enable"

LEMMA StepAnswers ==
  ASSUME NEW c \in Caller, thread \in [Caller -> Thread], LocalInv(thread[c]), Answers(thread[c]),
         thread[c].pc # "rf_out" => thread[c].val = -1, Step(c)
  PROVE  Answers(thread'[c]) /\ (thread'[c].pc # "rf_out" => thread'[c].val = -1)
<1> USE DEF Answers, PowerPc
<1>0. thread[c] \in Thread
  OBVIOUS
<1>1. CASE EnterPower(c)
  BY <1>1, EnterPowerStep DEF SameCall, SamePower
<1>2. CASE ProbeRfkill(c)
  BY <1>2, ProbeRfkillStep DEF SameCall
<1>3. CASE SetStatePath(c)
  BY <1>3, SetStatePathStep DEF SameCall, SamePower
<1>4. CASE OpenStatePath(c)
  BY <1>4, OpenStatePathStep DEF SameCall
<1>5. CASE StateFileIo(c)
  BY <1>5, StateFileIoStep DEF SameCall, LocalInv
<1>6. CASE LeavePower(c)
  BY <1>0, <1>6, LeavePowerStep DEF LocalInv, Thread, Job
<1>7. CASE StartHciattach(c)
  BY <1>7, StartHciattachStep DEF LocalInv
<1>8. CASE create_hci_sock(c)
  BY <1>8, CreateSockStep DEF SamePower, WithSocket, Op
<1>9. CASE HciDevUp(c)
  BY <1>9, HciDevUpStep DEF SamePower, LocalInv
<1>10. CASE RetryDevUp(c)
  BY <1>10, RetryDevUpStep DEF SamePower, LocalInv
<1>11. CASE GiveUp(c)
  BY <1>11, GiveUpStep DEF SameCall
<1>12. CASE StartBluetoothd(c)
  BY <1>12, StartBluetoothdStep
<1>13. CASE StopBluetoothd(c)
  BY <1>13, StopBluetoothdStep DEF SameCall, SamePower, LocalInv
<1>14. CASE HciDevDown(c)
  BY <1>14, HciDevDownStep DEF SameCall, SamePower
<1>15. CASE StopHciattach(c)
  BY <1>15, StopHciattachStep
<1>16. CASE HciGetDevInfo(c)
  BY <1>16, HciGetDevInfoStep DEF SamePower
<1>17. CASE Return(c)
  BY <1>17, ReturnStep DEF SamePower
<1> QED
  BY <1>1, <1>2, <1>3, <1>4, <1>5, <1>6, <1>7, <1>8, <1>9, <1>10, <1>11, <1>12, <1>13, <1>14,
     <1>15, <1>16, <1>17 DEF Step

(* Only a thread inside a call takes a step of the library. *)
LEMMA StepInCall ==
  ASSUME NEW c \in Caller, Step(c)
  PROVE  thread[c].pc # "idle"
  BY DEF Step, EnterPower, ProbeRfkill, SetStatePath, OpenStatePath, StateFileIo, LeavePower,
     StartHciattach, create_hci_sock, HciDevUp, RetryDevUp, GiveUp, StartBluetoothd,
     StopBluetoothd, HciDevDown, StopHciattach, HciGetDevInfo, Return, At

(* A time-out is not forgotten. *)
LEMMA StepTimedOut ==
  ASSUME NEW c \in Caller, Step(c), timedOut
  PROVE  timedOut'
  BY DEF Step, EnterPower, ProbeRfkill, SetStatePath, OpenStatePath, StateFileIo, LeavePower,
     StartHciattach, create_hci_sock, HciDevUp, RetryDevUp, GiveUp, StartBluetoothd,
     StopBluetoothd, HciDevDown, StopHciattach, HciGetDevInfo, Return

(* The function a thread is in does not change on the way. *)
LEMMA StepKeepsOp ==
  ASSUME NEW c \in Caller, thread \in [Caller -> Thread], Step(c)
  PROVE  thread'[c].op = thread[c].op
<1>1. CASE EnterPower(c) \/ ProbeRfkill(c) \/ SetStatePath(c) \/ OpenStatePath(c)
           \/ StateFileIo(c) \/ LeavePower(c)
  BY <1>1, EnterPowerStep, ProbeRfkillStep, SetStatePathStep, OpenStatePathStep, StateFileIoStep,
     LeavePowerStep DEF SameCall
<1>2. CASE StartHciattach(c) \/ create_hci_sock(c) \/ HciDevUp(c) \/ RetryDevUp(c) \/ GiveUp(c)
           \/ StartBluetoothd(c)
  BY <1>2, StartHciattachStep, CreateSockStep, HciDevUpStep, RetryDevUpStep, GiveUpStep,
     StartBluetoothdStep DEF SameCall
<1>3. CASE StopBluetoothd(c) \/ HciDevDown(c) \/ StopHciattach(c) \/ HciGetDevInfo(c) \/ Return(c)
  BY <1>3, StopBluetoothdStep, HciDevDownStep, StopHciattachStep, HciGetDevInfoStep, ReturnStep
     DEF SameCall
<1> QED BY <1>1, <1>2, <1>3 DEF Step

(* Without an rfkill switch nothing touches the power. *)
AlwaysPowered == ~UseRfkill => power /\ \A c \in Caller : thread[c].pc \notin PowerPc

LEMMA StepPowered ==
  ASSUME IInv, AlwaysPowered, NEW c \in Caller, Step(c)
  PROVE  AlwaysPowered'
<1> SUFFICES ASSUME ~UseRfkill PROVE power' /\ \A d \in Caller : thread'[d].pc \notin PowerPc
  BY DEF AlwaysPowered
<1> DEFINE x == thread[c]
           y == thread'[c]
<1>0. /\ thread \in [Caller -> Thread] /\ LocalInv(x)
      /\ power /\ \A d \in Caller : thread[d].pc \notin PowerPc
  BY DEF IInv, TypeOK, AlwaysPowered
<1>1. \A d \in Caller \ {c} : thread'[d] = thread[d]
  BY <1>0, OthersStay
<1> USE DEF platformVars, PropertySet, Refused, SetDevice
<1>2. x.pc \notin PowerPc
  BY <1>0
<1>3. power' /\ y.pc \notin PowerPc
  <2> USE <1>0, <1>2 DEF PowerPc
  <2>1. CASE EnterPower(c) \/ ProbeRfkill(c) \/ SetStatePath(c) \/ OpenStatePath(c)
             \/ StateFileIo(c) \/ LeavePower(c)
    BY <2>1, EnterPowerStep, ProbeRfkillStep, SetStatePathStep, OpenStatePathStep, StateFileIoStep,
       LeavePowerStep
  <2>2. CASE StartHciattach(c)
    BY <2>2, StartHciattachStep
  <2>3. CASE create_hci_sock(c)
    BY <2>3, CreateSockStep DEF LocalInv, WithSocket, Op
  <2>4. CASE HciDevUp(c)
    BY <2>4, HciDevUpStep
  <2>5. CASE RetryDevUp(c)
    BY <2>5, RetryDevUpStep
  <2>6. CASE GiveUp(c)
    BY <2>6, GiveUpStep
  <2>7. CASE StartBluetoothd(c)
    BY <2>7, StartBluetoothdStep
  <2>8. CASE StopBluetoothd(c)
    BY <2>8, StopBluetoothdStep
  <2>9. CASE HciDevDown(c)
    BY <2>9, HciDevDownStep
  <2>10. CASE StopHciattach(c)
    BY <2>10, StopHciattachStep
  <2>11. CASE HciGetDevInfo(c)
    BY <2>11, HciGetDevInfoStep
  <2>12. CASE Return(c)
    BY <2>12, ReturnStep
  <2> QED
    BY <2>1, <2>2, <2>3, <2>4, <2>5, <2>6, <2>7, <2>8, <2>9, <2>10, <2>11, <2>12 DEF Step
<1> QED BY <1>0, <1>1, <1>3

(* A request that is made replaces the last one for its daemon. *)
LEMMA RequestMade ==
  ASSUME PlatformTypeOK, NEW s \in Service, NEW v \in Verb, PropertySet(s, v)
  PROVE  /\ want'[s] = v /\ \A r \in Service \ {s} : want'[r] = want[r]
         /\ UNCHANGED <<power, firmware, hci, svc>>
  BY DEF PropertySet, PlatformTypeOK

(* Before a time-out a call works on the files it has opened.              *)
LEMMA OwnDescriptors ==
  ASSUME IInv, NEW c \in Caller, ~timedOut
  PROVE  /\ thread[c].pc \in {"devdown", "devinfo"} => IsOpenOn(thread[c].hci_sock, "hci")
         /\ thread[c].pc = "rf_io" => IsOpenOn(thread[c].fd, "rfkill")
<1>1. /\ HoldsSock(thread[c]) => OwnedAs(thread[c].hci_sock, c, "hci")
      /\ HoldsRfd(thread[c]) => OwnedAs(thread[c].fd, c, "rfkill")
  BY DEF IInv, FdsIntactUntilTimeout
<1>2. \A k : \A n \in Fd : OwnedAs(n, c, k) => IsOpenOn(n, k)
  BY ConstantFacts DEF OwnedAs, IsOpenOn, IsFree
<1>3. thread[c].pc = "rf_io" => thread[c].fd # None
  BY DEF IInv, LocalInv
<1> QED BY <1>1, <1>2, <1>3 DEF HoldsSock, HoldsRfd, OwnedAs
=============================================================================
