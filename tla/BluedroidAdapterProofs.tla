----------------------- MODULE BluedroidAdapterProofs -----------------------
(***************************************************************************)
(* Proof that Bluedroid implements BtAdapter, for any number of callers    *)
(* and descriptors, both builds, any faults and crashing daemons.          *)
(***************************************************************************)
EXTENDS BluedroidAdapter, BluedroidProofs

InCall(t) == t.pc # "idle"

(* The call has switched the power on, or read that it is on.              *)
SawPower(t) ==
  \/ t.op = "enable" /\ \/ t.pc \in {"start_hciattach", "mksock", "devup", "retry", "timeout"}
                        \/ t.pc = "rf_out" /\ t.job = "enable_on" /\ t.val = 0
  \/ t.op = "is_enabled" /\ \/ t.pc \in {"mksock", "devinfo"}
                            \/ t.pc = "rf_out" /\ t.val = 1

(* The call is past a point at which the adapter was on, or off.           *)
PassedOn(t) ==
  \/ t.op = "enable" /\ (t.pc = "start_bluetoothd" \/ t.ret = 0)
  \/ t.op = "is_enabled" /\ t.ret = 1
PassedOff(t) ==
  \/ t.op = "disable" /\ \/ t.pc = "stop_hciattach" \/ t.ret = 0
                         \/ t.pc \in PowerPc /\ t.job = "disable_off"
  \/ t.op = "is_enabled" /\ (t.ret = 0 \/ (t.pc = "rf_out" /\ t.val = 0))

(* What a call has seen of the adapter on the way to where it is.  A call  *)
(* that knows of the power need not have seen the adapter on, but has when *)
(* the device is up: it was up already, or came up on a powered chip.      *)
Witnessed(c) ==
  /\ PassedOn(thread[c]) => TRUE \in seen[c]
  /\ PassedOff(thread[c]) => FALSE \in seen[c]
  /\ SawPower(thread[c]) /\ hci = "up" => TRUE \in seen[c]

CallInv(c) ==
  /\ thread[c].pc # "rf_out" => thread[c].val = -1
  /\ InCall(thread[c]) => Answers(thread[c]) /\ On \in seen[c]
  /\ ~InCall(thread[c]) => seen[c] = {}
  /\ InCall(thread[c]) /\ ~timedOut => Witnessed(c)

SeenInv ==
  /\ AlwaysPowered
  /\ DOMAIN seen = Caller /\ seen = [c \in Caller |-> seen[c]]
  /\ \A c \in Caller : CallInv(c)

HInv == IInv /\ SeenInv
-----------------------------------------------------------------------------
(* The adapter becomes usable only on a powered chip. *)
LEMMA DeviceRises ==
  ASSUME NEW c \in Caller, thread \in [Caller -> Thread], Step(c), hci' = "up"
  PROVE  hci = "up" \/ On'
<1> USE DEF platformVars
<1>1. CASE EnterPower(c)
  BY <1>1, EnterPowerStep
<1>2. CASE ProbeRfkill(c)
  BY <1>2, ProbeRfkillStep
<1>3. CASE SetStatePath(c)
  BY <1>3, SetStatePathStep
<1>4. CASE OpenStatePath(c)
  BY <1>4, OpenStatePathStep
<1>5. CASE StateFileIo(c)
  BY <1>5, StateFileIoStep DEF SwitchPower
<1>6. CASE LeavePower(c)
  BY <1>6, LeavePowerStep
<1>7. CASE StartHciattach(c)
  BY <1>7, StartHciattachStep DEF PropertySet, Refused
<1>8. CASE create_hci_sock(c)
  BY <1>8, CreateSockStep
<1>9. CASE HciDevUp(c)
  BY <1>9, HciDevUpStep DEF DeviceAnswers, SetDevice, On
<1>10. CASE RetryDevUp(c)
  BY <1>10, RetryDevUpStep
<1>11. CASE GiveUp(c)
  BY <1>11, GiveUpStep DEF PropertySet, Refused
<1>12. CASE StartBluetoothd(c)
  BY <1>12, StartBluetoothdStep DEF PropertySet, Refused
<1>13. CASE StopBluetoothd(c)
  BY <1>13, StopBluetoothdStep DEF PropertySet, Refused
<1>14. CASE HciDevDown(c)
  BY <1>14, HciDevDownStep DEF SetDevice
<1>15. CASE StopHciattach(c)
  BY <1>15, StopHciattachStep DEF PropertySet, Refused
<1>16. CASE HciGetDevInfo(c)
  BY <1>16, HciGetDevInfoStep
<1>17. CASE Return(c)
  BY <1>17, ReturnStep
<1> QED
  BY <1>1, <1>2, <1>3, <1>4, <1>5, <1>6, <1>7, <1>8, <1>9, <1>10, <1>11, <1>12, <1>13, <1>14,
     <1>15, <1>16, <1>17 DEF Step

(* What the history variable says after a step. *)
LEMMA SeenAfter ==
  ASSUME RecordSeen, NEW d \in Caller, thread'[d].op # "none"
  PROVE  seen'[d] = IF thread'[d].pc = "idle" THEN {}
                    ELSE IF thread[d].pc = "idle" THEN {On'}
                    ELSE seen[d] \cup {On'}
  BY DEF RecordSeen, Calling

LEMMA SeenOfIdle ==
  ASSUME RecordSeen, NEW d \in Caller, thread'[d].pc = "idle"
  PROVE  seen'[d] = {}
  BY DEF RecordSeen, Calling

(* A step that leaves a thread alone leaves what it has seen true. *)
LEMMA Bystander ==
  ASSUME NEW d \in Caller, CallInv(d), thread'[d] = thread[d], RecordSeen,
         timedOut => timedOut', hci' = "up" => hci = "up" \/ On'
  PROVE  CallInv(d)'
<1>1. CASE ~InCall(thread[d])
  BY <1>1, SeenOfIdle DEF CallInv, InCall
<1>2. CASE InCall(thread[d])
  <2>1. Answers(thread[d])
    BY <1>2 DEF CallInv
  <2>2. thread'[d].op # "none"
    BY <2>1 DEF Answers, Op
  <2>3. seen'[d] = seen[d] \cup {On'}
    BY <1>2, <2>2, SeenAfter DEF InCall
  <2>4. ~timedOut' => Witnessed(d)'
    <3> SUFFICES ASSUME ~timedOut' PROVE Witnessed(d)'
      OBVIOUS
    <3>1. Witnessed(d)
      BY <1>2 DEF CallInv
    <3>2. On' => On' = TRUE
      BY DEF On
    <3> QED BY <2>3, <3>1, <3>2 DEF Witnessed
  <2> QED BY <1>2, <2>1, <2>3, <2>4 DEF CallInv
<1> QED BY <1>1, <1>2

(* A step inside a call keeps CallInv if what the new position claims was  *)
(* claimed by the old one, or is true before or after the step.            *)
LEMMA MoverKeeps ==
  ASSUME NEW c \in Caller, CallInv(c), RecordSeen, timedOut => timedOut',
         InCall(thread[c]), InCall(thread'[c]), Answers(thread'[c]),
         thread'[c].pc # "rf_out" => thread'[c].val = -1,
         ~timedOut' => /\ PassedOn(thread'[c]) =>
                            PassedOn(thread[c]) \/ (SawPower(thread[c]) /\ hci = "up") \/ On \/ On'
                       /\ PassedOff(thread'[c]) => PassedOff(thread[c]) \/ ~On \/ ~On'
                       /\ SawPower(thread'[c]) /\ hci' = "up" =>
                            (SawPower(thread[c]) /\ hci = "up") \/ On \/ On'
  PROVE  CallInv(c)'
<1>1. thread'[c].op # "none"
  BY DEF Answers, Op
<1>2. seen'[c] = seen[c] \cup {On'}
  BY <1>1, SeenAfter DEF InCall
<1>3. On \in seen[c] /\ (~timedOut => Witnessed(c))
  BY DEF CallInv
<1>4. /\ (On => On = TRUE) /\ (~On => On = FALSE)
      /\ (On' => On' = TRUE) /\ (~On' => On' = FALSE)
  BY DEF On
<1>5. /\ On \/ On' => TRUE \in seen'[c]
      /\ ~On \/ ~On' => FALSE \in seen'[c]
  BY <1>2, <1>3, <1>4
<1>6. ~timedOut' => Witnessed(c)'
  <2> SUFFICES ASSUME ~timedOut' PROVE Witnessed(c)'
    OBVIOUS
  <2>1. /\ PassedOn(thread[c]) => TRUE \in seen'[c]
        /\ PassedOff(thread[c]) => FALSE \in seen'[c]
        /\ SawPower(thread[c]) /\ hci = "up" => TRUE \in seen'[c]
    BY <1>2, <1>3 DEF Witnessed
  <2> QED BY <1>5, <2>1 DEF Witnessed
<1> QED BY <1>2, <1>6 DEF CallInv

LEMMA MoverInv ==
  ASSUME IInv, AlwaysPowered, NEW c \in Caller, CallInv(c), Step(c), RecordSeen
  PROVE  CallInv(c)'
<1> DEFINE x == thread[c]
           y == thread'[c]
           Kept == /\ timedOut => timedOut'
                   /\ InCall(x) /\ InCall(y)
                   /\ ~timedOut' =>
                        /\ PassedOn(y) => PassedOn(x) \/ (SawPower(x) /\ hci = "up") \/ On \/ On'
                        /\ PassedOff(y) => PassedOff(x) \/ ~On \/ ~On'
                        /\ SawPower(y) /\ hci' = "up" => (SawPower(x) /\ hci = "up") \/ On \/ On'
<1>0. /\ thread \in [Caller -> Thread] /\ LocalInv(x) /\ x \in Thread
      /\ x.pc # "idle" => Answers(x)
      /\ x.pc # "rf_out" => x.val = -1
      /\ timedOut \in BOOLEAN /\ UseRfkill \in BOOLEAN
      /\ ~UseRfkill => power
  BY ConstantFacts DEF IInv, TypeOK, CallInv, InCall, AlwaysPowered
<1>d. /\ ~timedOut /\ x.pc \in {"devdown", "devinfo"} => IsOpenOn(x.hci_sock, "hci")
      /\ ~timedOut /\ x.pc = "rf_io" => IsOpenOn(x.fd, "rfkill")
  BY OwnDescriptors
<1>k. Kept => CallInv(c)'
  <2>1. x.pc # "idle" => Answers(y) /\ (y.pc # "rf_out" => y.val = -1)
    BY <1>0, StepAnswers
  <2> QED BY <2>1, MoverKeeps DEF InCall
<1> USE <1>0 DEF PassedOn, PassedOff, SawPower, InCall, PowerPc, platformVars
<1>1. CASE EnterPower(c)
  <2>1. Kept
    BY <1>1, EnterPowerStep DEF Answers, SameCall, SamePower
  <2> QED BY <1>k, <2>1
<1>2. CASE ProbeRfkill(c)
  <2>1. Kept
    BY <1>2, ProbeRfkillStep DEF Answers, SameCall, SamePower
  <2> QED BY <1>k, <2>1
<1>3. CASE SetStatePath(c)
  <2>1. Kept
    BY <1>3, SetStatePathStep DEF Answers, SameCall, SamePower
  <2> QED BY <1>k, <2>1
<1>4. CASE OpenStatePath(c)
  <2>1. Kept
    BY <1>4, OpenStatePathStep DEF Answers, SameCall, SamePower
  <2> QED BY <1>k, <2>1
<1>5. CASE StateFileIo(c)
  <2>1. Kept
    BY <1>5, <1>d, StateFileIoStep DEF Answers, SameCall, SwitchPower, TurnsOn, On, LocalInv
  <2> QED BY <1>k, <2>1
<1>6. CASE LeavePower(c)
  <2>1. Kept
    BY <1>6, LeavePowerStep DEF Answers, LocalInv, Thread, Job
  <2> QED BY <1>k, <2>1
<1>7. CASE StartHciattach(c)
  <2>1. Kept
    BY <1>7, StartHciattachStep DEF Answers, PropertySet, Refused, LocalInv
  <2> QED BY <1>k, <2>1
<1>8. CASE create_hci_sock(c)
  <2>1. Kept
    BY <1>8, CreateSockStep DEF Answers, SamePower, WithSocket, Op
  <2> QED BY <1>k, <2>1
<1>9. CASE HciDevUp(c)
  <2>1. Kept
    BY <1>9, HciDevUpStep DEF Answers, SamePower, LocalInv, DeviceAnswers, SetDevice, On
  <2> QED BY <1>k, <2>1
<1>10. CASE RetryDevUp(c)
  <2>1. Kept
    BY <1>10, RetryDevUpStep DEF Answers, SamePower, LocalInv
  <2> QED BY <1>k, <2>1
<1>11. CASE GiveUp(c)
  <2>1. Kept
    BY <1>11, GiveUpStep DEF Answers, SameCall, PropertySet, Refused
  <2> QED BY <1>k, <2>1
<1>12. CASE StartBluetoothd(c)
  <2>1. Kept
    BY <1>12, StartBluetoothdStep DEF Answers, PropertySet, Refused
  <2> QED BY <1>k, <2>1
<1>13. CASE StopBluetoothd(c)
  <2>1. Kept
    BY <1>13, StopBluetoothdStep DEF Answers, SameCall, SamePower, PropertySet, Refused, LocalInv
  <2> QED BY <1>k, <2>1
<1>14. CASE HciDevDown(c)
  <2>1. Kept
    BY <1>14, <1>d, HciDevDownStep DEF Answers, SameCall, SamePower, SetDevice, On
  <2> QED BY <1>k, <2>1
<1>15. CASE StopHciattach(c)
  <2>1. Kept
    BY <1>15, StopHciattachStep DEF Answers, PropertySet, Refused
  <2> QED BY <1>k, <2>1
<1>16. CASE HciGetDevInfo(c)
  <2>1. Kept
    BY <1>16, <1>d, HciGetDevInfoStep DEF Answers, SamePower, On
  <2> QED BY <1>k, <2>1
<1>17. CASE Return(c)
  BY <1>17, ReturnStep, SeenOfIdle DEF CallInv, SamePower
<1> QED
  BY <1>1, <1>2, <1>3, <1>4, <1>5, <1>6, <1>7, <1>8, <1>9, <1>10, <1>11, <1>12, <1>13, <1>14,
     <1>15, <1>16, <1>17 DEF Step

(* A call begins: it has seen the adapter as it is.                        *)
LEMMA BeginInv ==
  ASSUME IInv, AlwaysPowered, NEW c \in Caller, CallInv(c), NEW f \in Op, Begin(c, f), RecordSeen
  PROVE  CallInv(c)'
<1> DEFINE x == thread[c]
           y == thread'[c]
<1>0. thread \in [Caller -> Thread] /\ UseRfkill \in BOOLEAN
  BY ConstantFacts DEF IInv, TypeOK
<1>1. /\ x.pc = "idle" /\ y.pc = FirstStep(f) /\ y.op = f /\ y.ret = -1 /\ y.val = x.val
      /\ y.job = IF f = "enable" THEN "enable_on" ELSE "query"
      /\ hci' = hci /\ power' = power /\ timedOut' = timedOut
  BY <1>0, BeginStep DEF platformVars
<1>2. /\ y.pc = "stop_bluetoothd" => f = "disable"
      /\ y.pc = "rf_enter" => f # "disable"
      /\ y.pc = "start_hciattach" => f = "enable" /\ ~UseRfkill
      /\ y.pc = "mksock" => f = "is_enabled" /\ ~UseRfkill
      /\ y.pc \in {"stop_bluetoothd", "rf_enter", "start_hciattach", "mksock"}
  BY <1>0, <1>1 DEF FirstStep, Op
<1>3. seen'[c] = {On'}
  <2>1. f # "none"
    BY DEF Op
  <2> QED BY <1>1, <1>2, <2>1, SeenAfter
<1>4. y.val = -1
  BY <1>1 DEF CallInv
<1>5. Answers(y)
  BY <1>1, <1>2, <1>4 DEF Answers, PowerPc
<1>6. ~UseRfkill => power
  BY DEF AlwaysPowered
<1>7. ~PassedOn(y) /\ ~PassedOff(y)
  BY <1>1, <1>2 DEF PassedOn, PassedOff, PowerPc
<1>8. SawPower(y) /\ hci' = "up" => On' = TRUE
  BY <1>1, <1>2, <1>6 DEF SawPower, On
<1>9. InCall(y)
  BY <1>2 DEF InCall
<1> QED BY <1>3, <1>4, <1>5, <1>7, <1>8, <1>9 DEF CallInv, Witnessed

LEMMA InitHInv == HInit => HInv
<1> SUFFICES ASSUME HInit PROVE HInv
  OBVIOUS
<1>1. IInv
  BY InitIInv DEF HInit
<1>2. \A c \in Caller : thread[c].pc = "idle" /\ thread[c].val = -1 /\ seen[c] = {}
  BY DEF HInit, Init
<1>3. AlwaysPowered
  BY <1>2 DEF HInit, Init, PlatformInit, AlwaysPowered, PowerPc
<1>4. \A c \in Caller : CallInv(c)
  BY <1>2 DEF CallInv, InCall
<1> QED BY <1>1, <1>3, <1>4 DEF HInv, SeenInv, HInit

LEMMA NextHInv == HInv /\ [HNext]_<<vars, seen>> => HInv'
<1> SUFFICES ASSUME HInv, [HNext]_<<vars, seen>> PROVE HInv'
  OBVIOUS
<1>1. IInv /\ IInv'
  BY NextIInv DEF HInv, HNext
<1>2. AlwaysPowered /\ \A c \in Caller : CallInv(c)
  BY DEF HInv, SeenInv
<1>3. /\ thread \in [Caller -> Thread] /\ timedOut \in BOOLEAN
      /\ \A c \in Caller : LocalInv(thread[c])
  BY <1>1 DEF IInv, TypeOK
<1>4. ASSUME RecordSeen PROVE DOMAIN seen' = Caller /\ seen' = [c \in Caller |-> seen'[c]]
  BY <1>4 DEF RecordSeen
<1>5. ASSUME NEW c \in Caller, Step(c), RecordSeen
      PROVE  SeenInv'
  <2>1. \A d \in Caller \ {c} : thread'[d] = thread[d]
    BY <1>3, <1>5, OthersStay
  <2>2. (timedOut => timedOut') /\ (hci' = "up" => hci = "up" \/ On')
    <3>1. Effect(c, thread[c], thread'[c])
      BY <1>1, <1>3, <1>5, StepEffect DEF IInv
    <3>2. timedOut => timedOut'
      BY <3>1 DEF Effect, Keeps, OpensSock, OpensRfd, ClosesRfd, ClosesSock
    <3> QED BY <1>3, <1>5, <3>2, DeviceRises
  <2>3. \A d \in Caller \ {c} : CallInv(d)'
    BY <1>2, <1>5, <2>1, <2>2, Bystander
  <2>4. CallInv(c)'
    BY <1>1, <1>2, <1>5, MoverInv
  <2>5. AlwaysPowered'
    BY <1>1, <1>2, <1>5, StepPowered
  <2> QED BY <1>4, <1>5, <2>3, <2>4, <2>5 DEF SeenInv
<1>6. ASSUME NEW c \in Caller, NEW f \in Op, Begin(c, f), RecordSeen
      PROVE  SeenInv'
  <2>1. /\ \A d \in Caller \ {c} : thread'[d] = thread[d]
        /\ UNCHANGED <<platformVars, timedOut>> /\ thread'[c].pc = FirstStep(f)
    BY <1>3, <1>6, BeginStep
  <2>2. hci' = hci /\ power' = power
    BY <2>1 DEF platformVars
  <2>3. \A d \in Caller \ {c} : CallInv(d)'
    BY <1>2, <1>6, <2>1, <2>2, Bystander
  <2>4. CallInv(c)'
    BY <1>1, <1>2, <1>6, BeginInv
  <2>5. ~UseRfkill => FirstStep(f) \notin PowerPc
    BY ConstantFacts DEF FirstStep, Op, PowerPc
  <2>6. AlwaysPowered'
    BY <1>2, <2>1, <2>2, <2>5 DEF AlwaysPowered
  <2> QED BY <1>4, <1>6, <2>3, <2>4, <2>6 DEF SeenInv
<1>7. ASSUME UNCHANGED <<thread, timedOut>>, power' = power, hci' = "up" => hci = "up", RecordSeen
      PROVE  SeenInv'
  <2>1. \A d \in Caller : CallInv(d)'
    BY <1>2, <1>7, Bystander
  <2>2. AlwaysPowered'
    BY <1>2, <1>7 DEF AlwaysPowered
  <2> QED BY <1>4, <1>7, <2>1, <2>2 DEF SeenInv
<1>8. ASSUME NEW n \in Fd, AppOpen(n) \/ AppClose(n), RecordSeen PROVE SeenInv'
  BY <1>7, <1>8 DEF AppOpen, AppClose, platformVars
<1>9. ASSUME Platform(PlatformNext), RecordSeen PROVE SeenInv'
  <2>1. UNCHANGED <<thread, timedOut>> /\ PlatformNext
    BY <1>9 DEF Platform
  <2>2. power' = power /\ (hci' = "up" => hci = "up")
    BY <2>1 DEF PlatformNext, InitHandles, HciattachAttaches, DaemonExits, Stopped
  <2> QED BY <1>7, <1>9, <2>1, <2>2
<1>10. CASE UNCHANGED <<vars, seen>>
  <2>1. UNCHANGED <<thread, timedOut, power, hci, seen>>
    BY <1>10 DEF vars, platformVars
  <2>2. \A c \in Caller : CallInv(c)'
    BY <1>2, <2>1 DEF CallInv, Witnessed, On
  <2>3. SeenInv'
    BY <1>2, <2>1, <2>2 DEF SeenInv, AlwaysPowered, HInv
  <2> QED BY <1>1, <2>3 DEF HInv
<1> QED
  BY <1>1, <1>5, <1>6, <1>8, <1>9, <1>10 DEF HInv, HNext, Next

LEMMA HistoryInvariant == HSpec => []HInv
  BY InitHInv, NextHInv, PTL DEF HSpec
-----------------------------------------------------------------------------
(* The steps of the refinement. Calling and Answer change only where a     *)
(* call begins or ends.                                                    *)
LEMMA StepInside ==
  ASSUME IInv, NEW c \in Caller, Step(c), ~Return(c)
  PROVE  /\ thread[c].pc # "idle" /\ thread'[c].pc # "idle" /\ thread'[c].op = thread[c].op
         /\ \A d \in Caller \ {c} : thread'[d] = thread[d]
         /\ timedOut' = timedOut \/ (thread[c].op = "enable" /\ timedOut' = TRUE /\ On' = On)
<1>0. /\ thread \in [Caller -> Thread] /\ timedOut \in BOOLEAN
      /\ LocalInv(thread[c])
  BY DEF IInv, TypeOK
<1>1. \A d \in Caller \ {c} : thread'[d] = thread[d]
  BY <1>0, OthersStay
<1> DEFINE x == thread[c]
           y == thread'[c]
           Inside == x.pc # "idle" /\ y.pc # "idle" /\ y.op = x.op
<1> USE <1>0 DEF SameCall
<1>2. CASE EnterPower(c)
  <2> Inside /\ timedOut' = timedOut
    BY <1>2, EnterPowerStep
  <2> QED BY <1>1
<1>3. CASE ProbeRfkill(c)
  <2> Inside /\ timedOut' = timedOut
    BY <1>3, ProbeRfkillStep
  <2> QED BY <1>1
<1>4. CASE SetStatePath(c)
  <2> Inside /\ timedOut' = timedOut
    BY <1>4, SetStatePathStep
  <2> QED BY <1>1
<1>5. CASE OpenStatePath(c)
  <2> Inside /\ timedOut' = timedOut
    BY <1>5, OpenStatePathStep
  <2> QED BY <1>1
<1>6. CASE StateFileIo(c)
  <2> Inside /\ timedOut' = timedOut
    BY <1>6, StateFileIoStep
  <2> QED BY <1>1
<1>7. CASE LeavePower(c)
  <2> Inside /\ timedOut' = timedOut
    BY <1>7, LeavePowerStep DEF Thread, Job
  <2> QED BY <1>1
<1>8. CASE StartHciattach(c)
  <2> Inside /\ timedOut' = timedOut
    BY <1>8, StartHciattachStep
  <2> QED BY <1>1
<1>9. CASE create_hci_sock(c)
  <2> Inside /\ timedOut' = timedOut
    BY <1>9, CreateSockStep DEF LocalInv, WithSocket, Op
  <2> QED BY <1>1
<1>10. CASE HciDevUp(c)
  <2> Inside /\ timedOut' = timedOut
    BY <1>10, HciDevUpStep
  <2> QED BY <1>1
<1>11. CASE RetryDevUp(c)
  <2>1. Inside /\ x.op = "enable" /\ power' = power /\ hci' = hci
    BY <1>11, RetryDevUpStep DEF LocalInv, platformVars
  <2>2. On' = On
    BY <2>1 DEF On
  <2>3. timedOut' = (timedOut \/ x.attempt <= 1)
    BY <1>11, RetryDevUpStep
  <2>4. timedOut' = timedOut \/ timedOut' = TRUE
    BY <2>3
  <2> QED BY <1>1, <2>1, <2>2, <2>4
<1>12. CASE GiveUp(c)
  <2> Inside /\ timedOut' = timedOut
    BY <1>12, GiveUpStep
  <2> QED BY <1>1
<1>13. CASE StartBluetoothd(c)
  <2> Inside /\ timedOut' = timedOut
    BY <1>13, StartBluetoothdStep
  <2> QED BY <1>1
<1>14. CASE StopBluetoothd(c)
  <2> Inside /\ timedOut' = timedOut
    BY <1>14, StopBluetoothdStep
  <2> QED BY <1>1
<1>15. CASE HciDevDown(c)
  <2> Inside /\ timedOut' = timedOut
    BY <1>15, HciDevDownStep
  <2> QED BY <1>1
<1>16. CASE StopHciattach(c)
  <2> Inside /\ timedOut' = timedOut
    BY <1>16, StopHciattachStep
  <2> QED BY <1>1
<1>17. CASE HciGetDevInfo(c)
  <2> Inside /\ timedOut' = timedOut
    BY <1>17, HciGetDevInfoStep
  <2> QED BY <1>1
<1> QED
  BY <1>2, <1>3, <1>4, <1>5, <1>6, <1>7, <1>8, <1>9, <1>10, <1>11, <1>12, <1>13, <1>14,
     <1>15, <1>16, <1>17 DEF Step

(* The callers inside a call are those the adapter knows of. *)
LEMMA CallingInside ==
  ASSUME HInv, NEW c \in Caller
  PROVE  /\ Calling[c] # "none" <=> InCall(thread[c])
         /\ InCall(thread[c]) => Calling[c] = thread[c].op /\ thread[c].op \in Op
  BY DEF HInv, SeenInv, CallInv, Answers, Calling, InCall, Op

(* A step of the adapter that is neither a call nor a reply. *)
LEMMA AdapterMoves ==
  ASSUME HInv, RecordSeen, Calling' = Calling, Answer' = Answer,
         \/ timedOut' = timedOut
         \/ timedOut' = TRUE /\ On' = On /\ \E c \in Caller : Calling[c] = "enable",
         On' /\ ~On => \E c \in Caller : Calling[c] = "enable"
  PROVE  [Adapter!AdapterNext]_(Adapter!adapterVars)
<1>1. timedOut \in BOOLEAN
  BY DEF HInv, IInv, TypeOK
<1>2. seen' = [c \in Caller |-> IF Calling[c] = "none" THEN {} ELSE seen[c] \cup {On'}]
  <2>1. \A c \in Caller : seen'[c] = IF Calling[c] = "none" THEN {} ELSE seen[c] \cup {On'}
    BY CallingInside DEF RecordSeen, InCall
  <2> QED BY <2>1 DEF RecordSeen
<1>3. (On = TRUE \/ On = FALSE) /\ (On' = TRUE \/ On' = FALSE)
  BY DEF On
<1>4. On' = On => seen' = seen
  <2> SUFFICES ASSUME On' = On PROVE seen' = seen
    OBVIOUS
  <2>1. \A c \in Caller : seen'[c] = seen[c]
    <3> TAKE c \in Caller
    <3>1. Calling[c] = "none" => seen[c] = {}
      BY CallingInside DEF HInv, SeenInv, CallInv
    <3>2. Calling[c] # "none" => On \in seen[c]
      BY CallingInside DEF HInv, SeenInv, CallInv
    <3> QED BY <1>2, <3>1, <3>2
  <2>2. seen = [c \in Caller |-> seen[c]]
    BY DEF HInv, SeenInv
  <2> QED BY <1>2, <2>1, <2>2
<1>5. CASE On' = On /\ timedOut' = timedOut
  BY <1>4, <1>5 DEF Adapter!adapterVars
<1>6. CASE On' = On /\ timedOut' = TRUE /\ \E c \in Caller : Calling[c] = "enable"
  <2>1. Adapter!TimeOut
    BY <1>4, <1>6 DEF Adapter!TimeOut
  <2> QED BY <2>1 DEF Adapter!AdapterNext
<1>7. CASE On' # On /\ timedOut' = timedOut
  <2>1. CASE On' = TRUE
    <3>1. On = ~TRUE
      BY <1>3, <1>7, <2>1
    <3>2. \E c \in Caller : Calling[c] = "enable"
      BY <2>1, <3>1
    <3>3. Adapter!Becomes(TRUE)
      BY <1>2, <1>7, <2>1, <3>1 DEF Adapter!Becomes, Adapter!Inside
    <3> QED BY <3>2, <3>3 DEF Adapter!AdapterNext, Adapter!TurnOn
  <2>2. CASE On' = FALSE
    <3>1. On = ~FALSE
      BY <1>3, <1>7, <2>2
    <3>2. Adapter!Becomes(FALSE)
      BY <1>2, <1>7, <2>2, <3>1 DEF Adapter!Becomes, Adapter!Inside
    <3> QED BY <3>2 DEF Adapter!AdapterNext, Adapter!TurnOff
  <2> QED BY <1>3, <2>1, <2>2
<1> QED BY <1>5, <1>6, <1>7

(* Only bt_enable turns the adapter on. *)
LEMMA EnableTurnsOn ==
  ASSUME NEW c \in Caller, thread \in [Caller -> Thread], LocalInv(thread[c]), Step(c), On', ~On
  PROVE  thread[c].op = "enable"
<1> USE DEF platformVars, On
<1>1. CASE EnterPower(c)
  BY <1>1, EnterPowerStep
<1>2. CASE ProbeRfkill(c)
  BY <1>2, ProbeRfkillStep
<1>3. CASE SetStatePath(c)
  BY <1>3, SetStatePathStep
<1>4. CASE OpenStatePath(c)
  BY <1>4, OpenStatePathStep
<1>5. CASE StateFileIo(c)
  BY <1>5, StateFileIoStep DEF SwitchPower, TurnsOn, LocalInv, PowerPc
<1>6. CASE LeavePower(c)
  BY <1>6, LeavePowerStep
<1>7. CASE StartHciattach(c)
  BY <1>7, StartHciattachStep DEF PropertySet, Refused
<1>8. CASE create_hci_sock(c)
  BY <1>8, CreateSockStep
<1>9. CASE HciDevUp(c)
  BY <1>9, HciDevUpStep DEF LocalInv
<1>10. CASE RetryDevUp(c)
  BY <1>10, RetryDevUpStep
<1>11. CASE GiveUp(c)
  BY <1>11, GiveUpStep DEF PropertySet, Refused
<1>12. CASE StartBluetoothd(c)
  BY <1>12, StartBluetoothdStep DEF PropertySet, Refused
<1>13. CASE StopBluetoothd(c)
  BY <1>13, StopBluetoothdStep DEF PropertySet, Refused
<1>14. CASE HciDevDown(c)
  BY <1>14, HciDevDownStep DEF SetDevice
<1>15. CASE StopHciattach(c)
  BY <1>15, StopHciattachStep DEF PropertySet, Refused
<1>16. CASE HciGetDevInfo(c)
  BY <1>16, HciGetDevInfoStep
<1>17. CASE Return(c)
  BY <1>17, ReturnStep
<1> QED
  BY <1>1, <1>2, <1>3, <1>4, <1>5, <1>6, <1>7, <1>8, <1>9, <1>10, <1>11, <1>12, <1>13, <1>14,
     <1>15, <1>16, <1>17 DEF Step

LEMMA InsideMaps ==
  ASSUME HInv, NEW c \in Caller, Step(c), ~Return(c), RecordSeen
  PROVE  [Adapter!AdapterNext]_(Adapter!adapterVars)
<1>0. IInv /\ thread \in [Caller -> Thread] /\ LocalInv(thread[c])
  BY DEF HInv, IInv, TypeOK
<1>1. /\ thread[c].pc # "idle" /\ thread'[c].pc # "idle" /\ thread'[c].op = thread[c].op
      /\ \A d \in Caller \ {c} : thread'[d] = thread[d]
      /\ timedOut' = timedOut \/ (thread[c].op = "enable" /\ timedOut' = TRUE /\ On' = On)
  BY <1>0, StepInside
<1>2. Calling' = Calling /\ Answer' = Answer
  BY <1>1 DEF Calling, Answer
<1>3. thread[c].op = "enable" => \E d \in Caller : Calling[d] = "enable"
  BY <1>1 DEF Calling
<1>4. On' /\ ~On => thread[c].op = "enable"
  BY <1>0, EnableTurnsOn
<1> QED BY <1>1, <1>2, <1>3, <1>4, AdapterMoves

(* The reply is one that what was seen justifies. *)
LEMMA ReturnMaps ==
  ASSUME HInv, NEW c \in Caller, Return(c), RecordSeen
  PROVE  Adapter!AdapterReply(c)
<1> DEFINE x == thread[c]
           y == thread'[c]
<1>0. /\ thread \in [Caller -> Thread] /\ CallInv(c) /\ x \in Thread
      /\ \A d \in Caller : seen = [e \in Caller |-> seen[e]]
  BY DEF HInv, SeenInv, IInv, TypeOK
<1>1. /\ x.pc = "out" /\ y.pc = "idle" /\ y.op = x.op /\ y.ret = x.ret
      /\ UNCHANGED <<platformVars, timedOut>>
  BY <1>0, ReturnStep
<1>2. \A d \in Caller \ {c} : thread'[d] = thread[d]
  BY DEF Return, Becomes
<1>3. On' = On /\ timedOut' = timedOut
  BY <1>1 DEF On, platformVars
<1>4. Calling[c] = x.op /\ x.op \in Op
  BY <1>1, CallingInside DEF InCall
<1>5. Adapter!Inside(c)
  BY <1>4 DEF Adapter!Inside, Op
<1>6. Calling' = [Calling EXCEPT ![c] = "none"]
  BY <1>1, <1>2 DEF Calling
<1>7. Answer' = [Answer EXCEPT ![c] = x.ret]
  BY <1>1, <1>2 DEF Answer
<1>8. seen' = [seen EXCEPT ![c] = {}]
  <2>1. seen'[c] = {}
    BY <1>1, SeenOfIdle
  <2>2. ASSUME NEW d \in Caller \ {c} PROVE seen'[d] = seen[d]
    <3>1. CallInv(d)
      BY DEF HInv, SeenInv
    <3>2. CASE ~InCall(thread[d])
      BY <1>2, <3>1, <3>2, SeenOfIdle DEF InCall, CallInv
    <3>3. CASE InCall(thread[d])
      <4>1. Calling'[d] # "none" /\ On \in seen[d]
        BY <1>6, <3>1, <3>3, CallingInside DEF CallInv, Calling
      <4> QED BY <1>3, <3>3, <4>1 DEF RecordSeen, InCall
    <3> QED BY <3>2, <3>3
  <2>3. seen' = [d \in Caller |-> seen'[d]] /\ seen = [d \in Caller |-> seen[d]]
    BY <1>0 DEF RecordSeen
  <2> QED BY <2>1, <2>2, <2>3
<1>9. timedOut \/ Adapter!Justified(Calling[c], x.ret, seen[c])
  <2> SUFFICES ASSUME ~timedOut PROVE Adapter!Justified(Calling[c], x.ret, seen[c])
    OBVIOUS
  <2>1. Answers(x) /\ Witnessed(c)
    BY <1>0, <1>1 DEF CallInv, InCall
  <2>2. x.ret \in {-1, 0, 1}
    BY <1>0 DEF Thread
  <2> QED
    BY <1>4, <2>1, <2>2 DEF Adapter!Justified, Answers, Witnessed, PassedOn, PassedOff, Op
<1>10. x.ret \in {-1, 0, 1}
  BY <1>0 DEF Thread
<1> QED
  BY <1>3, <1>5, <1>6, <1>7, <1>8, <1>9, <1>10 DEF Adapter!AdapterReply

LEMMA BeginMaps ==
  ASSUME HInv, NEW c \in Caller, NEW f \in Op, Begin(c, f), RecordSeen
  PROVE  Adapter!AdapterCall(c, f)
<1> DEFINE x == thread[c]
           y == thread'[c]
<1>0. thread \in [Caller -> Thread] /\ seen = [e \in Caller |-> seen[e]]
  BY DEF HInv, SeenInv, IInv, TypeOK
<1>1. /\ x.pc = "idle" /\ y.pc = FirstStep(f) /\ y.op = f /\ y.ret = -1
      /\ \A d \in Caller \ {c} : thread'[d] = thread[d]
      /\ UNCHANGED <<platformVars, timedOut>>
  BY <1>0, BeginStep
<1>2. FirstStep(f) # "idle"
  BY ConstantFacts DEF FirstStep, Op
<1>3. On' = On /\ timedOut' = timedOut
  BY <1>1 DEF On, platformVars
<1>4. ~Adapter!Inside(c)
  BY <1>1 DEF Adapter!Inside, Calling
<1>5. Calling' = [Calling EXCEPT ![c] = f]
  BY <1>1, <1>2 DEF Calling
<1>6. Answer' = [Answer EXCEPT ![c] = -1]
  BY <1>1, <1>2 DEF Answer
<1>7. seen' = [seen EXCEPT ![c] = {On}]
  <2>1. seen'[c] = {On}
    <3>1. f # "none"
      BY DEF Op
    <3> QED BY <1>1, <1>2, <1>3, <3>1, SeenAfter
  <2>2. ASSUME NEW d \in Caller \ {c} PROVE seen'[d] = seen[d]
    <3>1. CallInv(d)
      BY DEF HInv, SeenInv
    <3>2. CASE ~InCall(thread[d])
      BY <1>1, <3>1, <3>2, SeenOfIdle DEF InCall, CallInv
    <3>3. CASE InCall(thread[d])
      <4>1. Calling'[d] # "none" /\ On \in seen[d]
        BY <1>5, <3>1, <3>3, CallingInside DEF CallInv, Calling
      <4> QED BY <1>3, <3>3, <4>1 DEF RecordSeen, InCall
    <3> QED BY <3>2, <3>3
  <2>3. seen' = [d \in Caller |-> seen'[d]]
    BY DEF RecordSeen
  <2> QED BY <1>0, <2>1, <2>2, <2>3
<1> QED
  BY <1>3, <1>4, <1>5, <1>6, <1>7 DEF Adapter!AdapterCall

LEMMA NextMaps ==
  ASSUME HInv, [HNext]_<<vars, seen>>
  PROVE  [Adapter!AdapterNext]_(Adapter!adapterVars)
<1>1. ASSUME NEW c \in Caller, Step(c), RecordSeen
      PROVE  [Adapter!AdapterNext]_(Adapter!adapterVars)
  <2>1. CASE Return(c)
    BY <1>1, <2>1, ReturnMaps DEF Adapter!AdapterNext
  <2>2. CASE ~Return(c)
    BY <1>1, <2>2, InsideMaps
  <2> QED BY <2>1, <2>2
<1>2. ASSUME NEW c \in Caller, NEW f \in Op, Begin(c, f), RecordSeen
      PROVE  [Adapter!AdapterNext]_(Adapter!adapterVars)
  <2>1. Adapter!AdapterCall(c, f) /\ f \in Adapter!Function
    BY <1>2, BeginMaps DEF Op, Adapter!Function
  <2> QED BY <2>1 DEF Adapter!AdapterNext
<1>3. ASSUME UNCHANGED <<thread, timedOut>>, On' => On, RecordSeen
      PROVE  [Adapter!AdapterNext]_(Adapter!adapterVars)
  <2>1. Calling' = Calling /\ Answer' = Answer
    BY <1>3 DEF Calling, Answer
  <2> QED BY <1>3, <2>1, AdapterMoves
<1>4. ASSUME NEW n \in Fd, AppOpen(n) \/ AppClose(n), RecordSeen
      PROVE  [Adapter!AdapterNext]_(Adapter!adapterVars)
  BY <1>3, <1>4 DEF AppOpen, AppClose, platformVars, On
<1>5. ASSUME Platform(PlatformNext), RecordSeen
      PROVE  [Adapter!AdapterNext]_(Adapter!adapterVars)
  <2>1. UNCHANGED <<thread, timedOut>> /\ PlatformNext
    BY <1>5 DEF Platform
  <2>2. On' => On
    BY <2>1 DEF PlatformNext, InitHandles, HciattachAttaches, DaemonExits, Stopped, On
  <2> QED BY <1>3, <1>5, <2>1, <2>2
<1>6. CASE UNCHANGED <<vars, seen>>
  BY <1>6 DEF vars, platformVars, Adapter!adapterVars, Calling, Answer, On
<1> QED
  BY <1>1, <1>2, <1>4, <1>5, <1>6 DEF HNext, Next

LEMMA InitMaps == HInit => Adapter!AdapterInit
  BY DEF HInit, Init, Adapter!AdapterInit, Calling, Answer, On

(* Bluedroid implements what bluetooth.h promises: with any number of      *)
(* threads inside the library, any faults of system calls, daemons that    *)
(* crash and other threads that open and close descriptors, every answer   *)
(* was true at some moment of the call that gave it, until some bt_enable  *)
(* runs out of attempts.                                                   *)
THEOREM BluedroidImplementsAdapter == HSpec => ImplementsAdapter
<1>1. HSpec => [][[Adapter!AdapterNext]_(Adapter!adapterVars)]_<<vars, seen>>
  BY HistoryInvariant, NextMaps, PTL DEF HSpec
<1> QED BY <1>1, InitMaps, NextMaps, HistoryInvariant, PTL DEF HSpec, ImplementsAdapter, Adapter!AdapterSpec
=============================================================================
