------------------------------ MODULE Patchram ------------------------------
(***************************************************************************)
(* brcm_patchram_plus: the process that resets a Broadcom chip over a      *)
(* UART, downloads its firmware record by record, sets it up and hands the *)
(* line to the kernel.  main is a straight line of commands, each followed *)
(* by a blocking read of one event; only a reset is repeated, by SIGALRM.  *)
(* The chip at the other end of the line (last section) is external.       *)
(***************************************************************************)
EXTENDS Integers, Sequences

CONSTANTS
  Scenarios,     \* the command lines and what they meet:
                 \*   options   Seq(<<name, argument>>)
                 \*   device    "tty" or what cannot be opened
                 \*   file      the HCD file: its whole records, and is a part of the next one there
                 \*   punctual  an answer is read within the 4 s of the alarm, or never comes
                 \*   faults    what may go wrong besides a reset lost by a booting chip
  PropertyFile,  \* for each bdaddr property of Android, the address in the file it
                 \* names, or 0: no such property, no such file, or not 17 bytes long
  StdinOpen,     \* descriptor 0 is in use when the process starts
  Records,       \* number of records of a firmware; the last one launches it
  MaxPending     \* bound: commands and answers on the line when the alarm expires

Address == {1, 2}    \* the one in a file, the one on a command line
NoAddress == 0       \* none; as an argument: malformed; in the chip: its default

Fault == {"hcd_read", "short_read", "alarm_race", "rejected", "ldisc", "hangup"}
Option == UNION {{s.options[i] : i \in DOMAIN s.options} : s \in Scenarios}
Scenario == [options : Seq(Option), device : {s.device : s \in Scenarios},
             file : [whole : 0 .. Records, part : BOOLEAN], punctual : BOOLEAN,
             faults : SUBSET Fault]

ASSUME PatchramAssumption ==
  /\ StdinOpen \in BOOLEAN
  /\ Records \in Nat \ {0} /\ MaxPending \in Nat \ {0}
  /\ Scenarios \subseteq Scenario
  /\ \A s \in Scenarios : s.file.part => s.file.whole < Records
  /\ \A o \in Option : o[1] = "bd_addr" => o[2] \in Address \cup {NoAddress}

VARIABLES
  phase,    \* "options", "uart", "main", "sleep" or "exit"
  code,     \* the exit code
  args,     \* the options not yet parsed, the device, and the rest of the scenario
  opts,     \* the global variables the options set
  records,  \* how many records of the HCD file have been begun
  inside,   \* the file's position is inside the last of them, not behind it
  todo,     \* what main still has to do, expanded to system calls
  len,      \* buffer[2] of the event being read
  alarm,    \* "off", "set", "raised" (its signal waits) or "stray" (set after alarm(0))
  speed,    \* the speed of the host's UART
  tx, rx,   \* commands and bytes of events on the line
  chip,     \* the chip
  done,     \* the commands the chip has carried out (history)
  garbled   \* something was sent to an end that listened at another speed (history)

fileVars == <<records, inside>>
hostVars == <<phase, code, args, opts, fileVars, todo, len, alarm, speed>>
lineVars == <<tx, rx, chip, done, garbled>>
vars == <<hostVars, lineVars>>

Default == 115200
baud_rates == {115200, 230400, 460800, 500000, 576000, 921600, 1000000, 1152000, 1500000,
               2000000, 2500000, 3000000, 3500000, 4000000}
Fails(what) == what \in args.faults
Flag == {"enable_lpm", "enable_hci", "use_baudrate_for_download", "scopcm", "i2s", "no2bytes"}
-----------------------------------------------------------------------------
(* The program as a list of system calls: <<call, command, parameter>>. *)

Send(name, par) == <<"send", name, par>>
Speed(baud) == <<"speed", "", baud>>
Call(op) == <<op, "", 0>>
When(condition, calls) == IF condition THEN calls ELSE << >>

read_event == <<Call("header"), Call("body")>>
Command(name, par) == <<Send(name, par)>> \o read_event

(* mutated: no alarm watches the reset *)
proc_reset_unwatched == <<Send("reset", 0)>> \o read_event \o <<Call("alarm_off")>>
proc_reset == <<Send("reset", 0), Call("alarm_on")>> \o read_event \o <<Call("alarm_off")>>

(* The delay of tosleep changes nothing. *)
(* mutated: the host stays at the speed of the download *)
proc_patchram_fast(g) ==
  Command("minidriver", 0)
  \o When(~g.no2bytes, <<Call("two")>>) \o <<Call("record")>> \o proc_reset
proc_patchram(g) ==
  Command("minidriver", 0)
  \o When(~g.no2bytes, <<Call("two")>>)
  \o <<Call("record")>>
  \o When(g.use_baudrate_for_download, <<Speed(Default)>>)
  \o proc_reset

proc_baudrate(g) == Command("baud", g.termios_baudrate) \o <<Speed(g.termios_baudrate)>>
proc_scopcm == Command("sco_pcm_int", 0) \o Command("pcm_data_format", 0)

(* mutated: the address is written before the download *)
main_early(g) ==
  proc_reset
  \o When(g.bdaddr # NoAddress, Command("bd_addr", g.bdaddr))
  \o When(g.use_baudrate_for_download /\ g.termios_baudrate # 0, proc_baudrate(g))
  \o When(g.hcdfile_fd > 0, proc_patchram(g))
  \o When(g.termios_baudrate # 0, proc_baudrate(g))
  \o When(g.enable_hci, <<Call("ldisc")>>)
main(g) ==
  proc_reset
  \o When(g.use_baudrate_for_download /\ g.termios_baudrate # 0, proc_baudrate(g))
  \o When(g.hcdfile_fd > 0, proc_patchram(g))
  \o When(g.termios_baudrate # 0, proc_baudrate(g))
  \o When(g.bdaddr # NoAddress, Command("bd_addr", g.bdaddr))
  \o When(g.enable_lpm, Command("sleep_mode", 0))
  \o When(g.scopcm, proc_scopcm)
  \o When(g.i2s, Command("i2spcm_interface", 0))
  \o When(g.enable_hci, <<Call("ldisc")>>)
-----------------------------------------------------------------------------
(* Options *)

(* read_default_bdaddr: the file is left open when it has been read. *)
Defaults ==
  LET file == PropertyFile["ro.bt.bdaddr_path"]
      fd == IF StdinOpen THEN 3 ELSE 0
      found == file \in Address
  IN  [bdaddr |-> IF found THEN file ELSE NoAddress,
       nextFd |-> IF found THEN (IF fd = 0 THEN 3 ELSE fd + 1) ELSE fd,
       hcdfile_fd |-> -1, uart_fd |-> -1, termios_baudrate |-> 0,
       enable_lpm |-> FALSE, enable_hci |-> FALSE, use_baudrate_for_download |-> FALSE,
       scopcm |-> FALSE, i2s |-> FALSE, no2bytes |-> FALSE]

Opened(g) == [g EXCEPT !.nextFd = IF g.nextFd = 0 THEN 3 ELSE g.nextFd + 1]

(* The exit code an option ends the program with, 0 to go on. *)
ExitCode(name, arg) ==
  CASE name = "patchram" /\ arg = "no_extension" -> 3
    [] name = "patchram" /\ arg = "not_hcd" -> 4
    [] name = "patchram" /\ arg = "missing" -> 5
    [] name \in {"scopcm", "i2s", "tosleep"} /\ arg = "bad" -> 1
    [] OTHER -> 0

(* The globals after an option was parsed: an unknown baud rate is         *)
(* ignored, the bytes of a malformed address are not initialised.          *)
Parsed(g, name, arg) ==
  CASE name = "patchram" -> {[Opened(g) EXCEPT !.hcdfile_fd = g.nextFd]}
    [] name = "baudrate" -> {IF arg \in baud_rates THEN [g EXCEPT !.termios_baudrate = arg] ELSE g}
    [] name = "bd_addr" ->
         {[g EXCEPT !.bdaddr = a] : a \in IF arg = NoAddress THEN Address ELSE {arg}}
    [] name \in Flag -> {[g EXCEPT ![name] = TRUE]}
    [] OTHER -> {g}

ParseOption ==
  /\ phase = "options" /\ args.options # << >>
  /\ LET name == Head(args.options)[1]
         arg == Head(args.options)[2]
         exit == ExitCode(name, arg)
     IN  /\ IF exit = 0
              THEN opts' \in Parsed(opts, name, arg) /\ UNCHANGED <<phase, code>>
              ELSE phase' = "exit" /\ code' = exit /\ UNCHANGED opts
         /\ args' = [args EXCEPT !.options = Tail(@)]
  /\ UNCHANGED <<fileVars, todo, len, alarm, speed, lineVars>>

(* The rest of parse_cmd_line opens the device; main gives up without it.  *)
OpenDevice ==
  /\ phase = "options" /\ args.options = << >>
  /\ IF args.device = "tty"
       THEN /\ opts' = [Opened(opts) EXCEPT !.uart_fd = opts.nextFd]
            /\ phase' = "uart" /\ UNCHANGED code
       ELSE phase' = "exit" /\ code' = 2 /\ UNCHANGED opts
  /\ UNCHANGED <<args, fileVars, todo, len, alarm, speed, lineVars>>
-----------------------------------------------------------------------------
(* System calls of the rest of main *)

Does(call) == phase = "main" /\ todo # << >> /\ Head(todo)[1] = call
Proceed == todo' = Tail(todo)
OnlyMain == UNCHANGED <<phase, code, args, opts>>

(* A command written at a speed the chip does not listen at is garbled;    *)
(* a chip that is still booting misses it.  A write that fails is not      *)
(* noticed.                                                                *)
hci_send_cmd(name, par) ==
  LET heard == chip.awake /\ ~chip.gone /\ speed = chip.speed IN
  /\ tx' = IF heard THEN Append(tx, <<name, par>>) ELSE tx
  /\ garbled' = (garbled \/ (chip.awake /\ ~chip.gone /\ speed # chip.speed))
  /\ UNCHANGED <<rx, chip, done>>

(* tcflush throws away what an earlier user of the line left. *)
(* mutated: no flush *)
init_uart_unflushed ==
  /\ phase = "uart"
  /\ phase' = "main"
  /\ speed' = Default
  /\ todo' = main(opts)
  /\ UNCHANGED <<code, args, opts, fileVars, len, alarm, lineVars>>
init_uart ==
  /\ phase = "uart"
  /\ phase' = "main"
  /\ rx' = << >> /\ tx' = << >>
  /\ speed' = Default
  /\ todo' = main(opts)
  /\ UNCHANGED <<code, args, opts, fileVars, len, alarm, chip, done, garbled>>

SendCommand ==
  /\ Does("send")
  /\ hci_send_cmd(Head(todo)[2], Head(todo)[3])
  /\ Proceed
  /\ UNCHANGED <<fileVars, len, alarm, speed>> /\ OnlyMain

(* alarm(4), and alarm(0).  When the timer fires inside alarm(0), the      *)
(* signal is delivered as the call returns: the handler comes after it.    *)
SetAlarm ==
  /\ \/ Does("alarm_on") /\ alarm' = "set"
     \/ Does("alarm_off") /\ alarm' = "off"
     \/ Does("alarm_off") /\ alarm = "set" /\ Fails("alarm_race") /\ alarm' = "raised"
  /\ Proceed
  /\ UNCHANGED <<fileVars, len, speed, lineVars>> /\ OnlyMain

Drop(n) == rx' = SubSeq(rx, n + 1, Len(rx)) /\ UNCHANGED <<tx, chip, done, garbled>>

(* read_event reads three bytes, then as many as the third one says,       *)
(* blocking until they are there; it does not look at them.  On a line     *)
(* that has gone every read returns 0 or -1, which is less than the bytes  *)
(* missing: it reads again, for ever.                                      *)
ReadHeader ==
  /\ Does("header") /\ Len(rx) >= 3
  /\ len' = rx[3]
  /\ Drop(3) /\ Proceed
  /\ UNCHANGED <<fileVars, alarm, speed>> /\ OnlyMain

ReadBody ==
  /\ Does("body") /\ Len(rx) >= len
  /\ Drop(len) /\ Proceed
  /\ UNCHANGED <<fileVars, len, alarm, speed>> /\ OnlyMain

(* read(uart_fd, buffer, 2) is not repeated when it gets one byte, or an   *)
(* error.                                                                  *)
ReadTwoBytes ==
  /\ Does("two")
  /\ \/ Len(rx) >= 2 /\ Drop(2)
     \/ rx # << >> /\ (Fails("short_read") \/ Len(rx) = 1) /\ Drop(1)
     \/ rx = << >> /\ chip.gone /\ Drop(0)
  /\ Proceed
  /\ UNCHANGED <<fileVars, len, alarm, speed>> /\ OnlyMain

(* The download loop reads the header of a record, then the payload whose  *)
(* length the header names, and sends both; a read of 0 bytes instead of a *)
(* header ends it.  What is on its way to the chip is the number of a      *)
(* record, or Corrupt: a part of one with what the buffer held before, or  *)
(* bytes taken from the middle of one.                                     *)
Corrupt == Records + 1
Begun == args.file.whole + (IF args.file.part THEN 1 ELSE 0)
Payload(r) == <<"payload", "", r>>
Reads(r) == todo' = <<Payload(r)>> \o todo

(* mutated: the header that ended the loop begins a record *)
ReadRecordHeaderPast ==
  /\ Does("record")
  /\ IF records <= Begun
       THEN records' = records + 1 /\ inside' = TRUE /\ Reads(Corrupt)
       ELSE Proceed /\ UNCHANGED fileVars
  /\ UNCHANGED <<len, alarm, speed, lineVars>> /\ OnlyMain
(* mutated: every other record is lost *)
ReadRecordHeaderSkips ==
  /\ Does("record")
  /\ IF records < Begun
       THEN records' = records + 2 /\ inside' = TRUE /\ Reads(records + 1)
       ELSE Proceed /\ UNCHANGED fileVars
  /\ UNCHANGED <<len, alarm, speed, lineVars>> /\ OnlyMain
(* Inside a record, what is read as a header is none.  A read that fails   *)
(* returns -1, which is not 0: the last event is taken for the header.     *)
ReadRecordHeader ==
  /\ Does("record")
  /\ \/ /\ ~inside /\ records < Begun
        /\ records' = records + 1 /\ inside' = TRUE
        /\ Reads(IF records < args.file.whole THEN records + 1 ELSE Corrupt)
     \/ ~inside /\ records = Begun /\ Proceed /\ UNCHANGED fileVars
     \/ (inside \/ Fails("hcd_read")) /\ Reads(Corrupt) /\ UNCHANGED fileVars
  /\ UNCHANGED <<len, alarm, speed, lineVars>> /\ OnlyMain

(* The result of the second read is not looked at.  One that fails leaves  *)
(* the position behind the header; one that takes its length from no       *)
(* header goes on to any place behind, the end of a record among them.     *)
ReadRecordPayload ==
  LET r == Head(todo)[3]
      Sends(n) == todo' = Command("write_ram", n) \o Tail(todo)
  IN
  /\ Does("payload")
  /\ \/ r # Corrupt /\ Sends(r) /\ inside' = FALSE /\ UNCHANGED records
     \/ r # Corrupt /\ Fails("hcd_read") /\ Sends(Corrupt) /\ UNCHANGED fileVars
     \/ /\ r = Corrupt /\ Sends(Corrupt)
        /\ records' \in records .. Begun /\ inside' \in BOOLEAN
        /\ inside' => Fails("hcd_read") /\ (inside \/ records' # records)
  /\ UNCHANGED <<len, alarm, speed, lineVars>> /\ OnlyMain

SetSpeed ==
  /\ Does("speed")
  /\ speed' = Head(todo)[3]
  /\ Proceed
  /\ UNCHANGED <<fileVars, len, alarm, lineVars>> /\ OnlyMain

(* proc_enable_hci: the kernel's line discipline takes over, or not.       *)
(* main sleeps either way.                                                 *)
proc_enable_hci ==
  /\ Does("ldisc")
  /\ \/ ~chip.gone /\ chip' = [chip EXCEPT !.attached = TRUE]
     \/ (Fails("ldisc") \/ chip.gone) /\ UNCHANGED chip
  /\ Proceed
  /\ UNCHANGED <<fileVars, len, alarm, speed, tx, rx, done, garbled>> /\ OnlyMain

Finish ==
  /\ phase = "main" /\ todo = << >>
  /\ phase' = IF opts.enable_hci THEN "sleep" ELSE "exit"
  /\ code' = 0
  /\ UNCHANGED <<args, opts, fileVars, todo, len, alarm, speed, lineVars>>

(* The signal handler: another reset, and another alarm in 4 s, also when  *)
(* alarm(0) has just been called.  (When the line discipline has the line, *)
(* what the handler writes goes nowhere.)                                  *)
Pending == Len(tx) + Len(rx) \div 7
expired ==
  /\ phase \in {"main", "sleep"} /\ ~chip.attached
  /\ \/ /\ alarm = "set"
        /\ IF args.punctual THEN Does("header") /\ tx = << >> /\ rx = << >> ELSE Pending < MaxPending
     \/ alarm = "raised"
     \/ alarm = "stray" /\ Pending < MaxPending
  /\ alarm' = IF alarm = "raised" THEN "stray" ELSE alarm
  /\ hci_send_cmd("reset", 0)
  /\ UNCHANGED <<phase, code, args, opts, fileVars, todo, len, speed>>
-----------------------------------------------------------------------------
(* The chip *)

Opcode(name) ==
  CASE name = "reset" -> <<3, 12>>          [] name = "minidriver" -> <<46, 252>>
    [] name = "baud" -> <<24, 252>>         [] name = "bd_addr" -> <<1, 252>>
    [] name = "sleep_mode" -> <<39, 252>>   [] name = "sco_pcm_int" -> <<28, 252>>
    [] name = "pcm_data_format" -> <<30, 252>> [] name = "i2spcm_interface" -> <<109, 252>>
    [] name = "write_ram" -> <<76, 252>>
CommandComplete(name, status) == <<4, 14, 4, 1>> \o Opcode(name) \o <<status>>

(* A reset forgets the settings; the last record starts the firmware, at   *)
(* the default speed.                                                      *)
Effect(c, name, par) ==
  CASE name = "reset" -> [c EXCEPT !.settings = {}, !.addr = NoAddress]
    [] name = "minidriver" -> [c EXCEPT !.mode = "download"]
    [] name = "write_ram" /\ par = Records ->
         [c EXCEPT !.mode = "patched", !.speed = Default, !.awake = FALSE,
                   !.settings = {}, !.addr = NoAddress]
    [] name = "write_ram" /\ par # Records -> c
    [] name = "baud" -> [c EXCEPT !.speed = par]
    [] name = "bd_addr" -> [c EXCEPT !.addr = par]
    [] OTHER -> [c EXCEPT !.settings = @ \cup {name}]

(* A record is taken only during a download.  A corrupt one the chip may   *)
(* refuse, or take for a record: it cannot tell.                           *)
Rejects(name, par) ==
  \/ Fails("rejected")
  \/ name = "write_ram" /\ (par > Records \/ chip.mode # "download")
Spoils(name, par) == name = "write_ram" /\ par > Records /\ chip.mode = "download"
Accepts(name, par) == name = "write_ram" => par <= Records /\ chip.mode = "download"

(* The answer goes out at the old speed. *)
ChipAnswers(name, par, status, more) ==
  /\ rx' = IF speed = chip.speed THEN rx \o CommandComplete(name, status) \o more ELSE rx
  /\ garbled' = (garbled \/ speed # chip.speed)
  /\ tx' = Tail(tx)
  /\ UNCHANGED hostVars

ChipExecutes ==
  /\ tx # << >> /\ chip.awake
  /\ LET name == Head(tx)[1]
         par == Head(tx)[2]
     IN  \/ /\ Accepts(name, par)
            /\ chip' = Effect(chip, name, par)
            /\ done' = Append(done, <<name, par>>)
            /\ ChipAnswers(name, par, 0, IF name = "minidriver" /\ chip.old THEN <<0, 0>> ELSE << >>)
         \/ /\ Rejects(name, par)
            /\ UNCHANGED done
            /\ chip' = [chip EXCEPT !.rejected = TRUE]
            /\ ChipAnswers(name, par, 1, << >>)
         \/ /\ Spoils(name, par)
            /\ UNCHANGED <<done, chip>>
            /\ ChipAnswers(name, par, 0, << >>)

ChipBoots ==
  /\ ~chip.awake /\ ~chip.gone
  /\ chip' = [chip EXCEPT !.awake = TRUE]
  /\ UNCHANGED <<hostVars, tx, rx, done, garbled>>

(* The line hangs up, or the device is unplugged: nothing arrives any      *)
(* more, at either end.                                                    *)
LineGoes ==
  /\ Fails("hangup") /\ phase \in {"uart", "main"} /\ ~chip.gone
  /\ chip' = [chip EXCEPT !.gone = TRUE]
  /\ tx' = << >> /\ rx' = << >>
  /\ UNCHANGED <<hostVars, done, garbled>>
-----------------------------------------------------------------------------
(* The chip has just been powered: it may still boot, and the line may     *)
(* hold noise.  no2bytes is given for a chip that needs it, as the comment *)
(* on it asks.                                                             *)
Init ==
  /\ phase = "options" /\ code = 0
  /\ args \in Scenarios
  /\ opts = Defaults
  /\ records = 0 /\ inside = FALSE /\ todo = << >> /\ len = 0 /\ alarm = "off" /\ speed = Default
  /\ tx = << >> /\ rx \in {<< >>, <<4, 14, 4>>}
  /\ \E awake \in BOOLEAN :
       chip = [awake |-> awake, speed |-> Default, mode |-> "rom", settings |-> {},
               addr |-> NoAddress, attached |-> FALSE, rejected |-> FALSE, gone |-> FALSE,
               old |-> \A i \in DOMAIN args.options : args.options[i][1] # "no2bytes"]
  /\ done = << >> /\ garbled = FALSE

(* A handler that is due runs before anything else of the process.         *)
HostStep ==
  /\ alarm # "raised"
  /\ \/ ParseOption \/ OpenDevice \/ init_uart
     \/ SendCommand \/ SetAlarm \/ ReadHeader \/ ReadBody \/ ReadTwoBytes
     \/ ReadRecordHeader \/ ReadRecordPayload \/ SetSpeed \/ proc_enable_hci \/ Finish

Next == HostStep \/ expired \/ ChipExecutes \/ ChipBoots \/ LineGoes

Spec == Init /\ [][Next]_vars

(* The process runs, the kernel delivers its alarm, the chip boots and     *)
(* answers.                                                                *)
Fairness == WF_vars(HostStep) /\ WF_vars(expired) /\ WF_vars(ChipExecutes) /\ WF_vars(ChipBoots)

FairSpec == Spec /\ Fairness
=============================================================================
