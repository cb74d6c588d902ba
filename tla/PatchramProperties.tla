------------------------- MODULE PatchramProperties -------------------------
(***************************************************************************)
(* What brcm_patchram_plus must keep on its way from the reset to the      *)
(* attached line.                                                          *)
(***************************************************************************)
EXTENDS Patchram

Settings == {"sleep_mode", "sco_pcm_int", "pcm_data_format", "i2spcm_interface"}
Commands == {"reset", "minidriver", "write_ram", "baud", "bd_addr"} \cup Settings

TypeOK ==
  /\ phase \in {"options", "uart", "main", "sleep", "exit"}
  /\ code \in 0 .. 5
  /\ opts.hcdfile_fd >= -1 /\ opts.termios_baudrate \in baud_rates \cup {0}
  /\ records \in 0 .. Begun /\ inside \in BOOLEAN
  /\ alarm \in {"off", "set", "raised", "stray"}
  /\ len \in 0 .. 255
  /\ speed \in baud_rates /\ chip.speed \in baud_rates
  /\ \A i \in DOMAIN tx : tx[i][1] \in Commands
  /\ \A i \in DOMAIN rx : rx[i] \in 0 .. 255
  /\ \A i \in DOMAIN todo : todo[i][1] = "send" => todo[i][2] \in Commands

(* The answers come in time, and whole, and no alarm strikes with them. *)
Prompt == args.punctual /\ ~Fails("short_read") /\ ~Fails("alarm_race")

(* The file can be read, and holds what it should. *)
WholeFile == args.file = [whole |-> Records, part |-> FALSE] /\ ~Fails("hcd_read")

(* Host and chip go in step: when the next command of main is written,     *)
(* every former one has been carried out or refused, and its answer has    *)
(* been read to the last byte.  True as long as an answer is not later     *)
(* than the alarm, whatever is refused and whatever the file holds.        *)
LockStep == Prompt /\ Does("send") => tx = << >> /\ rx = << >>

(* Nothing is ever sent to an end that listens at another speed, though    *)
(* three places of the host and two of the chip change it - until the chip *)
(* has refused a command: nobody notices, and the host changes its speed   *)
(* alone - as long as answers are prompt, and the file is whole: what      *)
(* follows the launch record of a bad one meets a chip that has restarted  *)
(* at the default speed.                                                   *)
NothingGarbled == Prompt /\ WholeFile /\ ~chip.rejected => ~garbled

(* The firmware reaches the chip record by record, each at most once and   *)
(* in order, also when answers come late, resets are repeated, the two     *)
(* bytes of the confirmation are read as one, reads of the file fail one   *)
(* by one, and the line goes away.  None is left out of those before the   *)
(* last but one the chip has refused, unless a read of the file fails.     *)
Written(i) == i \in DOMAIN done /\ done[i][1] = "write_ram"
RecordsInOrder ==
  \A j \in DOMAIN done : Written(j) =>
    /\ \A i \in 1 .. j - 1 : Written(i) => done[i][2] < done[j][2]
    /\ Fails("rejected") \/ Fails("hcd_read") \/ done[j][2] = 1
         \/ \E i \in 1 .. j - 1 : Written(i) /\ done[i][2] = done[j][2] - 1

(* What has been set stays set: no reset, not even a repeated or a late    *)
(* one, and no download follows a setting - unless the timer fires in the  *)
(* very call that switches it off (ZeroMeansSet).                          *)
SettingsSurvive ==
  ~Fails("alarm_race") =>
    \A i, j \in DOMAIN done :
      i < j /\ done[i][1] \in Settings \cup {"bd_addr"} =>
        done[j][1] \notin {"reset", "minidriver", "write_ram"}

(* When the program has done its work, the chip runs the firmware that was *)
(* asked for and has every setting of the command line, and both ends of   *)
(* the line are at the speed that was asked for - unless the chip refused  *)
(* a command, answers were late or the file is not whole: of none of these *)
(* the exit code says a word.  A line that went away, which is not         *)
(* reported either, at least never lets it end as if it had done its work, *)
(* but for the last step: the kernel has the line at the end, or it has    *)
(* refused it, which goes unreported too, or the line went then.           *)
Finished == phase = "sleep" \/ (phase = "exit" /\ code = 0)
EndMeansConfigured ==
  Finished /\ Prompt /\ WholeFile /\ ~chip.rejected =>
    /\ chip.mode = IF opts.hcdfile_fd = -1 THEN "rom" ELSE "patched"
    /\ chip.speed = IF opts.termios_baudrate = 0 THEN Default ELSE opts.termios_baudrate
    /\ speed = chip.speed
    /\ chip.addr = opts.bdaddr
    /\ chip.settings = {s \in Settings :
         \/ s = "sleep_mode" /\ opts.enable_lpm
         \/ s \in {"sco_pcm_int", "pcm_data_format"} /\ opts.scopcm
         \/ s = "i2spcm_interface" /\ opts.i2s}
    /\ opts.enable_hci => chip.attached \/ Fails("ldisc") \/ chip.gone

(* The program comes to its end, though a booting chip may miss any number *)
(* of resets, if answers are prompt and the file is whole.  Only a command *)
(* that was refused may keep it (a change of speed that the chip did not   *)
(* make leaves it without answers for ever), or a line that has gone.      *)
ProgramEnds ==
  Prompt /\ WholeFile ~> phase \in {"sleep", "exit"} \/ chip.rejected \/ chip.gone
-----------------------------------------------------------------------------
(* The comment at the head of the program: "It will return 0 for success   *)
(* and a number greater than 0 for any errors" (lines 91-92).              *)

(* An address that was asked for and that the chip does not have when it   *)
(* has answered everything is an error, also when answers are in time and  *)
(* the chip refuses nothing.                                               *)
Success == phase = "exit" /\ code = 0 /\ ~chip.rejected
ZeroMeansSet == Success /\ args.punctual /\ tx = << >> => chip.addr = opts.bdaddr
=============================================================================
