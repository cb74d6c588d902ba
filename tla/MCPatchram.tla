----------------------------- MODULE MCPatchram -----------------------------
(* Instances of Patchram: every combination of the options, given in one   *)
(* order, and some command lines that end the program.                     *)
EXTENDS PatchramProperties

Given == << <<"patchram", "fw.hcd">>, <<"baudrate", 3000000>>, <<"bd_addr", 2>>, <<"enable_lpm", "">>,
            <<"enable_hci", "">>, <<"use_baudrate_for_download", "">>, <<"scopcm", "">>,
            <<"i2s", "">>, <<"no2bytes", "">> >>
Names == {Given[i][1] : i \in DOMAIN Given}
Cut(whole, part) == [whole |-> whole, part |-> part]
Punctual(options, device) ==
  [options |-> options, device |-> device, file |-> Cut(Records, FALSE), punctual |-> TRUE,
   faults |-> {"rejected", "ldisc"}]
Line(S) == Punctual(SelectSeq(Given, LAMBDA o : o[1] \in S), "tty")

AllLines == {Line(S) : S \in SUBSET Names}
(* The options that take part in the download and the changes of speed.    *)
DownloadLines == {Line(S \cup {"patchram", "bd_addr"}) :
                    S \in SUBSET {"baudrate", "use_baudrate_for_download", "scopcm", "no2bytes"}}
OddLines ==
  {Punctual(o, "tty") : o \in
     {<< <<"patchram", "no_extension">> >>, << <<"patchram", "not_hcd">> >>,
      << <<"patchram", "missing">> >>, << <<"scopcm", "bad">> >>, << <<"tosleep", "bad">> >>,
      << <<"baudrate", 3000000>>, <<"baudrate", 12345>>, <<"bd_addr", 0>> >>,
      << <<"unknown", "">>, <<"i2s", "">>, <<"patchram", "fw.hcd">>, <<"patchram", "fw.hcd">> >>}}
  \cup {Punctual(<< >>, "missing")}

(* The download meets a file that is cut short, between two records or in  *)
(* one, or whose reads fail; it goes on behind late answers; or the line   *)
(* goes away in the middle of it.                                          *)
BadFiles == UNION {{[l EXCEPT !.file = Cut(1, FALSE), !.faults = {}],
                    [l EXCEPT !.file = Cut(Records - 1, TRUE), !.faults = {}],
                    [l EXCEPT !.faults = {"hcd_read"}]} : l \in DownloadLines}
LateLines == {[l EXCEPT !.file = Cut(Records - 1, TRUE), !.punctual = FALSE,
                        !.faults = {"hcd_read", "short_read"}] : l \in DownloadLines}
CutLines == {[l EXCEPT !.faults = {"ldisc", "hangup"}] :
               l \in DownloadLines \cup {Line({"patchram", "baudrate", "enable_hci"})}}
(* The timer fires in alarm(0); for the programs that end, and one that    *)
(* sleeps.                                                                 *)
RaceLines == {[Line(S) EXCEPT !.faults = {"alarm_race"}] :
                S \in {{"bd_addr", "i2s"}, {"patchram"}, {"enable_lpm", "enable_hci"}}}

PromptLines == AllLines \cup OddLines
Lines == PromptLines \cup BadFiles \cup LateLines \cup CutLines \cup RaceLines

File == [p \in {"ro.bt.bdaddr_path", "ro.bt.bcm_bdaddr_path"} |->
           IF p = "ro.bt.bdaddr_path" THEN 1 ELSE 0]
=============================================================================
