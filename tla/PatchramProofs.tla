--------------------------- MODULE PatchramProofs ---------------------------
(***************************************************************************)
(* Proofs about brcm_patchram_plus that hold whatever happens on its line: *)
(* for any command lines, any number of records and any faults.            *)
(***************************************************************************)
EXTENDS PatchramProperties, SequenceTheorems, TLAPS

(* What main can have to do, and what can be on the line.                  *)
Op == {"send", "speed", "alarm_on", "alarm_off", "header", "body", "two", "record",
       "payload", "ldisc"}
SendsWell(c) ==
  /\ c[2] \in Commands
  /\ c[2] = "baud" => c[3] \in baud_rates
  /\ c[2] = "bd_addr" => c[3] \in Address
Calls == {c \in Op \X (Commands \cup {""}) \X Nat :
            /\ c[1] = "send" => SendsWell(c)
            /\ c[1] = "speed" => c[3] \in baud_rates}
Message == {m \in Commands \X Nat :
              /\ m[1] = "baud" => m[2] \in baud_rates
              /\ m[1] = "bd_addr" => m[2] \in Address}

Globals == [bdaddr : Address \cup {NoAddress}, nextFd : Nat,
            hcdfile_fd : Nat \cup {-1}, uart_fd : Nat \cup {-1},
            termios_baudrate : baud_rates \cup {0},
            enable_lpm : BOOLEAN, enable_hci : BOOLEAN, use_baudrate_for_download : BOOLEAN,
            scopcm : BOOLEAN, i2s : BOOLEAN, no2bytes : BOOLEAN]

Chip == [awake : BOOLEAN, speed : baud_rates, mode : {"rom", "download", "patched"},
         settings : SUBSET Settings, addr : Address \cup {NoAddress},
         attached : BOOLEAN, rejected : BOOLEAN, gone : BOOLEAN, old : BOOLEAN]

TypeInv ==
  /\ phase \in {"options", "uart", "main", "sleep", "exit"}
  /\ code \in 0 .. 5
  /\ args \in Scenario
  /\ opts \in Globals
  /\ records \in 0 .. Begun
  /\ inside \in BOOLEAN
  /\ todo \in Seq(Calls)
  /\ len \in 0 .. 255
  /\ alarm \in {"off", "set", "raised", "stray"}
  /\ speed \in baud_rates
  /\ tx \in Seq(Message)
  /\ rx \in Seq(0 .. 255)
  /\ chip \in Chip
  /\ done \in Seq(Message)
  /\ garbled \in BOOLEAN
-----------------------------------------------------------------------------
(* The lists of system calls *)

LEMMA RatesAreNumbers == baud_rates \subseteq Nat /\ Default \in baud_rates
  BY DEF baud_rates, Default

LEMMA ConstantFacts ==
  /\ Records \in Nat \ {0} /\ MaxPending \in Nat \ {0}
  /\ Scenarios \subseteq Scenario
  /\ \A o \in Option : o[1] = "bd_addr" => o[2] \in Address \cup {NoAddress}
  BY PatchramAssumption

LEMMA CallIsCall ==
  ASSUME NEW op \in Op \ {"send", "speed"}
  PROVE  Call(op) \in Calls
  BY DEF Call, Calls, Op

LEMMA PayloadIsCall ==
  ASSUME NEW r \in Nat
  PROVE  Payload(r) \in Calls
  BY DEF Payload, Calls, Op

LEMMA SpeedIsCall ==
  ASSUME NEW b \in baud_rates
  PROVE  Speed(b) \in Calls
  BY RatesAreNumbers DEF Speed, Calls, Op

LEMMA SendIsCall ==
  ASSUME NEW n \in Commands, NEW p \in Nat,
         n = "baud" => p \in baud_rates,
         n = "bd_addr" => p \in Address
  PROVE  Send(n, p) \in Calls
  BY DEF Send, Calls, SendsWell, Op

LEMMA ConcatIsSeq ==
  \A s, t \in Seq(Calls) : s \o t \in Seq(Calls)
  BY ConcatProperties

LEMMA OneIsSeq ==
  \A c \in Calls : <<c>> \in Seq(Calls) /\ << >> \in Seq(Calls)
  OBVIOUS

LEMMA CommandIsSeq ==
  ASSUME NEW n \in Commands, NEW p \in Nat,
         n = "baud" => p \in baud_rates,
         n = "bd_addr" => p \in Address
  PROVE  read_event \in Seq(Calls) /\ Command(n, p) \in Seq(Calls)
<1>1. Call("header") \in Calls /\ Call("body") \in Calls
  BY CallIsCall DEF Op
<1>2. read_event \in Seq(Calls)
  BY <1>1 DEF read_event
<1>3. <<Send(n, p)>> \in Seq(Calls)
  BY SendIsCall, OneIsSeq
<1> QED BY <1>2, <1>3, ConcatIsSeq DEF Command

LEMMA ResetIsSeq == proc_reset \in Seq(Calls)
<1>1. Call("alarm_on") \in Calls /\ Call("alarm_off") \in Calls
  BY CallIsCall DEF Op
<1>2. Send("reset", 0) \in Calls
  BY SendIsCall DEF Commands
<1>3. <<Send("reset", 0), Call("alarm_on")>> \in Seq(Calls) /\ <<Call("alarm_off")>> \in Seq(Calls)
  BY <1>1, <1>2
<1>4. read_event \in Seq(Calls)
  BY CommandIsSeq DEF Commands
<1>5. <<Send("reset", 0), Call("alarm_on")>> \o read_event \in Seq(Calls)
  BY <1>3, <1>4, ConcatIsSeq
<1> QED BY <1>3, <1>5, ConcatIsSeq DEF proc_reset

LEMMA WhenIsSeq ==
  ASSUME NEW c \in BOOLEAN, NEW s, c => s \in Seq(Calls)
  PROVE  When(c, s) \in Seq(Calls)
  BY DEF When
-----------------------------------------------------------------------------
(* main as a list of blocks, each a command with its answer or one system  *)
(* call.  Given tells which of them a command line asks for.               *)

Last == 17
Resets == {1, 8}
Commanding == {1, 2, 4, 8, 9, 11, 12, 13, 14, 15}
Fast(g) == g.use_baudrate_for_download /\ g.termios_baudrate # 0

Name(k) ==
  CASE k \in Resets -> "reset"    [] k \in {2, 9} -> "baud"
    [] k = 4 -> "minidriver"      [] k = 6 -> "write_ram"
    [] k = 11 -> "bd_addr"        [] k = 12 -> "sleep_mode"
    [] k = 13 -> "sco_pcm_int"    [] k = 14 -> "pcm_data_format"
    [] k = 15 -> "i2spcm_interface"
Par(k, g) ==
  CASE k \in {2, 9} -> g.termios_baudrate [] k = 11 -> g.bdaddr [] OTHER -> 0

Given(k, g) ==
  \/ k = 1
  \/ k \in {2, 3} /\ Fast(g)
  \/ k \in {4, 6, 8} /\ g.hcdfile_fd > 0
  \/ k = 5 /\ g.hcdfile_fd > 0 /\ ~g.no2bytes
  \/ k = 7 /\ g.hcdfile_fd > 0 /\ g.use_baudrate_for_download
  \/ k \in {9, 10} /\ g.termios_baudrate # 0
  \/ k = 11 /\ g.bdaddr # NoAddress
  \/ k = 12 /\ g.enable_lpm
  \/ k \in {13, 14} /\ g.scopcm
  \/ k = 15 /\ g.i2s
  \/ k = 16 /\ g.enable_hci

Block(k, g) ==
  CASE k \in Resets -> proc_reset
    [] k \in Commanding \ Resets -> Command(Name(k), Par(k, g))
    [] k \in {3, 10} -> <<Speed(g.termios_baudrate)>>
    [] k = 7 -> <<Speed(Default)>>
    [] k = 5 -> <<Call("two")>>
    [] k = 6 -> <<Call("record")>>
    [] k = 16 -> <<Call("ldisc")>>

Part(k, g) == When(Given(k, g), Block(k, g))

(* What remains when the blocks before the k-th are done. *)
Rest16(g) == Part(16, g)
Rest15(g) == Part(15, g) \o Rest16(g)
Rest14(g) == Part(14, g) \o Rest15(g)
Rest13(g) == Part(13, g) \o Rest14(g)
Rest12(g) == Part(12, g) \o Rest13(g)
Rest11(g) == Part(11, g) \o Rest12(g)
Rest10(g) == Part(10, g) \o Rest11(g)
Rest9(g) == Part(9, g) \o Rest10(g)
Rest8(g) == Part(8, g) \o Rest9(g)
Rest7(g) == Part(7, g) \o Rest8(g)
Rest6(g) == Part(6, g) \o Rest7(g)
Rest5(g) == Part(5, g) \o Rest6(g)
Rest4(g) == Part(4, g) \o Rest5(g)
Rest3(g) == Part(3, g) \o Rest4(g)
Rest2(g) == Part(2, g) \o Rest3(g)
Rest1(g) == Part(1, g) \o Rest2(g)
Rest(k, g) ==
  CASE k = 1 -> Rest1(g)
    [] k = 2 -> Rest2(g)
    [] k = 3 -> Rest3(g)
    [] k = 4 -> Rest4(g)
    [] k = 5 -> Rest5(g)
    [] k = 6 -> Rest6(g)
    [] k = 7 -> Rest7(g)
    [] k = 8 -> Rest8(g)
    [] k = 9 -> Rest9(g)
    [] k = 10 -> Rest10(g)
    [] k = 11 -> Rest11(g)
    [] k = 12 -> Rest12(g)
    [] k = 13 -> Rest13(g)
    [] k = 14 -> Rest14(g)
    [] k = 15 -> Rest15(g)
    [] k = 16 -> Rest16(g)
    [] k = Last -> << >>

LEMMA GlobalsFacts ==
  ASSUME NEW g \in Globals
  PROVE  /\ g.termios_baudrate \in Nat /\ g.bdaddr \in Nat /\ g.hcdfile_fd \in Int
         /\ g.termios_baudrate # 0 => g.termios_baudrate \in baud_rates
         /\ g.bdaddr # NoAddress => g.bdaddr \in Address
<1>1. /\ g.termios_baudrate \in baud_rates \cup {0} /\ g.bdaddr \in Address \cup {NoAddress}
      /\ g.hcdfile_fd \in Nat \cup {-1}
  BY DEF Globals
<1>2. Address \cup {NoAddress} \subseteq Nat
  BY DEF Address, NoAddress
<1>6. baud_rates \cup {0} \subseteq Nat
  BY RatesAreNumbers
<1>3. g.termios_baudrate \in Nat
  BY <1>1, <1>6, Zenon
<1>5. g.hcdfile_fd \in Int
  BY <1>1
<1>4. g.termios_baudrate # 0 => g.termios_baudrate \in baud_rates
  BY <1>1
<1> QED BY <1>1, <1>2, <1>3, <1>4, <1>5

LEMMA NameTable ==
  /\ \A k \in Resets : Name(k) = "reset"
  /\ \A k \in {2, 9} : Name(k) = "baud"
  /\ Name(4) = "minidriver" /\ Name(6) = "write_ram" /\ Name(11) = "bd_addr"
  /\ Name(12) = "sleep_mode" /\ Name(13) = "sco_pcm_int"
  /\ Name(14) = "pcm_data_format" /\ Name(15) = "i2spcm_interface"
<1>1. \A k \in Resets : Name(k) = "reset"
  BY DEF Name, Resets
<1>2. Name(2) = "baud" /\ Name(9) = "baud"
  BY DEF Name, Resets
<1>3. Name(4) = "minidriver"
  BY DEF Name, Resets
<1>4. Name(6) = "write_ram"
  BY DEF Name, Resets
<1>5. Name(11) = "bd_addr"
  BY DEF Name, Resets
<1>6. Name(12) = "sleep_mode"
  BY DEF Name, Resets
<1>7. Name(13) = "sco_pcm_int"
  BY DEF Name, Resets
<1>8. Name(14) = "pcm_data_format"
  BY DEF Name, Resets
<1>9. Name(15) = "i2spcm_interface"
  BY DEF Name, Resets
<1> QED BY <1>1, <1>2, <1>3, <1>4, <1>5, <1>6, <1>7, <1>8, <1>9

LEMMA NamesAreCommands ==
  ASSUME NEW k \in Commanding
  PROVE  /\ Name(k) \in Commands
         /\ (Name(k) = "baud") <=> (k \in {2, 9})
         /\ (Name(k) = "bd_addr") <=> (k = 11)
         /\ (Name(k) = "reset") <=> (k \in Resets)
         /\ (Name(k) = "minidriver") <=> (k = 4)
         /\ Name(k) # "write_ram"
         /\ (Name(k) \in Settings) <=> (k \in 12 .. 15)
  BY NameTable DEF Commanding, Commands, Settings, Resets

LEMMA ParTable ==
  ASSUME NEW g \in Globals
  PROVE  /\ \A k \in {2, 9} : Par(k, g) = g.termios_baudrate
         /\ Par(11, g) = g.bdaddr
         /\ \A k \in Commanding \ {2, 9, 11} : Par(k, g) = 0
<1>1. \A k \in {2, 9} : Par(k, g) = g.termios_baudrate
  BY DEF Par
<1>2. Par(11, g) = g.bdaddr
  BY DEF Par
<1>3. \A k \in Commanding \ {2, 9, 11} : Par(k, g) = 0
  BY DEF Par
<1> QED BY <1>1, <1>2, <1>3

LEMMA BlockTable ==
  ASSUME NEW g \in Globals
  PROVE  /\ \A k \in Resets : Block(k, g) = proc_reset
         /\ \A k \in Commanding \ Resets : Block(k, g) = Command(Name(k), Par(k, g))
         /\ \A k \in {3, 10} : Block(k, g) = <<Speed(g.termios_baudrate)>>
         /\ Block(7, g) = <<Speed(Default)>>
         /\ Block(5, g) = <<Call("two")>>
         /\ Block(6, g) = <<Call("record")>>
         /\ Block(16, g) = <<Call("ldisc")>>
<1>1. \A k \in Resets : Block(k, g) = proc_reset
  BY DEF Block, Resets
<1>2. \A k \in Commanding \ Resets : Block(k, g) = Command(Name(k), Par(k, g))
  BY DEF Block, Resets, Commanding
<1>3. \A k \in {3, 10} : Block(k, g) = <<Speed(g.termios_baudrate)>>
  BY DEF Block, Resets, Commanding
<1>4. Block(7, g) = <<Speed(Default)>>
  BY DEF Block, Resets, Commanding
<1>5. Block(5, g) = <<Call("two")>>
  BY DEF Block, Resets, Commanding
<1>6. Block(6, g) = <<Call("record")>>
  BY DEF Block, Resets, Commanding
<1>7. Block(16, g) = <<Call("ldisc")>>
  BY DEF Block, Resets, Commanding
<1> QED BY <1>1, <1>2, <1>3, <1>4, <1>5, <1>6, <1>7

(* What a command that is given is sent with. *)
LEMMA ParIsWell ==
  ASSUME NEW g \in Globals, NEW k \in Commanding, Given(k, g)
  PROVE  /\ Par(k, g) \in Nat
         /\ k \in {2, 9} => Par(k, g) \in baud_rates
         /\ k = 11 => Par(k, g) \in Address
<1>1. k \in {2, 9} => g.termios_baudrate # 0
  BY DEF Given, Fast
<1>2. k = 11 => g.bdaddr # NoAddress
  BY DEF Given
<1>3. CASE k \in {2, 9}
  BY <1>1, <1>3, ParTable, GlobalsFacts
<1>4. CASE k = 11
  BY <1>2, <1>4, ParTable, GlobalsFacts
<1>5. CASE k \notin {2, 9, 11}
  BY <1>5, ParTable
<1> QED BY <1>3, <1>4, <1>5

LEMMA BlockIsSeq ==
  ASSUME NEW g \in Globals, NEW k \in 1 .. 16, Given(k, g)
  PROVE  Block(k, g) \in Seq(Calls)
<1>1. CASE k \in Resets
  BY <1>1, ResetIsSeq, BlockTable
<1>2. CASE k \in Commanding \ Resets
  <2>1. /\ Par(k, g) \in Nat
        /\ k \in {2, 9} => Par(k, g) \in baud_rates
        /\ k = 11 => Par(k, g) \in Address
    BY <1>2, ParIsWell
  <2>2. Command(Name(k), Par(k, g)) \in Seq(Calls)
    BY <1>2, <2>1, NamesAreCommands, CommandIsSeq
  <2> QED BY <1>2, <2>2, BlockTable
<1>3. CASE k \in {3, 10}
  <2>1. g.termios_baudrate # 0
    BY <1>3 DEF Given, Fast
  <2>2. <<Speed(g.termios_baudrate)>> \in Seq(Calls)
    BY <2>1, GlobalsFacts, SpeedIsCall, OneIsSeq
  <2> QED BY <1>3, <2>2, BlockTable
<1>4. CASE k = 7
  <2>1. <<Speed(Default)>> \in Seq(Calls)
    BY RatesAreNumbers, SpeedIsCall, OneIsSeq
  <2> QED BY <1>4, <2>1, BlockTable
<1>5. CASE k \in {5, 6, 16}
  <2>1. <<Call("two")>> \in Seq(Calls) /\ <<Call("record")>> \in Seq(Calls) /\ <<Call("ldisc")>> \in Seq(Calls)
    BY CallIsCall, OneIsSeq DEF Op
  <2> QED BY <1>5, <2>1, BlockTable
<1> QED BY <1>1, <1>2, <1>3, <1>4, <1>5 DEF Commanding, Resets

LEMMA PartIsSeq ==
  ASSUME NEW g \in Globals, NEW k \in 1 .. 16
  PROVE  Part(k, g) \in Seq(Calls)
<1>1. CASE Given(k, g)
  BY <1>1, BlockIsSeq DEF Part, When
<1>2. CASE ~Given(k, g)
  BY <1>2, OneIsSeq, EmptySeq DEF Part, When
<1> QED BY <1>1, <1>2

LEMMA RestTable ==
  ASSUME NEW g \in Globals
  PROVE  /\ Rest(1, g) = Rest1(g)
         /\ Rest(1, g) = Part(1, g) \o Rest(2, g)
         /\ Rest(2, g) = Part(2, g) \o Rest(3, g)
         /\ Rest(3, g) = Part(3, g) \o Rest(4, g)
         /\ Rest(4, g) = Part(4, g) \o Rest(5, g)
         /\ Rest(5, g) = Part(5, g) \o Rest(6, g)
         /\ Rest(6, g) = Part(6, g) \o Rest(7, g)
         /\ Rest(7, g) = Part(7, g) \o Rest(8, g)
         /\ Rest(8, g) = Part(8, g) \o Rest(9, g)
         /\ Rest(9, g) = Part(9, g) \o Rest(10, g)
         /\ Rest(10, g) = Part(10, g) \o Rest(11, g)
         /\ Rest(11, g) = Part(11, g) \o Rest(12, g)
         /\ Rest(12, g) = Part(12, g) \o Rest(13, g)
         /\ Rest(13, g) = Part(13, g) \o Rest(14, g)
         /\ Rest(14, g) = Part(14, g) \o Rest(15, g)
         /\ Rest(15, g) = Part(15, g) \o Rest(16, g)
         /\ Rest(16, g) = Part(16, g) \o Rest(17, g)
         /\ Rest(17, g) = << >>
<1>1. Rest(1, g) = Rest1(g)
  BY DEF Rest, Last
<1>2. Rest(2, g) = Rest2(g)
  BY DEF Rest, Last
<1>3. Rest(3, g) = Rest3(g)
  BY DEF Rest, Last
<1>4. Rest(4, g) = Rest4(g)
  BY DEF Rest, Last
<1>5. Rest(5, g) = Rest5(g)
  BY DEF Rest, Last
<1>6. Rest(6, g) = Rest6(g)
  BY DEF Rest, Last
<1>7. Rest(7, g) = Rest7(g)
  BY DEF Rest, Last
<1>8. Rest(8, g) = Rest8(g)
  BY DEF Rest, Last
<1>9. Rest(9, g) = Rest9(g)
  BY DEF Rest, Last
<1>10. Rest(10, g) = Rest10(g)
  BY DEF Rest, Last
<1>11. Rest(11, g) = Rest11(g)
  BY DEF Rest, Last
<1>12. Rest(12, g) = Rest12(g)
  BY DEF Rest, Last
<1>13. Rest(13, g) = Rest13(g)
  BY DEF Rest, Last
<1>14. Rest(14, g) = Rest14(g)
  BY DEF Rest, Last
<1>15. Rest(15, g) = Rest15(g)
  BY DEF Rest, Last
<1>16. Rest(16, g) = Rest16(g)
  BY DEF Rest, Last
<1>17. Rest(17, g) = << >>
  BY DEF Rest, Last
<1>18. Rest(16, g) = Part(16, g) \o Rest(17, g)
  <2>1. Part(16, g) \o << >> = Part(16, g)
    BY PartIsSeq, ConcatEmptySeq
  <2> QED BY <2>1, <1>16, <1>17 DEF Rest16
<1>19. Rest(15, g) = Part(15, g) \o Rest(16, g)
  BY <1>15, <1>16 DEF Rest15
<1>20. Rest(14, g) = Part(14, g) \o Rest(15, g)
  BY <1>14, <1>15 DEF Rest14
<1>21. Rest(13, g) = Part(13, g) \o Rest(14, g)
  BY <1>13, <1>14 DEF Rest13
<1>22. Rest(12, g) = Part(12, g) \o Rest(13, g)
  BY <1>12, <1>13 DEF Rest12
<1>23. Rest(11, g) = Part(11, g) \o Rest(12, g)
  BY <1>11, <1>12 DEF Rest11
<1>24. Rest(10, g) = Part(10, g) \o Rest(11, g)
  BY <1>10, <1>11 DEF Rest10
<1>25. Rest(9, g) = Part(9, g) \o Rest(10, g)
  BY <1>9, <1>10 DEF Rest9
<1>26. Rest(8, g) = Part(8, g) \o Rest(9, g)
  BY <1>8, <1>9 DEF Rest8
<1>27. Rest(7, g) = Part(7, g) \o Rest(8, g)
  BY <1>7, <1>8 DEF Rest7
<1>28. Rest(6, g) = Part(6, g) \o Rest(7, g)
  BY <1>6, <1>7 DEF Rest6
<1>29. Rest(5, g) = Part(5, g) \o Rest(6, g)
  BY <1>5, <1>6 DEF Rest5
<1>30. Rest(4, g) = Part(4, g) \o Rest(5, g)
  BY <1>4, <1>5 DEF Rest4
<1>31. Rest(3, g) = Part(3, g) \o Rest(4, g)
  BY <1>3, <1>4 DEF Rest3
<1>32. Rest(2, g) = Part(2, g) \o Rest(3, g)
  BY <1>2, <1>3 DEF Rest2
<1>33. Rest(1, g) = Part(1, g) \o Rest(2, g)
  BY <1>1, <1>2 DEF Rest1
<1> QED BY <1>1, <1>17, <1>18, <1>19, <1>20, <1>21, <1>22, <1>23, <1>24, <1>25, <1>26,
     <1>27, <1>28, <1>29, <1>30, <1>31, <1>32, <1>33

LEMMA RestUnfolds ==
  ASSUME NEW g \in Globals
  PROVE  /\ \A k \in 1 .. Last : Rest(k, g) \in Seq(Calls)
         /\ \A k \in 1 .. 16 : Rest(k, g) = Part(k, g) \o Rest(k + 1, g)
<1>0. \A k \in 1 .. 16 : Part(k, g) \in Seq(Calls)
  BY PartIsSeq
<1>41. Part(1, g) \in Seq(Calls)
  BY <1>0
<1>42. Part(2, g) \in Seq(Calls)
  BY <1>0
<1>43. Part(3, g) \in Seq(Calls)
  BY <1>0
<1>44. Part(4, g) \in Seq(Calls)
  BY <1>0
<1>45. Part(5, g) \in Seq(Calls)
  BY <1>0
<1>46. Part(6, g) \in Seq(Calls)
  BY <1>0
<1>47. Part(7, g) \in Seq(Calls)
  BY <1>0
<1>48. Part(8, g) \in Seq(Calls)
  BY <1>0
<1>49. Part(9, g) \in Seq(Calls)
  BY <1>0
<1>50. Part(10, g) \in Seq(Calls)
  BY <1>0
<1>51. Part(11, g) \in Seq(Calls)
  BY <1>0
<1>52. Part(12, g) \in Seq(Calls)
  BY <1>0
<1>53. Part(13, g) \in Seq(Calls)
  BY <1>0
<1>54. Part(14, g) \in Seq(Calls)
  BY <1>0
<1>55. Part(15, g) \in Seq(Calls)
  BY <1>0
<1>56. Part(16, g) \in Seq(Calls)
  BY <1>0
<1>1. Rest(1, g) = Part(1, g) \o Rest(2, g)
  BY RestTable, Zenon
<1>2. Rest(2, g) = Part(2, g) \o Rest(3, g)
  BY RestTable, Zenon
<1>3. Rest(3, g) = Part(3, g) \o Rest(4, g)
  BY RestTable, Zenon
<1>4. Rest(4, g) = Part(4, g) \o Rest(5, g)
  BY RestTable, Zenon
<1>5. Rest(5, g) = Part(5, g) \o Rest(6, g)
  BY RestTable, Zenon
<1>6. Rest(6, g) = Part(6, g) \o Rest(7, g)
  BY RestTable, Zenon
<1>7. Rest(7, g) = Part(7, g) \o Rest(8, g)
  BY RestTable, Zenon
<1>8. Rest(8, g) = Part(8, g) \o Rest(9, g)
  BY RestTable, Zenon
<1>9. Rest(9, g) = Part(9, g) \o Rest(10, g)
  BY RestTable, Zenon
<1>10. Rest(10, g) = Part(10, g) \o Rest(11, g)
  BY RestTable, Zenon
<1>11. Rest(11, g) = Part(11, g) \o Rest(12, g)
  BY RestTable, Zenon
<1>12. Rest(12, g) = Part(12, g) \o Rest(13, g)
  BY RestTable, Zenon
<1>13. Rest(13, g) = Part(13, g) \o Rest(14, g)
  BY RestTable, Zenon
<1>14. Rest(14, g) = Part(14, g) \o Rest(15, g)
  BY RestTable, Zenon
<1>15. Rest(15, g) = Part(15, g) \o Rest(16, g)
  BY RestTable, Zenon
<1>16. Rest(16, g) = Part(16, g) \o Rest(17, g)
  BY RestTable, Zenon
<1>33. Rest(17, g) \in Seq(Calls)
  BY EmptySeq, RestTable
<1>32. Rest(16, g) \in Seq(Calls)
  BY <1>16, <1>33, <1>56, ConcatIsSeq, Zenon
<1>31. Rest(15, g) \in Seq(Calls)
  BY <1>15, <1>32, <1>55, ConcatIsSeq, Zenon
<1>30. Rest(14, g) \in Seq(Calls)
  BY <1>14, <1>31, <1>54, ConcatIsSeq, Zenon
<1>29. Rest(13, g) \in Seq(Calls)
  BY <1>13, <1>30, <1>53, ConcatIsSeq, Zenon
<1>28. Rest(12, g) \in Seq(Calls)
  BY <1>12, <1>29, <1>52, ConcatIsSeq, Zenon
<1>27. Rest(11, g) \in Seq(Calls)
  BY <1>11, <1>28, <1>51, ConcatIsSeq, Zenon
<1>26. Rest(10, g) \in Seq(Calls)
  BY <1>10, <1>27, <1>50, ConcatIsSeq, Zenon
<1>25. Rest(9, g) \in Seq(Calls)
  BY <1>9, <1>26, <1>49, ConcatIsSeq, Zenon
<1>24. Rest(8, g) \in Seq(Calls)
  BY <1>8, <1>25, <1>48, ConcatIsSeq, Zenon
<1>23. Rest(7, g) \in Seq(Calls)
  BY <1>7, <1>24, <1>47, ConcatIsSeq, Zenon
<1>22. Rest(6, g) \in Seq(Calls)
  BY <1>6, <1>23, <1>46, ConcatIsSeq, Zenon
<1>21. Rest(5, g) \in Seq(Calls)
  BY <1>5, <1>22, <1>45, ConcatIsSeq, Zenon
<1>20. Rest(4, g) \in Seq(Calls)
  BY <1>4, <1>21, <1>44, ConcatIsSeq, Zenon
<1>19. Rest(3, g) \in Seq(Calls)
  BY <1>3, <1>20, <1>43, ConcatIsSeq, Zenon
<1>18. Rest(2, g) \in Seq(Calls)
  BY <1>2, <1>19, <1>42, ConcatIsSeq, Zenon
<1>17. Rest(1, g) \in Seq(Calls)
  BY <1>1, <1>18, <1>41, ConcatIsSeq, Zenon
<1>34. ASSUME NEW k \in 1 .. 16
       PROVE  Rest(k, g) = Part(k, g) \o Rest(k + 1, g)
  <2>1. CASE k = 1
    BY <2>1, <1>1
  <2>2. CASE k = 2
    BY <2>2, <1>2
  <2>3. CASE k = 3
    BY <2>3, <1>3
  <2>4. CASE k = 4
    BY <2>4, <1>4
  <2>5. CASE k = 5
    BY <2>5, <1>5
  <2>6. CASE k = 6
    BY <2>6, <1>6
  <2>7. CASE k = 7
    BY <2>7, <1>7
  <2>8. CASE k = 8
    BY <2>8, <1>8
  <2>9. CASE k = 9
    BY <2>9, <1>9
  <2>10. CASE k = 10
    BY <2>10, <1>10
  <2>11. CASE k = 11
    BY <2>11, <1>11
  <2>12. CASE k = 12
    BY <2>12, <1>12
  <2>13. CASE k = 13
    BY <2>13, <1>13
  <2>14. CASE k = 14
    BY <2>14, <1>14
  <2>15. CASE k = 15
    BY <2>15, <1>15
  <2>16. CASE k = 16
    BY <2>16, <1>16
  <2> QED BY <2>1, <2>2, <2>3, <2>4, <2>5, <2>6, <2>7, <2>8, <2>9, <2>10, <2>11, <2>12,
     <2>13, <2>14, <2>15, <2>16
<1>35. ASSUME NEW k \in 1 .. 17
       PROVE  Rest(k, g) \in Seq(Calls)
  <2>1. CASE k = 1
    BY <2>1, <1>17
  <2>2. CASE k = 2
    BY <2>2, <1>18
  <2>3. CASE k = 3
    BY <2>3, <1>19
  <2>4. CASE k = 4
    BY <2>4, <1>20
  <2>5. CASE k = 5
    BY <2>5, <1>21
  <2>6. CASE k = 6
    BY <2>6, <1>22
  <2>7. CASE k = 7
    BY <2>7, <1>23
  <2>8. CASE k = 8
    BY <2>8, <1>24
  <2>9. CASE k = 9
    BY <2>9, <1>25
  <2>10. CASE k = 10
    BY <2>10, <1>26
  <2>11. CASE k = 11
    BY <2>11, <1>27
  <2>12. CASE k = 12
    BY <2>12, <1>28
  <2>13. CASE k = 13
    BY <2>13, <1>29
  <2>14. CASE k = 14
    BY <2>14, <1>30
  <2>15. CASE k = 15
    BY <2>15, <1>31
  <2>16. CASE k = 16
    BY <2>16, <1>32
  <2>17. CASE k = 17
    BY <2>17, <1>33
  <2> QED BY <2>1, <2>2, <2>3, <2>4, <2>5, <2>6, <2>7, <2>8, <2>9, <2>10, <2>11, <2>12,
     <2>13, <2>14, <2>15, <2>16, <2>17
<1> QED BY <1>34, <1>35 DEF Last

(* Lists of calls, as elements only: the provers then take \o for any       *)
(* associative operator.                                                   *)
Lists == Seq(Calls)

LEMMA ListsClosed == \A s, t \in Lists : s \o t \in Lists
  BY ConcatIsSeq DEF Lists

Associate(s, t, u) == (s \o t) \o u = s \o (t \o u)

LEMMA ListsAssociate == \A s, t, u \in Lists : Associate(s, t, u)
<1>1. ASSUME NEW s \in Seq(Calls), NEW t \in Seq(Calls), NEW u \in Seq(Calls)
      PROVE  (s \o t) \o u = s \o (t \o u)
  OBVIOUS
<1> QED BY <1>1 DEF Lists, Associate

Regrouped(a, b, c, d, e) ==
  ((((a \o b) \o c) \o d) \o e) = a \o (b \o (c \o (d \o e)))

LEMMA Regroup == \A a, b, c, d, e \in Lists : Regrouped(a, b, c, d, e)
<1> TAKE a, b, c, d, e \in Lists
<1>1. /\ a \o b \in Lists /\ (a \o b) \o c \in Lists /\ d \o e \in Lists
      /\ c \o (d \o e) \in Lists
  BY ListsClosed, Zenon
<1>2. Associate((a \o b) \o c, d, e) /\ Associate(a \o b, c, d \o e) /\ Associate(a, b, c \o (d \o e))
  BY <1>1, ListsAssociate, Zenon
<1> QED BY <1>2, Zenon DEF Associate, Regrouped

LEMMA PartIsList ==
  ASSUME NEW g \in Globals
  PROVE  /\ \A k \in 1 .. 16 : Part(k, g) \in Lists
         /\ \A k \in 1 .. Last : Rest(k, g) \in Lists
  BY PartIsSeq, RestUnfolds DEF Lists

(* The functions main calls, as blocks. *)
LEMMA FunctionsAreBlocks ==
  ASSUME NEW g \in Globals
  PROVE  /\ proc_reset = Part(1, g)
         /\ When(Fast(g), proc_baudrate(g)) = Part(2, g) \o Part(3, g)
         /\ When(g.hcdfile_fd > 0, proc_patchram(g))
              = Part(4, g) \o (Part(5, g) \o (Part(6, g) \o (Part(7, g) \o Part(8, g))))
         /\ When(g.termios_baudrate # 0, proc_baudrate(g)) = Part(9, g) \o Part(10, g)
         /\ When(g.bdaddr # NoAddress, Command("bd_addr", g.bdaddr)) = Part(11, g)
         /\ When(g.enable_lpm, Command("sleep_mode", 0)) = Part(12, g)
         /\ When(g.scopcm, proc_scopcm) = Part(13, g) \o Part(14, g)
         /\ When(g.i2s, Command("i2spcm_interface", 0)) = Part(15, g)
         /\ When(g.enable_hci, <<Call("ldisc")>>) = Part(16, g)
<1>0. << >> \o << >> = << >>
  BY ConcatEmptySeq, EmptySeq
<1>1. proc_reset = Part(1, g)
  BY BlockTable DEF Part, When, Given, Resets
<1>2. /\ Block(2, g) = Command("baud", g.termios_baudrate) /\ Block(3, g) = <<Speed(g.termios_baudrate)>>
      /\ Block(9, g) = Command("baud", g.termios_baudrate) /\ Block(10, g) = <<Speed(g.termios_baudrate)>>
  BY BlockTable, NameTable, ParTable DEF Resets, Commanding
<1>3. When(Fast(g), proc_baudrate(g)) = Part(2, g) \o Part(3, g)
  <2>1. /\ Given(2, g) <=> Fast(g)
        /\ Given(3, g) <=> Fast(g)
    BY DEF Given
  <2> QED BY <1>0, <1>2, <2>1 DEF Part, When, proc_baudrate
<1>4. When(g.termios_baudrate # 0, proc_baudrate(g)) = Part(9, g) \o Part(10, g)
  <2>1. /\ Given(9, g) <=> g.termios_baudrate # 0
        /\ Given(10, g) <=> g.termios_baudrate # 0
    BY DEF Given
  <2> QED BY <1>0, <1>2, <2>1 DEF Part, When, proc_baudrate
<1>5. When(g.hcdfile_fd > 0, proc_patchram(g))
        = Part(4, g) \o (Part(5, g) \o (Part(6, g) \o (Part(7, g) \o Part(8, g))))
  <2>1. /\ Given(4, g) <=> g.hcdfile_fd > 0
        /\ Given(5, g) <=> g.hcdfile_fd > 0 /\ ~g.no2bytes
        /\ Given(6, g) <=> g.hcdfile_fd > 0
        /\ Given(7, g) <=> g.hcdfile_fd > 0 /\ g.use_baudrate_for_download
        /\ Given(8, g) <=> g.hcdfile_fd > 0
    BY DEF Given
  <2>2. CASE g.hcdfile_fd > 0
    <3>1. /\ Part(4, g) = Command("minidriver", 0)
          /\ Part(6, g) = <<Call("record")>>
          /\ Part(8, g) = proc_reset
      BY <2>1, <2>2, BlockTable, NameTable, ParTable DEF Resets, Commanding, Part, When
    <3>2. Part(5, g) = When(~g.no2bytes, <<Call("two")>>)
      BY <2>1, <2>2, BlockTable DEF Part, When
    <3>3. Part(7, g) = When(g.use_baudrate_for_download, <<Speed(Default)>>)
      BY <2>1, <2>2, BlockTable DEF Part, When
    <3>4. When(g.hcdfile_fd > 0, proc_patchram(g))
            = ((((Part(4, g) \o Part(5, g)) \o Part(6, g)) \o Part(7, g)) \o Part(8, g))
      BY <2>2, <3>1, <3>2, <3>3 DEF When, proc_patchram
    <3>5. /\ Part(4, g) \in Lists /\ Part(5, g) \in Lists /\ Part(6, g) \in Lists
          /\ Part(7, g) \in Lists /\ Part(8, g) \in Lists
      BY PartIsList
    <3>6. Regrouped(Part(4, g), Part(5, g), Part(6, g), Part(7, g), Part(8, g))
      BY <3>5, Regroup, Zenon
    <3> QED BY <3>4, <3>6, Zenon DEF Regrouped
  <2>3. CASE ~(g.hcdfile_fd > 0)
    <3>1. /\ Part(4, g) = << >> /\ Part(5, g) = << >> /\ Part(6, g) = << >>
          /\ Part(7, g) = << >> /\ Part(8, g) = << >>
      BY <2>1, <2>3 DEF Part, When
    <3> QED BY <1>0, <2>3, <3>1 DEF When
  <2> QED BY <2>2, <2>3
<1>6. When(g.bdaddr # NoAddress, Command("bd_addr", g.bdaddr)) = Part(11, g)
  BY BlockTable, NameTable, ParTable DEF Part, When, Given, Resets, Commanding
<1>7. When(g.enable_lpm, Command("sleep_mode", 0)) = Part(12, g)
  BY BlockTable, NameTable, ParTable DEF Part, When, Given, Resets, Commanding
<1>8. When(g.scopcm, proc_scopcm) = Part(13, g) \o Part(14, g)
  <2>1. /\ Block(13, g) = Command("sco_pcm_int", 0)
        /\ Block(14, g) = Command("pcm_data_format", 0)
    BY BlockTable, NameTable, ParTable DEF Resets, Commanding
  <2>2. /\ Given(13, g) <=> g.scopcm
        /\ Given(14, g) <=> g.scopcm
    BY DEF Given
  <2> QED BY <1>0, <2>1, <2>2 DEF Part, When, proc_scopcm
<1>9. When(g.i2s, Command("i2spcm_interface", 0)) = Part(15, g)
  BY BlockTable, NameTable, ParTable DEF Part, When, Given, Resets, Commanding
<1>10. When(g.enable_hci, <<Call("ldisc")>>) = Part(16, g)
  BY BlockTable DEF Part, When, Given
<1> QED BY <1>1, <1>3, <1>4, <1>5, <1>6, <1>7, <1>8, <1>9, <1>10

LEMMA MainIsRest ==
  ASSUME NEW g \in Globals
  PROVE  main(g) = Rest(1, g) /\ main(g) \in Seq(Calls)
<1> DEFINE Patched == Part(4, g) \o (Part(5, g) \o (Part(6, g) \o (Part(7, g) \o Part(8, g))))
           Sped == Part(2, g) \o Part(3, g)
           Rated == Part(9, g) \o Part(10, g)
           Pcm == Part(13, g) \o Part(14, g)
           Opening == ((Part(1, g) \o Sped) \o Patched) \o Rated
<1>1. main(g) = ((((Opening \o Part(11, g)) \o Part(12, g)) \o Pcm) \o Part(15, g)) \o Part(16, g)
  BY FunctionsAreBlocks DEF main, Fast
<1>2. \A k \in 1 .. 16 : Part(k, g) \in Lists
  BY PartIsList
<1>3. /\ Part(1, g) \in Lists /\ Part(2, g) \in Lists /\ Part(3, g) \in Lists /\ Part(4, g) \in Lists
      /\ Part(5, g) \in Lists /\ Part(6, g) \in Lists /\ Part(7, g) \in Lists /\ Part(8, g) \in Lists
      /\ Part(9, g) \in Lists /\ Part(10, g) \in Lists /\ Part(11, g) \in Lists /\ Part(12, g) \in Lists
      /\ Part(13, g) \in Lists /\ Part(14, g) \in Lists /\ Part(15, g) \in Lists /\ Part(16, g) \in Lists
  BY <1>2
<1>5. Rest(16, g) = Part(16, g)
  BY RestUnfolds DEF Rest, Rest16, Last
<1>7. /\ Rest(13, g) \in Lists /\ Rest(11, g) \in Lists /\ Rest(9, g) \in Lists /\ Rest(4, g) \in Lists
      /\ Rest(15, g) \in Lists /\ Rest(12, g) \in Lists /\ Rest(2, g) \in Lists /\ Rest(1, g) \in Lists
      /\ Rest(5, g) \in Lists /\ Rest(6, g) \in Lists /\ Rest(7, g) \in Lists /\ Rest(8, g) \in Lists
  BY PartIsList DEF Last
<1>8. /\ Sped \in Lists /\ Rated \in Lists /\ Pcm \in Lists /\ Patched \in Lists
  BY <1>3, ListsClosed, Zenon
<1>9. Opening \in Lists
  BY <1>3, <1>8, ListsClosed, Zenon
<1>10. Rest(13, g) = Pcm \o Rest(15, g) /\ Rest(9, g) = Rated \o Rest(11, g) /\ Rest(2, g) = Sped \o Rest(4, g)
  <2>1. /\ Associate(Part(13, g), Part(14, g), Rest(15, g)) /\ Associate(Part(9, g), Part(10, g), Rest(11, g))
        /\ Associate(Part(2, g), Part(3, g), Rest(4, g))
    BY <1>3, <1>7, ListsAssociate, Zenon
  <2> QED BY RestTable, <2>1 DEF Associate
<1>11. Rest(4, g) = Patched \o Rest(9, g)
  <2>1. PICK t \in Lists : t = Part(7, g) \o Part(8, g)
    BY <1>3, ListsClosed, Zenon
  <2>2. PICK u \in Lists : u = Part(6, g) \o t
    BY <1>3, ListsClosed, Zenon
  <2>3. PICK v \in Lists : v = Part(5, g) \o u
    BY <1>3, ListsClosed, Zenon
  <2>4. /\ Associate(Part(7, g), Part(8, g), Rest(9, g)) /\ Associate(Part(6, g), t, Rest(9, g))
        /\ Associate(Part(5, g), u, Rest(9, g)) /\ Associate(Part(4, g), v, Rest(9, g))
    BY <1>3, <1>7, ListsAssociate, Zenon
  <2>5. Rest(7, g) = t \o Rest(9, g)
    BY RestTable, <2>1, <2>4 DEF Associate
  <2>6. Rest(6, g) = u \o Rest(9, g)
    BY RestTable, <2>2, <2>4, <2>5 DEF Associate
  <2>7. Rest(5, g) = v \o Rest(9, g)
    BY RestTable, <2>3, <2>4, <2>6 DEF Associate
  <2> QED BY RestTable, <2>1, <2>2, <2>3, <2>4, <2>7 DEF Associate
<1>12. Rest(1, g) = Opening \o Rest(11, g)
  <2>1. Part(1, g) \o Sped \in Lists /\ (Part(1, g) \o Sped) \o Patched \in Lists
    BY <1>3, <1>8, ListsClosed, Zenon
  <2>2. /\ Associate((Part(1, g) \o Sped) \o Patched, Rated, Rest(11, g))
        /\ Associate(Part(1, g) \o Sped, Patched, Rest(9, g))
        /\ Associate(Part(1, g), Sped, Rest(4, g))
    BY <1>3, <1>7, <1>8, <2>1, ListsAssociate, Zenon
  <2>3. Rest(1, g) = (Part(1, g) \o Sped) \o Rest(4, g)
    BY RestTable, <1>10, <2>2 DEF Associate
  <2>4. Rest(1, g) = ((Part(1, g) \o Sped) \o Patched) \o Rest(9, g)
    BY <1>11, <2>2, <2>3 DEF Associate
  <2> QED BY <1>10, <2>2, <2>4 DEF Associate
<1>13. main(g) = Opening \o Rest(11, g)
  <2> HIDE DEF Opening, Pcm
  <2>1. /\ Opening \o Part(11, g) \in Lists /\ Part(15, g) \o Part(16, g) \in Lists
        /\ (Opening \o Part(11, g)) \o Part(12, g) \in Lists
        /\ ((Opening \o Part(11, g)) \o Part(12, g)) \o Pcm \in Lists
    BY <1>3, <1>8, <1>9, ListsClosed, Zenon
  <2>2. /\ Associate(((Opening \o Part(11, g)) \o Part(12, g)) \o Pcm, Part(15, g), Part(16, g))
        /\ Associate((Opening \o Part(11, g)) \o Part(12, g), Pcm, Rest(15, g))
        /\ Associate(Opening \o Part(11, g), Part(12, g), Rest(13, g))
        /\ Associate(Opening, Part(11, g), Rest(12, g))
    BY <1>3, <1>7, <1>8, <1>9, <2>1, ListsAssociate, Zenon
  <2>3. main(g) = (((Opening \o Part(11, g)) \o Part(12, g)) \o Pcm) \o Rest(15, g)
    BY <1>1, <1>5, <2>2, RestTable DEF Associate
  <2>4. main(g) = ((Opening \o Part(11, g)) \o Part(12, g)) \o Rest(13, g)
    BY <1>10, <2>2, <2>3 DEF Associate
  <2>5. main(g) = (Opening \o Part(11, g)) \o Rest(12, g)
    BY RestTable, <2>2, <2>4 DEF Associate
  <2> QED BY RestTable, <2>2, <2>5 DEF Associate
<1>14. Rest(1, g) \in Seq(Calls)
  BY <1>7 DEF Lists
<1> QED BY <1>12, <1>13, <1>14
-----------------------------------------------------------------------------
(* Where main is: before the k-th block, or inside it. *)

Then(call, rest) == <<call>> \o rest
After(k, g) ==
  IF k \in Resets THEN Then(Call("alarm_off"), Rest(k + 1, g))
  ELSE IF k = 6 THEN Rest(6, g) ELSE Rest(k + 1, g)
Reading(k, g) == Then(Call("header"), Then(Call("body"), After(k, g)))

Where == {"start", "payload", "send", "armed", "header", "body", "off"}
At(calls, k, w, g) ==
  \/ w = "start" /\ calls = Rest(k, g)
  \/ /\ Given(k, g)
     /\ \/ /\ w = "payload" /\ k = 6
           /\ \E r \in 1 .. Records + 1 : calls = Then(Payload(r), Rest(6, g))
        \/ /\ w = "send" /\ k = 6
           /\ \E r \in 1 .. Records + 1 : calls = Then(Send("write_ram", r), Reading(6, g))
        \/ w = "armed" /\ k \in Resets /\ calls = Then(Call("alarm_on"), Reading(k, g))
        \/ w = "header" /\ k \in Commanding \cup {6} /\ calls = Reading(k, g)
        \/ w = "body" /\ k \in Commanding \cup {6} /\ calls = Then(Call("body"), After(k, g))
        \/ w = "off" /\ k \in Resets /\ calls = After(k, g)

LEMMA ThenFacts ==
  ASSUME NEW a \in Calls, NEW r \in Seq(Calls)
  PROVE  /\ Then(a, r) \in Seq(Calls) /\ Then(a, r) # << >>
         /\ Head(Then(a, r)) = a /\ Tail(Then(a, r)) = r
<1>1. <<a>> \in Seq(Calls) /\ Len(<<a>>) = 1 /\ <<a>>[1] = a
  OBVIOUS
<1>2. /\ Then(a, r) \in Seq(Calls) /\ Len(Then(a, r)) = 1 + Len(r)
      /\ \A i \in 1 .. 1 + Len(r) : Then(a, r)[i] = IF i <= 1 THEN <<a>>[i] ELSE r[i - 1]
  BY <1>1, ConcatProperties DEF Then
<1>3. Len(r) \in Nat
  BY LenProperties
<1>4. Then(a, r) # << >> /\ Head(Then(a, r)) = a
  BY <1>1, <1>2, <1>3
<1>5. /\ Tail(Then(a, r)) \in Seq(Calls) /\ Len(Tail(Then(a, r))) = Len(r)
      /\ \A i \in 1 .. Len(r) : Tail(Then(a, r))[i] = Then(a, r)[i + 1]
  BY <1>2, <1>3, <1>4, HeadTailProperties
<1>6. \A i \in 1 .. Len(r) : Tail(Then(a, r))[i] = r[i]
  BY <1>2, <1>3, <1>5
<1>7. Tail(Then(a, r)) = r
  BY <1>3, <1>5, <1>6, SeqEqual
<1> QED BY <1>2, <1>4, <1>7

LEMMA CommandThen ==
  ASSUME NEW a \in Calls, NEW r \in Seq(Calls)
  PROVE  (<<a>> \o read_event) \o r = Then(a, Then(Call("header"), Then(Call("body"), r)))
<1>1. PICK h \in Calls : h = Call("header")
  BY CallIsCall DEF Op
<1>2. PICK b \in Calls : b = Call("body")
  BY CallIsCall DEF Op
<1>3. (<<a>> \o <<h, b>>) \o r = <<a>> \o (<<h>> \o (<<b>> \o r))
  OBVIOUS
<1> QED BY <1>1, <1>2, <1>3 DEF Then, read_event

LEMMA ResetThen ==
  ASSUME NEW r \in Seq(Calls)
  PROVE  proc_reset \o r
           = Then(Send("reset", 0), Then(Call("alarm_on"),
                  Then(Call("header"), Then(Call("body"), Then(Call("alarm_off"), r)))))
<1>1. PICK h \in Calls : h = Call("header")
  BY CallIsCall DEF Op
<1>2. PICK b \in Calls : b = Call("body")
  BY CallIsCall DEF Op
<1>3. PICK n \in Calls : n = Call("alarm_on")
  BY CallIsCall DEF Op
<1>4. PICK f \in Calls : f = Call("alarm_off")
  BY CallIsCall DEF Op
<1>5. PICK e \in Calls : e = Send("reset", 0)
  BY SendIsCall DEF Commands
<1>6. ((<<e, n>> \o <<h, b>>) \o <<f>>) \o r
        = <<e>> \o (<<n>> \o (<<h>> \o (<<b>> \o (<<f>> \o r))))
  OBVIOUS
<1> QED BY <1>1, <1>2, <1>3, <1>4, <1>5, <1>6 DEF Then, read_event, proc_reset

LEMMA RestIsSeq ==
  ASSUME NEW g \in Globals, NEW k \in 1 .. 16
  PROVE  Rest(k, g) \in Seq(Calls) /\ Rest(k + 1, g) \in Seq(Calls)
<1>1. \A j \in 1 .. Last : Rest(j, g) \in Seq(Calls)
  BY RestUnfolds
<1>2. k \in 1 .. Last /\ k + 1 \in 1 .. Last
  BY DEF Last
<1> QED BY <1>1, <1>2

LEMMA ReadingIsSeq ==
  ASSUME NEW g \in Globals, NEW k \in 1 .. 16
  PROVE  After(k, g) \in Seq(Calls) /\ Reading(k, g) \in Seq(Calls)
<1>1. /\ Call("header") \in Calls /\ Call("body") \in Calls /\ Call("alarm_off") \in Calls
  BY CallIsCall DEF Op
<1>2. Rest(k + 1, g) \in Seq(Calls) /\ Rest(k, g) \in Seq(Calls)
  BY RestIsSeq
<1>3. Then(Call("alarm_off"), Rest(k + 1, g)) \in Seq(Calls)
  BY <1>1, <1>2, ThenFacts
<1>4. After(k, g) \in Seq(Calls)
  BY <1>2, <1>3 DEF After
<1>5. Then(Call("body"), After(k, g)) \in Seq(Calls)
  BY <1>1, <1>4, ThenFacts
<1> QED BY <1>1, <1>4, <1>5, ThenFacts DEF Reading

LEMMA SendIsGiven ==
  ASSUME NEW g \in Globals, NEW k \in Commanding, Given(k, g)
  PROVE  Send(Name(k), Par(k, g)) \in Calls
  BY SendIsCall, NamesAreCommands, ParIsWell

(* The first call of a block that is given, and what comes behind it.      *)
LEMMA Begins ==
  ASSUME NEW g \in Globals, NEW k \in 1 .. 16, Given(k, g)
  PROVE  /\ k \in Resets => Rest(k, g) = Then(Send(Name(k), Par(k, g)), Then(Call("alarm_on"), Reading(k, g)))
         /\ k \in Commanding \ Resets => Rest(k, g) = Then(Send(Name(k), Par(k, g)), Reading(k, g))
         /\ k \in {3, 10} => Rest(k, g) = Then(Speed(g.termios_baudrate), Rest(k + 1, g))
         /\ k = 7 => Rest(k, g) = Then(Speed(Default), Rest(k + 1, g))
         /\ k = 5 => Rest(k, g) = Then(Call("two"), Rest(k + 1, g))
         /\ k = 6 => Rest(k, g) = Then(Call("record"), Rest(k + 1, g))
         /\ k = 16 => Rest(k, g) = Then(Call("ldisc"), Rest(k + 1, g))
<1>1. Rest(k, g) = Block(k, g) \o Rest(k + 1, g)
  BY RestUnfolds DEF Part, When
<1>2. Rest(k + 1, g) \in Seq(Calls)
  BY RestIsSeq
<1>3. CASE k \in Resets
  <2>1. Block(k, g) = proc_reset /\ Name(k) = "reset" /\ Par(k, g) = 0
    BY <1>3, BlockTable, NameTable, ParTable DEF Resets, Commanding
  <2>2. Reading(k, g) = Then(Call("header"), Then(Call("body"), Then(Call("alarm_off"), Rest(k + 1, g))))
    BY <1>3 DEF Reading, After
  <2>3. Rest(k, g) = proc_reset \o Rest(k + 1, g)
    BY <1>1, <2>1, Zenon
  <2>4. Rest(k, g) = Then(Send("reset", 0), Then(Call("alarm_on"), Reading(k, g)))
    BY <1>2, <2>2, <2>3, ResetThen
  <2> QED BY <1>3, <2>1, <2>4 DEF Resets
<1>4. CASE k \in Commanding \ Resets
  <2>1. Block(k, g) = Command(Name(k), Par(k, g))
    BY <1>4, BlockTable
  <2>2. PICK a \in Calls : a = Send(Name(k), Par(k, g))
    BY <1>4, SendIsGiven
  <2>3. Rest(k, g) = (<<a>> \o read_event) \o Rest(k + 1, g)
    BY <1>1, <2>1, <2>2, Zenon DEF Command
  <2>4. After(k, g) = Rest(k + 1, g)
    BY <1>4 DEF After, Commanding, Resets
  <2>5. Rest(k, g) = Then(a, Reading(k, g))
    BY <1>2, <2>3, <2>4, CommandThen DEF Reading
  <2> QED BY <1>4, <2>2, <2>5 DEF Commanding, Resets
<1>5. CASE k \in {3, 5, 6, 7, 10, 16}
  <2>1. /\ k \in {3, 10} => Block(k, g) = <<Speed(g.termios_baudrate)>>
        /\ k = 7 => Block(k, g) = <<Speed(Default)>>
        /\ k = 5 => Block(k, g) = <<Call("two")>>
        /\ k = 6 => Block(k, g) = <<Call("record")>>
        /\ k = 16 => Block(k, g) = <<Call("ldisc")>>
    BY BlockTable
  <2>2. k \notin Resets /\ k \notin Commanding \ Resets
    BY <1>5 DEF Resets, Commanding
  <2> QED BY <1>1, <2>1, <2>2, Zenon DEF Then
<1>6. k \in Resets \/ k \in Commanding \ Resets \/ k \in {3, 5, 6, 7, 10, 16}
  BY DEF Commanding, Resets
<1> QED BY <1>3, <1>4, <1>5, <1>6

(* Which position asks for which call, and where main is behind it.        *)
Standing(t, k, w, g) ==
  /\ k \in 1 .. Last /\ w \in Where /\ At(t, k, w, g)
  /\ w = "start" => k = Last \/ Given(k, g)

LEMMA Moves ==
  ASSUME NEW g \in Globals, NEW t, NEW k, NEW w, Standing(t, k, w, g)
  PROVE
    \/ w = "start" /\ k = Last /\ t = << >>
    \/ /\ w = "start" /\ k \in Commanding /\ t # << >> /\ Head(t) = Send(Name(k), Par(k, g))
       /\ At(Tail(t), k, IF k \in Resets THEN "armed" ELSE "header", g)
    \/ /\ w = "payload" /\ k = 6 /\ t # << >> /\ \E r \in 1 .. Records + 1 : Head(t) = Payload(r)
       /\ At(Tail(t), 6, "start", g)
    \/ /\ w = "send" /\ k = 6 /\ t # << >> /\ \E r \in 1 .. Records + 1 : Head(t) = Send("write_ram", r)
       /\ At(Tail(t), k, "header", g)
    \/ /\ w = "armed" /\ k \in Resets /\ t # << >> /\ Head(t) = Call("alarm_on")
       /\ At(Tail(t), k, "header", g)
    \/ /\ w = "header" /\ k \in Commanding \cup {6} /\ t # << >> /\ Head(t) = Call("header")
       /\ At(Tail(t), k, "body", g)
    \/ /\ w = "body" /\ k \in Commanding \cup {6} /\ t # << >> /\ Head(t) = Call("body")
       /\ k \in Resets => At(Tail(t), k, "off", g)
       /\ k = 6 => At(Tail(t), 6, "start", g)
       /\ k \in Commanding \ Resets => At(Tail(t), k + 1, "start", g)
    \/ /\ w = "off" /\ k \in Resets /\ t # << >> /\ Head(t) = Call("alarm_off")
       /\ At(Tail(t), k + 1, "start", g)
    \/ /\ w = "start" /\ k \in {3, 10} /\ t # << >> /\ Head(t) = Speed(g.termios_baudrate)
       /\ At(Tail(t), k + 1, "start", g)
    \/ /\ w = "start" /\ k = 7 /\ t # << >> /\ Head(t) = Speed(Default) /\ At(Tail(t), k + 1, "start", g)
    \/ /\ w = "start" /\ k = 5 /\ t # << >> /\ Head(t) = Call("two") /\ At(Tail(t), k + 1, "start", g)
    \/ /\ w = "start" /\ k = 6 /\ t # << >> /\ Head(t) = Call("record") /\ At(Tail(t), k + 1, "start", g)
    \/ /\ w = "start" /\ k = 16 /\ t # << >> /\ Head(t) = Call("ldisc") /\ At(Tail(t), k + 1, "start", g)
<1>0. /\ k \in 1 .. Last /\ w \in Where /\ At(t, k, w, g)
      /\ w = "start" => k = Last \/ Given(k, g)
  BY DEF Standing
<1>1. /\ Call("header") \in Calls /\ Call("body") \in Calls /\ Call("alarm_off") \in Calls
      /\ Call("alarm_on") \in Calls /\ Call("two") \in Calls /\ Call("record") \in Calls
      /\ Call("ldisc") \in Calls
  BY CallIsCall DEF Op
<1>2. CASE w = "start" /\ k = Last
  BY <1>0, <1>2, RestTable DEF At, Last
<1>3. k # Last => k \in 1 .. 16
  BY <1>0 DEF Last
<1>11. k \in Resets \/ k \in Commanding \cup {6} => k \in 1 .. 16
  BY DEF Resets, Commanding
<1>4. CASE w = "start" /\ k # Last
  <2>1. Given(k, g) /\ t = Rest(k, g)
    BY <1>0, <1>4 DEF At
  <2>2. Reading(k, g) \in Seq(Calls) /\ Rest(k + 1, g) \in Seq(Calls)
    BY <1>3, <1>4, ReadingIsSeq, RestIsSeq
  <2>3. At(Rest(k + 1, g), k + 1, "start", g)
    BY DEF At
  <2>4. CASE k \in Resets
    <3>1. Then(Call("alarm_on"), Reading(k, g)) \in Seq(Calls)
      BY <1>1, <2>2, ThenFacts
    <3>2. t = Then(Send(Name(k), Par(k, g)), Then(Call("alarm_on"), Reading(k, g)))
      BY <1>3, <1>4, <2>1, <2>4, Begins
    <3>3. Send(Name(k), Par(k, g)) \in Calls
      BY <2>1, <2>4, SendIsGiven DEF Commanding, Resets
    <3>4. t # << >> /\ Head(t) = Send(Name(k), Par(k, g)) /\ Tail(t) = Then(Call("alarm_on"), Reading(k, g))
      BY <3>1, <3>2, <3>3, ThenFacts
    <3>5. At(Tail(t), k, "armed", g)
      BY <2>1, <2>4, <3>4 DEF At
    <3> QED BY <1>4, <2>4, <3>4, <3>5 DEF Resets, Commanding
  <2>5. CASE k \in Commanding \ Resets
    <3>1. t = Then(Send(Name(k), Par(k, g)), Reading(k, g))
      BY <1>3, <1>4, <2>1, <2>5, Begins
    <3>2. Send(Name(k), Par(k, g)) \in Calls
      BY <2>1, <2>5, SendIsGiven
    <3>3. t # << >> /\ Head(t) = Send(Name(k), Par(k, g)) /\ Tail(t) = Reading(k, g)
      BY <2>2, <3>1, <3>2, ThenFacts
    <3>4. At(Tail(t), k, "header", g)
      BY <2>1, <2>5, <3>3 DEF At
    <3> QED BY <1>4, <2>5, <3>3, <3>4
  <2>6. CASE k \in {3, 10}
    <3>1. t = Then(Speed(g.termios_baudrate), Rest(k + 1, g))
      BY <1>3, <1>4, <2>1, <2>6, Begins
    <3>2. Speed(g.termios_baudrate) \in Calls
      BY <2>1, <2>6, SpeedIsCall, GlobalsFacts DEF Given, Fast
    <3>3. t # << >> /\ Head(t) = Speed(g.termios_baudrate) /\ Tail(t) = Rest(k + 1, g)
      BY <2>2, <3>1, <3>2, ThenFacts
    <3> QED BY <1>4, <2>3, <2>6, <3>3
  <2>7. CASE k = 7
    <3>1. t = Then(Speed(Default), Rest(k + 1, g))
      BY <1>3, <1>4, <2>1, <2>7, Begins
    <3>2. Speed(Default) \in Calls
      BY SpeedIsCall, RatesAreNumbers
    <3>3. t # << >> /\ Head(t) = Speed(Default) /\ Tail(t) = Rest(k + 1, g)
      BY <2>2, <3>1, <3>2, ThenFacts
    <3> QED BY <1>4, <2>3, <2>7, <3>3
  <2>8. CASE k \in {5, 6, 16}
    <3>1. PICK a \in Calls : /\ t = Then(a, Rest(k + 1, g))
                             /\ k = 5 => a = Call("two")
                             /\ k = 6 => a = Call("record")
                             /\ k = 16 => a = Call("ldisc")
      BY <1>1, <1>3, <1>4, <2>1, <2>8, Begins
    <3>2. t # << >> /\ Head(t) = a /\ Tail(t) = Rest(k + 1, g)
      BY <2>2, <3>1, ThenFacts
    <3> QED BY <1>4, <2>3, <2>8, <3>1, <3>2
  <2> QED BY <1>3, <1>4, <2>4, <2>5, <2>6, <2>7, <2>8 DEF Commanding, Resets
<1>5. CASE w = "send"
  <2>1. PICK r \in 1 .. Records + 1 : t = Then(Send("write_ram", r), Reading(6, g))
    BY <1>0, <1>5 DEF At
  <2>2. Given(k, g) /\ k = 6
    BY <1>0, <1>5 DEF At
  <2>3. r \in Nat
    BY ConstantFacts
  <2>4. Send("write_ram", r) \in Calls
    BY <2>3, SendIsCall DEF Commands
  <2>5. Reading(6, g) \in Seq(Calls)
    BY ReadingIsSeq
  <2>6. t # << >> /\ Head(t) = Send("write_ram", r) /\ Tail(t) = Reading(6, g)
    BY <2>1, <2>4, <2>5, ThenFacts
  <2>7. At(Tail(t), k, "header", g)
    BY <2>2, <2>6 DEF At
  <2> QED BY <1>5, <2>2, <2>6, <2>7
<1>10. CASE w = "payload"
  <2>1. PICK r \in 1 .. Records + 1 : t = Then(Payload(r), Rest(6, g))
    BY <1>0, <1>10 DEF At
  <2>2. Given(k, g) /\ k = 6
    BY <1>0, <1>10 DEF At
  <2>3. Payload(r) \in Calls
    BY ConstantFacts, PayloadIsCall
  <2>4. Rest(6, g) \in Seq(Calls)
    BY RestIsSeq
  <2>5. t # << >> /\ Head(t) = Payload(r) /\ Tail(t) = Rest(6, g)
    BY <2>1, <2>3, <2>4, ThenFacts
  <2>6. At(Tail(t), 6, "start", g)
    BY <2>5 DEF At
  <2> QED BY <1>10, <2>2, <2>5, <2>6
<1>6. CASE w = "armed"
  <2>1. Given(k, g) /\ k \in Resets /\ t = Then(Call("alarm_on"), Reading(k, g))
    BY <1>0, <1>6 DEF At
  <2>2. Reading(k, g) \in Seq(Calls)
    BY <1>11, <2>1, ReadingIsSeq
  <2>3. t # << >> /\ Head(t) = Call("alarm_on") /\ Tail(t) = Reading(k, g)
    BY <1>1, <2>1, <2>2, ThenFacts
  <2>4. At(Tail(t), k, "header", g)
    BY <2>1, <2>3 DEF At, Resets, Commanding
  <2> QED BY <1>6, <2>1, <2>3, <2>4
<1>7. CASE w = "header"
  <2>1. Given(k, g) /\ k \in Commanding \cup {6} /\ t = Then(Call("header"), Then(Call("body"), After(k, g)))
    BY <1>0, <1>7 DEF At, Reading
  <2>2. After(k, g) \in Seq(Calls)
    BY <1>11, <2>1, ReadingIsSeq
  <2>3. Then(Call("body"), After(k, g)) \in Seq(Calls)
    BY <1>1, <2>2, ThenFacts
  <2>4. t # << >> /\ Head(t) = Call("header") /\ Tail(t) = Then(Call("body"), After(k, g))
    BY <1>1, <2>1, <2>3, ThenFacts
  <2>5. At(Tail(t), k, "body", g)
    BY <2>1, <2>4 DEF At
  <2> QED BY <1>7, <2>1, <2>4, <2>5
<1>8. CASE w = "body"
  <2>1. Given(k, g) /\ k \in Commanding \cup {6} /\ t = Then(Call("body"), After(k, g))
    BY <1>0, <1>8 DEF At
  <2>2. After(k, g) \in Seq(Calls)
    BY <1>11, <2>1, ReadingIsSeq
  <2>3. t # << >> /\ Head(t) = Call("body") /\ Tail(t) = After(k, g)
    BY <1>1, <2>1, <2>2, ThenFacts
  <2>4. k \in Resets => At(Tail(t), k, "off", g)
    BY <2>1, <2>3 DEF At
  <2>5. k = 6 => At(Tail(t), 6, "start", g)
    BY <2>3 DEF At, After, Resets
  <2>6. k \in Commanding \ Resets => At(Tail(t), k + 1, "start", g)
    BY <2>3 DEF At, After, Commanding
  <2> QED BY <1>8, <2>1, <2>3, <2>4, <2>5, <2>6
<1>9. CASE w = "off"
  <2>1. k \in Resets /\ t = Then(Call("alarm_off"), Rest(k + 1, g))
    BY <1>0, <1>9 DEF At, After
  <2>2. Rest(k + 1, g) \in Seq(Calls)
    BY <1>11, <2>1, RestIsSeq
  <2>3. t # << >> /\ Head(t) = Call("alarm_off") /\ Tail(t) = Rest(k + 1, g)
    BY <1>1, <2>1, <2>2, ThenFacts
  <2>4. At(Tail(t), k + 1, "start", g)
    BY <2>3 DEF At
  <2> QED BY <1>9, <2>1, <2>3, <2>4
<1> QED BY <1>0, <1>2, <1>4, <1>5, <1>6, <1>7, <1>8, <1>9, <1>10 DEF Where
-----------------------------------------------------------------------------
(* Types *)

LEMMA OpenedIsGlobals ==
  ASSUME NEW g \in Globals
  PROVE  Opened(g) \in Globals /\ g.nextFd \in Nat
  BY DEF Opened, Globals

LEMMA ParsedIsGlobals ==
  ASSUME NEW g \in Globals, NEW o \in Option, NEW h \in Parsed(g, o[1], o[2])
  PROVE  h \in Globals
<1>1. CASE o[1] = "patchram"
  <2>0. Parsed(g, o[1], o[2]) = {[Opened(g) EXCEPT !.hcdfile_fd = g.nextFd]}
    BY <1>1 DEF Parsed, Flag
  <2>1. h = [Opened(g) EXCEPT !.hcdfile_fd = g.nextFd]
    BY <2>0
  <2> QED BY <2>1, OpenedIsGlobals DEF Globals
<1>2. CASE o[1] = "baudrate"
  <2>0. Parsed(g, o[1], o[2]) = {IF o[2] \in baud_rates THEN [g EXCEPT !.termios_baudrate = o[2]] ELSE g}
    BY <1>2 DEF Parsed, Flag
  <2>1. h = IF o[2] \in baud_rates THEN [g EXCEPT !.termios_baudrate = o[2]] ELSE g
    BY <2>0
  <2> QED BY <2>1 DEF Globals
<1>3. CASE o[1] = "bd_addr"
  <2>0. Parsed(g, o[1], o[2]) = {[g EXCEPT !.bdaddr = a] : a \in IF o[2] = NoAddress THEN Address ELSE {o[2]}}
    BY <1>3 DEF Parsed, Flag
  <2>1. \E a \in Address : h = [g EXCEPT !.bdaddr = a]
    BY <1>3, <2>0, ConstantFacts
  <2> QED BY <2>1 DEF Globals
<1>4. CASE o[1] \in Flag
  <2>1. h = [g EXCEPT ![o[1]] = TRUE]
    BY <1>4 DEF Parsed, Flag
  <2> QED BY <1>4, <2>1 DEF Globals, Flag
<1>5. CASE o[1] \notin Flag \cup {"patchram", "baudrate", "bd_addr"}
  BY <1>5 DEF Parsed
<1> QED BY <1>1, <1>2, <1>3, <1>4, <1>5

LEMMA DefaultsAreGlobals == Defaults \in Globals
<1> DEFINE file == PropertyFile["ro.bt.bdaddr_path"]
<1>1. (IF file \in Address THEN file ELSE NoAddress) \in Address \cup {NoAddress}
  OBVIOUS
<1> QED BY <1>1 DEF Defaults, Globals

LEMMA ExitCodes ==
  ASSUME NEW n, NEW a
  PROVE  ExitCode(n, a) \in 0 .. 5
  BY DEF ExitCode

LEMMA ParseOptionTypes ==
  ASSUME TypeInv, ParseOption
  PROVE  TypeInv'
<1> DEFINE o == Head(args.options)
<1>1. args.options \in Seq(Option) /\ args.options # << >>
  BY DEF TypeInv, Scenario, ParseOption
<1>2. o \in Option /\ Tail(args.options) \in Seq(Option)
  BY <1>1, HeadTailProperties
<1>3. args' = [args EXCEPT !.options = Tail(args.options)]
  BY DEF ParseOption
<1>4. /\ args' \in Scenario
      /\ args'.file = args.file
  BY <1>2, <1>3 DEF TypeInv, Scenario
<1>7. Begun' = Begun
  BY <1>4 DEF Begun
<1>5. CASE ExitCode(o[1], o[2]) = 0
  <2>1. opts' \in Parsed(opts, o[1], o[2]) /\ phase' = phase /\ code' = code
    BY <1>5 DEF ParseOption
  <2>2. opts' \in Globals
    BY <1>2, <2>1, ParsedIsGlobals DEF TypeInv
  <2> QED BY <1>4, <1>7, <2>1, <2>2 DEF TypeInv, ParseOption, lineVars, fileVars
<1>6. CASE ExitCode(o[1], o[2]) # 0
  <2>1. phase' = "exit" /\ code' \in 0 .. 5 /\ opts' = opts
    BY <1>6, ExitCodes DEF ParseOption
  <2> QED BY <1>4, <1>7, <2>1 DEF TypeInv, ParseOption, lineVars, fileVars
<1> QED BY <1>5, <1>6

LEMMA DoesCall ==
  ASSUME TypeInv, NEW op, Does(op)
  PROVE  /\ phase = "main" /\ todo # << >> /\ Head(todo) \in Calls /\ Head(todo)[1] = op
         /\ Tail(todo) \in Seq(Calls)
  BY HeadTailProperties DEF TypeInv, Does

LEMMA SendTypes ==
  ASSUME TypeInv, NEW n, NEW p, <<n, p>> \in Message, hci_send_cmd(n, p)
  PROVE  tx' \in Seq(Message) /\ garbled' \in BOOLEAN /\ UNCHANGED <<rx, chip, done>>
<1>1. tx \in Seq(Message) /\ garbled \in BOOLEAN
  BY DEF TypeInv
<1>2. tx' = tx \/ tx' = Append(tx, <<n, p>>)
  BY DEF hci_send_cmd
<1>3. tx' \in Seq(Message)
  BY <1>1, <1>2, AppendProperties
<1> QED BY <1>1, <1>3 DEF hci_send_cmd

LEMMA DropFacts ==
  ASSUME TypeInv, NEW n \in 0 .. Len(rx), Drop(n)
  PROVE  /\ rx' \in Seq(0 .. 255) /\ Len(rx') = Len(rx) - n
         /\ UNCHANGED <<tx, chip, done, garbled>>
<1>1. rx \in Seq(0 .. 255) /\ rx' = SubSeq(rx, n + 1, Len(rx))
  BY DEF TypeInv, Drop
<1>5. Len(rx) \in Nat /\ \A i \in 1 .. Len(rx) : rx[i] \in 0 .. 255
  BY <1>1, LenProperties, ElementOfSeq
<1>2. Len(rx) \in Nat /\ \A i \in n + 1 .. Len(rx) : rx[i] \in 0 .. 255
  BY <1>5
<1>3. /\ rx' \in Seq(0 .. 255)
      /\ Len(rx') = IF n + 1 <= Len(rx) THEN Len(rx) - (n + 1) + 1 ELSE 0
  BY <1>1, <1>2, SubSeqProperties
<1>4. Len(rx') = Len(rx) - n
  BY <1>2, <1>3
<1> QED BY <1>3, <1>4 DEF Drop

LEMMA SendCommandTypes ==
  ASSUME TypeInv, SendCommand
  PROVE  /\ TypeInv'
         /\ <<Head(todo)[2], Head(todo)[3]>> \in Message
<1>1. /\ Head(todo) \in Calls /\ Head(todo)[1] = "send" /\ Tail(todo) \in Seq(Calls)
      /\ todo' = Tail(todo)
  BY DoesCall DEF SendCommand, Proceed
<1>2. <<Head(todo)[2], Head(todo)[3]>> \in Message
  BY <1>1 DEF Calls, SendsWell, Message
<1>3. tx' \in Seq(Message) /\ garbled' \in BOOLEAN /\ UNCHANGED <<rx, chip, done>>
  BY <1>2, SendTypes DEF SendCommand
<1> QED BY <1>1, <1>2, <1>3 DEF TypeInv, SendCommand, OnlyMain, fileVars, Begun

LEMMA ReadTypes ==
  ASSUME TypeInv, ReadHeader \/ ReadBody \/ ReadTwoBytes
  PROVE  TypeInv'
<1>1. rx \in Seq(0 .. 255) /\ Len(rx) \in Nat /\ len \in 0 .. 255
  BY LenProperties DEF TypeInv
<1>2. todo' \in Seq(Calls)
  BY DoesCall DEF ReadHeader, ReadBody, ReadTwoBytes, Proceed
<1>3. \E n \in 0 .. Len(rx) : Drop(n)
  <2>1. rx # << >> => Len(rx) >= 1
    BY <1>1, EmptySeq
  <2>2. CASE ReadHeader
    BY <1>1, <2>2 DEF ReadHeader
  <2>3. CASE ReadBody
    BY <1>1, <2>3 DEF ReadBody
  <2>4. CASE ReadTwoBytes
    BY <1>1, <2>1, <2>4 DEF ReadTwoBytes
  <2> QED BY <2>2, <2>3, <2>4
<1>4. rx' \in Seq(0 .. 255) /\ UNCHANGED <<tx, chip, done, garbled>>
  BY <1>3, DropFacts
<1>5. len' \in 0 .. 255
  <2>1. CASE ReadHeader
    BY <1>1, <2>1, ElementOfSeq DEF ReadHeader
  <2>2. CASE ReadBody \/ ReadTwoBytes
    BY <1>1, <2>2 DEF ReadBody, ReadTwoBytes
  <2> QED BY <2>1, <2>2
<1>6. UNCHANGED <<phase, code, args, opts, records, inside, alarm, speed>>
  BY DEF ReadHeader, ReadBody, ReadTwoBytes, OnlyMain, fileVars
<1> QED BY <1>2, <1>4, <1>5, <1>6 DEF TypeInv, Begun

LEMMA FileFacts ==
  ASSUME TypeInv
  PROVE  /\ Records \in Nat \ {0} /\ args.file.whole \in 0 .. Records /\ Begun \in Nat
         /\ records \in Nat /\ records <= Begun
         /\ Corrupt = Records + 1 /\ Corrupt \in 1 .. Records + 1
<1>1. /\ Records \in Nat \ {0} /\ args.file.whole \in 0 .. Records /\ records \in 0 .. Begun
      /\ args.file.part \in BOOLEAN
  BY ConstantFacts DEF TypeInv, Scenario
<1>2. Begun \in Nat
  BY <1>1 DEF Begun
<1> QED BY <1>1, <1>2 DEF Corrupt

(* A header begins the next record, or tells where a payload seems to be.  *)
LEMMA RecordHeaderTypes ==
  ASSUME TypeInv, ReadRecordHeader
  PROVE  /\ TypeInv'
         /\ \/ todo' = Tail(todo) /\ UNCHANGED fileVars /\ ~inside /\ records = Begun
            \/ \E r \in 1 .. Records + 1 :
                 /\ todo' = <<Payload(r)>> \o todo
                 /\ r = Corrupt \/ (r = records + 1 /\ records < args.file.whole)
                 /\ \/ records' = records + 1 /\ ~inside /\ records < Begun
                       /\ (r = Corrupt => args.file.whole <= records)
                    \/ records' = records /\ r = Corrupt /\ (inside \/ Fails("hcd_read"))
<1>1. /\ Records \in Nat \ {0} /\ args.file.whole \in 0 .. Records /\ Begun \in Nat
      /\ records \in Nat /\ records <= Begun /\ Corrupt \in 1 .. Records + 1
  BY FileFacts
<1>2. todo # << >> /\ todo \in Seq(Calls) /\ Tail(todo) \in Seq(Calls)
  BY DoesCall DEF ReadRecordHeader, TypeInv
<1>3. UNCHANGED <<len, alarm, speed, lineVars>> /\ OnlyMain
  BY DEF ReadRecordHeader
<1>4. \A r \in 1 .. Records + 1 : <<Payload(r)>> \o todo \in Seq(Calls)
  <2>1. ASSUME NEW r \in 1 .. Records + 1
        PROVE  <<Payload(r)>> \in Seq(Calls)
    BY <1>1, PayloadIsCall, OneIsSeq
  <2> QED BY <1>2, <2>1, ConcatIsSeq
<1>5. Begun' = Begun
  BY <1>3 DEF OnlyMain, Begun
<1>6. CASE ~inside /\ records < Begun /\ records' = records + 1 /\ inside' = TRUE
           /\ Reads(IF records < args.file.whole THEN records + 1 ELSE Corrupt)
  <2>1. PICK r \in 1 .. Records + 1 :
          /\ r = IF records < args.file.whole THEN records + 1 ELSE Corrupt
          /\ todo' = <<Payload(r)>> \o todo
    BY <1>1, <1>6 DEF Reads
  <2>2. todo' \in Seq(Calls)
    BY <1>4, <2>1
  <2>3. records' \in 0 .. Begun'
    BY <1>1, <1>5, <1>6
  <2>4. TypeInv'
    BY <1>3, <1>6, <2>2, <2>3 DEF TypeInv, OnlyMain, lineVars
  <2>5. r = Corrupt \/ (r = records + 1 /\ records < args.file.whole)
    BY <2>1
  <2>6. r = Corrupt => args.file.whole <= records
    BY <1>1, <2>1 DEF Corrupt
  <2> QED BY <1>6, <2>1, <2>4, <2>5, <2>6
<1>7. CASE ~inside /\ records = Begun /\ Proceed /\ UNCHANGED fileVars
  <2>1. TypeInv'
    BY <1>2, <1>3, <1>5, <1>7 DEF TypeInv, OnlyMain, lineVars, fileVars, Proceed
  <2> QED BY <1>7, <2>1 DEF Proceed
<1>8. CASE (inside \/ Fails("hcd_read")) /\ Reads(Corrupt) /\ UNCHANGED fileVars
  <2>1. todo' = <<Payload(Corrupt)>> \o todo /\ todo' \in Seq(Calls)
    BY <1>1, <1>4, <1>8 DEF Reads
  <2>2. TypeInv'
    BY <1>3, <1>5, <1>8, <2>1 DEF TypeInv, OnlyMain, lineVars, fileVars
  <2>3. records' = records
    BY <1>8 DEF fileVars
  <2> QED BY <1>1, <1>8, <2>1, <2>2, <2>3, Zenon
<1> QED BY <1>6, <1>7, <1>8 DEF ReadRecordHeader

(* Only a record whose two reads succeed is sent as it is.                 *)
LEMMA RecordPayloadTypes ==
  ASSUME TypeInv, ReadRecordPayload
  PROVE  /\ TypeInv' /\ records <= records'
         /\ \E n \in Nat :
              /\ todo' = Command("write_ram", n) \o Tail(todo)
              /\ \/ n = Head(todo)[3] /\ n # Corrupt /\ records' = records /\ inside' = FALSE
                 \/ n = Corrupt /\ (Head(todo)[3] = Corrupt \/ Fails("hcd_read"))
<1> DEFINE r == Head(todo)[3]
<1>1. /\ Begun \in Nat /\ records \in Nat /\ records <= Begun /\ Corrupt \in Nat
  BY FileFacts
<1>2. todo # << >> /\ Head(todo) \in Calls /\ Tail(todo) \in Seq(Calls)
  BY DoesCall DEF ReadRecordPayload, TypeInv
<1>3. UNCHANGED <<len, alarm, speed, lineVars>> /\ OnlyMain
  BY DEF ReadRecordPayload
<1>4. r \in Nat
  BY <1>2 DEF Calls
<1>5. \A n \in Nat : Command("write_ram", n) \o Tail(todo) \in Seq(Calls)
  <2>1. ASSUME NEW n \in Nat
        PROVE  Command("write_ram", n) \in Seq(Calls)
    BY CommandIsSeq DEF Commands
  <2> QED BY <1>2, <2>1, ConcatIsSeq
<1>6. Begun' = Begun
  BY <1>3 DEF OnlyMain, Begun
<1>7. /\ records' \in 0 .. Begun' /\ inside' \in BOOLEAN /\ records <= records'
  <2>1. inside \in BOOLEAN
    BY DEF TypeInv
  <2>2. \/ inside' = FALSE /\ records' = records
        \/ inside' = inside /\ records' = records
        \/ inside' \in BOOLEAN /\ records' \in records .. Begun
    BY Zenon DEF ReadRecordPayload, fileVars
  <2>3. inside' \in BOOLEAN
    BY <2>1, <2>2, Zenon
  <2>4. records' = records \/ records' \in records .. Begun
    BY <2>2, Zenon
  <2>5. records' \in 0 .. Begun' /\ records <= records'
    BY <1>1, <1>6, <2>4
  <2> QED BY <2>3, <2>5
<1>8. \E n \in Nat :
        /\ todo' = Command("write_ram", n) \o Tail(todo)
        /\ \/ n = r /\ n # Corrupt /\ records' = records /\ inside' = FALSE
           \/ n = Corrupt /\ (r = Corrupt \/ Fails("hcd_read"))
  BY <1>1, <1>4 DEF ReadRecordPayload
<1>9. todo' \in Seq(Calls)
  BY <1>5, <1>8
<1>10. TypeInv'
  BY <1>3, <1>7, <1>9 DEF TypeInv, OnlyMain, lineVars
<1> QED BY <1>7, <1>8, <1>10

LEMMA RestOfMainTypes ==
  ASSUME TypeInv, OpenDevice \/ init_uart \/ SetAlarm \/ SetSpeed \/ proc_enable_hci \/ Finish
  PROVE  TypeInv'
<1>1. CASE OpenDevice
  <2>0. opts \in Globals /\ code \in 0 .. 5
    BY DEF TypeInv
  <2>1. Opened(opts) \in Globals /\ opts.nextFd \in Nat
    BY <2>0, OpenedIsGlobals
  <2>2. [Opened(opts) EXCEPT !.uart_fd = opts.nextFd] \in Globals
    BY <2>1 DEF Globals
  <2>3. opts' \in Globals
    BY <1>1, <2>0, <2>2 DEF OpenDevice
  <2>4. phase' \in {"uart", "exit"} /\ code' \in 0 .. 5
    BY <1>1, <2>0 DEF OpenDevice
  <2> QED BY <1>1, <2>3, <2>4 DEF OpenDevice, TypeInv, lineVars, fileVars, Begun
<1>2. CASE init_uart
  <2>1. main(opts) \in Seq(Calls)
    BY MainIsRest DEF TypeInv
  <2> QED BY <1>2, <2>1, RatesAreNumbers DEF init_uart, TypeInv, fileVars, Begun
<1>3. CASE SetAlarm
  <2>1. \E op \in Op : Does(op)
    BY <1>3 DEF SetAlarm, Op
  <2>2. todo' \in Seq(Calls)
    BY <1>3, <2>1, DoesCall DEF SetAlarm, Proceed
  <2>3. alarm' \in {"off", "set", "raised"}
    BY <1>3 DEF SetAlarm
  <2> QED BY <1>3, <2>2, <2>3 DEF SetAlarm, TypeInv, OnlyMain, lineVars, fileVars, Begun
<1>4. CASE SetSpeed
  <2>1. todo' \in Seq(Calls) /\ speed' \in baud_rates
    BY <1>4, DoesCall DEF SetSpeed, Proceed, Calls
  <2> QED BY <1>4, <2>1 DEF SetSpeed, TypeInv, OnlyMain, lineVars, fileVars, Begun
<1>5. CASE proc_enable_hci
  <2>1. todo' \in Seq(Calls)
    BY <1>5, DoesCall DEF proc_enable_hci, Proceed
  <2>2. chip' \in Chip
    BY <1>5 DEF proc_enable_hci, TypeInv, Chip
  <2> QED BY <1>5, <2>1, <2>2 DEF proc_enable_hci, TypeInv, OnlyMain, fileVars, Begun
<1>6. CASE Finish
  BY <1>6 DEF Finish, TypeInv, lineVars, fileVars, Begun
<1> QED BY <1>1, <1>2, <1>3, <1>4, <1>5, <1>6

LEMMA EffectIsChip ==
  ASSUME NEW c \in Chip, NEW n, NEW p, <<n, p>> \in Message
  PROVE  Effect(c, n, p) \in Chip
<1>1. n \in Commands /\ p \in Nat /\ (n = "baud" => p \in baud_rates) /\ (n = "bd_addr" => p \in Address)
  BY DEF Message
<1>2. CASE n = "reset"
  <2>1. Effect(c, n, p) = [c EXCEPT !.settings = {}, !.addr = NoAddress]
    BY <1>2 DEF Effect
  <2> QED BY <2>1 DEF Chip
<1>3. CASE n = "minidriver"
  <2>1. Effect(c, n, p) = [c EXCEPT !.mode = "download"]
    BY <1>3 DEF Effect
  <2> QED BY <2>1 DEF Chip
<1>4. CASE n = "write_ram"
  <2>1. Effect(c, n, p) = IF p = Records
          THEN [c EXCEPT !.mode = "patched", !.speed = Default, !.awake = FALSE,
                         !.settings = {}, !.addr = NoAddress]
          ELSE c
    BY <1>4 DEF Effect
  <2> QED BY <2>1, RatesAreNumbers DEF Chip
<1>5. CASE n = "baud"
  <2>1. Effect(c, n, p) = [c EXCEPT !.speed = p]
    BY <1>5 DEF Effect
  <2> QED BY <1>1, <1>5, <2>1 DEF Chip
<1>6. CASE n = "bd_addr"
  <2>1. Effect(c, n, p) = [c EXCEPT !.addr = p]
    BY <1>6 DEF Effect
  <2> QED BY <1>1, <1>6, <2>1 DEF Chip
<1>7. CASE n \in Settings
  <2>1. Effect(c, n, p) = [c EXCEPT !.settings = c.settings \cup {n}]
    BY <1>7 DEF Effect, Settings
  <2> QED BY <1>7, <2>1 DEF Chip
<1> QED BY <1>1, <1>2, <1>3, <1>4, <1>5, <1>6, <1>7 DEF Commands

(* An answer is seven bytes, the third of which is 4.                      *)
Bytes == Seq(0 .. 255)
IsAnswer(s) == s \in Bytes /\ Len(s) = 7 /\ s[3] = 4
Composes(s, t, u) ==
  Len(s) = 4 /\ Len(t) = 2 /\ Len(u) = 1 /\ s[3] = 4 => IsAnswer((s \o t) \o u)

LEMMA ConcatBytes ==
  ASSUME NEW s \in Seq(0 .. 255), NEW t \in Seq(0 .. 255)
  PROVE  /\ s \o t \in Seq(0 .. 255) /\ Len(s \o t) = Len(s) + Len(t)
         /\ \A i \in 1 .. Len(s) + Len(t) : (s \o t)[i] = IF i <= Len(s) THEN s[i] ELSE t[i - Len(s)]
  BY ConcatProperties

LEMMA AnswersCompose == \A s, t, u \in Bytes : Composes(s, t, u)
<1> SUFFICES ASSUME NEW s \in Seq(0 .. 255), NEW t \in Seq(0 .. 255), NEW u \in Seq(0 .. 255),
                    Len(s) = 4, Len(t) = 2, Len(u) = 1, s[3] = 4
             PROVE  /\ (s \o t) \o u \in Seq(0 .. 255) /\ Len((s \o t) \o u) = 7
                    /\ ((s \o t) \o u)[3] = 4
  BY DEF Bytes, Composes, IsAnswer
<1>1. /\ s \o t \in Seq(0 .. 255) /\ Len(s \o t) = Len(s) + Len(t)
      /\ \A i \in 1 .. Len(s) + Len(t) : (s \o t)[i] = IF i <= Len(s) THEN s[i] ELSE t[i - Len(s)]
  BY ConcatBytes
<1>2. PICK v \in Seq(0 .. 255) : v = s \o t
  BY <1>1, Zenon
<1>4. Len(v) = 6 /\ v[3] = 4
  BY <1>1, <1>2
<1>5. ASSUME NEW w \in Seq(0 .. 255), Len(w) = 6, w[3] = 4
      PROVE  w \o u \in Seq(0 .. 255) /\ Len(w \o u) = 7 /\ (w \o u)[3] = 4
  <2>1. /\ w \o u \in Seq(0 .. 255) /\ Len(w \o u) = Len(w) + Len(u)
        /\ \A i \in 1 .. Len(w) + Len(u) : (w \o u)[i] = IF i <= Len(w) THEN w[i] ELSE u[i - Len(w)]
    BY ConcatBytes
  <2> QED BY <1>5, <2>1
<1>3. v \o u \in Seq(0 .. 255) /\ Len(v \o u) = 7 /\ (v \o u)[3] = 4
  BY <1>2, <1>4, <1>5, Zenon
<1> QED BY <1>2, <1>3, Zenon

LEMMA AnswerFacts ==
  ASSUME NEW n \in Commands, NEW status \in {0, 1}
  PROVE  IsAnswer(CommandComplete(n, status))
<1>1. Opcode(n) \in (0 .. 255) \X (0 .. 255)
  BY DEF Opcode, Commands, Settings
<1>2. \A b \in (0 .. 255) \X (0 .. 255) : b = <<b[1], b[2]>> /\ b[1] \in 0 .. 255 /\ b[2] \in 0 .. 255
  OBVIOUS
<1>3. ASSUME NEW x \in 0 .. 255, NEW y \in 0 .. 255
      PROVE  <<x, y>> \in Bytes /\ Len(<<x, y>>) = 2
  BY DEF Bytes
<1>4. Opcode(n) \in Bytes /\ Len(Opcode(n)) = 2
  <2>1. PICK x \in 0 .. 255, y \in 0 .. 255 : Opcode(n) = <<x, y>>
    <3>1. PICK b \in (0 .. 255) \X (0 .. 255) : Opcode(n) = b
      BY <1>1, Zenon
    <3>2. b = <<b[1], b[2]>> /\ b[1] \in 0 .. 255 /\ b[2] \in 0 .. 255
      BY <1>2, Zenon
    <3>3. \E x \in 0 .. 255, y \in 0 .. 255 : b = <<x, y>>
      BY <3>2, Zenon
    <3> QED BY <3>1, <3>3, Zenon
  <2> QED BY <1>3, <2>1, Zenon
<1>5. /\ <<4, 14, 4, 1>> \in Bytes /\ Len(<<4, 14, 4, 1>>) = 4
      /\ <<4, 14, 4, 1>>[3] = 4
  BY DEF Bytes
<1>6. <<status>> \in Bytes /\ Len(<<status>>) = 1
  BY DEF Bytes
<1>7. Composes(<<4, 14, 4, 1>>, Opcode(n), <<status>>)
  BY <1>4, <1>5, <1>6, AnswersCompose, Zenon
<1> QED BY <1>4, <1>5, <1>6, <1>7, Zenon DEF CommandComplete, Composes

(* What the chip sends back, if host and chip are at one speed.            *)
More(name) == IF name = "minidriver" /\ chip.old THEN <<0, 0>> ELSE << >>

LEMMA ChipAnswersFacts ==
  ASSUME TypeInv, NEW n \in Commands, NEW p, NEW status \in {0, 1}, NEW m \in {<< >>, <<0, 0>>},
         ChipAnswers(n, p, status, m)
  PROVE  /\ rx' \in Bytes /\ garbled' \in BOOLEAN
         /\ tx' = Tail(tx) /\ UNCHANGED hostVars
<1>1. rx \in Bytes /\ m \in Bytes
  <2>1. rx \in Bytes
    BY DEF TypeInv, Bytes
  <2>2. << >> \in Bytes /\ <<0, 0>> \in Bytes
    BY DEF Bytes
  <2> QED BY <2>1, <2>2
<1>2. CommandComplete(n, status) \in Bytes
  BY AnswerFacts DEF IsAnswer
<1>3. \A s, t \in Bytes : s \o t \in Bytes
  BY ConcatBytes DEF Bytes
<1>4. (rx \o CommandComplete(n, status)) \o m \in Bytes
  BY <1>1, <1>2, <1>3, Zenon
<1>5. rx' \in Bytes
  BY <1>1, <1>4, Zenon DEF ChipAnswers
<1>6. garbled' \in BOOLEAN
  BY Zenon DEF ChipAnswers
<1> QED BY <1>5, <1>6 DEF ChipAnswers

LEMMA ChipExecutesTypes ==
  ASSUME TypeInv, ChipExecutes
  PROVE  /\ TypeInv'
         /\ tx # << >> /\ Head(tx) \in Message /\ tx' = Tail(tx) /\ UNCHANGED hostVars
         /\ done' = done \/ done' = Append(done, Head(tx))
<1>1. tx # << >> /\ Head(tx) \in Message /\ Tail(tx) \in Seq(Message)
  BY HeadTailProperties DEF TypeInv, ChipExecutes
<1> DEFINE n == Head(tx)[1]
           p == Head(tx)[2]
<1>2. Head(tx) = <<n, p>> /\ n \in Commands
  BY <1>1 DEF Message
<1> HIDE DEF n, p
<1>3. CASE /\ Accepts(n, p) /\ chip' = Effect(chip, n, p) /\ done' = Append(done, <<n, p>>)
           /\ ChipAnswers(n, p, 0, IF n = "minidriver" /\ chip.old THEN <<0, 0>> ELSE << >>)
  <2>1. chip' \in Chip
    BY <1>1, <1>2, <1>3, EffectIsChip DEF TypeInv
  <2>2. done' = Append(done, Head(tx)) /\ done' \in Seq(Message)
    BY <1>1, <1>2, <1>3, AppendProperties DEF TypeInv
  <2>3. rx' \in Bytes /\ garbled' \in BOOLEAN /\ tx' = Tail(tx) /\ UNCHANGED hostVars
    BY <1>2, <1>3, ChipAnswersFacts
  <2> QED BY <1>1, <2>1, <2>2, <2>3 DEF TypeInv, hostVars, fileVars, Bytes, Begun
<1>4. CASE /\ Rejects(n, p) /\ UNCHANGED done /\ chip' = [chip EXCEPT !.rejected = TRUE]
           /\ ChipAnswers(n, p, 1, << >>)
  <2>1. chip' \in Chip
    BY <1>4 DEF TypeInv, Chip
  <2>3. rx' \in Bytes /\ garbled' \in BOOLEAN /\ tx' = Tail(tx) /\ UNCHANGED hostVars
    BY <1>2, <1>4, ChipAnswersFacts
  <2> QED BY <1>1, <1>4, <2>1, <2>3 DEF TypeInv, hostVars, fileVars, Bytes, Begun
<1>5. CASE Spoils(n, p) /\ UNCHANGED <<done, chip>> /\ ChipAnswers(n, p, 0, << >>)
  <2>1. rx' \in Bytes /\ garbled' \in BOOLEAN /\ tx' = Tail(tx) /\ UNCHANGED hostVars
    BY <1>2, <1>5, ChipAnswersFacts
  <2> QED BY <1>1, <1>5, <2>1 DEF TypeInv, hostVars, fileVars, Bytes, Begun
<1> QED BY <1>3, <1>4, <1>5 DEF ChipExecutes, n, p

LEMMA RestOfLineTypes ==
  ASSUME TypeInv, expired \/ ChipBoots \/ LineGoes
  PROVE  TypeInv'
<1>1. CASE expired
  <2>1. <<"reset", 0>> \in Message
    BY DEF Message, Commands
  <2>2. tx' \in Seq(Message) /\ garbled' \in BOOLEAN /\ UNCHANGED <<rx, chip, done>>
    BY <1>1, <2>1, SendTypes DEF expired
  <2>3. alarm' \in {"off", "set", "raised", "stray"}
    BY <1>1 DEF expired, TypeInv
  <2> QED BY <1>1, <2>2, <2>3 DEF expired, TypeInv, fileVars, Begun
<1>2. CASE ChipBoots
  <2>1. chip' \in Chip
    BY <1>2 DEF ChipBoots, TypeInv, Chip
  <2> QED BY <1>2, <2>1 DEF ChipBoots, TypeInv, hostVars, fileVars, Begun
<1>3. CASE LineGoes
  <2>1. chip' \in Chip
    BY <1>3 DEF LineGoes, TypeInv, Chip
  <2>2. << >> \in Seq(Message) /\ << >> \in Seq(0 .. 255)
    BY EmptySeq
  <2> QED BY <1>3, <2>1, <2>2 DEF LineGoes, TypeInv, hostVars, fileVars, Begun
<1> QED BY <1>1, <1>2, <1>3

LEMMA InitTypes == Init => TypeInv
<1> SUFFICES ASSUME Init PROVE TypeInv
  OBVIOUS
<1>1. << >> \in Seq(Calls) /\ << >> \in Seq(Message) /\ << >> \in Seq(0 .. 255)
  BY EmptySeq
<1>2. rx \in Seq(0 .. 255)
  <2>1. <<4, 14, 4>> \in Seq(0 .. 255)
    OBVIOUS
  <2> QED BY <1>1, <2>1 DEF Init
<1>3. args \in Scenario
  BY ConstantFacts DEF Init
<1>4. chip \in Chip
  <2>1. (\A i \in DOMAIN args.options : args.options[i][1] # "no2bytes") \in BOOLEAN
    OBVIOUS
  <2>2. PICK awake \in BOOLEAN :
          chip = [awake |-> awake, speed |-> Default, mode |-> "rom", settings |-> {},
                  addr |-> NoAddress, attached |-> FALSE, rejected |-> FALSE, gone |-> FALSE,
                  old |-> \A i \in DOMAIN args.options : args.options[i][1] # "no2bytes"]
    BY DEF Init
  <2> QED BY <2>1, <2>2, RatesAreNumbers DEF Chip
<1>5. opts \in Globals
  BY DefaultsAreGlobals DEF Init
<1>6. records \in 0 .. Begun /\ inside \in BOOLEAN
  <2>1. Begun \in Nat
    BY <1>3, ConstantFacts DEF Scenario, Begun
  <2>2. records = 0 /\ inside = FALSE
    BY DEF Init
  <2>3. records \in 0 .. Begun
    BY <2>1, <2>2
  <2>4. inside \in BOOLEAN
    BY <2>2, Zenon
  <2> QED BY <2>3, <2>4
<1>7. /\ phase = "options" /\ code = 0 /\ todo = << >> /\ len = 0 /\ alarm = "off"
      /\ speed = Default /\ tx = << >> /\ done = << >> /\ garbled = FALSE
  BY DEF Init
<1>8. code \in 0 .. 5 /\ len \in 0 .. 255
  BY <1>7
<1>9. speed \in baud_rates
  BY <1>7, RatesAreNumbers
<1> QED BY <1>1, <1>2, <1>3, <1>4, <1>5, <1>6, <1>7, <1>8, <1>9, Zenon DEF TypeInv

LEMMA NextTypes == TypeInv /\ [Next]_vars => TypeInv'
<1> SUFFICES ASSUME TypeInv, [Next]_vars PROVE TypeInv'
  OBVIOUS
<1>1. CASE UNCHANGED vars
  BY <1>1 DEF vars, hostVars, fileVars, lineVars, TypeInv, Begun
<1>2. CASE Next
  BY <1>2, ParseOptionTypes, SendCommandTypes, ReadTypes, RecordHeaderTypes, RecordPayloadTypes,
     RestOfMainTypes,
     ChipExecutesTypes, RestOfLineTypes DEF Next, HostStep
<1> QED BY <1>1, <1>2

LEMMA TypeInvariant == Spec => []TypeInv
  BY InitTypes, NextTypes, PTL DEF Spec

(* Every variable keeps its type: nothing main can do is anything but the  *)
(* system calls the program has, every command on the line is one of the   *)
(* program's, both ends are always at a speed that exists, and however the *)
(* reads of the file fail, no more records are begun than it has.          *)
THEOREM TypesHold == Spec => []TypeOK
<1>1. TypeInv => TypeOK
  <2> SUFFICES ASSUME TypeInv PROVE TypeOK
    OBVIOUS
  <2>1. opts.hcdfile_fd >= -1 /\ opts.termios_baudrate \in baud_rates \cup {0}
    BY DEF TypeInv, Globals
  <2>2. \A i \in DOMAIN tx : tx[i][1] \in Commands
    BY LenProperties, ElementOfSeq DEF TypeInv, Message
  <2>3. \A i \in DOMAIN rx : rx[i] \in 0 .. 255
    BY LenProperties, ElementOfSeq DEF TypeInv
  <2>4. \A i \in DOMAIN todo : todo[i][1] = "send" => todo[i][2] \in Commands
    <3>1. \A i \in DOMAIN todo : todo[i] \in Calls
      BY LenProperties, ElementOfSeq DEF TypeInv
    <3>2. \A c \in Calls : c[1] = "send" => c[2] \in Commands
      BY DEF Calls, SendsWell
    <3> QED BY <3>1, <3>2
  <2>5. chip.speed \in baud_rates
    BY DEF TypeInv, Chip
  <2> QED BY <2>1, <2>2, <2>3, <2>4, <2>5 DEF TypeInv, TypeOK
<1> QED BY <1>1, TypeInvariant, PTL
-----------------------------------------------------------------------------
(* The course of main: an alarm that is set is due only while the answer   *)
(* to a reset is awaited, and nothing is set before the address is.        *)

(* What the program meets does not change. *)
LEMMA FaultsStay ==
  ASSUME TypeInv, [Next]_vars
  PROVE  /\ args'.faults = args.faults /\ args'.file = args.file /\ args'.punctual = args.punctual
         /\ \A f : Fails(f)' <=> Fails(f)
<1>1. args'.faults = args.faults /\ args'.file = args.file /\ args'.punctual = args.punctual
  <2>1. CASE ParseOption
    BY <2>1 DEF ParseOption, TypeInv, Scenario
  <2>2. CASE ~ParseOption
    BY <2>2 DEF Next, HostStep, OpenDevice, init_uart, SendCommand, SetAlarm, ReadHeader, ReadBody, OnlyMain,
       ReadTwoBytes, ReadRecordHeader, ReadRecordPayload, SetSpeed, proc_enable_hci, Finish, expired,
       ChipExecutes, ChipAnswers, ChipBoots, LineGoes, hostVars, vars
  <2> QED BY <2>1, <2>2
<1> QED BY <1>1 DEF Fails

LEMMA CallParts ==
  /\ \A op : Call(op)[1] = op
  /\ \A n, p : Send(n, p)[1] = "send"
  /\ \A n, p : Send(n, p)[2] = n
  /\ \A n, p : Send(n, p)[3] = p
  /\ \A r : Payload(r)[1] = "payload"
  /\ \A r : Payload(r)[3] = r
  /\ \A b : Speed(b)[1] = "speed"
  /\ \A b : Speed(b)[3] = b
  BY DEF Call, Send, Speed, Payload

(* What a call of main tells of its place, and where it leads.             *)
Doings(k, w) ==
  /\ Does("send") =>
       \/ /\ w = "start" /\ k \in Commanding /\ Head(todo) = Send(Name(k), Par(k, opts))
          /\ At(Tail(todo), k, IF k \in Resets THEN "armed" ELSE "header", opts)
       \/ /\ w = "send" /\ k = 6 /\ \E r \in 1 .. Records + 1 : Head(todo) = Send("write_ram", r)
          /\ At(Tail(todo), k, "header", opts)
  /\ Does("alarm_on") => w = "armed" /\ k \in Resets /\ At(Tail(todo), k, "header", opts)
  /\ Does("header") => w = "header" /\ k \in Commanding \cup {6} /\ At(Tail(todo), k, "body", opts)
  /\ Does("body") =>
       /\ w = "body" /\ k \in Commanding \cup {6}
       /\ k \in Resets => At(Tail(todo), k, "off", opts)
       /\ k = 6 => At(Tail(todo), 6, "start", opts)
       /\ k \in Commanding \ Resets => At(Tail(todo), k + 1, "start", opts)
  /\ Does("alarm_off") => w = "off" /\ k \in Resets /\ At(Tail(todo), k + 1, "start", opts)
  /\ Does("speed") =>
       /\ w = "start" /\ k \in {3, 7, 10} /\ At(Tail(todo), k + 1, "start", opts)
       /\ Head(todo)[3] = IF k = 7 THEN Default ELSE opts.termios_baudrate
  /\ Does("two") => w = "start" /\ k = 5 /\ At(Tail(todo), k + 1, "start", opts)
  /\ Does("record") => w = "start" /\ k = 6 /\ At(Tail(todo), k + 1, "start", opts)
  /\ Does("payload") =>
       /\ w = "payload" /\ k = 6 /\ \E r \in 1 .. Records + 1 : Head(todo) = Payload(r)
       /\ At(Tail(todo), 6, "start", opts)
  /\ Does("ldisc") => w = "start" /\ k = 16 /\ At(Tail(todo), k + 1, "start", opts)
  /\ todo = << >> => w = "start" /\ k = Last
LEMMA Doing ==
  ASSUME TypeInv, phase = "main", NEW k, NEW w, Standing(todo, k, w, opts)
  PROVE  Doings(k, w)
<1>1. opts \in Globals
  BY DEF TypeInv
<1> HIDE DEF Standing
<1>2. CASE w = "start" /\ k = Last /\ todo = << >>
  BY <1>2 DEF Does, Doings
<1>3. CASE /\ w = "start" /\ k \in Commanding /\ todo # << >> /\ Head(todo) = Send(Name(k), Par(k, opts))
           /\ At(Tail(todo), k, IF k \in Resets THEN "armed" ELSE "header", opts)
  <2>1. Head(todo)[1] = "send"
    BY <1>3, CallParts
  <2>2. /\ ~Does("alarm_on") /\ ~Does("header") /\ ~Does("body") /\ ~Does("alarm_off")
        /\ ~Does("speed") /\ ~Does("two") /\ ~Does("record") /\ ~Does("payload") /\ ~Does("ldisc")
    BY <2>1 DEF Does
  <2> QED BY <1>3, <2>2, Zenon DEF Doings
<1>4. CASE /\ w = "send" /\ k = 6 /\ todo # << >> /\ \E r \in 1 .. Records + 1 : Head(todo) = Send("write_ram", r)
           /\ At(Tail(todo), k, "header", opts)
  <2>1. Head(todo)[1] = "send"
    BY <1>4, CallParts
  <2>2. /\ ~Does("alarm_on") /\ ~Does("header") /\ ~Does("body") /\ ~Does("alarm_off")
        /\ ~Does("speed") /\ ~Does("two") /\ ~Does("record") /\ ~Does("payload") /\ ~Does("ldisc")
    BY <2>1 DEF Does
  <2> QED BY <1>4, <2>2, Zenon DEF Doings
<1>5. CASE /\ w = "armed" /\ k \in Resets /\ todo # << >> /\ Head(todo) = Call("alarm_on")
           /\ At(Tail(todo), k, "header", opts)
  <2>1. Head(todo)[1] = "alarm_on"
    BY <1>5, CallParts, Zenon
  <2>2. /\ ~Does("send") /\ ~Does("header") /\ ~Does("body") /\ ~Does("alarm_off")
        /\ ~Does("speed") /\ ~Does("two") /\ ~Does("record") /\ ~Does("payload") /\ ~Does("ldisc")
    BY <2>1 DEF Does
  <2> QED BY <1>5, <2>2, Zenon DEF Doings
<1>6. CASE /\ w = "header" /\ k \in Commanding \cup {6} /\ todo # << >> /\ Head(todo) = Call("header")
           /\ At(Tail(todo), k, "body", opts)
  <2>1. Head(todo)[1] = "header"
    BY <1>6, CallParts, Zenon
  <2>2. /\ ~Does("send") /\ ~Does("alarm_on") /\ ~Does("body") /\ ~Does("alarm_off")
        /\ ~Does("speed") /\ ~Does("two") /\ ~Does("record") /\ ~Does("payload") /\ ~Does("ldisc")
    BY <2>1 DEF Does
  <2> QED BY <1>6, <2>2, Zenon DEF Doings
<1>7. CASE /\ w = "body" /\ k \in Commanding \cup {6} /\ todo # << >> /\ Head(todo) = Call("body")
           /\ k \in Resets => At(Tail(todo), k, "off", opts)
           /\ k = 6 => At(Tail(todo), 6, "start", opts)
           /\ k \in Commanding \ Resets => At(Tail(todo), k + 1, "start", opts)
  <2>1. Head(todo)[1] = "body"
    BY <1>7, CallParts, Zenon
  <2>2. /\ ~Does("send") /\ ~Does("alarm_on") /\ ~Does("header") /\ ~Does("alarm_off")
        /\ ~Does("speed") /\ ~Does("two") /\ ~Does("record") /\ ~Does("payload") /\ ~Does("ldisc")
    BY <2>1 DEF Does
  <2> QED BY <1>7, <2>2, Zenon DEF Doings
<1>8. CASE /\ w = "off" /\ k \in Resets /\ todo # << >> /\ Head(todo) = Call("alarm_off")
           /\ At(Tail(todo), k + 1, "start", opts)
  <2>1. Head(todo)[1] = "alarm_off"
    BY <1>8, CallParts, Zenon
  <2>2. /\ ~Does("send") /\ ~Does("alarm_on") /\ ~Does("header") /\ ~Does("body")
        /\ ~Does("speed") /\ ~Does("two") /\ ~Does("record") /\ ~Does("payload") /\ ~Does("ldisc")
    BY <2>1 DEF Does
  <2> QED BY <1>8, <2>2, Zenon DEF Doings
<1>9. CASE /\ w = "start" /\ k \in {3, 10} /\ todo # << >> /\ Head(todo) = Speed(opts.termios_baudrate)
           /\ At(Tail(todo), k + 1, "start", opts)
  <2>1. Head(todo)[1] = "speed" /\ Head(todo)[3] = opts.termios_baudrate
    BY <1>9, CallParts, Zenon
  <2>2. /\ ~Does("send") /\ ~Does("alarm_on") /\ ~Does("header") /\ ~Does("body")
        /\ ~Does("alarm_off") /\ ~Does("two") /\ ~Does("record") /\ ~Does("payload") /\ ~Does("ldisc")
    BY <2>1 DEF Does
  <2>3. k \in {3, 7, 10} /\ Head(todo)[3] = IF k = 7 THEN Default ELSE opts.termios_baudrate
    BY <1>9, <2>1
  <2> QED BY <1>9, <2>2, <2>3, Zenon DEF Doings
<1>10. CASE /\ w = "start" /\ k = 7 /\ todo # << >> /\ Head(todo) = Speed(Default)
            /\ At(Tail(todo), k + 1, "start", opts)
  <2>1. Head(todo)[1] = "speed" /\ Head(todo)[3] = Default
    BY <1>10, CallParts, Zenon
  <2>2. /\ ~Does("send") /\ ~Does("alarm_on") /\ ~Does("header") /\ ~Does("body")
        /\ ~Does("alarm_off") /\ ~Does("two") /\ ~Does("record") /\ ~Does("payload") /\ ~Does("ldisc")
    BY <2>1 DEF Does
  <2>3. k \in {3, 7, 10} /\ Head(todo)[3] = IF k = 7 THEN Default ELSE opts.termios_baudrate
    BY <1>10, <2>1
  <2> QED BY <1>10, <2>2, <2>3, Zenon DEF Doings
<1>11. CASE /\ w = "start" /\ k = 5 /\ todo # << >> /\ Head(todo) = Call("two")
            /\ At(Tail(todo), k + 1, "start", opts)
  <2>1. Head(todo)[1] = "two"
    BY <1>11, CallParts, Zenon
  <2>2. /\ ~Does("send") /\ ~Does("alarm_on") /\ ~Does("header") /\ ~Does("body")
        /\ ~Does("alarm_off") /\ ~Does("speed") /\ ~Does("record") /\ ~Does("payload") /\ ~Does("ldisc")
    BY <2>1 DEF Does
  <2> QED BY <1>11, <2>2, Zenon DEF Doings
<1>12. CASE /\ w = "start" /\ k = 6 /\ todo # << >> /\ Head(todo) = Call("record")
            /\ At(Tail(todo), k + 1, "start", opts)
  <2>1. Head(todo)[1] = "record"
    BY <1>12, CallParts, Zenon
  <2>2. /\ ~Does("send") /\ ~Does("alarm_on") /\ ~Does("header") /\ ~Does("body")
        /\ ~Does("alarm_off") /\ ~Does("speed") /\ ~Does("two") /\ ~Does("payload") /\ ~Does("ldisc")
    BY <2>1 DEF Does
  <2> QED BY <1>12, <2>2, Zenon DEF Doings
<1>13. CASE /\ w = "start" /\ k = 16 /\ todo # << >> /\ Head(todo) = Call("ldisc")
            /\ At(Tail(todo), k + 1, "start", opts)
  <2>1. Head(todo)[1] = "ldisc"
    BY <1>13, CallParts, Zenon
  <2>2. /\ ~Does("send") /\ ~Does("alarm_on") /\ ~Does("header") /\ ~Does("body")
        /\ ~Does("alarm_off") /\ ~Does("speed") /\ ~Does("two") /\ ~Does("record") /\ ~Does("payload")
    BY <2>1 DEF Does
  <2> QED BY <1>13, <2>2, Zenon DEF Doings
<1>15. CASE /\ w = "payload" /\ k = 6 /\ todo # << >> /\ \E r \in 1 .. Records + 1 : Head(todo) = Payload(r)
            /\ At(Tail(todo), 6, "start", opts)
  <2>1. Head(todo)[1] = "payload"
    BY <1>15, CallParts
  <2>2. /\ ~Does("send") /\ ~Does("alarm_on") /\ ~Does("header") /\ ~Does("body")
        /\ ~Does("alarm_off") /\ ~Does("speed") /\ ~Does("two") /\ ~Does("record") /\ ~Does("ldisc")
    BY <2>1 DEF Does
  <2> QED BY <1>15, <2>2, Zenon DEF Doings
<1>14. \/ w = "start" /\ k = Last /\ todo = << >>
       \/ /\ w = "start" /\ k \in Commanding /\ todo # << >> /\ Head(todo) = Send(Name(k), Par(k, opts))
          /\ At(Tail(todo), k, IF k \in Resets THEN "armed" ELSE "header", opts)
       \/ /\ w = "payload" /\ k = 6 /\ todo # << >> /\ \E r \in 1 .. Records + 1 : Head(todo) = Payload(r)
          /\ At(Tail(todo), 6, "start", opts)
       \/ /\ w = "send" /\ k = 6 /\ todo # << >> /\ \E r \in 1 .. Records + 1 : Head(todo) = Send("write_ram", r)
          /\ At(Tail(todo), k, "header", opts)
       \/ /\ w = "armed" /\ k \in Resets /\ todo # << >> /\ Head(todo) = Call("alarm_on")
          /\ At(Tail(todo), k, "header", opts)
       \/ /\ w = "header" /\ k \in Commanding \cup {6} /\ todo # << >> /\ Head(todo) = Call("header")
          /\ At(Tail(todo), k, "body", opts)
       \/ /\ w = "body" /\ k \in Commanding \cup {6} /\ todo # << >> /\ Head(todo) = Call("body")
          /\ k \in Resets => At(Tail(todo), k, "off", opts)
          /\ k = 6 => At(Tail(todo), 6, "start", opts)
          /\ k \in Commanding \ Resets => At(Tail(todo), k + 1, "start", opts)
       \/ /\ w = "off" /\ k \in Resets /\ todo # << >> /\ Head(todo) = Call("alarm_off")
          /\ At(Tail(todo), k + 1, "start", opts)
       \/ /\ w = "start" /\ k \in {3, 10} /\ todo # << >> /\ Head(todo) = Speed(opts.termios_baudrate)
          /\ At(Tail(todo), k + 1, "start", opts)
       \/ /\ w = "start" /\ k = 7 /\ todo # << >> /\ Head(todo) = Speed(Default)
          /\ At(Tail(todo), k + 1, "start", opts)
       \/ /\ w = "start" /\ k = 5 /\ todo # << >> /\ Head(todo) = Call("two")
          /\ At(Tail(todo), k + 1, "start", opts)
       \/ /\ w = "start" /\ k = 6 /\ todo # << >> /\ Head(todo) = Call("record")
          /\ At(Tail(todo), k + 1, "start", opts)
       \/ /\ w = "start" /\ k = 16 /\ todo # << >> /\ Head(todo) = Call("ldisc")
          /\ At(Tail(todo), k + 1, "start", opts)
  BY <1>1, Moves
<1> QED BY <1>2, <1>3, <1>4, <1>5, <1>6, <1>7, <1>8, <1>9, <1>10, <1>11, <1>12, <1>13, <1>14, <1>15

(* From a place between two blocks main goes on to one that is given.      *)
LEMMA Settles ==
  ASSUME NEW g \in Globals, NEW K \in SUBSET (1 .. Last), K # {},
         \A j \in K : j # Last /\ ~Given(j, g) => j + 1 \in K
  PROVE  \E j \in K : j = Last \/ Given(j, g)
<1> SUFFICES ASSUME \A j \in K : j # Last /\ ~Given(j, g)
             PROVE  FALSE
  OBVIOUS
<1>1. \A j \in K : j \in 1 .. 17 /\ j # 17 /\ j + 1 \in K
  BY DEF Last
<1>2. 17 \notin K /\ 16 \notin K /\ 15 \notin K /\ 14 \notin K
  BY <1>1
<1>3. 13 \notin K /\ 12 \notin K /\ 11 \notin K /\ 10 \notin K
  BY <1>1, <1>2
<1>4. 9 \notin K /\ 8 \notin K /\ 7 \notin K /\ 6 \notin K
  BY <1>1, <1>3
<1>5. 5 \notin K /\ 4 \notin K /\ 3 \notin K /\ 2 \notin K /\ 1 \notin K
  BY <1>1, <1>4
<1>6. PICK j \in K : j \in 1 .. 17
  BY <1>1
<1>7. j \in {1, 2, 3, 4, 5, 6, 7, 8, 9, 10, 11, 12, 13, 14, 15, 16, 17}
  BY <1>6
<1> QED BY <1>2, <1>3, <1>4, <1>5, <1>6, <1>7, Zenon

LEMMA Skips ==
  ASSUME NEW g \in Globals, NEW t, NEW k \in 1 .. 16, ~Given(k, g), At(t, k, "start", g)
  PROVE  At(t, k + 1, "start", g)
<1>1. t = Rest(k, g)
  BY DEF At
<1>2. Rest(k, g) = Part(k, g) \o Rest(k + 1, g) /\ Rest(k + 1, g) \in Seq(Calls)
  BY RestUnfolds, RestIsSeq
<1>3. Part(k, g) = << >>
  BY DEF Part, When
<1>4. Rest(k, g) = Rest(k + 1, g)
  BY <1>2, <1>3, ConcatEmptySeq
<1> QED BY <1>1, <1>4 DEF At

LEMMA GoesOn ==
  ASSUME NEW g \in Globals, NEW t, NEW k \in 1 .. Last, At(t, k, "start", g)
  PROVE  \E j \in k .. Last : Standing(t, j, "start", g)
<1> DEFINE K == {j \in k .. Last : At(t, j, "start", g)}
<1>1. K \in SUBSET (1 .. Last) /\ k \in K
  BY DEF Last
<1>2. \A j \in K : j # Last /\ ~Given(j, g) => j + 1 \in K
  <2> SUFFICES ASSUME NEW j \in K, j # Last, ~Given(j, g) PROVE j + 1 \in K
    OBVIOUS
  <2>1. j \in 1 .. 16 /\ j + 1 \in k .. Last
    BY DEF Last
  <2>2. At(t, j + 1, "start", g)
    BY <2>1, Skips
  <2> QED BY <2>1, <2>2
<1>3. PICK j \in K : j = Last \/ Given(j, g)
  <2> HIDE DEF K
  <2> QED BY <1>1, <1>2, Settles
<1>4. Standing(t, j, "start", g)
  BY <1>1, <1>3 DEF Standing, Where
<1> QED BY <1>3, <1>4

(* The steps that leave main where it is, and those that move it.          *)
Stays == UNCHANGED <<todo, opts>> /\ (expired \/ ChipExecutes \/ ChipBoots \/ LineGoes \/ UNCHANGED vars)
Sends(k, w) ==
  /\ SendCommand /\ w = "start" /\ k \in Commanding /\ Head(todo) = Send(Name(k), Par(k, opts))
  /\ Standing(todo', k, IF k \in Resets THEN "armed" ELSE "header", opts')
SendsRecord(k, w) ==
  /\ SendCommand /\ w = "send" /\ k = 6
  /\ \E r \in 1 .. Records + 1 : Head(todo) = Send("write_ram", r)
  /\ Standing(todo', 6, "header", opts')
Arms(k, w) ==
  /\ SetAlarm /\ alarm' = "set" /\ w = "armed" /\ k \in Resets /\ Standing(todo', k, "header", opts')
Disarms(k, w) ==
  /\ SetAlarm /\ w = "off" /\ k \in Resets
  /\ alarm' = "off" \/ (alarm' = "raised" /\ Fails("alarm_race"))
  /\ k + 1 \in 1 .. Last /\ At(todo', k + 1, "start", opts')
GetsHeader(k, w) ==
  /\ ReadHeader /\ w = "header" /\ k \in Commanding \cup {6} /\ Standing(todo', k, "body", opts')
GetsBody(k, w) ==
  /\ ReadBody /\ w = "body"
  /\ \/ k \in Resets /\ Standing(todo', k, "off", opts')
     \/ k = 6 /\ At(todo', 6, "start", opts')
     \/ k \in Commanding \ Resets /\ k + 1 \in 1 .. Last /\ At(todo', k + 1, "start", opts')
Passes(k, w) ==
  /\ w = "start" /\ k + 1 \in 1 .. Last /\ At(todo', k + 1, "start", opts')
  /\ \/ ReadTwoBytes /\ k = 5
     \/ SetSpeed /\ k \in {3, 7, 10} /\ speed' = IF k = 7 THEN Default ELSE opts.termios_baudrate
     \/ ReadRecordHeader /\ k = 6 /\ todo' = Tail(todo) /\ UNCHANGED fileVars /\ ~inside /\ records = Begun
     \/ proc_enable_hci /\ k = 16
FindsRecord(k, w) ==
  /\ ReadRecordHeader /\ w = "start" /\ k = 6 /\ Standing(todo', 6, "payload", opts')
  /\ \E r \in 1 .. Records + 1 :
       /\ Head(todo') = Payload(r)
       /\ r = Corrupt \/ (r = records + 1 /\ records < args.file.whole)
       /\ \/ records' = records + 1 /\ ~inside /\ records < Begun
             /\ (r = Corrupt => args.file.whole <= records)
          \/ records' = records /\ r = Corrupt /\ (inside \/ Fails("hcd_read"))
TakesRecord(k, w) ==
  /\ ReadRecordPayload /\ w = "payload" /\ k = 6 /\ Standing(todo', 6, "send", opts')
  /\ records <= records'
  /\ \E r, n \in 1 .. Records + 1 :
       /\ Head(todo) = Payload(r) /\ Head(todo') = Send("write_ram", n)
       /\ \/ n = r /\ n # Corrupt /\ records' = records /\ inside' = FALSE
          \/ n = Corrupt /\ (r = Corrupt \/ Fails("hcd_read"))
MainSteps(k, w) ==
  \/ Stays \/ Sends(k, w) \/ SendsRecord(k, w) \/ Arms(k, w) \/ Disarms(k, w)
  \/ GetsHeader(k, w) \/ GetsBody(k, w) \/ Passes(k, w)
  \/ FindsRecord(k, w) \/ TakesRecord(k, w)

LEMMA Stands ==
  ASSUME NEW g \in Globals, NEW t, NEW k \in 1 .. 16, NEW w \in Where \ {"start"}, At(t, k, w, g)
  PROVE  Standing(t, k, w, g)
  BY DEF Standing, Last

LEMMA MainStep ==
  ASSUME TypeInv, [Next]_vars, phase = "main", phase' = "main",
         NEW k, NEW w, Standing(todo, k, w, opts)
  PROVE  MainSteps(k, w)
<1>1. Doings(k, w)
  BY Doing
<1>2. opts \in Globals /\ k \in 1 .. Last
  BY DEF TypeInv, Standing
<1>3. k \in Commanding \cup {6} \cup {3, 5, 7, 10, 16} => k \in 1 .. 16 /\ k + 1 \in 1 .. Last
  BY DEF Commanding, Last
<1>4. Resets \subseteq Commanding
  BY DEF Resets, Commanding
<1>5. ASSUME OnlyMain, NEW j \in 1 .. 16, NEW v \in Where \ {"start"}, At(todo', j, v, opts)
      PROVE  Standing(todo', j, v, opts')
  BY <1>2, <1>5, Stands DEF OnlyMain
<1>6. {"armed", "header", "body", "off", "send", "payload"} \subseteq Where \ {"start"}
  BY DEF Where
<1>7. CASE SendCommand
  <2>1. Does("send") /\ todo' = Tail(todo) /\ OnlyMain
    BY <1>7 DEF SendCommand, Proceed
  <2>2. CASE /\ w = "start" /\ k \in Commanding /\ Head(todo) = Send(Name(k), Par(k, opts))
             /\ At(Tail(todo), k, IF k \in Resets THEN "armed" ELSE "header", opts)
    <3>1. CASE k \in Resets
      <4>1. Standing(todo', k, "armed", opts')
        BY <1>3, <1>5, <1>6, <2>1, <2>2, <3>1
      <4> QED BY <1>7, <2>2, <3>1, <4>1 DEF MainSteps, Sends
    <3>2. CASE k \notin Resets
      <4>1. Standing(todo', k, "header", opts')
        BY <1>3, <1>5, <1>6, <2>1, <2>2, <3>2
      <4> QED BY <1>7, <2>2, <3>2, <4>1 DEF MainSteps, Sends
    <3> QED BY <3>1, <3>2
  <2>3. CASE /\ w = "send" /\ k = 6 /\ \E r \in 1 .. Records + 1 : Head(todo) = Send("write_ram", r)
             /\ At(Tail(todo), k, "header", opts)
    <3>1. Standing(todo', 6, "header", opts')
      BY <1>3, <1>5, <1>6, <2>1, <2>3
    <3> QED BY <1>7, <2>3, <3>1 DEF MainSteps, SendsRecord
  <2> QED BY <1>1, <2>1, <2>2, <2>3 DEF Doings
<1>8. CASE SetAlarm
  <2>1. todo' = Tail(todo) /\ OnlyMain
    BY <1>8 DEF SetAlarm, Proceed
  <2>2. CASE Does("alarm_on")
    <3>1. w = "armed" /\ k \in Resets /\ At(todo', k, "header", opts)
      BY <1>1, <2>1, <2>2 DEF Doings
    <3>2. Standing(todo', k, "header", opts')
      BY <1>3, <1>4, <1>5, <1>6, <2>1, <3>1
    <3>3. alarm' = "set"
      BY <1>8, <2>2 DEF SetAlarm, Does
    <3> QED BY <1>8, <3>1, <3>2, <3>3 DEF MainSteps, Arms
  <2>3. CASE Does("alarm_off")
    <3>1. w = "off" /\ k \in Resets /\ At(todo', k + 1, "start", opts)
      BY <1>1, <2>1, <2>3 DEF Doings
    <3>2. ~Does("alarm_on")
      BY <2>3 DEF Does
    <3>3. alarm' = "off" \/ (alarm' = "raised" /\ Fails("alarm_race"))
      BY <1>8, <3>2 DEF SetAlarm
    <3> QED BY <1>3, <1>4, <1>8, <2>1, <3>1, <3>3 DEF MainSteps, Disarms, OnlyMain
  <2> QED BY <1>8, <2>2, <2>3 DEF SetAlarm
<1>9. CASE ReadHeader
  <2>1. Does("header") /\ todo' = Tail(todo) /\ OnlyMain
    BY <1>9 DEF ReadHeader, Proceed
  <2>2. w = "header" /\ k \in Commanding \cup {6} /\ At(todo', k, "body", opts)
    BY <1>1, <2>1 DEF Doings
  <2>3. Standing(todo', k, "body", opts')
    BY <1>3, <1>5, <1>6, <2>1, <2>2
  <2> QED BY <1>9, <2>2, <2>3 DEF MainSteps, GetsHeader
<1>10. CASE ReadBody
  <2>1. Does("body") /\ todo' = Tail(todo) /\ OnlyMain
    BY <1>10 DEF ReadBody, Proceed
  <2>2. /\ w = "body" /\ k \in Commanding \cup {6}
        /\ k \in Resets => At(todo', k, "off", opts)
        /\ k = 6 => At(todo', 6, "start", opts)
        /\ k \in Commanding \ Resets => At(todo', k + 1, "start", opts)
    BY <1>1, <2>1 DEF Doings
  <2>3. CASE k \in Resets
    <3>1. Standing(todo', k, "off", opts')
      BY <1>3, <1>4, <1>5, <1>6, <2>1, <2>2, <2>3
    <3> QED BY <1>10, <2>2, <2>3, <3>1 DEF MainSteps, GetsBody
  <2>4. CASE k = 6
    BY <1>10, <2>1, <2>2, <2>4 DEF MainSteps, GetsBody, OnlyMain
  <2>5. CASE k \in Commanding \ Resets
    BY <1>3, <1>10, <2>1, <2>2, <2>5 DEF MainSteps, GetsBody, OnlyMain
  <2> QED BY <2>2, <2>3, <2>4, <2>5
<1>11. CASE ReadTwoBytes
  <2>1. Does("two") /\ todo' = Tail(todo) /\ OnlyMain
    BY <1>11 DEF ReadTwoBytes, Proceed
  <2>2. w = "start" /\ k = 5 /\ At(todo', k + 1, "start", opts)
    BY <1>1, <2>1 DEF Doings
  <2> QED BY <1>3, <1>11, <2>1, <2>2 DEF MainSteps, Passes, OnlyMain
<1>12. CASE SetSpeed
  <2>1. Does("speed") /\ todo' = Tail(todo) /\ OnlyMain /\ speed' = Head(todo)[3]
    BY <1>12 DEF SetSpeed, Proceed
  <2>2. /\ w = "start" /\ k \in {3, 7, 10} /\ At(todo', k + 1, "start", opts)
        /\ Head(todo)[3] = IF k = 7 THEN Default ELSE opts.termios_baudrate
    BY <1>1, <2>1 DEF Doings
  <2> QED BY <1>3, <1>12, <2>1, <2>2 DEF MainSteps, Passes, OnlyMain
<1>13. CASE proc_enable_hci
  <2>1. Does("ldisc") /\ todo' = Tail(todo) /\ OnlyMain
    BY <1>13 DEF proc_enable_hci, Proceed
  <2>2. w = "start" /\ k = 16 /\ At(todo', k + 1, "start", opts)
    BY <1>1, <2>1 DEF Doings
  <2> QED BY <1>3, <1>13, <2>1, <2>2 DEF MainSteps, Passes, OnlyMain
<1>14. CASE ReadRecordHeader
  <2>1. Does("record") /\ OnlyMain
    BY <1>14 DEF ReadRecordHeader
  <2>2. w = "start" /\ k = 6 /\ At(Tail(todo), k + 1, "start", opts)
    BY <1>1, <2>1 DEF Doings
  <2>3. CASE todo' = Tail(todo) /\ UNCHANGED fileVars /\ ~inside /\ records = Begun
    BY <1>3, <1>14, <2>1, <2>2, <2>3 DEF MainSteps, Passes, OnlyMain
  <2>4. CASE \E r \in 1 .. Records + 1 :
               /\ todo' = <<Payload(r)>> \o todo
               /\ r = Corrupt \/ (r = records + 1 /\ records < args.file.whole)
               /\ \/ records' = records + 1 /\ ~inside /\ records < Begun
                     /\ (r = Corrupt => args.file.whole <= records)
                  \/ records' = records /\ r = Corrupt /\ (inside \/ Fails("hcd_read"))
    <3>1. PICK r \in 1 .. Records + 1 :
            /\ todo' = Then(Payload(r), todo)
            /\ r = Corrupt \/ (r = records + 1 /\ records < args.file.whole)
            /\ \/ records' = records + 1 /\ ~inside /\ records < Begun
                  /\ (r = Corrupt => args.file.whole <= records)
               \/ records' = records /\ r = Corrupt /\ (inside \/ Fails("hcd_read"))
      BY <2>4, Zenon DEF Then
    <3>2. todo = Rest(6, opts) /\ Given(6, opts) /\ todo \in Seq(Calls)
      BY <2>2 DEF Standing, At, Last, TypeInv
    <3>3. Payload(r) \in Calls
      BY ConstantFacts, PayloadIsCall
    <3>4. Head(todo') = Payload(r)
      BY <3>1, <3>2, <3>3, ThenFacts
    <3>5. At(todo', 6, "payload", opts)
      BY <3>1, <3>2 DEF At
    <3>6. Standing(todo', 6, "payload", opts')
      BY <1>3, <1>5, <1>6, <2>1, <2>2, <3>5
    <3> QED BY <1>14, <2>2, <3>1, <3>4, <3>6, Zenon DEF MainSteps, FindsRecord
  <2> QED BY <1>14, <2>3, <2>4, RecordHeaderTypes
<1>18. CASE ReadRecordPayload
  <2>1. Does("payload") /\ OnlyMain
    BY <1>18 DEF ReadRecordPayload
  <2>2. w = "payload" /\ k = 6 /\ At(Tail(todo), 6, "start", opts)
    BY <1>1, <2>1 DEF Doings
  <2>3. PICK r \in 1 .. Records + 1 : Head(todo) = Payload(r)
    BY <1>1, <2>1 DEF Doings
  <2>4. PICK n \in Nat :
          /\ todo' = Command("write_ram", n) \o Tail(todo)
          /\ \/ n = r /\ n # Corrupt /\ records' = records /\ inside' = FALSE
             \/ n = Corrupt /\ (r = Corrupt \/ Fails("hcd_read"))
    <3>1. Head(todo)[3] = r
      BY <2>3, CallParts
    <3>2. \E n \in Nat :
            /\ todo' = Command("write_ram", n) \o Tail(todo)
            /\ \/ n = Head(todo)[3] /\ n # Corrupt /\ records' = records /\ inside' = FALSE
               \/ n = Corrupt /\ (Head(todo)[3] = Corrupt \/ Fails("hcd_read"))
      BY <1>18, RecordPayloadTypes
    <3> QED BY <3>1, <3>2, Zenon
  <2>5. n \in 1 .. Records + 1
    <3>1. Corrupt \in 1 .. Records + 1
      BY FileFacts
    <3> QED BY <2>4, <3>1, Zenon
  <2>6. /\ Tail(todo) = Rest(6, opts) /\ Tail(todo) \in Seq(Calls) /\ Given(6, opts)
    <3>1. Tail(todo) = Rest(6, opts)
      BY <2>2 DEF At
    <3>2. Given(6, opts)
      BY <2>2 DEF Standing, At
    <3>3. Rest(6, opts) \in Seq(Calls)
      BY <1>2, RestIsSeq
    <3> QED BY <3>1, <3>2, <3>3, Zenon
  <2>7. Send("write_ram", n) \in Calls
    BY <2>4, SendIsCall DEF Commands
  <2>8. (<<Send("write_ram", n)>> \o read_event) \o Tail(todo)
          = Then(Send("write_ram", n), Then(Call("header"), Then(Call("body"), Tail(todo))))
    BY <2>6, <2>7, CommandThen
  <2>9. Reading(6, opts) = Then(Call("header"), Then(Call("body"), Tail(todo)))
    <3>1. After(6, opts) = Rest(6, opts)
      BY DEF After, Resets
    <3> QED BY <2>6, <3>1, Zenon DEF Reading
  <2>10. todo' = Then(Send("write_ram", n), Reading(6, opts))
    BY <2>4, <2>8, <2>9, Zenon DEF Command
  <2>11. Head(todo') = Send("write_ram", n)
    <3>1. Reading(6, opts) \in Seq(Calls)
      BY <1>2, ReadingIsSeq
    <3> QED BY <2>7, <2>10, <3>1, ThenFacts
  <2>12. At(todo', 6, "send", opts)
    BY <2>5, <2>6, <2>10 DEF At
  <2>13. Standing(todo', 6, "send", opts')
    BY <1>3, <1>5, <1>6, <2>1, <2>2, <2>12
  <2>14. records <= records'
    BY <1>18, RecordPayloadTypes
  <2> QED BY <1>18, <2>2, <2>3, <2>4, <2>5, <2>11, <2>13, <2>14, Zenon DEF MainSteps, TakesRecord
<1>15. CASE expired \/ ChipExecutes \/ ChipBoots \/ LineGoes \/ UNCHANGED vars
  <2>1. UNCHANGED <<todo, opts>>
    BY <1>15 DEF expired, ChipExecutes, ChipAnswers, ChipBoots, LineGoes, vars, hostVars
  <2> QED BY <1>15, <2>1 DEF MainSteps, Stays
<1>16. ~ParseOption /\ ~OpenDevice /\ ~init_uart
  BY DEF ParseOption, OpenDevice, init_uart
<1>17. ~Finish
  BY DEF Finish
<1> QED BY <1>7, <1>8, <1>9, <1>10, <1>11, <1>12, <1>13, <1>14, <1>15, <1>16, <1>17, <1>18
  DEF Next, HostStep
-----------------------------------------------------------------------------
(* What is set stays set *)

Keeping == Settings \cup {"bd_addr"}
Wiping == {"reset", "minidriver", "write_ram"}
Unset(s) == \A i \in DOMAIN s : s[i][1] \notin Keeping
Kept(s) == \A i, j \in DOMAIN s : i < j /\ s[i][1] \in Keeping => s[j][1] \notin Wiping
KeptBy(s, t) == \A i \in DOMAIN s : s[i][1] \in Keeping => \A j \in DOMAIN t : t[j][1] \notin Wiping
AllKept(s, t) == Kept(s) /\ Kept(t) /\ KeptBy(s, t)

LEMMA AppendedFacts ==
  ASSUME NEW s \in Seq(Message), NEW m \in Message
  PROVE  /\ Append(s, m) \in Seq(Message) /\ Len(s) \in Nat
         /\ DOMAIN s = 1 .. Len(s) /\ DOMAIN Append(s, m) = 1 .. Len(s) + 1
         /\ \A i \in 1 .. Len(s) : Append(s, m)[i] = s[i]
         /\ Append(s, m)[Len(s) + 1] = m
  BY AppendProperties, LenProperties

LEMMA TailFacts ==
  ASSUME NEW t \in Seq(Message), t # << >>
  PROVE  /\ Tail(t) \in Seq(Message) /\ Head(t) = t[1] /\ Head(t) \in Message
         /\ Len(t) \in Nat \ {0}
         /\ DOMAIN t = 1 .. Len(t) /\ DOMAIN Tail(t) = 1 .. Len(t) - 1
         /\ \A i \in 1 .. Len(t) - 1 : Tail(t)[i] = t[i + 1]
  BY HeadTailProperties, LenProperties, EmptySeq

LEMMA KeptAppended ==
  ASSUME NEW s \in Seq(Message), NEW t \in Seq(Message), NEW m \in Message, AllKept(s, t),
         m[1] \notin Wiping \/ (Unset(s) /\ Unset(t))
  PROVE  AllKept(s, Append(t, m))
<1>1. /\ Len(t) \in Nat /\ DOMAIN t = 1 .. Len(t) /\ DOMAIN Append(t, m) = 1 .. Len(t) + 1
      /\ \A i \in 1 .. Len(t) : Append(t, m)[i] = t[i]
      /\ Append(t, m)[Len(t) + 1] = m
  BY AppendedFacts
<1>2. Kept(Append(t, m))
  <2> SUFFICES ASSUME NEW i \in 1 .. Len(t) + 1, NEW j \in 1 .. Len(t) + 1,
                      i < j, Append(t, m)[i][1] \in Keeping
               PROVE  Append(t, m)[j][1] \notin Wiping
    BY <1>1 DEF Kept
  <2>1. i \in 1 .. Len(t) /\ t[i][1] \in Keeping
    BY <1>1
  <2>2. CASE j = Len(t) + 1
    <3>1. ~Unset(t)
      BY <1>1, <2>1 DEF Unset
    <3> QED BY <1>1, <2>2, <3>1
  <2>3. CASE j \in 1 .. Len(t)
    BY <1>1, <2>1, <2>3 DEF AllKept, Kept
  <2> QED BY <1>1, <2>2, <2>3
<1>3. KeptBy(s, Append(t, m))
  <2> SUFFICES ASSUME NEW i \in DOMAIN s, s[i][1] \in Keeping, NEW j \in 1 .. Len(t) + 1
               PROVE  Append(t, m)[j][1] \notin Wiping
    BY <1>1 DEF KeptBy
  <2>1. ~Unset(s)
    BY DEF Unset
  <2>2. CASE j = Len(t) + 1
    BY <1>1, <2>1, <2>2
  <2>3. CASE j \in 1 .. Len(t)
    BY <1>1, <2>3 DEF AllKept, KeptBy
  <2> QED BY <1>1, <2>2, <2>3
<1> QED BY <1>2, <1>3 DEF AllKept

LEMMA KeptExecuted ==
  ASSUME NEW s \in Seq(Message), NEW t \in Seq(Message), t # << >>, AllKept(s, t)
  PROVE  AllKept(s, Tail(t)) /\ AllKept(Append(s, Head(t)), Tail(t))
<1> DEFINE n == Len(s)
           a == Append(s, Head(t))
<1>1. /\ Head(t) = t[1] /\ Head(t) \in Message /\ Len(t) \in Nat \ {0}
      /\ DOMAIN t = 1 .. Len(t) /\ DOMAIN Tail(t) = 1 .. Len(t) - 1
      /\ \A i \in 1 .. Len(t) - 1 : Tail(t)[i] = t[i + 1]
  BY TailFacts
<1>2. /\ n \in Nat /\ DOMAIN s = 1 .. n /\ DOMAIN a = 1 .. n + 1
      /\ \A i \in 1 .. n : a[i] = s[i]
      /\ a[n + 1] = t[1]
  BY <1>1, AppendedFacts
<1> HIDE DEF n, a
<1>3. Kept(Tail(t))
  BY <1>1 DEF AllKept, Kept
<1>4. KeptBy(s, Tail(t))
  BY <1>1 DEF AllKept, KeptBy
<1>5. Kept(a)
  <2> SUFFICES ASSUME NEW i \in 1 .. n + 1, NEW j \in 1 .. n + 1, i < j, a[i][1] \in Keeping
               PROVE  a[j][1] \notin Wiping
    BY <1>2 DEF Kept
  <2>1. i \in 1 .. n /\ s[i][1] \in Keeping
    BY <1>2
  <2>2. CASE j = n + 1
    BY <1>1, <1>2, <2>1, <2>2 DEF AllKept, KeptBy
  <2>3. CASE j \in 1 .. n
    BY <1>2, <2>1, <2>3 DEF AllKept, Kept
  <2> QED BY <1>2, <2>2, <2>3
<1>6. KeptBy(a, Tail(t))
  <2> SUFFICES ASSUME NEW i \in 1 .. n + 1, a[i][1] \in Keeping, NEW j \in 1 .. Len(t) - 1
               PROVE  t[j + 1][1] \notin Wiping
    BY <1>1, <1>2 DEF KeptBy
  <2>1. CASE i = n + 1
    BY <1>1, <1>2, <2>1 DEF AllKept, Kept
  <2>2. CASE i \in 1 .. n
    BY <1>1, <1>2, <2>2 DEF AllKept, KeptBy
  <2> QED BY <1>2, <2>1, <2>2
<1>7. Kept(s)
  BY DEF AllKept
<1> QED BY <1>3, <1>4, <1>5, <1>6, <1>7 DEF AllKept, a

LEMMA UnsetMoves ==
  /\ \A s \in Seq(Message), m \in Message :
       Unset(s) /\ m[1] \notin Keeping => Unset(Append(s, m))
  /\ \A t \in Seq(Message) : t # << >> /\ Unset(t) => Unset(Tail(t)) /\ Head(t)[1] \notin Keeping
<1>1. ASSUME NEW s \in Seq(Message), NEW m \in Message, Unset(s), m[1] \notin Keeping
      PROVE  Unset(Append(s, m))
  <2>1. /\ Len(s) \in Nat /\ DOMAIN s = 1 .. Len(s) /\ DOMAIN Append(s, m) = 1 .. Len(s) + 1
        /\ \A i \in 1 .. Len(s) : Append(s, m)[i] = s[i]
        /\ Append(s, m)[Len(s) + 1] = m
    BY AppendedFacts
  <2> QED BY <1>1, <2>1 DEF Unset
<1>2. ASSUME NEW t \in Seq(Message), t # << >>, Unset(t)
      PROVE  Unset(Tail(t)) /\ Head(t)[1] \notin Keeping
  <2>1. /\ Head(t) = t[1] /\ Len(t) \in Nat \ {0}
        /\ DOMAIN t = 1 .. Len(t) /\ DOMAIN Tail(t) = 1 .. Len(t) - 1
        /\ \A i \in 1 .. Len(t) - 1 : Tail(t)[i] = t[i + 1]
    BY <1>2, TailFacts
  <2> QED BY <1>2, <2>1 DEF Unset
<1> QED BY <1>1, <1>2

(* While an alarm is set, the answer to a reset is awaited; what is later  *)
(* comes of a timer that fired when it was switched off.                   *)
Watched(k, w) == alarm = "set" => k \in Resets /\ w \in {"header", "body", "off"}
Course ==
  /\ phase \in {"options", "uart"} => tx = << >> /\ done = << >> /\ alarm = "off"
  /\ alarm = "set" => phase = "main"
  /\ alarm \in {"raised", "stray"} => Fails("alarm_race")
  /\ phase = "main" =>
       \E k \in 1 .. Last, w \in Where :
         /\ Standing(todo, k, w, opts) /\ Watched(k, w)
         /\ k < 11 => Unset(done) /\ Unset(tx)
  /\ ~Fails("alarm_race") => AllKept(done, tx)

(* What a step does to the commands on the line and those carried out.     *)
LEMMA LineMoves ==
  ASSUME TypeInv, [Next]_vars
  PROVE  \/ UNCHANGED <<tx, done>>
         \/ done' = done /\ tx' = << >>
         \/ /\ done' = done /\ SendCommand
            /\ tx' = Append(tx, <<Head(todo)[2], Head(todo)[3]>>)
            /\ <<Head(todo)[2], Head(todo)[3]>> \in Message
         \/ /\ done' = done /\ expired
            /\ tx' = Append(tx, <<"reset", 0>>) /\ <<"reset", 0>> \in Message
         \/ /\ ChipExecutes /\ tx # << >> /\ tx' = Tail(tx) /\ UNCHANGED hostVars
            /\ done' = done \/ done' = Append(done, Head(tx))
<1>1. CASE SendCommand
  <2>1. <<Head(todo)[2], Head(todo)[3]>> \in Message
    BY <1>1, SendCommandTypes
  <2> QED BY <1>1, <2>1 DEF SendCommand, hci_send_cmd
<1>2. CASE expired
  <2>1. <<"reset", 0>> \in Message
    BY DEF Message, Commands
  <2> QED BY <1>2, <2>1 DEF expired, hci_send_cmd
<1>3. CASE ChipExecutes
  BY <1>3, ChipExecutesTypes
<1>4. CASE ReadHeader \/ ReadBody \/ ReadTwoBytes
  <2>1. \E n : Drop(n)
    BY <1>4 DEF ReadHeader, ReadBody, ReadTwoBytes
  <2> QED BY <2>1 DEF Drop
<1>5. CASE init_uart \/ LineGoes
  BY <1>5 DEF init_uart, LineGoes
<1>6. CASE ParseOption \/ OpenDevice \/ SetAlarm \/ ReadRecordHeader \/ ReadRecordPayload \/ SetSpeed \/ proc_enable_hci \/ Finish
  BY <1>6 DEF ParseOption, OpenDevice, SetAlarm, ReadRecordHeader, ReadRecordPayload, SetSpeed,
     proc_enable_hci, Finish, lineVars
<1>7. CASE ChipBoots
  BY <1>7 DEF ChipBoots
<1>8. CASE UNCHANGED vars
  BY <1>8 DEF vars, lineVars
<1> QED BY <1>1, <1>2, <1>3, <1>4, <1>5, <1>6, <1>7, <1>8 DEF Next, HostStep

LEMMA CourseInit == Init => Course
<1> SUFFICES ASSUME Init PROVE Course
  OBVIOUS
<1>1. phase = "options" /\ alarm = "off" /\ tx = << >> /\ done = << >>
  BY DEF Init
<1>2. DOMAIN << >> = {}
  OBVIOUS
<1>3. AllKept(<< >>, << >>)
  BY <1>2 DEF AllKept, Kept, KeptBy
<1> QED BY <1>1, <1>3 DEF Course

LEMMA KeptStep ==
  ASSUME TypeInv, Course, [Next]_vars
  PROVE  /\ ~Fails("alarm_race") => AllKept(done, tx)'
         /\ Unset(done) /\ Unset(tx) =>
              \/ (Unset(done) /\ Unset(tx))'
              \/ SendCommand /\ Head(todo)[2] \in Keeping
<1>1. done \in Seq(Message) /\ tx \in Seq(Message) /\ (~Fails("alarm_race") => AllKept(done, tx))
  BY DEF TypeInv, Course
<1>2. DOMAIN << >> = {}
  OBVIOUS
<1>3. CASE UNCHANGED <<tx, done>>
  BY <1>1, <1>3
<1>4. CASE done' = done /\ tx' = << >>
  BY <1>1, <1>2, <1>4 DEF AllKept, Kept, KeptBy, Unset
<1>5. CASE /\ done' = done /\ SendCommand
           /\ tx' = Append(tx, <<Head(todo)[2], Head(todo)[3]>>)
           /\ <<Head(todo)[2], Head(todo)[3]>> \in Message
  <2> DEFINE m == <<Head(todo)[2], Head(todo)[3]>>
  <2>1. m \in Message /\ m[1] = Head(todo)[2] /\ tx' = Append(tx, m)
    BY <1>5
  <2> HIDE DEF m
  <2>2. m[1] \notin Wiping \/ (Unset(done) /\ Unset(tx))
    <3>1. phase = "main"
      BY <1>5 DEF SendCommand, Does
    <3>2. PICK k \in 1 .. Last, w \in Where :
            Standing(todo, k, w, opts) /\ (k < 11 => Unset(done) /\ Unset(tx))
      BY <3>1 DEF Course
    <3>3. Doings(k, w) /\ Does("send")
      BY <1>5, <3>1, <3>2, Doing DEF SendCommand
    <3>4. (k \in Commanding /\ Head(todo) = Send(Name(k), Par(k, opts))) \/ k = 6
      BY <3>3 DEF Doings
    <3>5. CASE k < 11
      BY <3>2, <3>5
    <3>6. CASE ~(k < 11)
      <4>1. k \in Commanding /\ Head(todo)[2] = Name(k) /\ k \notin Resets /\ k # 4
        BY <3>2, <3>4, <3>6, CallParts DEF Resets
      <4> QED BY <2>1, <4>1, NamesAreCommands DEF Wiping
    <3> QED BY <3>5, <3>6
  <2>3. ~Fails("alarm_race") => AllKept(done, tx')
    BY <1>1, <2>1, <2>2, KeptAppended
  <2>4. Unset(tx) /\ m[1] \notin Keeping => Unset(tx')
    BY <1>1, <2>1, UnsetMoves
  <2> QED BY <1>5, <2>1, <2>3, <2>4
<1>6. CASE /\ done' = done /\ expired
           /\ tx' = Append(tx, <<"reset", 0>>) /\ <<"reset", 0>> \in Message
  <2> DEFINE m == <<"reset", 0>>
  <2>1. m \in Message /\ m[1] = "reset" /\ tx' = Append(tx, m)
    BY <1>6
  <2> HIDE DEF m
  <2>2. ~Fails("alarm_race") => Unset(done) /\ Unset(tx)
    <3> SUFFICES ASSUME ~Fails("alarm_race") PROVE Unset(done) /\ Unset(tx)
      OBVIOUS
    <3>1. alarm = "set" /\ phase = "main"
      BY <1>6 DEF expired, Course
    <3>2. PICK k \in 1 .. Last, w \in Where :
            Watched(k, w) /\ (k < 11 => Unset(done) /\ Unset(tx))
      BY <3>1 DEF Course
    <3> QED BY <3>1, <3>2 DEF Watched, Resets
  <2>3. ~Fails("alarm_race") => AllKept(done, tx')
    BY <1>1, <2>1, <2>2, KeptAppended
  <2>4. m[1] \notin Keeping
    BY <2>1 DEF Keeping, Settings
  <2>5. Unset(tx) => Unset(tx')
    BY <1>1, <2>1, <2>4, UnsetMoves
  <2> QED BY <1>6, <2>3, <2>5
<1>7. CASE /\ ChipExecutes /\ tx # << >> /\ tx' = Tail(tx)
           /\ done' = done \/ done' = Append(done, Head(tx))
  <2>1. ~Fails("alarm_race") => AllKept(done, tx') /\ AllKept(Append(done, Head(tx)), tx')
    BY <1>1, <1>7, KeptExecuted
  <2>2. ASSUME Unset(done), Unset(tx)
        PROVE  Unset(tx') /\ Unset(done')
    <3>1. Unset(tx') /\ Head(tx)[1] \notin Keeping
      BY <1>1, <1>7, <2>2, UnsetMoves
    <3>2. Head(tx) \in Message
      BY <1>1, <1>7, TailFacts
    <3>3. Unset(Append(done, Head(tx)))
      BY <1>1, <2>2, <3>1, <3>2, UnsetMoves
    <3> QED BY <1>7, <2>2, <3>1, <3>3
  <2> QED BY <1>7, <2>1, <2>2
<1> QED BY <1>3, <1>4, <1>5, <1>6, <1>7, LineMoves

LEMMA CourseStep == TypeInv /\ Course /\ [Next]_vars => Course'
<1> SUFFICES ASSUME TypeInv, Course, [Next]_vars PROVE Course'
  OBVIOUS
<1>0. (~Fails("alarm_race") => AllKept(done, tx))' /\ TypeInv'
  BY KeptStep, NextTypes, FaultsStay
<1>5. (alarm \in {"raised", "stray"} => Fails("alarm_race"))'
  <2>1. alarm \in {"raised", "stray"} => Fails("alarm_race")
    BY DEF Course
  <2>2. alarm' = alarm \/ SetAlarm \/ expired
    BY DEF Next, HostStep, ParseOption, OpenDevice, init_uart, SendCommand, ReadHeader, ReadBody,
       ReadTwoBytes, ReadRecordHeader, ReadRecordPayload, SetSpeed, proc_enable_hci, Finish,
       ChipExecutes, ChipAnswers, ChipBoots, LineGoes, hostVars, vars
  <2>3. SetAlarm => alarm' \in {"set", "off"} \/ Fails("alarm_race")
    BY DEF SetAlarm
  <2>4. expired => alarm' = alarm \/ alarm = "raised"
    BY DEF expired
  <2> QED BY <2>1, <2>2, <2>3, <2>4, FaultsStay
<1>1. CASE phase \in {"options", "uart"}
  <2>1. tx = << >> /\ done = << >> /\ alarm = "off"
    BY <1>1 DEF Course
  <2>2. ~Does("send") /\ ~(phase = "main")
    BY <1>1 DEF Does
  <2>3. tx' = << >> /\ done' = << >>
    BY <2>1, <2>2, LineMoves DEF SendCommand, expired
  <2>4. CASE init_uart
    <3>1. opts \in Globals /\ opts' = opts /\ todo' = main(opts) /\ alarm' = alarm /\ phase' = "main"
      BY <2>4 DEF init_uart, TypeInv
    <3>2. At(todo', 1, "start", opts)
      BY <3>1, MainIsRest DEF At
    <3>3. PICK k \in 1 .. Last : Standing(todo', k, "start", opts)
      <4>1. 1 \in 1 .. Last /\ 1 .. Last \subseteq 1 .. Last
        BY DEF Last
      <4> QED BY <3>1, <3>2, <4>1, GoesOn
    <3>4. Unset(done') /\ Unset(tx')
      BY <2>3 DEF Unset
    <3>5. alarm' = "off"
      BY <2>1, <3>1
    <3>6. Standing(todo', k, "start", opts')
      BY <3>1, <3>3
    <3> QED BY <1>0, <1>5, <2>3, <3>1, <3>3, <3>4, <3>5, <3>6 DEF Course, Watched, Where
  <2>5. CASE ~init_uart
    <3>1. phase' \in {"options", "uart", "exit"} /\ alarm' = alarm
      BY <1>1, <2>5 DEF Next, HostStep, ParseOption, OpenDevice, SendCommand, SetAlarm, ReadHeader, ReadBody,
           ReadTwoBytes, ReadRecordHeader, ReadRecordPayload, SetSpeed, proc_enable_hci, Finish, Does,
           expired, ChipExecutes,
           ChipAnswers, ChipBoots, LineGoes, hostVars, vars
    <3> QED BY <1>0, <1>5, <2>1, <2>3, <3>1 DEF Course
  <2> QED BY <2>4, <2>5
<1>2. CASE phase = "main" /\ phase' # "main"
  <2>1. PICK k \in 1 .. Last, w \in Where : Standing(todo, k, w, opts) /\ Watched(k, w)
    BY <1>2 DEF Course
  <2>2. Doings(k, w)
    BY <1>2, <2>1, Doing
  <2>3. Finish
    BY <1>2 DEF Next, HostStep, ParseOption, OpenDevice, init_uart, SendCommand, SetAlarm, ReadHeader, ReadBody,
         ReadTwoBytes, ReadRecordHeader, ReadRecordPayload, SetSpeed, proc_enable_hci, OnlyMain, expired,
         ChipExecutes,
         ChipAnswers, ChipBoots, LineGoes, hostVars, vars
  <2>4. todo = << >> /\ alarm' = alarm /\ phase' \in {"sleep", "exit"}
    BY <2>3 DEF Finish
  <2>5. w = "start"
    BY <2>2, <2>4 DEF Doings
  <2>6. alarm # "set"
    BY <2>1, <2>5 DEF Watched
  <2> QED BY <1>0, <1>5, <2>4, <2>6 DEF Course
<1>3. CASE phase = "main" /\ phase' = "main"
  <2>1. PICK k \in 1 .. Last, w \in Where :
          /\ Standing(todo, k, w, opts) /\ Watched(k, w)
          /\ k < 11 => Unset(done) /\ Unset(tx)
    BY <1>3 DEF Course
  <2>2. MainSteps(k, w)
    BY <1>3, <2>1, MainStep
  <2>3. opts' \in Globals
    BY <1>0 DEF TypeInv
  <2>4. SUFFICES \E j \in 1 .. Last, v \in Where :
                   /\ Standing(todo', j, v, opts') /\ Watched(j, v)'
                   /\ j < 11 => Unset(done') /\ Unset(tx')
    BY <1>0, <1>5, <1>3 DEF Course
  <2>5. ASSUME NEW j \in 1 .. Last, At(todo', j, "start", opts'), alarm' # "set", j >= k,
               k < 11 => Unset(done') /\ Unset(tx')
        PROVE  \E i \in 1 .. Last, v \in Where :
                   /\ Standing(todo', i, v, opts') /\ Watched(i, v)'
                   /\ i < 11 => Unset(done') /\ Unset(tx')
    <3>1. PICK i \in j .. Last : Standing(todo', i, "start", opts')
      BY <2>3, <2>5, GoesOn
    <3>2. i \in 1 .. Last /\ i >= k
      BY <2>5, <3>1 DEF Last
    <3> QED BY <2>5, <3>1, <3>2 DEF Watched, Where
  <2>6. ~SendCommand /\ k < 11 => Unset(done') /\ Unset(tx')
    BY <2>1, KeptStep
  <2>7. CASE Stays
    <3>1. (alarm' = "set" => alarm = "set") /\ ~SendCommand
      <4>1. alarm' = "set" => alarm = "set"
        BY <2>7 DEF Stays, expired, ChipExecutes, ChipAnswers, ChipBoots, LineGoes, vars, hostVars
      <4>2. ~SendCommand
        <5>1. SendCommand => todo' = Tail(todo) /\ todo # << >> /\ todo \in Seq(Calls)
          BY DEF SendCommand, Proceed, Does, TypeInv
        <5>2. todo' = todo
          BY <2>7 DEF Stays
        <5>3. ASSUME NEW s \in Seq(Calls), s # << >> PROVE Tail(s) # s
          BY <5>3, HeadTailProperties, LenProperties, EmptySeq
        <5> QED BY <5>1, <5>2, <5>3
      <4> QED BY <4>1, <4>2
    <3>2. Standing(todo', k, w, opts') /\ Watched(k, w)'
      BY <2>1, <2>7, <3>1 DEF Stays, Watched
    <3> QED BY <2>6, <3>1, <3>2
  <2>8. CASE Sends(k, w)
    <3>1. /\ SendCommand /\ w = "start" /\ k \in Commanding /\ Head(todo) = Send(Name(k), Par(k, opts))
          /\ Standing(todo', k, IF k \in Resets THEN "armed" ELSE "header", opts')
      BY <2>8 DEF Sends
    <3>2. alarm' # "set"
      BY <2>1, <3>1 DEF SendCommand, Watched
    <3>3. k < 11 => Unset(done') /\ Unset(tx')
      <4>1. Head(todo)[2] = Name(k)
        BY <3>1, CallParts
      <4>2. k < 11 => Name(k) \notin Keeping
        BY <3>1, NamesAreCommands DEF Keeping
      <4> QED BY <2>1, <4>1, <4>2, KeptStep
    <3>4. (IF k \in Resets THEN "armed" ELSE "header") \in Where
      BY DEF Where
    <3> QED BY <3>1, <3>2, <3>3, <3>4 DEF Watched
  <2>9. CASE SendsRecord(k, w)
    <3>1. /\ SendCommand /\ w = "send" /\ k = 6 /\ Standing(todo', 6, "header", opts')
          /\ \E r \in 1 .. Records + 1 : Head(todo) = Send("write_ram", r)
      BY <2>9 DEF SendsRecord
    <3>2. alarm' # "set"
      BY <2>1, <3>1 DEF SendCommand, Watched
    <3>3. Head(todo)[2] = "write_ram"
      BY <3>1, CallParts
    <3>4. Unset(done') /\ Unset(tx')
      BY <2>1, <3>1, <3>3, KeptStep DEF Keeping, Settings
    <3> QED BY <3>1, <3>2, <3>4 DEF Watched, Where
  <2>10. CASE Arms(k, w)
    <3>1. /\ SetAlarm /\ w = "armed" /\ k \in Resets /\ Standing(todo', k, "header", opts')
      BY <2>10 DEF Arms
    <3>2. Unset(done') /\ Unset(tx')
      BY <2>1, <3>1 DEF SetAlarm, lineVars, Resets
    <3> QED BY <3>1, <3>2 DEF Watched, Where
  <2>11. CASE Disarms(k, w)
    <3>1. /\ SetAlarm /\ alarm' # "set" /\ k + 1 \in 1 .. Last /\ At(todo', k + 1, "start", opts')
      BY <2>11 DEF Disarms
    <3>2. k < 11 => Unset(done') /\ Unset(tx')
      BY <2>1, <3>1 DEF SetAlarm, lineVars
    <3>3. k + 1 >= k
      OBVIOUS
    <3> QED BY <2>5, <3>1, <3>2, <3>3
  <2>12. CASE GetsHeader(k, w)
    <3>1. ReadHeader /\ w = "header" /\ Standing(todo', k, "body", opts')
      BY <2>12 DEF GetsHeader
    <3>2. (k < 11 => Unset(done') /\ Unset(tx')) /\ alarm' = alarm
      BY <2>1, <3>1 DEF ReadHeader, Drop
    <3> QED BY <2>1, <3>1, <3>2 DEF Watched, Where
  <2>13. CASE GetsBody(k, w)
    <3>1. ReadBody /\ w = "body"
      BY <2>13 DEF GetsBody
    <3>2. (k < 11 => Unset(done') /\ Unset(tx')) /\ alarm' = alarm
      BY <2>1, <3>1 DEF ReadBody, Drop
    <3>3. CASE k \in Resets /\ Standing(todo', k, "off", opts')
      BY <2>1, <3>1, <3>2, <3>3 DEF Watched, Where
    <3>4. CASE k = 6 /\ At(todo', 6, "start", opts')
      <4>1. alarm' # "set" /\ 6 >= k /\ 6 \in 1 .. Last
        BY <2>1, <3>2, <3>4 DEF Watched, Resets, Last
      <4> QED BY <2>5, <3>2, <3>4, <4>1
    <3>5. CASE k \in Commanding \ Resets /\ k + 1 \in 1 .. Last /\ At(todo', k + 1, "start", opts')
      <4>1. alarm' # "set" /\ k + 1 >= k
        BY <2>1, <3>2, <3>5 DEF Watched
      <4> QED BY <2>5, <3>2, <3>5, <4>1
    <3> QED BY <2>13, <3>3, <3>4, <3>5 DEF GetsBody
  <2>14. CASE Passes(k, w)
    <3>1. w = "start" /\ k + 1 \in 1 .. Last /\ At(todo', k + 1, "start", opts')
      BY <2>14 DEF Passes
    <3>2. (k < 11 => Unset(done') /\ Unset(tx')) /\ alarm' = alarm
      BY <2>1, <2>14 DEF Passes, ReadTwoBytes, SetSpeed, ReadRecordHeader, proc_enable_hci, Drop, lineVars
    <3>3. alarm' # "set" /\ k + 1 >= k
      BY <2>1, <3>1, <3>2 DEF Watched
    <3> QED BY <2>5, <3>1, <3>2, <3>3
  <2>15. CASE FindsRecord(k, w)
    <3>1. ReadRecordHeader /\ w = "start" /\ k = 6 /\ Standing(todo', 6, "payload", opts')
      BY <2>15 DEF FindsRecord
    <3>2. Unset(done') /\ Unset(tx') /\ alarm' # "set"
      BY <2>1, <3>1 DEF ReadRecordHeader, lineVars, Watched
    <3> QED BY <3>1, <3>2 DEF Watched, Where
  <2>16. CASE TakesRecord(k, w)
    <3>1. ReadRecordPayload /\ w = "payload" /\ k = 6 /\ Standing(todo', 6, "send", opts')
      BY <2>16 DEF TakesRecord
    <3>2. Unset(done') /\ Unset(tx') /\ alarm' # "set"
      BY <2>1, <3>1 DEF ReadRecordPayload, lineVars, Watched
    <3> QED BY <3>1, <3>2 DEF Watched, Where
  <2> QED BY <2>2, <2>7, <2>8, <2>9, <2>10, <2>11, <2>12, <2>13, <2>14, <2>15, <2>16 DEF MainSteps
<1>4. CASE phase \in {"sleep", "exit"}
  <2>1. alarm # "set" /\ phase' = phase
    BY <1>4 DEF Course, Next, HostStep, ParseOption, OpenDevice, init_uart, SendCommand, SetAlarm, ReadHeader,
         ReadBody, ReadTwoBytes, ReadRecordHeader, ReadRecordPayload, SetSpeed, proc_enable_hci, Finish, Does,
         expired, ChipExecutes, ChipAnswers, ChipBoots, LineGoes, hostVars, vars
  <2>2. alarm' # "set"
    BY <1>4, <2>1 DEF Next, HostStep, ParseOption, OpenDevice, init_uart, SendCommand, SetAlarm, ReadHeader,
         ReadBody, ReadTwoBytes, ReadRecordHeader, ReadRecordPayload, SetSpeed, proc_enable_hci, Finish, Does,
         expired, ChipExecutes, ChipAnswers, ChipBoots, LineGoes, hostVars, vars
  <2> QED BY <1>0, <1>5, <1>4, <2>1, <2>2 DEF Course
<1> QED BY <1>1, <1>2, <1>3, <1>4 DEF TypeInv

LEMMA CourseInvariant == Spec => []Course
  BY TypeInvariant, CourseInit, CourseStep, PTL DEF Spec

(* Whatever is late, lost or refused, and however the file is read: what   *)
(* has been set in the chip is never wiped by a reset or a download behind *)
(* it - as long as the timer does not fire in the call that switches it    *)
(* off (line 626), behind which the handler would set it again.            *)
THEOREM SettingsStaySet == Spec => []SettingsSurvive
<1>1. Course => SettingsSurvive
  BY DEF Course, AllKept, Kept, SettingsSurvive, Keeping, Wiping
<1> QED BY <1>1, CourseInvariant, PTL
-----------------------------------------------------------------------------
(* Host and chip in step, as long as answers are prompt: in every place of *)
(* main, how much there is on the line.                                    *)

(* The command and its answer are not both there, and an answer is whole.  *)
Waiting(k, c, t, r) ==
  \/ t = << >> /\ r = << >>
  \/ Len(t) = 1 /\ r = << >> /\ (Head(t)[1] = "minidriver" => k = 4)
  \/ t = << >> /\ r[3] = 4 /\ (Len(r) = 7 \/ (Len(r) = 9 /\ k = 4 /\ c.old))

InStep(k, w, g, c, t, r, n) ==
  /\ w \in {"start", "payload", "send", "off"} =>
       /\ t = << >>
       /\ r = << >> \/ (w = "start" /\ k = 5 /\ g.hcdfile_fd > 0 /\ c.old /\ Len(r) = 2)
  /\ w \in {"armed", "header"} => Waiting(k, c, t, r)
  /\ w = "body" => t = << >> /\ n = 4 /\ (r = << >> \/ Len(r) = 4 \/ (Len(r) = 6 /\ k = 4 /\ c.old))

(* no2bytes is given for the chips that do not send the two bytes.         *)
OldIsKnown ==
  /\ chip.old /\ phase = "options" => \A i \in DOMAIN args.options : args.options[i][1] # "no2bytes"
  /\ chip.old => ~opts.no2bytes

LineInv ==
  /\ OldIsKnown
  /\ Prompt /\ phase = "main" =>
       \E k \in 1 .. Last, w \in Where :
         Standing(todo, k, w, opts) /\ InStep(k, w, opts, chip, tx, rx, len)

LEMMA OldInit == Init => OldIsKnown
  BY DEF Init, OldIsKnown, Defaults

Launches(n, p) == n = "write_ram" /\ p = Records

LEMMA EffectKeeps ==
  ASSUME NEW c \in Chip, NEW n \in Commands, NEW p
  PROVE  /\ Effect(c, n, p).old = c.old /\ Effect(c, n, p).gone = c.gone
         /\ Effect(c, n, p).rejected = c.rejected /\ Effect(c, n, p).attached = c.attached
<1>1. CASE n = "write_ram"
  BY <1>1 DEF Effect, Chip
<1>2. CASE n \in {"reset", "minidriver"}
  BY <1>2 DEF Effect, Chip
<1>3. CASE n \in {"baud", "bd_addr"}
  BY <1>3 DEF Effect, Chip
<1>4. CASE n \in Settings
  <2>1. Effect(c, n, p) = [c EXCEPT !.settings = c.settings \cup {n}]
    BY <1>4 DEF Effect, Settings
  <2> QED BY <2>1 DEF Chip
<1> QED BY <1>1, <1>2, <1>3, <1>4 DEF Commands

(* What a step does to the chip. *)
LEMMA ChipMoves ==
  ASSUME TypeInv, [Next]_vars
  PROVE  \/ chip' = chip /\ ~ChipExecutes
         \/ proc_enable_hci /\ chip' = [chip EXCEPT !.attached = TRUE] /\ ~ChipExecutes
         \/ ChipBoots /\ chip' = [chip EXCEPT !.awake = TRUE] /\ ~ChipExecutes
         \/ LineGoes /\ chip' = [chip EXCEPT !.gone = TRUE] /\ ~ChipExecutes
         \/ ChipExecutes /\ chip' = [chip EXCEPT !.rejected = TRUE]
              /\ Rejects(Head(tx)[1], Head(tx)[2]) /\ done' = done
              /\ ChipAnswers(Head(tx)[1], Head(tx)[2], 1, << >>)
         \/ ChipExecutes /\ chip' = Effect(chip, Head(tx)[1], Head(tx)[2])
              /\ Accepts(Head(tx)[1], Head(tx)[2]) /\ done' = Append(done, Head(tx))
              /\ ChipAnswers(Head(tx)[1], Head(tx)[2], 0, More(Head(tx)[1]))
         \/ ChipExecutes /\ chip' = chip
              /\ Spoils(Head(tx)[1], Head(tx)[2]) /\ done' = done
              /\ ChipAnswers(Head(tx)[1], Head(tx)[2], 0, << >>)
<1>1. CASE ChipExecutes
  <2>1. Head(tx) = <<Head(tx)[1], Head(tx)[2]>>
    BY <1>1, ChipExecutesTypes DEF Message
  <2> QED BY <1>1, <2>1 DEF ChipExecutes, More
<1>2. CASE Next /\ ~ChipExecutes
  <2>1. CASE HostStep
    BY <1>2, <2>1 DEF HostStep, ParseOption, OpenDevice, init_uart, SendCommand, hci_send_cmd, SetAlarm,
         ReadHeader, ReadBody, ReadTwoBytes, Drop, ReadRecordHeader, ReadRecordPayload, SetSpeed,
         proc_enable_hci, Finish, lineVars
  <2>2. CASE expired
    BY <1>2, <2>2 DEF expired, hci_send_cmd
  <2>3. CASE ChipBoots \/ LineGoes
    BY <1>2, <2>3 DEF ChipBoots, LineGoes
  <2> QED BY <1>2, <2>1, <2>2, <2>3 DEF Next
<1>3. CASE UNCHANGED vars /\ ~ChipExecutes
  BY <1>3 DEF vars, lineVars
<1> QED BY <1>1, <1>2, <1>3

LEMMA OldStaysOld ==
  ASSUME TypeInv, [Next]_vars
  PROVE  chip'.old = chip.old
<1>1. chip \in Chip
  BY DEF TypeInv
<1>2. ChipExecutes => Head(tx)[1] \in Commands
  BY ChipExecutesTypes DEF Message
<1>4. ASSUME NEW n \in Commands, NEW p
      PROVE  Effect(chip, n, p).old = chip.old
  BY <1>1, EffectKeeps
<1>3. ChipExecutes => Effect(chip, Head(tx)[1], Head(tx)[2]).old = chip.old
  BY <1>2, <1>4, Zenon
<1> QED BY <1>1, <1>3, ChipMoves DEF Chip

LEMMA OldStep == TypeInv /\ OldIsKnown /\ [Next]_vars => OldIsKnown'
<1> SUFFICES ASSUME TypeInv, OldIsKnown, [Next]_vars PROVE OldIsKnown'
  OBVIOUS
<1>1. chip'.old = chip.old
  BY OldStaysOld
<1>2. CASE ParseOption
  <2> DEFINE o == Head(args.options)
  <2>1. /\ args.options \in Seq(Option) /\ args.options # << >> /\ phase = "options"
        /\ args' = [args EXCEPT !.options = Tail(args.options)] /\ args \in Scenario
    BY <1>2 DEF TypeInv, Scenario, ParseOption
  <2>2. /\ args'.options = Tail(args.options) /\ o = args.options[1]
        /\ Len(args.options) \in Nat \ {0} /\ DOMAIN args.options = 1 .. Len(args.options)
        /\ DOMAIN Tail(args.options) = 1 .. Len(args.options) - 1
        /\ \A i \in 1 .. Len(args.options) - 1 : Tail(args.options)[i] = args.options[i + 1]
    BY <2>1, HeadTailProperties, LenProperties, EmptySeq DEF Scenario
  <2>3. chip.old => o[1] # "no2bytes"
    BY <2>1, <2>2 DEF OldIsKnown
  <2>4. o[1] # "no2bytes" => opts'.no2bytes = opts.no2bytes
    <3>1. opts \in Globals
      BY DEF TypeInv
    <3>2. CASE opts' = opts
      BY <3>2
    <3>3. CASE opts' \in Parsed(opts, o[1], o[2])
      <4>1. CASE o[1] = "patchram"
        BY <3>1, <3>3, <4>1 DEF Parsed, Flag, Opened, Globals
      <4>2. CASE o[1] = "baudrate"
        BY <3>1, <3>3, <4>2 DEF Parsed, Flag, Globals
      <4>3. CASE o[1] = "bd_addr"
        BY <3>1, <3>3, <4>3 DEF Parsed, Flag, Globals
      <4>4. CASE o[1] \in Flag
        BY <3>1, <3>3, <4>4 DEF Parsed, Flag, Globals
      <4>5. CASE o[1] \notin Flag \cup {"patchram", "baudrate", "bd_addr"}
        BY <3>3, <4>5 DEF Parsed
      <4> QED BY <4>1, <4>2, <4>3, <4>4, <4>5
    <3> QED BY <1>2, <3>2, <3>3 DEF ParseOption
  <2>5. \A i \in 1 .. Len(args.options) - 1 : i + 1 \in 1 .. Len(args.options)
    BY <2>2
  <2> QED BY <1>1, <2>1, <2>2, <2>3, <2>4, <2>5 DEF OldIsKnown
<1>3. CASE OpenDevice
  <2>1. opts \in Globals
    BY DEF TypeInv
  <2>2. opts'.no2bytes = opts.no2bytes
    BY <1>3, <2>1 DEF OpenDevice, Opened, Globals
  <2>3. args' = args
    BY <1>3 DEF OpenDevice
  <2>4. phase = "options"
    BY <1>3 DEF OpenDevice
  <2> QED BY <1>1, <2>2, <2>3, <2>4 DEF OldIsKnown
<1>4. CASE ~ParseOption /\ ~OpenDevice
  <2>1. args' = args /\ opts' = opts /\ (phase' = "options" => phase = "options")
    BY <1>4 DEF Next, HostStep, init_uart, SendCommand, SetAlarm, ReadHeader, ReadBody, OnlyMain,
         ReadTwoBytes, ReadRecordHeader, ReadRecordPayload, SetSpeed, proc_enable_hci, Finish, Does,
         expired, ChipExecutes,
         ChipAnswers, ChipBoots, LineGoes, hostVars, vars
  <2> QED BY <1>1, <2>1 DEF OldIsKnown
<1> QED BY <1>2, <1>3, <1>4

LEMMA InStepGoesOn ==
  ASSUME NEW g \in Globals, NEW t, NEW k \in 1 .. Last, NEW c, NEW m, NEW r, NEW n,
         At(t, k, "start", g), InStep(k, "start", g, c, m, r, n), c.old => ~g.no2bytes
  PROVE  \E j \in 1 .. Last : Standing(t, j, "start", g) /\ InStep(j, "start", g, c, m, r, n)
<1> DEFINE K == {j \in 1 .. Last : At(t, j, "start", g) /\ InStep(j, "start", g, c, m, r, n)}
<1>1. K \in SUBSET (1 .. Last) /\ k \in K
  OBVIOUS
<1>2. \A j \in K : j # Last /\ ~Given(j, g) => j + 1 \in K
  <2> SUFFICES ASSUME NEW j \in K, j # Last, ~Given(j, g) PROVE j + 1 \in K
    OBVIOUS
  <2>1. j \in 1 .. 16 /\ j + 1 \in 1 .. Last
    BY DEF Last
  <2>2. At(t, j + 1, "start", g)
    BY <2>1, Skips
  <2>3. InStep(j + 1, "start", g, c, m, r, n)
    <3>1. InStep(j, "start", g, c, m, r, n)
      OBVIOUS
    <3>2. ~(j = 5 /\ g.hcdfile_fd > 0 /\ c.old)
      BY DEF Given
    <3> QED BY <3>1, <3>2 DEF InStep
  <2> QED BY <2>1, <2>2, <2>3
<1>3. PICK j \in K : j = Last \/ Given(j, g)
  <2> HIDE DEF K
  <2> QED BY <1>1, <1>2, Settles
<1>4. Standing(t, j, "start", g)
  BY <1>1, <1>3 DEF Standing, Where
<1> QED BY <1>3, <1>4

LEMMA OneFacts ==
  ASSUME NEW t \in Seq(Message), Len(t) = 1
  PROVE  t # << >> /\ Tail(t) = << >>
<1>1. t # << >>
  OBVIOUS
<1>2. Tail(t) \in Seq(Message) /\ Len(Tail(t)) = 0
  BY <1>1, HeadTailProperties
<1> QED BY <1>1, <1>2, EmptySeq

LEMMA SentFacts ==
  ASSUME NEW m \in Message
  PROVE  /\ Append(<< >>, m) \in Seq(Message) /\ Len(Append(<< >>, m)) = 1
         /\ Head(Append(<< >>, m)) = m
<1>1. << >> \in Seq(Message) /\ Len(<< >>) = 0
  BY EmptySeq
<1>2. /\ Append(<< >>, m) \in Seq(Message) /\ Len(Append(<< >>, m)) = 1
      /\ Append(<< >>, m)[1] = m /\ Append(<< >>, m) # << >>
  BY <1>1, AppendProperties
<1>3. Head(Append(<< >>, m)) = Append(<< >>, m)[1]
  BY <1>2, HeadTailProperties
<1> QED BY <1>2, <1>3

(* An answer on an empty line. *)
LEMMA AnswerOnEmpty ==
  ASSUME NEW n \in Commands, NEW status \in {0, 1}, NEW p, NEW m \in {<< >>, <<0, 0>>},
         rx = << >>, ChipAnswers(n, p, status, m)
  PROVE  rx' = << >> \/ (rx'[3] = 4 /\ Len(rx') = 7 + Len(m))
<1>1. PICK a \in Bytes : a = CommandComplete(n, status) /\ Len(a) = 7 /\ a[3] = 4
  BY AnswerFacts DEF IsAnswer
<1>2. << >> \o a = a
  BY <1>1, ConcatEmptySeq DEF Bytes
<1>3. m \in Bytes /\ Len(m) \in Nat
  <2>1. << >> \in Bytes /\ <<0, 0>> \in Bytes /\ Len(<< >>) = 0 /\ Len(<<0, 0>>) = 2
    BY DEF Bytes
  <2> QED BY <2>1
<1>4. ASSUME NEW b \in Seq(0 .. 255), NEW d \in Seq(0 .. 255), Len(b) = 7, b[3] = 4
      PROVE  (b \o d)[3] = 4 /\ Len(b \o d) = 7 + Len(d)
  <2>1. /\ Len(b \o d) = Len(b) + Len(d) /\ Len(d) \in Nat
        /\ \A i \in 1 .. Len(b) + Len(d) : (b \o d)[i] = IF i <= Len(b) THEN b[i] ELSE d[i - Len(b)]
    BY ConcatBytes, LenProperties
  <2> QED BY <1>4, <2>1
<1>5. (a \o m)[3] = 4 /\ Len(a \o m) = 7 + Len(m)
  BY <1>1, <1>3, <1>4 DEF Bytes
<1>6. rx' = << >> \/ rx' = a \o m
  BY <1>1, <1>2, Zenon DEF ChipAnswers
<1> QED BY <1>5, <1>6

LEMMA LineStaysInStep ==
  ASSUME TypeInv, Course, Prompt, [Next]_vars, phase = "main",
         NEW k, NEW w, Standing(todo, k, w, opts), InStep(k, w, opts, chip, tx, rx, len), Stays
  PROVE  InStep(k, w, opts, chip, tx, rx, len)'
<1>1. Doings(k, w) /\ k' = k /\ w' = w /\ opts' = opts /\ chip'.old = chip.old
  BY Doing, OldStaysOld DEF Stays
<1>3. len' = len
  BY DEF Stays, expired, ChipExecutes, ChipAnswers, ChipBoots, LineGoes, hostVars, vars
<1>4. CASE expired
  <2>0. alarm \notin {"raised", "stray"}
    BY DEF Course, Prompt
  <2>1. Does("header") /\ tx = << >> /\ rx = << >> /\ rx' = rx
    BY <1>4, <2>0 DEF expired, Prompt, hci_send_cmd
  <2>2. w = "header"
    BY <1>1, <2>1 DEF Doings
  <2>3. <<"reset", 0>> \in Message
    BY DEF Message, Commands
  <2>4. tx' = << >> \/ tx' = Append(<< >>, <<"reset", 0>>)
    BY <1>4, <2>1 DEF expired, hci_send_cmd
  <2>5. tx' = << >> \/ (Len(tx') = 1 /\ Head(tx')[1] = "reset")
    BY <2>3, <2>4, SentFacts
  <2> QED BY <1>1, <2>1, <2>2, <2>5 DEF InStep, Waiting
<1>5. CASE ChipExecutes
  <2> DEFINE n == Head(tx)[1]
  <2>1. tx # << >> /\ Head(tx) \in Message /\ tx' = Tail(tx) /\ n \in Commands
    BY <1>5, ChipExecutesTypes DEF Message
  <2>2. w \in {"armed", "header"} /\ Len(tx) = 1 /\ rx = << >> /\ (n = "minidriver" => k = 4)
    <3>1. w \in Where
      BY DEF Standing
    <3> QED BY <2>1, <3>1 DEF InStep, Waiting, Where
  <2>3. tx' = << >>
    BY <2>1, <2>2, OneFacts DEF TypeInv
  <2>4. PICK s \in {0, 1}, m \in {<< >>, <<0, 0>>} :
          /\ ChipAnswers(n, Head(tx)[2], s, m)
          /\ m = << >> \/ (n = "minidriver" /\ chip.old)
    <3>1. CASE ChipAnswers(n, Head(tx)[2], 1, << >>)
      BY <3>1
    <3>3. CASE ChipAnswers(n, Head(tx)[2], 0, << >>)
      BY <3>3
    <3>2. CASE ChipAnswers(n, Head(tx)[2], 0, More(n))
      <4>1. CASE n = "minidriver" /\ chip.old
        <5>1. More(n) = <<0, 0>>
          BY <4>1 DEF More
        <5>2. ChipAnswers(n, Head(tx)[2], 0, <<0, 0>>)
          BY <3>2, <5>1, Zenon
        <5> QED BY <4>1, <5>2, Zenon
      <4>2. CASE ~(n = "minidriver" /\ chip.old)
        <5>1. More(n) = << >>
          BY <4>2 DEF More
        <5>2. ChipAnswers(n, Head(tx)[2], 0, << >>)
          BY <3>2, <5>1, Zenon
        <5> QED BY <5>2, Zenon
      <4> QED BY <4>1, <4>2
    <3> QED BY <1>5, <3>1, <3>2, <3>3, ChipMoves
  <2>5. rx' = << >> \/ (rx'[3] = 4 /\ Len(rx') = 7 + Len(m))
    BY <2>1, <2>2, <2>4, AnswerOnEmpty
  <2>6. m = << >> => Len(m) = 0
    OBVIOUS
  <2>8. m # << >> => Len(m) = 2 /\ k = 4 /\ chip.old
    <3>1. Len(<<0, 0>>) = 2
      OBVIOUS
    <3> QED BY <2>2, <2>4, <3>1
  <2>7. rx' = << >> \/ (rx'[3] = 4 /\ (Len(rx') = 7 \/ (Len(rx') = 9 /\ k = 4 /\ chip.old)))
    <3>1. Len(m) = 0 \/ (Len(m) = 2 /\ k = 4 /\ chip.old)
      BY <2>6, <2>8, Zenon
    <3>2. Len(m) = 0 /\ Len(rx') = 7 + Len(m) => Len(rx') = 7
      OBVIOUS
    <3>3. Len(m) = 2 /\ Len(rx') = 7 + Len(m) => Len(rx') = 9
      OBVIOUS
    <3> QED BY <2>5, <3>1, <3>2, <3>3, Zenon
  <2> QED BY <1>1, <2>2, <2>3, <2>7 DEF InStep, Waiting
<1>6. CASE ChipBoots \/ UNCHANGED vars
  <2>1. tx' = tx /\ rx' = rx
    BY <1>6 DEF ChipBoots, vars, lineVars
  <2> QED BY <1>1, <1>3, <2>1 DEF InStep, Waiting
<1>7. CASE LineGoes
  <2>1. tx' = << >> /\ rx' = << >>
    BY <1>7 DEF LineGoes
  <2> QED BY <1>1, <1>3, <2>1 DEF InStep, Waiting
<1> QED BY <1>4, <1>5, <1>6, <1>7 DEF Stays

(* Where each kind of step leads; behind a block, to a place from which     *)
(* main may go on to one further down.                                     *)
Reaches(k, w, j, v) ==
  \/ Stays /\ j = k /\ v = w
  \/ Sends(k, w) /\ j = k /\ v = IF k \in Resets THEN "armed" ELSE "header"
  \/ SendsRecord(k, w) /\ j = 6 /\ v = "header"
  \/ Arms(k, w) /\ j = k /\ v = "header"
  \/ Disarms(k, w) /\ j = k + 1 /\ v = "start"
  \/ GetsHeader(k, w) /\ j = k /\ v = "body"
  \/ GetsBody(k, w) /\ k \in Resets /\ j = k /\ v = "off"
  \/ GetsBody(k, w) /\ k = 6 /\ j = 6 /\ v = "start"
  \/ GetsBody(k, w) /\ k \in Commanding \ Resets /\ j = k + 1 /\ v = "start"
  \/ Passes(k, w) /\ j = k + 1 /\ v = "start"
  \/ FindsRecord(k, w) /\ j = 6 /\ v = "payload"
  \/ TakesRecord(k, w) /\ j = 6 /\ v = "send"
Arrives(j, v) == Standing(todo', j, v, opts') \/ (v = "start" /\ At(todo', j, "start", opts'))

LEMMA MainKeeps ==
  ASSUME [Next]_vars, phase = "main"
  PROVE  args' = args /\ opts' = opts
<1>1. ~ParseOption /\ ~OpenDevice /\ ~init_uart
  BY DEF ParseOption, OpenDevice, init_uart
<1> QED BY <1>1 DEF Next, HostStep, SendCommand, SetAlarm, ReadHeader, ReadBody, OnlyMain,
     ReadTwoBytes, ReadRecordHeader, ReadRecordPayload, SetSpeed, proc_enable_hci, Finish, expired,
     ChipExecutes,
     ChipAnswers, ChipBoots, LineGoes, hostVars, vars

LEMMA InStepMoves ==
  ASSUME TypeInv, Course, OldIsKnown, Prompt, [Next]_vars, phase = "main", phase' = "main",
         NEW k \in 1 .. Last, NEW w \in Where,
         Standing(todo, k, w, opts), InStep(k, w, opts, chip, tx, rx, len)
  PROVE  \E j \in 1 .. Last, v \in Where :
           Reaches(k, w, j, v) /\ Arrives(j, v) /\ InStep(j, v, opts', chip', tx', rx', len')
<1>0. TypeInv' /\ chip'.old = chip.old
  BY NextTypes, OldStaysOld
<1>3. MainSteps(k, w)
  BY MainStep
<1>4. rx \in Seq(0 .. 255) /\ Len(rx) \in Nat /\ (Len(rx) = 0 <=> rx = << >>)
  BY LenProperties, EmptySeq DEF TypeInv
<1>5. Len(rx') = 0 <=> rx' = << >>
  BY <1>0, EmptySeq DEF TypeInv
<1>6. opts' = opts
  BY MainKeeps
<1>7. CASE Stays
  <2>1. InStep(k, w, opts', chip', tx', rx', len')
    BY <1>7, LineStaysInStep
  <2>2. Standing(todo', k, w, opts')
    BY <1>7 DEF Stays
  <2> QED BY <1>7, <2>1, <2>2 DEF Reaches, Arrives
<1>8. SendCommand =>
        \E m \in Message : /\ m = <<Head(todo)[2], Head(todo)[3]>>
                           /\ tx' = tx \/ tx' = Append(tx, m)
                           /\ rx' = rx
  BY SendCommandTypes DEF SendCommand, hci_send_cmd
<1>9. CASE Sends(k, w)
  <2>1. /\ w = "start" /\ k \in Commanding /\ Head(todo) = Send(Name(k), Par(k, opts))
        /\ Standing(todo', k, IF k \in Resets THEN "armed" ELSE "header", opts')
    BY <1>9 DEF Sends
  <2>2. PICK m \in Message : /\ m = <<Head(todo)[2], Head(todo)[3]>>
                             /\ tx' = tx \/ tx' = Append(tx, m)
                             /\ rx' = rx
    BY <1>8, <1>9 DEF Sends
  <2>3. tx = << >> /\ rx = << >>
    BY <2>1 DEF InStep, Commanding
  <2>4. m[1] = Name(k)
    BY <2>1, <2>2, CallParts
  <2>5. m[1] = "minidriver" => k = 4
    BY <2>1, <2>4, NamesAreCommands
  <2>6. tx' = << >> \/ (Len(tx') = 1 /\ Head(tx') = m)
    BY <2>2, <2>3, SentFacts
  <2>7. Waiting(k, chip', tx', rx')
    BY <2>2, <2>3, <2>5, <2>6 DEF Waiting
  <2>8. InStep(k, IF k \in Resets THEN "armed" ELSE "header", opts', chip', tx', rx', len')
    BY <2>7 DEF InStep
  <2>9. (IF k \in Resets THEN "armed" ELSE "header") \in Where
    BY DEF Where
  <2> QED BY <1>9, <2>1, <2>8, <2>9 DEF Reaches, Arrives
<1>10. CASE SendsRecord(k, w)
  <2>1. /\ w = "send" /\ k = 6 /\ Standing(todo', 6, "header", opts')
        /\ \E r \in 1 .. Records + 1 : Head(todo) = Send("write_ram", r)
    BY <1>10 DEF SendsRecord
  <2>2. PICK m \in Message : /\ m = <<Head(todo)[2], Head(todo)[3]>>
                             /\ tx' = tx \/ tx' = Append(tx, m)
                             /\ rx' = rx
    BY <1>8, <1>10 DEF SendsRecord
  <2>3. tx = << >> /\ rx = << >>
    BY <2>1 DEF InStep
  <2>4. m[1] = "write_ram"
    BY <2>1, <2>2, CallParts
  <2>5. tx' = << >> \/ (Len(tx') = 1 /\ Head(tx') = m)
    BY <2>2, <2>3, SentFacts
  <2>6. Waiting(k, chip', tx', rx')
    BY <2>2, <2>3, <2>4, <2>5 DEF Waiting
  <2>7. InStep(6, "header", opts', chip', tx', rx', len')
    BY <2>1, <2>6 DEF InStep
  <2> QED BY <1>10, <2>1, <2>7 DEF Where, Reaches, Arrives
<1>11. CASE Arms(k, w)
  <2>1. /\ w = "armed" /\ k \in Resets /\ Standing(todo', k, "header", opts')
        /\ UNCHANGED <<tx, rx, chip>>
    BY <1>11 DEF Arms, SetAlarm, lineVars
  <2>2. InStep(k, "header", opts', chip', tx', rx', len')
    BY <2>1 DEF InStep
  <2> QED BY <1>11, <2>1, <2>2 DEF Where, Reaches, Arrives
<1>12. CASE Disarms(k, w)
  <2>1. /\ w = "off" /\ k + 1 \in 1 .. Last /\ At(todo', k + 1, "start", opts')
        /\ UNCHANGED <<tx, rx, chip>>
    BY <1>12 DEF Disarms, SetAlarm, lineVars
  <2>2. InStep(k + 1, "start", opts', chip', tx', rx', len')
    BY <2>1 DEF InStep
  <2> QED BY <1>12, <2>1, <2>2 DEF Where, Reaches, Arrives
<1>13. CASE GetsHeader(k, w)
  <2>1. /\ w = "header" /\ Standing(todo', k, "body", opts') /\ Len(rx) >= 3
        /\ len' = rx[3] /\ Drop(3)
    BY <1>13 DEF GetsHeader, ReadHeader
  <2>2. tx = << >> /\ rx[3] = 4 /\ (Len(rx) = 7 \/ (Len(rx) = 9 /\ k = 4 /\ chip.old))
    BY <1>4, <2>1 DEF InStep, Waiting
  <2>3. Len(rx') = Len(rx) - 3 /\ tx' = tx
    BY <1>4, <2>1, DropFacts
  <2>4. InStep(k, "body", opts', chip', tx', rx', len')
    BY <1>0, <2>1, <2>2, <2>3 DEF InStep
  <2> QED BY <1>13, <2>1, <2>4 DEF Where, Reaches, Arrives
<1>14. CASE GetsBody(k, w)
  <2>1. w = "body" /\ Len(rx) >= len /\ Drop(len)
    BY <1>14 DEF GetsBody, ReadBody
  <2>2. tx = << >> /\ len = 4 /\ (Len(rx) = 4 \/ (Len(rx) = 6 /\ k = 4 /\ chip.old))
    BY <1>4, <2>1 DEF InStep
  <2>3. tx' = << >> /\ (rx' = << >> \/ (Len(rx') = 2 /\ k = 4 /\ chip.old))
    <3>1. Len(rx') = Len(rx) - 4 /\ tx' = tx
      BY <1>4, <2>1, <2>2, DropFacts
    <3> QED BY <1>5, <2>2, <3>1
  <2>4. CASE k \in Resets /\ Standing(todo', k, "off", opts')
    <3>1. InStep(k, "off", opts', chip', tx', rx', len')
      BY <2>3, <2>4 DEF InStep, Resets
    <3>2. Reaches(k, w, k, "off") /\ Arrives(k, "off")
      BY <1>14, <2>4 DEF Reaches, Arrives
    <3> QED BY <3>1, <3>2 DEF Where
  <2>5. CASE k = 6 /\ At(todo', 6, "start", opts')
    <3>1. InStep(6, "start", opts', chip', tx', rx', len')
      BY <2>3, <2>5 DEF InStep
    <3>2. Reaches(k, w, 6, "start") /\ Arrives(6, "start")
      BY <1>14, <2>5 DEF Reaches, Arrives
    <3> QED BY <3>1, <3>2 DEF Where, Last
  <2>6. CASE k \in Commanding \ Resets /\ k + 1 \in 1 .. Last /\ At(todo', k + 1, "start", opts')
    <3>1. k = 4 => opts'.hcdfile_fd > 0
      BY <1>6, <2>1 DEF Standing, At, Given
    <3>2. InStep(k + 1, "start", opts', chip', tx', rx', len')
      BY <1>0, <2>3, <2>6, <3>1 DEF InStep
    <3> QED BY <1>14, <2>6, <3>2 DEF Where, Reaches, Arrives
  <2> QED BY <1>14, <2>4, <2>5, <2>6 DEF GetsBody
<1>15. CASE Passes(k, w)
  <2>1. w = "start" /\ k + 1 \in 1 .. Last /\ At(todo', k + 1, "start", opts')
    BY <1>15 DEF Passes
  <2>2. tx = << >> /\ (rx = << >> \/ (k = 5 /\ Len(rx) = 2))
    BY <2>1 DEF InStep
  <2>3. k + 1 # 5 /\ tx' = << >> /\ rx' = << >>
    <3>1. CASE ReadTwoBytes /\ k = 5
      <4>1. ~Fails("short_read") /\ Len(rx) # 1
        <5>1. ~Fails("short_read")
          BY Zenon DEF Prompt
        <5>2. Len(rx) = 0 \/ Len(rx) = 2
          BY <1>4, <2>2, Zenon
        <5>3. 0 # 1 /\ 2 # 1
          OBVIOUS
        <5> QED BY <5>1, <5>2, <5>3, Zenon
      <4>3. (Len(rx) = 2 /\ Drop(2)) \/ (Len(rx) = 0 /\ Drop(0))
        <5>1. \/ Len(rx) >= 2 /\ Drop(2)
              \/ rx = << >> /\ Drop(0)
          BY <3>1, <4>1, Zenon DEF ReadTwoBytes
        <5>2. Len(rx) >= 2 => Len(rx) = 2
          BY <1>4, <2>2
        <5> QED BY <1>4, <5>1, <5>2
      <4>2. tx' = tx /\ Len(rx') = 0
        <5>1. Len(rx) = 2 /\ Drop(2) => tx' = tx /\ Len(rx') = 2 - 2
          BY <1>4, DropFacts
        <5>2. Len(rx) = 0 /\ Drop(0) => tx' = tx /\ Len(rx') = 0 - 0
          BY <1>4, DropFacts
        <5> QED BY <4>3, <5>1, <5>2
      <4> QED BY <1>5, <2>2, <3>1, <4>2
    <3>2. CASE SetSpeed /\ k \in {3, 7, 10}
      BY <2>2, <3>2 DEF SetSpeed, lineVars
    <3>3. CASE ReadRecordHeader /\ k = 6
      BY <2>2, <3>3 DEF ReadRecordHeader, lineVars
    <3>4. CASE proc_enable_hci /\ k = 16
      BY <2>2, <3>4 DEF proc_enable_hci
    <3> QED BY <1>15, <3>1, <3>2, <3>3, <3>4 DEF Passes
  <2>4. InStep(k + 1, "start", opts', chip', tx', rx', len')
    BY <2>3 DEF InStep
  <2> QED BY <1>15, <2>1, <2>4 DEF Where, Reaches, Arrives
<1>16. CASE TakesRecord(k, w)
  <2>1. w = "payload" /\ k = 6 /\ Standing(todo', 6, "send", opts') /\ UNCHANGED <<tx, rx>>
    BY <1>16 DEF TakesRecord, ReadRecordPayload, lineVars
  <2>2. InStep(6, "send", opts', chip', tx', rx', len')
    BY <2>1 DEF InStep
  <2> QED BY <1>16, <2>1, <2>2 DEF Where, Reaches, Arrives, Last
<1>17. CASE FindsRecord(k, w)
  <2>1. w = "start" /\ k = 6 /\ Standing(todo', 6, "payload", opts') /\ UNCHANGED <<tx, rx>>
    BY <1>17 DEF FindsRecord, ReadRecordHeader, lineVars
  <2>2. InStep(6, "payload", opts', chip', tx', rx', len')
    BY <2>1 DEF InStep
  <2> QED BY <1>17, <2>1, <2>2 DEF Where, Reaches, Arrives, Last
<1> QED BY <1>3, <1>7, <1>9, <1>10, <1>11, <1>12, <1>13, <1>14, <1>15, <1>16, <1>17 DEF MainSteps

LEMMA LineInvStep == TypeInv /\ Course /\ LineInv /\ [Next]_vars => LineInv'
<1> SUFFICES ASSUME TypeInv, Course, LineInv, [Next]_vars PROVE LineInv'
  OBVIOUS
<1>0. OldIsKnown' /\ OldIsKnown /\ TypeInv'
  BY OldStep, NextTypes DEF LineInv
<1>1. SUFFICES ASSUME Prompt', phase' = "main"
               PROVE  \E k \in 1 .. Last, w \in Where :
                        Standing(todo', k, w, opts') /\ InStep(k, w, opts', chip', tx', rx', len')
  BY <1>0 DEF LineInv
<1>2. opts' \in Globals /\ opts \in Globals /\ (chip'.old => ~opts'.no2bytes)
  BY <1>0 DEF TypeInv, OldIsKnown
<1>3. ASSUME NEW j \in 1 .. Last, At(todo', j, "start", opts'),
             InStep(j, "start", opts', chip', tx', rx', len')
      PROVE  \E k \in 1 .. Last, w \in Where :
               Standing(todo', k, w, opts') /\ InStep(k, w, opts', chip', tx', rx', len')
  <2>1. \E k \in 1 .. Last : Standing(todo', k, "start", opts') /\ InStep(k, "start", opts', chip', tx', rx', len')
    BY <1>2, <1>3, InStepGoesOn
  <2> QED BY <2>1 DEF Where
<1>4. CASE phase # "main"
  <2>1. init_uart
    BY <1>1, <1>4 DEF Next, HostStep, ParseOption, OpenDevice, SendCommand, SetAlarm, ReadHeader, ReadBody,
         ReadTwoBytes, ReadRecordHeader, ReadRecordPayload, SetSpeed, proc_enable_hci, Finish, Does,
         expired, ChipExecutes,
         ChipAnswers, ChipBoots, LineGoes, hostVars, vars
  <2>2. opts' = opts /\ todo' = main(opts) /\ tx' = << >> /\ rx' = << >>
    BY <2>1 DEF init_uart
  <2>3. At(todo', 1, "start", opts')
    BY <1>2, <2>2, MainIsRest DEF At
  <2>4. InStep(1, "start", opts', chip', tx', rx', len')
    BY <2>2 DEF InStep
  <2> QED BY <1>3, <2>3, <2>4 DEF Last
<1>5. CASE phase = "main"
  <2>1. Prompt
    <3>1. args' = args
      BY <1>5, MainKeeps
    <3> QED BY <1>1, <3>1 DEF Prompt, Fails
  <2>2. PICK k \in 1 .. Last, w \in Where :
          Standing(todo, k, w, opts) /\ InStep(k, w, opts, chip, tx, rx, len)
    BY <1>5, <2>1 DEF LineInv
  <2>3. PICK j \in 1 .. Last, v \in Where : Arrives(j, v) /\ InStep(j, v, opts', chip', tx', rx', len')
    BY <1>0, <1>1, <1>5, <2>1, <2>2, InStepMoves
  <2> QED BY <1>3, <2>3 DEF Arrives
<1> QED BY <1>4, <1>5

LEMMA LineInvariant == Spec => []LineInv
<1>1. Init => LineInv
  BY OldInit DEF Init, LineInv
<1> QED BY <1>1, LineInvStep, TypeInvariant, CourseInvariant, PTL DEF Spec

(* As long as answers come in time and whole: whatever is refused, lost    *)
(* by a booting chip or cut off, and whatever the file holds, no command   *)
(* of main is written before the answer to the former one has been read to *)
(* its last byte, the two bytes of an old chip included.                   *)
THEOREM HostAndChipInStep == Spec => []LockStep
<1>1. TypeInv /\ LineInv => LockStep
  <2> SUFFICES ASSUME TypeInv, LineInv, Prompt, Does("send") PROVE tx = << >> /\ rx = << >>
    BY DEF LockStep
  <2>1. PICK k \in 1 .. Last, w \in Where :
          Standing(todo, k, w, opts) /\ InStep(k, w, opts, chip, tx, rx, len)
    BY DEF LineInv, Does
  <2>2. Doings(k, w)
    BY <2>1, Doing DEF Does
  <2>3. (w = "start" /\ k \in Commanding) \/ w = "send"
    BY <2>2 DEF Doings
  <2> QED BY <2>1, <2>3 DEF InStep, Commanding
<1> QED BY <1>1, TypeInvariant, LineInvariant, PTL
-----------------------------------------------------------------------------
(* The records in order: what is on its way to the chip, and what it has   *)
(* carried out.                                                            *)

(* A record of the file, as it is read while the file is good.             *)
Genuine(m) == m[1] = "write_ram" /\ m[2] <= Records
Has(s, r) == \E i \in DOMAIN s : Genuine(s[i]) /\ s[i][2] = r
Named(s, n) == \E i \in DOMAIN s : s[i][1] = n
Taken(s) == \A i \in DOMAIN s : s[i][1] = "write_ram" => Genuine(s[i])
Within(s, n) == \A i \in DOMAIN s : Genuine(s[i]) => s[i][2] <= n
Bauds(s, b) == \A i \in DOMAIN s : s[i][1] = "baud" => s[i][2] = b

Rising(s) == \A i, j \in DOMAIN s : i < j /\ Genuine(s[i]) /\ Genuine(s[j]) => s[i][2] < s[j][2]
Below(s, t) == \A i \in DOMAIN s, j \in DOMAIN t : Genuine(s[i]) /\ Genuine(t[j]) => s[i][2] < t[j][2]
InOrder(s, t) == Rising(s) /\ Rising(t) /\ Below(s, t)

(* No record is left out: each follows the one before it, in t or in s.    *)
Before(t, j, r) == \E i \in DOMAIN t : i < j /\ Genuine(t[i]) /\ t[i][2] = r
Chained(s, t) ==
  \A j \in DOMAIN t : Genuine(t[j]) =>
    t[j][2] = 1 \/ Has(s, t[j][2] - 1) \/ Before(t, j, t[j][2] - 1)
(* The download is asked for before its records. *)
Leads(t) == \A i, j \in DOMAIN t : i < j /\ t[i][1] = "write_ram" => t[j][1] # "minidriver"

LEMMA MessageFacts == \A m \in Message : m[1] \in Commands /\ m[2] \in Nat
  BY DEF Message

LEMMA NamedFacts ==
  ASSUME NEW t \in Seq(Message), NEW n
  PROVE  /\ \A m \in Message : Named(Append(t, m), n) <=> Named(t, n) \/ m[1] = n
         /\ t # << >> => (Named(t, n) <=> Named(Tail(t), n) \/ Head(t)[1] = n)
<1>1. ASSUME NEW m \in Message PROVE Named(Append(t, m), n) <=> Named(t, n) \/ m[1] = n
  <2>1. /\ Len(t) \in Nat /\ DOMAIN t = 1 .. Len(t) /\ DOMAIN Append(t, m) = 1 .. Len(t) + 1
        /\ \A i \in 1 .. Len(t) : Append(t, m)[i] = t[i]
        /\ Append(t, m)[Len(t) + 1] = m
    BY AppendedFacts
  <2> QED BY <2>1 DEF Named
<1>2. ASSUME t # << >> PROVE Named(t, n) <=> Named(Tail(t), n) \/ Head(t)[1] = n
  <2>1. /\ Head(t) = t[1] /\ Len(t) \in Nat \ {0}
        /\ DOMAIN t = 1 .. Len(t) /\ DOMAIN Tail(t) = 1 .. Len(t) - 1
        /\ \A i \in 1 .. Len(t) - 1 : Tail(t)[i] = t[i + 1]
    BY <1>2, TailFacts
  <2>2. Named(t, n) => Named(Tail(t), n) \/ Head(t)[1] = n
    <3> SUFFICES ASSUME NEW i \in 1 .. Len(t), t[i][1] = n, i # 1 PROVE Named(Tail(t), n)
      BY <2>1 DEF Named
    <3>1. i - 1 \in 1 .. Len(t) - 1 /\ Tail(t)[i - 1] = t[i]
      BY <2>1
    <3> QED BY <2>1, <3>1 DEF Named
  <2>3. Named(Tail(t), n) \/ Head(t)[1] = n => Named(t, n)
    BY <2>1 DEF Named
  <2> QED BY <2>2, <2>3
<1> QED BY <1>1, <1>2

LEMMA HasFacts ==
  ASSUME NEW t \in Seq(Message)
  PROVE  /\ \A m \in Message, r \in Nat :
              Has(Append(t, m), r) <=> Has(t, r) \/ (Genuine(m) /\ m[2] = r)
         /\ \A r \in Nat : t # << >> =>
              (Has(t, r) <=> Has(Tail(t), r) \/ (Genuine(Head(t)) /\ Head(t)[2] = r))
<1>1. ASSUME NEW m \in Message, NEW r \in Nat
      PROVE  Has(Append(t, m), r) <=> Has(t, r) \/ (Genuine(m) /\ m[2] = r)
  <2>1. /\ Len(t) \in Nat /\ DOMAIN t = 1 .. Len(t) /\ DOMAIN Append(t, m) = 1 .. Len(t) + 1
        /\ \A i \in 1 .. Len(t) : Append(t, m)[i] = t[i]
        /\ Append(t, m)[Len(t) + 1] = m
    BY AppendedFacts
  <2> QED BY <2>1 DEF Has
<1>2. ASSUME NEW r \in Nat, t # << >>
      PROVE  Has(t, r) <=> Has(Tail(t), r) \/ (Genuine(Head(t)) /\ Head(t)[2] = r)
  <2>1. /\ Head(t) = t[1] /\ Len(t) \in Nat \ {0}
        /\ DOMAIN t = 1 .. Len(t) /\ DOMAIN Tail(t) = 1 .. Len(t) - 1
        /\ \A i \in 1 .. Len(t) - 1 : Tail(t)[i] = t[i + 1]
    BY <1>2, TailFacts
  <2>2. ASSUME NEW i \in 1 .. Len(t), Genuine(t[i]), t[i][2] = r, i # 1 PROVE Has(Tail(t), r)
    <3>1. i - 1 \in 1 .. Len(t) - 1 /\ Tail(t)[i - 1] = t[i]
      BY <2>1, <2>2
    <3> QED BY <2>1, <2>2, <3>1 DEF Has
  <2>3. Has(t, r) => Has(Tail(t), r) \/ (Genuine(Head(t)) /\ Head(t)[2] = r)
    <3> HIDE DEF Genuine
    <3> QED BY <2>1, <2>2 DEF Has
  <2>4. Has(Tail(t), r) => Has(t, r)
    BY <2>1 DEF Has
  <2>5. Genuine(Head(t)) /\ Head(t)[2] = r => Has(t, r)
    BY <2>1 DEF Has
  <2> QED BY <2>3, <2>4, <2>5
<1> QED BY <1>1, <1>2

(* What holds of every command holds of one more, and of one less.         *)
LEMMA EachFacts ==
  ASSUME NEW t \in Seq(Message), NEW n
  PROVE  /\ \A m \in Message :
              /\ Within(Append(t, m), n) <=> Within(t, n) /\ (Genuine(m) => m[2] <= n)
              /\ Bauds(Append(t, m), n) <=> Bauds(t, n) /\ (m[1] = "baud" => m[2] = n)
              /\ Taken(Append(t, m)) <=> Taken(t) /\ (m[1] = "write_ram" => Genuine(m))
         /\ t # << >> =>
              /\ Within(t, n) => Within(Tail(t), n) /\ (Genuine(Head(t)) => Head(t)[2] <= n)
              /\ Bauds(t, n) => Bauds(Tail(t), n) /\ (Head(t)[1] = "baud" => Head(t)[2] = n)
<1>1. ASSUME NEW m \in Message
      PROVE  /\ Within(Append(t, m), n) <=> Within(t, n) /\ (Genuine(m) => m[2] <= n)
             /\ Bauds(Append(t, m), n) <=> Bauds(t, n) /\ (m[1] = "baud" => m[2] = n)
             /\ Taken(Append(t, m)) <=> Taken(t) /\ (m[1] = "write_ram" => Genuine(m))
  <2>1. /\ Len(t) \in Nat /\ DOMAIN t = 1 .. Len(t) /\ DOMAIN Append(t, m) = 1 .. Len(t) + 1
        /\ \A i \in 1 .. Len(t) : Append(t, m)[i] = t[i]
        /\ Append(t, m)[Len(t) + 1] = m
    BY AppendedFacts
  <2>2. 1 .. Len(t) + 1 = 1 .. Len(t) \cup {Len(t) + 1}
    BY <2>1
  <2>3. Within(Append(t, m), n) <=> Within(t, n) /\ (Genuine(m) => m[2] <= n)
    BY <2>1, <2>2 DEF Within
  <2>4. Bauds(Append(t, m), n) <=> Bauds(t, n) /\ (m[1] = "baud" => m[2] = n)
    BY <2>1, <2>2 DEF Bauds
  <2>5. Taken(Append(t, m)) <=> Taken(t) /\ (m[1] = "write_ram" => Genuine(m))
    BY <2>1, <2>2 DEF Taken
  <2> QED BY <2>3, <2>4, <2>5
<1>2. ASSUME t # << >>
      PROVE  /\ Within(t, n) => Within(Tail(t), n) /\ (Genuine(Head(t)) => Head(t)[2] <= n)
             /\ Bauds(t, n) => Bauds(Tail(t), n) /\ (Head(t)[1] = "baud" => Head(t)[2] = n)
  <2>1. /\ Head(t) = t[1] /\ Len(t) \in Nat \ {0}
        /\ DOMAIN t = 1 .. Len(t) /\ DOMAIN Tail(t) = 1 .. Len(t) - 1
        /\ \A i \in 1 .. Len(t) - 1 : Tail(t)[i] = t[i + 1]
    BY <1>2, TailFacts
  <2>2. \A i \in 1 .. Len(t) - 1 : i + 1 \in 1 .. Len(t)
    BY <2>1
  <2>3. 1 \in 1 .. Len(t)
    BY <2>1
  <2>4. Within(t, n) => Within(Tail(t), n) /\ (Genuine(Head(t)) => Head(t)[2] <= n)
    BY <2>1, <2>2, <2>3 DEF Within
  <2>5. Bauds(t, n) => Bauds(Tail(t), n) /\ (Head(t)[1] = "baud" => Head(t)[2] = n)
    BY <2>1, <2>2, <2>3 DEF Bauds
  <2> QED BY <2>4, <2>5
<1> QED BY <1>1, <1>2

LEMMA OrderAppended ==
  ASSUME NEW s \in Seq(Message), NEW t \in Seq(Message), NEW m \in Message, InOrder(s, t),
         Genuine(m) => Within(s, m[2] - 1) /\ Within(t, m[2] - 1)
  PROVE  InOrder(s, Append(t, m))
<1>1. /\ Len(t) \in Nat /\ DOMAIN t = 1 .. Len(t) /\ DOMAIN Append(t, m) = 1 .. Len(t) + 1
      /\ \A i \in 1 .. Len(t) : Append(t, m)[i] = t[i]
      /\ Append(t, m)[Len(t) + 1] = m
  BY AppendedFacts
<1>2. m[2] \in Nat /\ (\A i \in DOMAIN t : t[i][2] \in Nat) /\ (\A i \in DOMAIN s : s[i][2] \in Nat)
  BY MessageFacts, ElementOfSeq, LenProperties
<1>3. Rising(Append(t, m))
  <2> SUFFICES ASSUME NEW i \in 1 .. Len(t) + 1, NEW j \in 1 .. Len(t) + 1, i < j,
                      Genuine(Append(t, m)[i]), Genuine(Append(t, m)[j])
               PROVE  Append(t, m)[i][2] < Append(t, m)[j][2]
    BY <1>1 DEF Rising
  <2>1. i \in 1 .. Len(t) /\ Genuine(t[i])
    BY <1>1
  <2>2. CASE j = Len(t) + 1
    <3>1. Genuine(m) /\ t[i][2] <= m[2] - 1
      BY <1>1, <2>1, <2>2 DEF Within
    <3> QED BY <1>1, <1>2, <2>1, <2>2, <3>1
  <2>3. CASE j \in 1 .. Len(t)
    BY <1>1, <2>1, <2>3 DEF InOrder, Rising
  <2> QED BY <1>1, <2>2, <2>3
<1>4. Below(s, Append(t, m))
  <2> SUFFICES ASSUME NEW i \in DOMAIN s, NEW j \in 1 .. Len(t) + 1,
                      Genuine(s[i]), Genuine(Append(t, m)[j])
               PROVE  s[i][2] < Append(t, m)[j][2]
    BY <1>1 DEF Below
  <2>2. CASE j = Len(t) + 1
    <3>1. Genuine(m) /\ s[i][2] <= m[2] - 1
      BY <1>1, <2>2 DEF Within
    <3> QED BY <1>1, <1>2, <2>2, <3>1
  <2>3. CASE j \in 1 .. Len(t)
    BY <1>1, <2>3 DEF InOrder, Below
  <2> QED BY <1>1, <2>2, <2>3
<1> QED BY <1>3, <1>4 DEF InOrder

LEMMA OrderExecuted ==
  ASSUME NEW s \in Seq(Message), NEW t \in Seq(Message), t # << >>, InOrder(s, t)
  PROVE  InOrder(s, Tail(t)) /\ InOrder(Append(s, Head(t)), Tail(t))
<1> DEFINE n == Len(s)
           a == Append(s, Head(t))
<1>1. /\ Head(t) = t[1] /\ Head(t) \in Message /\ Len(t) \in Nat \ {0}
      /\ DOMAIN t = 1 .. Len(t) /\ DOMAIN Tail(t) = 1 .. Len(t) - 1
      /\ \A i \in 1 .. Len(t) - 1 : Tail(t)[i] = t[i + 1]
  BY TailFacts
<1>2. /\ n \in Nat /\ DOMAIN s = 1 .. n /\ DOMAIN a = 1 .. n + 1
      /\ \A i \in 1 .. n : a[i] = s[i]
      /\ a[n + 1] = t[1]
  BY <1>1, AppendedFacts
<1> HIDE DEF n, a
<1>3. Rising(Tail(t))
  <2> SUFFICES ASSUME NEW i \in 1 .. Len(t) - 1, NEW j \in 1 .. Len(t) - 1, i < j,
                      Genuine(Tail(t)[i]), Genuine(Tail(t)[j])
               PROVE  Tail(t)[i][2] < Tail(t)[j][2]
    BY <1>1 DEF Rising
  <2>1. /\ i + 1 \in 1 .. Len(t) /\ j + 1 \in 1 .. Len(t) /\ i + 1 < j + 1
        /\ Tail(t)[i] = t[i + 1] /\ Tail(t)[j] = t[j + 1]
    BY <1>1
  <2> QED BY <1>1, <2>1 DEF InOrder, Rising
<1>4. Below(s, Tail(t))
  <2> SUFFICES ASSUME NEW i \in DOMAIN s, NEW j \in 1 .. Len(t) - 1, Genuine(s[i]), Genuine(t[j + 1])
               PROVE  s[i][2] < t[j + 1][2]
    BY <1>1 DEF Below
  <2>1. j + 1 \in 1 .. Len(t)
    BY <1>1
  <2> QED BY <1>1, <2>1 DEF InOrder, Below
<1>5. Rising(a)
  <2> SUFFICES ASSUME NEW i \in 1 .. n + 1, NEW j \in 1 .. n + 1, i < j, Genuine(a[i]), Genuine(a[j])
               PROVE  a[i][2] < a[j][2]
    BY <1>2 DEF Rising
  <2>1. i \in 1 .. n /\ Genuine(s[i])
    BY <1>2
  <2>2. CASE j = n + 1
    <3>1. 1 \in 1 .. Len(t) /\ Genuine(t[1])
      BY <1>1, <1>2, <2>2
    <3> QED BY <1>1, <1>2, <2>1, <2>2, <3>1 DEF InOrder, Below
  <2>3. CASE j \in 1 .. n
    BY <1>2, <2>1, <2>3 DEF InOrder, Rising
  <2> QED BY <1>2, <2>2, <2>3
<1>6. Below(a, Tail(t))
  <2> SUFFICES ASSUME NEW i \in 1 .. n + 1, NEW j \in 1 .. Len(t) - 1, Genuine(a[i]), Genuine(t[j + 1])
               PROVE  a[i][2] < t[j + 1][2]
    BY <1>1, <1>2 DEF Below
  <2>1. 1 \in 1 .. Len(t) /\ j + 1 \in 1 .. Len(t) /\ 1 < j + 1
    BY <1>1
  <2>2. CASE i = n + 1
    BY <1>1, <1>2, <2>1, <2>2 DEF InOrder, Rising
  <2>3. CASE i \in 1 .. n
    BY <1>1, <1>2, <2>1, <2>3 DEF InOrder, Below
  <2> QED BY <1>2, <2>2, <2>3
<1>7. Rising(s)
  BY DEF InOrder
<1> QED BY <1>3, <1>4, <1>5, <1>6, <1>7 DEF InOrder, a

LEMMA LeadsFacts ==
  ASSUME NEW t \in Seq(Message), Leads(t)
  PROVE  /\ \A m \in Message :
              m[1] # "minidriver" \/ ~Named(t, "write_ram") => Leads(Append(t, m))
         /\ t # << >> =>
              Leads(Tail(t)) /\ (Head(t)[1] = "write_ram" => ~Named(Tail(t), "minidriver"))
<1>1. ASSUME NEW m \in Message, m[1] # "minidriver" \/ ~Named(t, "write_ram")
      PROVE  Leads(Append(t, m))
  <2>1. /\ Len(t) \in Nat /\ DOMAIN t = 1 .. Len(t) /\ DOMAIN Append(t, m) = 1 .. Len(t) + 1
        /\ \A i \in 1 .. Len(t) : Append(t, m)[i] = t[i]
        /\ Append(t, m)[Len(t) + 1] = m
    BY AppendedFacts
  <2> SUFFICES ASSUME NEW i \in 1 .. Len(t) + 1, NEW j \in 1 .. Len(t) + 1, i < j,
                      Append(t, m)[i][1] = "write_ram"
               PROVE  Append(t, m)[j][1] # "minidriver"
    BY <2>1 DEF Leads
  <2>2. i \in 1 .. Len(t) /\ t[i][1] = "write_ram"
    BY <2>1
  <2>3. CASE j = Len(t) + 1
    BY <1>1, <2>1, <2>2, <2>3 DEF Named
  <2>4. CASE j \in 1 .. Len(t)
    BY <2>1, <2>2, <2>4 DEF Leads
  <2> QED BY <2>1, <2>3, <2>4
<1>2. ASSUME t # << >>
      PROVE  Leads(Tail(t)) /\ (Head(t)[1] = "write_ram" => ~Named(Tail(t), "minidriver"))
  <2>1. /\ Head(t) = t[1] /\ Len(t) \in Nat \ {0}
        /\ DOMAIN t = 1 .. Len(t) /\ DOMAIN Tail(t) = 1 .. Len(t) - 1
        /\ \A i \in 1 .. Len(t) - 1 : Tail(t)[i] = t[i + 1]
    BY <1>2, TailFacts
  <2>2. Leads(Tail(t))
    <3> SUFFICES ASSUME NEW i \in 1 .. Len(t) - 1, NEW j \in 1 .. Len(t) - 1, i < j,
                        Tail(t)[i][1] = "write_ram"
                 PROVE  Tail(t)[j][1] # "minidriver"
      BY <2>1 DEF Leads
    <3>1. /\ i + 1 \in 1 .. Len(t) /\ j + 1 \in 1 .. Len(t) /\ i + 1 < j + 1
          /\ Tail(t)[i] = t[i + 1] /\ Tail(t)[j] = t[j + 1]
      BY <2>1
    <3> QED BY <2>1, <3>1 DEF Leads
  <2>3. ASSUME t[1][1] = "write_ram", NEW j \in 1 .. Len(t) - 1
        PROVE  Tail(t)[j][1] # "minidriver"
    <3>1. 1 \in 1 .. Len(t) /\ j + 1 \in 1 .. Len(t) /\ 1 < j + 1 /\ Tail(t)[j] = t[j + 1]
      BY <2>1
    <3> QED BY <2>1, <2>3, <3>1 DEF Leads
  <2> QED BY <2>1, <2>2, <2>3 DEF Named
<1> QED BY <1>1, <1>2

LEMMA ChainAppended ==
  ASSUME NEW s \in Seq(Message), NEW t \in Seq(Message), NEW m \in Message, Chained(s, t),
         Genuine(m) => m[2] = 1 \/ Has(s, m[2] - 1) \/ Has(t, m[2] - 1)
  PROVE  Chained(s, Append(t, m))
<1> DEFINE a == Append(t, m)
<1>1. /\ Len(t) \in Nat /\ DOMAIN t = 1 .. Len(t) /\ DOMAIN a = 1 .. Len(t) + 1
      /\ \A i \in 1 .. Len(t) : a[i] = t[i]
      /\ a[Len(t) + 1] = m
  BY AppendedFacts
<1> HIDE DEF a
<1>2. \A i \in 1 .. Len(t) : i \in 1 .. Len(t) + 1
  BY <1>1
<1>3. ASSUME NEW j \in 1 .. Len(t) + 1, Genuine(a[j])
      PROVE  a[j][2] = 1 \/ Has(s, a[j][2] - 1) \/ Before(a, j, a[j][2] - 1)
  <2>1. CASE j = Len(t) + 1
    <3>1. a[j] = m /\ (m[2] = 1 \/ Has(s, m[2] - 1) \/ Has(t, m[2] - 1))
      BY <1>1, <1>3, <2>1
    <3>2. ASSUME Has(t, m[2] - 1) PROVE Before(a, j, m[2] - 1)
      <4>1. PICK i \in 1 .. Len(t) : Genuine(t[i]) /\ t[i][2] = m[2] - 1
        BY <1>1, <3>2 DEF Has
      <4>2. i < j /\ i \in DOMAIN a /\ a[i] = t[i]
        BY <1>1, <2>1, <4>1
      <4> QED BY <4>1, <4>2 DEF Before
    <3> QED BY <3>1, <3>2
  <2>2. CASE j \in 1 .. Len(t)
    <3>1. a[j] = t[j] /\ (t[j][2] = 1 \/ Has(s, t[j][2] - 1) \/ Before(t, j, t[j][2] - 1))
      BY <1>1, <1>3, <2>2 DEF Chained
    <3>2. ASSUME Before(t, j, t[j][2] - 1) PROVE Before(a, j, t[j][2] - 1)
      BY <1>1, <1>2, <3>2 DEF Before
    <3> QED BY <3>1, <3>2
  <2> QED BY <1>1, <2>1, <2>2
<1>4. Chained(s, a)
  BY <1>1, <1>3 DEF Chained
<1> QED BY <1>4 DEF a

LEMMA ChainExecuted ==
  ASSUME NEW s \in Seq(Message), NEW t \in Seq(Message), t # << >>, Chained(s, t)
  PROVE  /\ Chained(Append(s, Head(t)), Tail(t))
         /\ ~Genuine(Head(t)) => Chained(s, Tail(t))
         /\ Genuine(Head(t)) => Head(t)[2] = 1 \/ Has(s, Head(t)[2] - 1)
<1> DEFINE u == Tail(t)
<1>1. /\ Head(t) = t[1] /\ Head(t) \in Message /\ Len(t) \in Nat \ {0}
      /\ DOMAIN t = 1 .. Len(t) /\ DOMAIN u = 1 .. Len(t) - 1
      /\ \A i \in 1 .. Len(t) - 1 : u[i] = t[i + 1]
  BY TailFacts
<1> HIDE DEF u
<1>2. ASSUME NEW j \in 1 .. Len(t) - 1, Genuine(u[j])
      PROVE  \/ u[j][2] = 1 \/ Has(s, u[j][2] - 1) \/ Before(u, j, u[j][2] - 1)
             \/ Genuine(Head(t)) /\ Head(t)[2] = u[j][2] - 1
  <2>1. j + 1 \in 1 .. Len(t) /\ u[j] = t[j + 1]
    BY <1>1
  <2>2. u[j][2] = 1 \/ Has(s, u[j][2] - 1) \/ Before(t, j + 1, u[j][2] - 1)
    BY <1>1, <1>2, <2>1 DEF Chained
  <2>3. ASSUME Before(t, j + 1, u[j][2] - 1)
        PROVE  Before(u, j, u[j][2] - 1) \/ (Genuine(Head(t)) /\ Head(t)[2] = u[j][2] - 1)
    <3>1. PICK i \in 1 .. Len(t) : i < j + 1 /\ Genuine(t[i]) /\ t[i][2] = u[j][2] - 1
      BY <1>1, <2>3 DEF Before
    <3>2. CASE i = 1
      BY <1>1, <3>1, <3>2
    <3>3. CASE i # 1
      <4>1. i - 1 \in 1 .. Len(t) - 1 /\ i - 1 < j /\ u[i - 1] = t[i]
        BY <1>1, <3>1, <3>3
      <4> QED BY <1>1, <3>1, <4>1 DEF Before
    <3> QED BY <3>2, <3>3
  <2> QED BY <2>2, <2>3
<1>3. ASSUME NEW r, Has(s, r) PROVE Has(Append(s, Head(t)), r)
  <2>1. /\ Len(s) \in Nat /\ DOMAIN s = 1 .. Len(s) /\ DOMAIN Append(s, Head(t)) = 1 .. Len(s) + 1
        /\ \A i \in 1 .. Len(s) : Append(s, Head(t))[i] = s[i]
    BY <1>1, AppendedFacts
  <2> QED BY <1>3, <2>1 DEF Has
<1>4. ASSUME Genuine(Head(t)) PROVE Has(Append(s, Head(t)), Head(t)[2])
  <2>1. /\ Len(s) \in Nat /\ DOMAIN Append(s, Head(t)) = 1 .. Len(s) + 1
        /\ Append(s, Head(t))[Len(s) + 1] = Head(t)
    BY <1>1, AppendedFacts
  <2>2. Len(s) + 1 \in 1 .. Len(s) + 1
    BY <2>1
  <2> QED BY <1>4, <2>1, <2>2 DEF Has
<1>5. Chained(Append(s, Head(t)), u)
  BY <1>1, <1>2, <1>3, <1>4 DEF Chained
<1>6. ~Genuine(Head(t)) => Chained(s, u)
  BY <1>1, <1>2 DEF Chained
<1>7. ASSUME Genuine(t[1]) PROVE t[1][2] = 1 \/ Has(s, t[1][2] - 1)
  <2>1. 1 \in DOMAIN t
    BY <1>1
  <2>2. t[1][2] = 1 \/ Has(s, t[1][2] - 1) \/ Before(t, 1, t[1][2] - 1)
    BY <1>7, <2>1 DEF Chained
  <2>3. ~Before(t, 1, t[1][2] - 1)
    BY <1>1 DEF Before
  <2> QED BY <2>2, <2>3
<1> QED BY <1>1, <1>5, <1>6, <1>7 DEF u

LEMMA NoneNamed ==
  ASSUME NEW s, NEW t, ~Named(t, "write_ram")
  PROVE  Leads(t) /\ Chained(s, t)
  BY DEF Named, Leads, Chained, Genuine

LEMMA EmptyLine ==
  ASSUME NEW s, Rising(s)
  PROVE  /\ InOrder(s, << >>) /\ Leads(<< >>) /\ Chained(s, << >>)
         /\ \A n : ~Named(<< >>, n) /\ Bauds(<< >>, n) /\ Within(<< >>, n) /\ ~Has(<< >>, n)
         /\ Taken(<< >>)
<1>1. DOMAIN << >> = {}
  OBVIOUS
<1> QED
  BY <1>1 DEF InOrder, Rising, Below, Leads, Chained, Named, Bauds, Within, Has, Taken
-----------------------------------------------------------------------------
(* The chip will take no record any more.                                  *)
Dead(c, t) == c.mode # "download" /\ ~Named(t, "minidriver")
(* It will take the next one, for it has or will have the n before it.     *)
Able(d, t, c, b, n) ==
  c.awake /\ b = c.speed /\ \A q \in 1 .. n : q <= Records => Has(t, q) \/ Has(d, q)
(* The download has not begun. *)
Fresh(d, t, c, r) ==
  /\ c.mode = "rom" /\ r = 0
  /\ ~Named(t, "minidriver") /\ ~Named(t, "write_ram")
  /\ ~Named(d, "minidriver") /\ ~Named(d, "write_ram")
Whole(d, t, c) == Leads(t) /\ (Dead(c, t) \/ Chained(d, t)) /\ Chained(<< >>, d)
Goes(d, t, c, b, n) == Dead(c, t) \/ c.gone \/ Able(d, t, c, b, n)

ModeAfter(c, n, p) ==
  IF n = "minidriver" THEN "download" ELSE IF Launches(n, p) THEN "patched" ELSE c.mode
SpeedAfter(c, n, p) ==
  IF n = "baud" THEN p ELSE IF Launches(n, p) THEN Default ELSE c.speed
AwakeAfter(c, n, p) == IF Launches(n, p) THEN FALSE ELSE c.awake
Wipes(n, p) == n = "reset" \/ Launches(n, p)
AddrAfter(c, n, p) ==
  IF n = "bd_addr" THEN p ELSE IF Wipes(n, p) THEN NoAddress ELSE c.addr
SettingsAfter(c, n, p) ==
  IF n \in Settings THEN c.settings \cup {n} ELSE IF Wipes(n, p) THEN {} ELSE c.settings

LEMMA EffectOf ==
  ASSUME NEW c \in Chip, NEW n \in Commands, NEW p
  PROVE  /\ Effect(c, n, p).mode = ModeAfter(c, n, p)
         /\ Effect(c, n, p).speed = SpeedAfter(c, n, p)
         /\ Effect(c, n, p).awake = AwakeAfter(c, n, p)
         /\ Effect(c, n, p).addr = AddrAfter(c, n, p)
         /\ Effect(c, n, p).settings = SettingsAfter(c, n, p)
<1> USE DEF ModeAfter, SpeedAfter, AwakeAfter, AddrAfter, SettingsAfter, Wipes, Launches
<1>2. CASE n = "reset"
  <2>1. Effect(c, n, p) = [c EXCEPT !.settings = {}, !.addr = NoAddress]
    BY <1>2 DEF Effect
  <2> QED BY <1>2, <2>1 DEF Chip, Settings
<1>3. CASE n = "minidriver"
  <2>1. Effect(c, n, p) = [c EXCEPT !.mode = "download"]
    BY <1>3 DEF Effect
  <2> QED BY <1>3, <2>1 DEF Chip, Settings
<1>4. CASE n = "write_ram" /\ p = Records
  <2>1. Effect(c, n, p) = [c EXCEPT !.mode = "patched", !.speed = Default, !.awake = FALSE,
                                    !.settings = {}, !.addr = NoAddress]
    BY <1>4 DEF Effect
  <2> QED BY <1>4, <2>1 DEF Chip, Settings
<1>5. CASE n = "write_ram" /\ p # Records
  <2>1. Effect(c, n, p) = c
    BY <1>5 DEF Effect
  <2> QED BY <1>5, <2>1 DEF Settings
<1>6. CASE n = "baud"
  <2>1. Effect(c, n, p) = [c EXCEPT !.speed = p]
    BY <1>6 DEF Effect
  <2> QED BY <1>6, <2>1 DEF Chip, Settings
<1>7. CASE n = "bd_addr"
  <2>1. Effect(c, n, p) = [c EXCEPT !.addr = p]
    BY <1>7 DEF Effect
  <2> QED BY <1>7, <2>1 DEF Chip, Settings
<1>8. CASE n \in Settings
  <2>1. Effect(c, n, p) = [c EXCEPT !.settings = c.settings \cup {n}]
    BY <1>8 DEF Effect, Settings
  <2>2. n \notin {"minidriver", "baud", "write_ram", "reset", "bd_addr"}
    BY <1>8 DEF Settings
  <2> QED BY <1>8, <2>1, <2>2 DEF Chip
<1> QED BY <1>2, <1>3, <1>4, <1>5, <1>6, <1>7, <1>8 DEF Commands

(* A command that the chip carries out.                                    *)
LEMMA WholeTaken ==
  ASSUME NEW c \in Chip, NEW d \in Seq(Message), NEW t \in Seq(Message), t # << >>, Whole(d, t, c),
         Head(t)[1] = "write_ram" => Genuine(Head(t)) /\ c.mode = "download"
  PROVE  Whole(Append(d, Head(t)), Tail(t), Effect(c, Head(t)[1], Head(t)[2]))
<1> DEFINE m == Head(t)
           e == Effect(c, m[1], m[2])
<1>1. m \in Message /\ m[1] \in Commands /\ m[2] \in Nat
  BY MessageFacts, TailFacts
<1>2. e.mode = ModeAfter(c, m[1], m[2])
  BY <1>1, EffectOf
<1> HIDE DEF e
<1>3. Leads(t) /\ Leads(Tail(t))
  BY LeadsFacts DEF Whole
<1>4. Chained(<< >>, d) /\ << >> \in Seq(Message)
  BY DEF Whole
<1>5. CASE m[1] = "write_ram"
  <2>1. Chained(d, t)
    BY <1>5 DEF Whole, Dead
  <2>2. Chained(Append(d, m), Tail(t)) /\ (m[2] = 1 \/ Has(d, m[2] - 1))
    BY <1>5, <2>1, ChainExecuted
  <2>3. Chained(<< >>, Append(d, m))
    BY <1>1, <1>4, <2>2, ChainAppended
  <2> QED BY <1>3, <2>2, <2>3 DEF Whole, e
<1>6. CASE m[1] # "write_ram"
  <2>1. ~Genuine(m)
    BY <1>6 DEF Genuine
  <2>2. Chained(<< >>, Append(d, m))
    BY <1>1, <1>4, <2>1, ChainAppended
  <2>3. CASE Dead(c, t)
    <3>1. m[1] # "minidriver" /\ ~Named(Tail(t), "minidriver")
      BY <2>3, NamedFacts DEF Dead
    <3>2. e.mode = c.mode
      BY <1>2, <1>6, <3>1 DEF Launches, ModeAfter
    <3>3. Dead(e, Tail(t))
      BY <2>3, <3>1, <3>2 DEF Dead
    <3> QED BY <1>3, <2>2, <3>3 DEF Whole, e
  <2>4. CASE Chained(d, t)
    BY <1>3, <2>2, <2>4, ChainExecuted DEF Whole, e
  <2> QED BY <2>3, <2>4 DEF Whole
<1> QED BY <1>5, <1>6

(* A record that the chip refuses.                                         *)
LEMMA WholeRefused ==
  ASSUME NEW c \in Chip, NEW e, e.mode = c.mode,
         NEW d \in Seq(Message), NEW t \in Seq(Message), t # << >>, Whole(d, t, c),
         Head(t)[1] = "write_ram", ~Genuine(Head(t)) \/ c.mode # "download"
  PROVE  Whole(d, Tail(t), e)
<1>1. Leads(Tail(t)) /\ ~Named(Tail(t), "minidriver") /\ Chained(<< >>, d)
  BY LeadsFacts DEF Whole
<1>2. CASE c.mode # "download"
  BY <1>1, <1>2 DEF Whole, Dead
<1>3. CASE c.mode = "download"
  <2>1. Chained(d, t) /\ ~Genuine(Head(t))
    BY <1>3 DEF Whole, Dead
  <2>2. Chained(d, Tail(t))
    BY <2>1, ChainExecuted
  <2> QED BY <1>1, <2>2 DEF Whole
<1> QED BY <1>2, <1>3

LEMMA GoesOnTaken ==
  ASSUME NEW c \in Chip, NEW d \in Seq(Message), NEW t \in Seq(Message), t # << >>,
         NEW b, NEW n \in Nat \cup {-1}, Leads(t), Bauds(t, b), Goes(d, t, c, b, n),
         Head(t)[1] = "write_ram" => c.mode = "download"
  PROVE  Goes(Append(d, Head(t)), Tail(t), Effect(c, Head(t)[1], Head(t)[2]), b, n)
<1> DEFINE m == Head(t)
           e == Effect(c, m[1], m[2])
<1>1. m \in Message /\ m[1] \in Commands /\ m[2] \in Nat
  BY MessageFacts, TailFacts
<1>2. e.mode = ModeAfter(c, m[1], m[2])
  BY <1>1, EffectOf
<1>3. e.awake = AwakeAfter(c, m[1], m[2]) /\ e.speed = SpeedAfter(c, m[1], m[2]) /\ e.gone = c.gone
  BY <1>1, EffectOf, EffectKeeps
<1> HIDE DEF e
<1>4. CASE Launches(m[1], m[2])
  <2>1. ~Named(Tail(t), "minidriver") /\ m[1] = "write_ram"
    BY <1>4, LeadsFacts DEF Launches
  <2>2. e.mode = "patched"
    BY <1>2, <1>4, <2>1 DEF ModeAfter
  <2> QED BY <2>1, <2>2 DEF Goes, Dead, e
<1>5. CASE ~Launches(m[1], m[2])
  <2>1. CASE Dead(c, t)
    <3>1. m[1] # "minidriver" /\ ~Named(Tail(t), "minidriver")
      BY <2>1, NamedFacts DEF Dead
    <3>2. e.mode = c.mode
      BY <1>2, <1>5, <3>1 DEF ModeAfter
    <3> QED BY <2>1, <3>1, <3>2 DEF Goes, Dead, e
  <2>2. CASE c.gone
    BY <1>3, <2>2 DEF Goes, e
  <2>3. CASE Able(d, t, c, b, n)
    <3>1. m[1] = "baud" => m[2] = b
      BY EachFacts
    <3>2. e.awake /\ b = e.speed
      BY <1>3, <1>5, <2>3, <3>1 DEF Able, AwakeAfter, SpeedAfter
    <3>3. ASSUME NEW q \in 1 .. n, q <= Records PROVE Has(Tail(t), q) \/ Has(Append(d, m), q)
      <4>1. q \in Nat /\ (Has(t, q) \/ Has(d, q))
        BY <2>3, <3>3 DEF Able
      <4> QED BY <1>1, <4>1, HasFacts
    <3> QED BY <3>2, <3>3 DEF Goes, Able, e
  <2> QED BY <2>1, <2>2, <2>3 DEF Goes
<1> QED BY <1>4, <1>5

LEMMA GoesOnRefused ==
  ASSUME NEW c \in Chip, NEW e, e.mode = c.mode, e.gone = c.gone, e.awake = c.awake, e.speed = c.speed,
         NEW d \in Seq(Message), NEW t \in Seq(Message), t # << >>,
         NEW b, NEW n \in Nat \cup {-1}, Leads(t), Goes(d, t, c, b, n),
         Head(t)[1] = "write_ram", ~Genuine(Head(t)) \/ c.mode # "download"
  PROVE  Goes(d, Tail(t), e, b, n)
<1>1. ~Named(Tail(t), "minidriver")
  BY LeadsFacts
<1>2. CASE c.mode # "download"
  BY <1>1, <1>2 DEF Goes, Dead
<1>3. CASE c.gone
  BY <1>3 DEF Goes
<1>4. CASE ~Genuine(Head(t)) /\ c.mode = "download" /\ ~c.gone
  <2>1. Able(d, t, c, b, n)
    BY <1>4 DEF Goes, Dead
  <2>2. ASSUME NEW q \in 1 .. n, q <= Records PROVE Has(Tail(t), q) \/ Has(d, q)
    <3>1. q \in Nat /\ (Has(t, q) \/ Has(d, q))
      BY <2>1, <2>2 DEF Able
    <3> QED BY <1>4, <3>1, HasFacts
  <2> QED BY <2>1, <2>2 DEF Goes, Able
<1> QED BY <1>2, <1>3, <1>4

LEMMA FreshFacts ==
  ASSUME NEW c \in Chip, NEW d \in Seq(Message), NEW t \in Seq(Message), NEW r, Fresh(d, t, c, r)
  PROVE  /\ \A m \in Message : m[1] \notin {"minidriver", "write_ram"} => Fresh(d, Append(t, m), c, r)
         /\ t # << >> =>
              /\ Fresh(Append(d, Head(t)), Tail(t), Effect(c, Head(t)[1], Head(t)[2]), r)
              /\ \A e : e.mode = c.mode => Fresh(d, Tail(t), e, r)
         /\ \A e : e.mode = c.mode => Fresh(d, << >>, e, r)
<1>1. ASSUME NEW m \in Message, m[1] \notin {"minidriver", "write_ram"}
      PROVE  Fresh(d, Append(t, m), c, r)
  BY <1>1, NamedFacts DEF Fresh
<1>2. ASSUME t # << >>
      PROVE  /\ Fresh(Append(d, Head(t)), Tail(t), Effect(c, Head(t)[1], Head(t)[2]), r)
             /\ \A e : e.mode = c.mode => Fresh(d, Tail(t), e, r)
  <2>1. Head(t) \in Message /\ Head(t)[1] \in Commands
    BY <1>2, MessageFacts, TailFacts
  <2>2. /\ Head(t)[1] \notin {"minidriver", "write_ram"}
        /\ ~Named(Tail(t), "minidriver") /\ ~Named(Tail(t), "write_ram")
    BY <1>2, NamedFacts DEF Fresh
  <2>3. ~Named(Append(d, Head(t)), "minidriver") /\ ~Named(Append(d, Head(t)), "write_ram")
    BY <2>1, <2>2, NamedFacts DEF Fresh
  <2>4. Effect(c, Head(t)[1], Head(t)[2]).mode = ModeAfter(c, Head(t)[1], Head(t)[2])
    BY <2>1, EffectOf
  <2>5. ModeAfter(c, Head(t)[1], Head(t)[2]) = c.mode
    BY <2>2 DEF ModeAfter, Launches
  <2> QED BY <2>2, <2>3, <2>4, <2>5 DEF Fresh
<1>3. ASSUME NEW e, e.mode = c.mode PROVE Fresh(d, << >>, e, r)
  <2>1. DOMAIN << >> = {}
    OBVIOUS
  <2> QED BY <1>3, <2>1 DEF Fresh, Named
<1> QED BY <1>1, <1>2, <1>3

(* How far the records have been sent, when main is in a place.            *)
Sent(w) ==
  IF w \in {"payload", "send"} /\ Head(todo)[3] <= Records THEN records - 1 ELSE records
Faulty == Fails("rejected") \/ Fails("hcd_read")
(* Nothing is refused, and what has been sent are records of the file.     *)
Sound(w) == ~Faulty /\ Sent(w) <= args.file.whole
(* The record on its way from the file to the line, and the file's         *)
(* position, which is wrong only when a read may have failed.              *)
Held(w) ==
  /\ w \in {"payload", "send"} /\ Head(todo)[3] <= Records =>
       Head(todo)[3] = records /\ records <= args.file.whole
  /\ ~Fails("hcd_read") =>
       /\ w = "payload" /\ Head(todo)[3] > Records => records > args.file.whole
       /\ w # "payload" => ~inside
Early(k, w) == k < 4 \/ (k = 4 /\ w = "start")
(* The change of speed in front of the download (its place is 2, that of   *)
(* the host 3) is on its way only with the speed the host takes.           *)
BaudsKnown(k, w) ==
  /\ k = 1 \/ (k = 2 /\ w = "start") => ~Named(tx, "baud")
  /\ k \in {2, 3} => ~Named(tx, "baud") \/ (Fast(opts) /\ Bauds(tx, opts.termios_baudrate))
  /\ k \in 4 .. 6 => Bauds(tx, speed)
Placed(k, w) ==
  /\ Early(k, w) => Fresh(done, tx, chip, records)
  /\ BaudsKnown(k, w)
  /\ Held(w)
  /\ Within(done, Sent(w)) /\ Within(tx, Sent(w))
  /\ Sound(w) /\ k \in 4 .. 6 /\ ~Early(k, w) => Goes(done, tx, chip, speed, Sent(w))

LineOrder ==
  /\ InOrder(done, tx) /\ Taken(done)
  /\ ~Faulty => Whole(done, tx, chip)
OrderInv ==
  /\ LineOrder
  /\ phase \in {"options", "uart"} =>
       Fresh(done, tx, chip, records) /\ tx = << >> /\ done = << >> /\ ~inside
  /\ phase = "main" => \E k \in 1 .. Last, w \in Where : Standing(todo, k, w, opts) /\ Placed(k, w)

LEMMA FaultyStays ==
  ASSUME TypeInv, [Next]_vars
  PROVE  /\ Faulty' <=> Faulty
         /\ Fails("hcd_read")' <=> Fails("hcd_read")
         /\ args'.file.whole = args.file.whole
  BY FaultsStay DEF Faulty

LEMMA HeldStill ==
  ASSUME TypeInv, [Next]_vars, NEW w, NEW v, {w, v} \cap {"payload", "send"} = {}, Held(w), inside' = inside
  PROVE  Held(v)' /\ Held(v)
  BY FaultyStays DEF Held

LEMMA OrderInit == Init => OrderInv
<1> SUFFICES ASSUME Init PROVE OrderInv
  OBVIOUS
<1>1. /\ phase = "options" /\ records = 0 /\ tx = << >> /\ done = << >> /\ chip.mode = "rom"
      /\ ~inside
  BY DEF Init
<1>2. Rising(<< >>)
  BY DEF Rising
<1>3. LineOrder
  <2>1. InOrder(<< >>, << >>) /\ Taken(<< >>) /\ Leads(<< >>) /\ Chained(<< >>, << >>)
    BY <1>2, EmptyLine
  <2> QED BY <1>1, <2>1 DEF LineOrder, Whole
<1>4. Fresh(done, tx, chip, records)
  <2>1. \A n : ~Named(<< >>, n)
    BY <1>2, EmptyLine
  <2> QED BY <1>1, <2>1 DEF Fresh
<1> QED BY <1>1, <1>3, <1>4 DEF OrderInv

LEMMA PlacedSkips ==
  ASSUME TypeInv, NEW j \in 1 .. 16, ~Given(j, opts), Placed(j, "start")
  PROVE  Placed(j + 1, "start")
<1>1. opts \in Globals
  BY DEF TypeInv
<1>2. j # 1
  BY DEF Given
<1>3. Within(done, Sent("start")) /\ Within(tx, Sent("start")) /\ Held("start")
  BY DEF Placed
<1>4. Early(j + 1, "start") => Fresh(done, tx, chip, records)
  <2>1. Early(j + 1, "start") => Early(j, "start")
    BY DEF Early
  <2> QED BY <2>1 DEF Placed
<1>5. BaudsKnown(j + 1, "start")
  <2>1. BaudsKnown(j, "start")
    BY DEF Placed
  <2>2. j \in {2, 3} => ~Fast(opts)
    BY DEF Given
  <2>3. \A b : ~Named(tx, "baud") => Bauds(tx, b)
    BY DEF Named, Bauds
  <2> QED BY <1>2, <2>1, <2>2, <2>3 DEF BaudsKnown
<1>6. Sound("start") /\ j + 1 \in 4 .. 6 /\ ~Early(j + 1, "start") =>
        Goes(done, tx, chip, speed, Sent("start"))
  <2> SUFFICES ASSUME Sound("start"), j + 1 \in 4 .. 6, ~Early(j + 1, "start")
               PROVE  Goes(done, tx, chip, speed, Sent("start"))
    OBVIOUS
  <2>1. j = 4 \/ j = 5
    BY DEF Early
  <2>2. CASE j = 4
    <3>1. Fresh(done, tx, chip, records)
      BY <2>2 DEF Placed, Early
    <3> QED BY <3>1 DEF Goes, Dead, Fresh
  <2>3. CASE j = 5
    BY <2>3 DEF Placed, Early
  <2> QED BY <2>1, <2>2, <2>3
<1> QED BY <1>3, <1>4, <1>5, <1>6 DEF Placed

Settling ==
  \A k \in 1 .. Last : At(todo, k, "start", opts) /\ Placed(k, "start") =>
    \E j \in 1 .. Last : Standing(todo, j, "start", opts) /\ Placed(j, "start")

LEMMA PlacedGoesOn == TypeInv => Settling
<1> SUFFICES ASSUME TypeInv, NEW k \in 1 .. Last, At(todo, k, "start", opts), Placed(k, "start")
             PROVE  \E j \in 1 .. Last : Standing(todo, j, "start", opts) /\ Placed(j, "start")
  BY DEF Settling
<1> DEFINE K == {j \in 1 .. Last : At(todo, j, "start", opts) /\ Placed(j, "start")}
<1>0. opts \in Globals
  BY DEF TypeInv
<1>1. K \in SUBSET (1 .. Last) /\ k \in K
  OBVIOUS
<1>2. \A j \in K : j # Last /\ ~Given(j, opts) => j + 1 \in K
  <2> SUFFICES ASSUME NEW j \in K, j # Last, ~Given(j, opts) PROVE j + 1 \in K
    OBVIOUS
  <2>1. j \in 1 .. 16 /\ j + 1 \in 1 .. Last
    BY DEF Last
  <2>2. At(todo, j + 1, "start", opts)
    BY <1>0, <2>1, Skips
  <2>3. Placed(j + 1, "start")
    BY <2>1, PlacedSkips
  <2> QED BY <2>1, <2>2, <2>3
<1>3. PICK j \in K : j = Last \/ Given(j, opts)
  <2> HIDE DEF K
  <2> QED BY <1>0, <1>1, <1>2, Settles
<1>4. Standing(todo, j, "start", opts)
  BY <1>1, <1>3 DEF Standing, Where
<1> QED BY <1>3, <1>4

(* What the chip does with the next command on the line.                   *)
Takes ==
  /\ tx' = Tail(tx) /\ done' = Append(done, Head(tx))
  /\ chip' = Effect(chip, Head(tx)[1], Head(tx)[2])
  /\ Head(tx)[1] = "write_ram" => Genuine(Head(tx)) /\ chip.mode = "download"
Refuses ==
  /\ tx' = Tail(tx) /\ done' = done
  /\ chip'.mode = chip.mode /\ chip'.gone = chip.gone
  /\ chip'.awake = chip.awake /\ chip'.speed = chip.speed
  /\ ~Faulty =>
       Head(tx)[1] = "write_ram" /\ (~Genuine(Head(tx)) \/ chip.mode # "download")

LEMMA ChipTakesOrRefuses ==
  ASSUME TypeInv, ChipExecutes
  PROVE  /\ tx # << >> /\ Head(tx) \in Message /\ UNCHANGED hostVars
         /\ Takes \/ Refuses
<1>1. /\ tx # << >> /\ Head(tx) \in Message /\ tx' = Tail(tx) /\ UNCHANGED hostVars
      /\ chip \in Chip /\ [Next]_vars
  BY ChipExecutesTypes DEF TypeInv, Next
<1>2. Head(tx)[2] \in Nat /\ Records \in Nat
  BY <1>1, MessageFacts, ConstantFacts
<1>3. CASE /\ chip' = [chip EXCEPT !.rejected = TRUE]
           /\ Rejects(Head(tx)[1], Head(tx)[2]) /\ done' = done
  <2>1. /\ chip'.mode = chip.mode /\ chip'.gone = chip.gone
        /\ chip'.awake = chip.awake /\ chip'.speed = chip.speed
    BY <1>1, <1>3 DEF Chip
  <2>2. ASSUME ~Faulty
        PROVE  Head(tx)[1] = "write_ram" /\ (~Genuine(Head(tx)) \/ chip.mode # "download")
    <3>1. Head(tx)[1] = "write_ram" /\ (Head(tx)[2] > Records \/ chip.mode # "download")
      BY <1>3, <2>2 DEF Rejects, Faulty
    <3>2. Head(tx)[2] > Records => ~Genuine(Head(tx))
      BY <1>2 DEF Genuine
    <3> QED BY <3>1, <3>2
  <2> QED BY <1>1, <1>3, <2>1, <2>2 DEF Refuses
<1>4. CASE /\ chip' = Effect(chip, Head(tx)[1], Head(tx)[2])
           /\ Accepts(Head(tx)[1], Head(tx)[2]) /\ done' = Append(done, Head(tx))
  BY <1>1, <1>4 DEF Accepts, Takes, Genuine
<1>5. CASE chip' = chip /\ Spoils(Head(tx)[1], Head(tx)[2]) /\ done' = done
  <2>1. Head(tx)[1] = "write_ram" /\ ~Genuine(Head(tx))
    BY <1>2, <1>5 DEF Spoils, Genuine
  <2> QED BY <1>1, <1>5, <2>1 DEF Refuses
<1> QED BY <1>1, <1>3, <1>4, <1>5, ChipMoves

(* Every other step leaves the mode and the speed of the chip.             *)
LEMMA ChipStays ==
  ASSUME TypeInv, [Next]_vars, ~ChipExecutes
  PROVE  /\ chip'.mode = chip.mode /\ chip'.speed = chip.speed
         /\ chip.gone => chip'.gone
         /\ chip.awake => chip'.awake
<1>1. chip \in Chip
  BY DEF TypeInv
<1> QED BY <1>1, ChipMoves DEF Chip

LEMMA Hears ==
  ASSUME SendCommand
  PROVE  \/ /\ tx' = Append(tx, <<Head(todo)[2], Head(todo)[3]>>)
            /\ chip.awake /\ ~chip.gone /\ speed = chip.speed
         \/ tx' = tx /\ (~chip.awake \/ chip.gone \/ speed # chip.speed)
  BY DEF SendCommand, hci_send_cmd

(* A record is sent behind the one before it.                              *)
LEMMA SentInOrder ==
  ASSUME TypeInv, OrderInv, SendCommand,
         tx' = Append(tx, <<Head(todo)[2], Head(todo)[3]>>)
  PROVE  /\ InOrder(done, tx')
         /\ ~Faulty => Whole(done, tx', chip)
<1> DEFINE m == <<Head(todo)[2], Head(todo)[3]>>
<1>1. m \in Message /\ m[1] = Head(todo)[2] /\ m[2] = Head(todo)[3]
  BY SendCommandTypes
<1>2. tx' = Append(tx, m)
  OBVIOUS
<1> HIDE DEF m
<1>3. /\ done \in Seq(Message) /\ tx \in Seq(Message) /\ chip \in Chip /\ InOrder(done, tx)
      /\ ~Faulty => Whole(done, tx, chip)
      /\ m[2] \in Nat /\ m[1] \in Commands /\ records \in Nat /\ Records \in Nat
  BY <1>1, MessageFacts, ConstantFacts DEF TypeInv, OrderInv, LineOrder
<1>4. Does("send") /\ phase = "main"
  BY DEF SendCommand, Does
<1>5. PICK k \in 1 .. Last, w \in Where : Standing(todo, k, w, opts) /\ Placed(k, w)
  BY <1>4 DEF OrderInv
<1>6. Doings(k, w)
  BY <1>4, <1>5, Doing
<1>7. CASE w = "send" /\ k = 6 /\ m[1] = "write_ram"
  <2>1. Genuine(m) => m[2] = records /\ Sent(w) = m[2] - 1 /\ Sent(w) <= args.file.whole
    <3>1. args.file.whole \in Nat
      BY FileFacts
    <3> QED BY <1>1, <1>3, <1>5, <1>7, <3>1 DEF Placed, Held, Sent, Genuine
  <2>2. Genuine(m) => Within(done, m[2] - 1) /\ Within(tx, m[2] - 1)
    BY <1>5, <2>1 DEF Placed
  <2>3. InOrder(done, tx')
    BY <1>1, <1>2, <1>3, <2>2, OrderAppended
  <2>4. ASSUME ~Faulty PROVE Whole(done, tx', chip)
    <3>1. Leads(tx') /\ Chained(<< >>, done)
      BY <1>1, <1>2, <1>3, <1>7, <2>4, LeadsFacts DEF Whole
    <3>2. CASE Dead(chip, tx)
      <4>1. Dead(chip, tx')
        BY <1>1, <1>2, <1>3, <1>7, <3>2, NamedFacts DEF Dead
      <4> QED BY <3>1, <4>1 DEF Whole
    <3>3. CASE ~Dead(chip, tx)
      <4>1. Chained(done, tx)
        BY <1>3, <2>4, <3>3 DEF Whole
      <4>2. ~chip.gone
        <5>1. ~(tx' = tx)
          <6>1. Len(Append(tx, m)) = Len(tx) + 1 /\ Len(tx) \in Nat
            BY <1>1, <1>3, AppendProperties, LenProperties
          <6> QED BY <1>2, <6>1
        <5> QED BY <5>1, Hears
      <4>3. Genuine(m) => m[2] = 1 \/ Has(done, m[2] - 1) \/ Has(tx, m[2] - 1)
        <5> SUFFICES ASSUME Genuine(m), m[2] # 1 PROVE Has(done, m[2] - 1) \/ Has(tx, m[2] - 1)
          OBVIOUS
        <5>1. m[2] # 0
          <6>1. \E r \in 1 .. Records + 1 : Head(todo) = Send("write_ram", r)
            BY <1>4, <1>6, <1>7 DEF Doings, Commanding
          <6> QED BY <1>1, <1>3, <6>1, CallParts
        <5>2. Sent(w) = m[2] - 1 /\ m[2] - 1 \in 1 .. m[2] - 1 /\ m[2] - 1 <= Records
          BY <1>3, <2>1, <5>1 DEF Genuine
        <5>3. Able(done, tx, chip, speed, Sent(w))
          <6>1. Sound(w) /\ ~Early(k, w)
            BY <1>7, <2>1, <2>4 DEF Sound, Early
          <6> QED BY <1>5, <1>7, <3>3, <4>2, <6>1 DEF Placed, Goes
        <5> QED BY <5>2, <5>3 DEF Able
      <4>4. Chained(done, tx')
        BY <1>1, <1>2, <1>3, <4>1, <4>3, ChainAppended
      <4> QED BY <3>1, <4>4 DEF Whole
    <3> QED BY <3>2, <3>3
  <2> QED BY <2>3, <2>4
<1>8. CASE w = "start" /\ k \in Commanding /\ m[1] = Name(k)
  <2>1. m[1] # "write_ram" /\ ~Genuine(m) /\ (m[1] = "minidriver" => k = 4)
    BY <1>8, NamesAreCommands DEF Genuine
  <2>2. InOrder(done, tx')
    BY <1>1, <1>2, <1>3, <2>1, OrderAppended
  <2>3. ASSUME ~Faulty PROVE Whole(done, tx', chip)
    <3>1. Chained(<< >>, done) /\ Leads(tx)
      BY <1>3, <2>3 DEF Whole
    <3>2. CASE k = 4
      <4>1. ~Named(tx, "write_ram")
        BY <1>5, <1>8, <3>2 DEF Placed, Early, Fresh
      <4>2. Leads(tx')
        BY <1>1, <1>2, <1>3, <3>1, <4>1, LeadsFacts
      <4>3. ~Named(tx', "write_ram")
        <5>1. Named(Append(tx, m), "write_ram") <=> Named(tx, "write_ram") \/ m[1] = "write_ram"
          BY <1>1, <1>3, NamedFacts
        <5> QED BY <1>2, <2>1, <4>1, <5>1
      <4>4. Chained(done, tx')
        BY <4>3, NoneNamed
      <4> QED BY <3>1, <4>2, <4>4 DEF Whole
    <3>3. CASE k # 4
      <4>1. Leads(tx')
        BY <1>1, <1>2, <1>3, <2>1, <3>1, <3>3, LeadsFacts
      <4>2. Chained(done, tx) => Chained(done, tx')
        BY <1>1, <1>2, <1>3, <2>1, ChainAppended
      <4>3. Dead(chip, tx) => Dead(chip, tx')
        <5>1. Named(Append(tx, m), "minidriver") <=> Named(tx, "minidriver") \/ m[1] = "minidriver"
          BY <1>1, <1>3, NamedFacts
        <5> QED BY <1>2, <2>1, <3>3, <5>1 DEF Dead
      <4> QED BY <1>3, <2>3, <3>1, <4>1, <4>2, <4>3 DEF Whole
    <3> QED BY <3>2, <3>3
  <2> QED BY <2>2, <2>3
<1>9. (w = "send" /\ k = 6 /\ m[1] = "write_ram") \/ (w = "start" /\ k \in Commanding /\ m[1] = Name(k))
  BY <1>1, <1>4, <1>6, CallParts DEF Doings
<1> QED BY <1>7, <1>8, <1>9

LEMMA LineOrderStep ==
  ASSUME TypeInv, OrderInv, [Next]_vars
  PROVE  LineOrder'
<1>1. /\ done \in Seq(Message) /\ tx \in Seq(Message) /\ chip \in Chip
      /\ InOrder(done, tx) /\ Taken(done)
      /\ ~Faulty => Whole(done, tx, chip)
  BY DEF TypeInv, OrderInv, LineOrder
<1>2. Faulty' <=> Faulty
  BY FaultyStays
<1>3. CASE ChipExecutes
  <2>1. tx # << >> /\ Head(tx) \in Message
    BY <1>3, ChipTakesOrRefuses
  <2>2. CASE Takes
    <3>1. InOrder(done', tx')
      BY <1>1, <2>1, <2>2, OrderExecuted DEF Takes
    <3>2. Taken(done')
      BY <1>1, <2>1, <2>2, EachFacts DEF Takes
    <3>3. ~Faulty => Whole(done', tx', chip')
      BY <1>1, <2>1, <2>2, WholeTaken DEF Takes
    <3> QED BY <1>2, <3>1, <3>2, <3>3 DEF LineOrder
  <2>3. CASE Refuses
    <3>1. InOrder(done', tx') /\ Taken(done')
      BY <1>1, <2>1, <2>3, OrderExecuted DEF Refuses
    <3>2. ~Faulty => Whole(done', tx', chip')
      BY <1>1, <2>1, <2>3, WholeRefused DEF Refuses
    <3> QED BY <1>2, <3>1, <3>2 DEF LineOrder
  <2> QED BY <1>3, <2>2, <2>3, ChipTakesOrRefuses
<1>4. CASE ~ChipExecutes
  <2>1. chip'.mode = chip.mode
    BY <1>4, ChipStays
  <2>2. CASE UNCHANGED <<tx, done>>
    BY <1>1, <1>2, <2>1, <2>2 DEF LineOrder, Whole, Dead
  <2>3. CASE done' = done /\ tx' = << >>
    <3>1. InOrder(done, << >>) /\ Leads(<< >>) /\ Chained(done, << >>)
      BY <1>1, EmptyLine DEF InOrder
    <3> QED BY <1>1, <1>2, <2>3, <3>1 DEF LineOrder, Whole
  <2>4. CASE done' = done /\ SendCommand /\ tx' = Append(tx, <<Head(todo)[2], Head(todo)[3]>>)
    <3>1. InOrder(done, tx') /\ (~Faulty => Whole(done, tx', chip))
      BY <2>4, SentInOrder
    <3>2. chip' = chip
      BY <2>4 DEF SendCommand, hci_send_cmd
    <3> QED BY <1>1, <1>2, <2>4, <3>1, <3>2 DEF LineOrder
  <2>5. CASE done' = done /\ expired /\ tx' = Append(tx, <<"reset", 0>>) /\ <<"reset", 0>> \in Message
    <3> DEFINE m == <<"reset", 0>>
    <3>1. m \in Message /\ m[1] = "reset" /\ tx' = Append(tx, m)
      BY <2>5
    <3> HIDE DEF m
    <3>2. ~Genuine(m)
      BY <3>1 DEF Genuine
    <3>3. InOrder(done, tx')
      BY <1>1, <3>1, <3>2, OrderAppended
    <3>4. ASSUME ~Faulty PROVE Whole(done, tx', chip')
      <4>1. Chained(<< >>, done) /\ Leads(tx')
        BY <1>1, <3>1, <3>4, LeadsFacts DEF Whole
      <4>2. Chained(done, tx) => Chained(done, tx')
        BY <1>1, <3>1, <3>2, ChainAppended
      <4>3. Dead(chip, tx) => Dead(chip', tx')
        BY <1>1, <2>1, <3>1, NamedFacts DEF Dead
      <4> QED BY <1>1, <3>4, <4>1, <4>2, <4>3 DEF Whole
    <3> QED BY <1>1, <1>2, <2>5, <3>3, <3>4 DEF LineOrder
  <2> QED BY <1>4, <2>2, <2>3, <2>4, <2>5, LineMoves
<1> QED BY <1>3, <1>4

(* What any step but the sending of a command leaves as it was.            *)
Flow(n, b) ==
  /\ \A r : Fresh(done, tx, chip, r) => Fresh(done', tx', chip', r)
  /\ ~Named(tx, "baud") => ~Named(tx', "baud")
  /\ \A v : Bauds(tx, v) => Bauds(tx', v)
  /\ Within(done, n) /\ Within(tx, n) => Within(done', n) /\ Within(tx', n)
  /\ ~Faulty /\ Bauds(tx, b) /\ Goes(done, tx, chip, b, n) => Goes(done', tx', chip', b, n)

LEMMA FlowKept ==
  ASSUME TypeInv, LineOrder, [Next]_vars, ~SendCommand, phase = "main",
         NEW n \in Nat \cup {-1}, NEW b
  PROVE  Flow(n, b)
<1>1. done \in Seq(Message) /\ tx \in Seq(Message) /\ chip \in Chip /\ Rising(done)
  BY DEF TypeInv, LineOrder, InOrder
<1>2. CASE ChipExecutes
  <2>1. tx # << >> /\ Head(tx) \in Message /\ chip \in Chip
    BY <1>1, <1>2, ChipTakesOrRefuses
  <2>2. \A v : Bauds(tx, v) => Bauds(Tail(tx), v)
    BY <1>1, <2>1, EachFacts
  <2>3. ~Named(tx, "baud") => ~Named(Tail(tx), "baud")
    BY <1>1, <2>1, NamedFacts
  <2>4. Within(tx, n) => Within(Tail(tx), n) /\ (Genuine(Head(tx)) => Head(tx)[2] <= n)
    BY <1>1, <2>1, EachFacts
  <2>5. CASE Takes
    <3>1. \A r : Fresh(done, tx, chip, r) => Fresh(done', tx', chip', r)
      BY <1>1, <2>1, <2>5, FreshFacts DEF Takes
    <3>2. Within(done, n) /\ Within(tx, n) => Within(done', n)
      BY <1>1, <2>1, <2>4, <2>5, EachFacts DEF Takes
    <3>3. ASSUME ~Faulty, Bauds(tx, b), Goes(done, tx, chip, b, n)
          PROVE  Goes(done', tx', chip', b, n)
      <4>1. Leads(tx)
        BY <3>3 DEF LineOrder, Whole
      <4> QED BY <1>1, <2>1, <2>5, <3>3, <4>1, GoesOnTaken DEF Takes
    <3>4. tx' = Tail(tx)
      BY <2>5 DEF Takes
    <3> QED BY <2>2, <2>3, <2>4, <3>1, <3>2, <3>3, <3>4 DEF Flow
  <2>6. CASE Refuses
    <3>1. \A r : Fresh(done, tx, chip, r) => Fresh(done', tx', chip', r)
      BY <1>1, <2>1, <2>6, FreshFacts DEF Refuses
    <3>2. ASSUME ~Faulty, Goes(done, tx, chip, b, n)
          PROVE  Goes(done', tx', chip', b, n)
      <4>1. Leads(tx)
        BY <3>2 DEF LineOrder, Whole
      <4> QED BY <1>1, <2>1, <2>6, <3>2, <4>1, GoesOnRefused DEF Refuses
    <3>3. tx' = Tail(tx) /\ done' = done
      BY <2>6 DEF Refuses
    <3> QED BY <2>2, <2>3, <2>4, <3>1, <3>2, <3>3 DEF Flow
  <2> QED BY <1>2, <2>5, <2>6, ChipTakesOrRefuses
<1>3. CASE LineGoes
  <2>1. tx' = << >> /\ done' = done /\ chip'.gone /\ chip'.mode = chip.mode
    BY <1>1, <1>3 DEF LineGoes, Chip
  <2>2. \A m : ~Named(<< >>, m) /\ Bauds(<< >>, m) /\ Within(<< >>, m)
    BY <1>1, EmptyLine
  <2>3. \A r : Fresh(done, tx, chip, r) => Fresh(done', tx', chip', r)
    BY <1>1, <2>1, FreshFacts
  <2> QED BY <2>1, <2>2, <2>3 DEF Flow, Goes
<1>4. CASE ~ChipExecutes /\ ~LineGoes
  <2>1. /\ chip'.mode = chip.mode /\ chip'.speed = chip.speed
        /\ chip.gone => chip'.gone
        /\ chip.awake => chip'.awake
    BY <1>4, ChipStays
  <2>2. CASE UNCHANGED <<tx, done>>
    <3>1. \A r : Fresh(done, tx, chip, r) => Fresh(done', tx', chip', r)
      BY <2>1, <2>2 DEF Fresh
    <3>2. Goes(done, tx, chip, b, n) => Goes(done', tx', chip', b, n)
      BY <2>1, <2>2 DEF Goes, Dead, Able
    <3> QED BY <2>2, <3>1, <3>2 DEF Flow
  <2>3. CASE expired /\ tx' = Append(tx, <<"reset", 0>>) /\ done' = done
    <3> DEFINE m == <<"reset", 0>>
    <3>1. m \in Message /\ m[1] = "reset" /\ tx' = Append(tx, m)
      BY <2>3 DEF Message, Commands
    <3> HIDE DEF m
    <3>2. ~Genuine(m)
      BY <3>1 DEF Genuine
    <3>3. \A r : Fresh(done, tx, chip, r) => Fresh(done', tx', chip', r)
      <4>1. \A r : Fresh(done, tx, chip, r) => Fresh(done, tx', chip, r)
        BY <1>1, <3>1, FreshFacts
      <4> QED BY <2>1, <2>3, <4>1 DEF Fresh
    <3>4. Named(tx', "baud") <=> Named(tx, "baud")
      <4>1. Named(Append(tx, m), "baud") <=> Named(tx, "baud") \/ m[1] = "baud"
        BY <1>1, <3>1, NamedFacts
      <4> QED BY <3>1, <4>1
    <3>5. \A v : Bauds(tx, v) => Bauds(tx', v)
      <4>1. \A v : Bauds(Append(tx, m), v) <=> Bauds(tx, v) /\ (m[1] = "baud" => m[2] = v)
        BY <1>1, <3>1, EachFacts
      <4> QED BY <3>1, <4>1
    <3>6. Within(tx, n) => Within(tx', n)
      <4>1. Within(Append(tx, m), n) <=> Within(tx, n) /\ (Genuine(m) => m[2] <= n)
        BY <1>1, <3>1, EachFacts
      <4> QED BY <3>1, <3>2, <4>1
    <3>7. Goes(done, tx, chip, b, n) => Goes(done', tx', chip', b, n)
      <4>1. Named(Append(tx, m), "minidriver") <=> Named(tx, "minidriver") \/ m[1] = "minidriver"
        BY <1>1, <3>1, NamedFacts
      <4>2. Dead(chip, tx) => Dead(chip', tx')
        BY <2>1, <3>1, <4>1 DEF Dead
      <4>3. Able(done, tx, chip, b, n) => Able(done', tx', chip', b, n)
        <5>1. \A q \in Nat : Has(tx, q) => Has(tx', q)
          BY <1>1, <3>1, HasFacts
        <5>2. \A q \in 1 .. n : q \in Nat
          OBVIOUS
        <5> QED BY <2>1, <2>3, <5>1, <5>2 DEF Able
      <4> QED BY <2>1, <4>2, <4>3 DEF Goes
    <3> QED BY <2>3, <3>3, <3>4, <3>5, <3>6, <3>7 DEF Flow
  <2>4. ~init_uart
    BY DEF init_uart
  <2>5. expired => done' = done /\ (tx' = tx \/ tx' = Append(tx, <<"reset", 0>>))
    BY DEF expired, hci_send_cmd
  <2>6. CASE ~expired
    <3>1. CASE ReadHeader \/ ReadBody \/ ReadTwoBytes
      <4>1. \E x : Drop(x)
        BY <3>1 DEF ReadHeader, ReadBody, ReadTwoBytes
      <4> QED BY <2>2, <4>1 DEF Drop
    <3>2. CASE \/ ParseOption \/ OpenDevice \/ SetAlarm \/ ReadRecordHeader \/ ReadRecordPayload \/ SetSpeed
               \/ proc_enable_hci \/ Finish \/ ChipBoots
      BY <2>2, <3>2 DEF ParseOption, OpenDevice, SetAlarm, ReadRecordHeader, ReadRecordPayload, SetSpeed,
         proc_enable_hci, Finish,
         ChipBoots, lineVars
    <3>3. CASE UNCHANGED vars
      BY <2>2, <3>3 DEF vars, lineVars
    <3> QED BY <1>4, <2>4, <2>6, <3>1, <3>2, <3>3 DEF Next, HostStep
  <2> QED BY <2>2, <2>3, <2>5, <2>6
<1> QED BY <1>2, <1>3, <1>4

(* Inside a block, and from one block to the next.                         *)
LEMMA SamePlace ==
  ASSUME TypeInv, [Next]_vars, NEW k, NEW w, NEW v, {w, v} \cap {"start", "payload", "send"} = {}, Placed(k, w),
         Flow(records, speed), UNCHANGED <<opts, speed, records, inside>>
  PROVE  Placed(k, v)'
<1>1. Sent(w) = records /\ Sent(v)' = records
  BY DEF Sent
<1>2. (Early(k, v) <=> Early(k, w)) /\ w # "start" /\ v # "start"
  BY DEF Early
<1>3. (Sound(v)' <=> Sound(w)) /\ (Sound(w) => ~Faulty)
  BY <1>1, FaultyStays DEF Sound
<1>9. Held(v)'
  <2>1. Held(w) /\ {w, v} \cap {"payload", "send"} = {}
    BY DEF Placed
  <2> QED BY <2>1, HeldStill
<1>4. BaudsKnown(k, v)'
  <2>1. BaudsKnown(k, w)
    BY DEF Placed
  <2> QED BY <1>2, <2>1 DEF BaudsKnown, Flow
<1>5. Early(k, v) => Fresh(done', tx', chip', records')
  BY <1>2 DEF Placed, Flow
<1>6. Within(done', records) /\ Within(tx', records)
  BY <1>1 DEF Placed, Flow
<1>7. Sound(w) /\ k \in 4 .. 6 /\ ~Early(k, v) => Goes(done', tx', chip', speed, records)
  <2> SUFFICES ASSUME Sound(w), k \in 4 .. 6, ~Early(k, v)
               PROVE  Goes(done', tx', chip', speed, records)
    OBVIOUS
  <2>1. Goes(done, tx, chip, speed, records) /\ Bauds(tx, speed)
    BY <1>1, <1>2 DEF Placed, BaudsKnown
  <2> QED BY <1>3, <2>1 DEF Flow
<1>8. Early(k, v)' <=> Early(k, v)
  BY DEF Early
<1> QED BY <1>1, <1>2, <1>3, <1>4, <1>5, <1>6, <1>7, <1>8, <1>9 DEF Placed

LEMMA NextPlace ==
  ASSUME TypeInv, [Next]_vars, NEW k \in 1 .. 16, NEW w, w \notin {"payload", "send"}, k = 4 => w # "start",
         Placed(k, w), Flow(records, speed), UNCHANGED <<opts, records, inside>>,
         \/ speed' = speed /\ k # 3
         \/ k \in {3, 7, 10} /\ (k = 3 => speed' = opts.termios_baudrate)
  PROVE  Placed(k + 1, "start")'
<1>1. Sent(w) = records /\ Sent("start")' = records
  BY DEF Sent
<1>3. (Sound("start")' <=> Sound(w)) /\ (Sound(w) => ~Faulty)
  BY <1>1, FaultyStays DEF Sound
<1>9. Held("start")'
  <2>1. Held(w) /\ {w, "start"} \cap {"payload", "send"} = {}
    BY DEF Placed
  <2> QED BY <2>1, HeldStill
<1>4. BaudsKnown(k + 1, "start")'
  <2>1. BaudsKnown(k, w)
    BY DEF Placed
  <2>2. k + 1 = 1 \/ k + 1 = 2 => ~Named(tx', "baud")
    BY <2>1 DEF BaudsKnown, Flow
  <2>3. k + 1 \in {2, 3} => ~Named(tx', "baud") \/ (Fast(opts) /\ Bauds(tx', opts.termios_baudrate))
    BY <2>1 DEF BaudsKnown, Flow
  <2>4. CASE k + 1 = 4
    <3>1. k = 3 /\ speed' = opts.termios_baudrate
      BY <2>4
    <3>2. ~Named(tx, "baud") \/ Bauds(tx, speed')
      BY <2>1, <3>1 DEF BaudsKnown
    <3>3. ~Named(tx, "baud") => Bauds(tx, speed')
      BY DEF Named, Bauds
    <3>4. Bauds(tx', speed')
      BY <3>2, <3>3 DEF Flow
    <3> QED BY <2>2, <2>3, <2>4, <3>4 DEF BaudsKnown
  <2>5. CASE k + 1 # 4
    <3>1. k + 1 \in 4 .. 6 => k \in 4 .. 6 /\ speed' = speed
      BY <2>5
    <3>2. k + 1 \in 4 .. 6 => Bauds(tx', speed')
      BY <2>1, <3>1 DEF BaudsKnown, Flow
    <3> QED BY <2>2, <2>3, <3>2 DEF BaudsKnown
  <2> QED BY <2>4, <2>5
<1>5. Early(k + 1, "start") => Fresh(done', tx', chip', records')
  <2>1. Early(k + 1, "start") => Early(k, w)
    BY DEF Early
  <2> QED BY <2>1 DEF Placed, Flow
<1>6. Within(done', records) /\ Within(tx', records)
  BY <1>1 DEF Placed, Flow
<1>7. Sound(w) /\ k + 1 \in 4 .. 6 /\ ~Early(k + 1, "start") =>
        Goes(done', tx', chip', speed', records)
  <2> SUFFICES ASSUME Sound(w), k + 1 \in 4 .. 6, ~Early(k + 1, "start")
               PROVE  Goes(done', tx', chip', speed', records)
    OBVIOUS
  <2>1. k \in 4 .. 6 /\ ~Early(k, w) /\ speed' = speed
    BY DEF Early
  <2>2. Goes(done, tx, chip, speed, records) /\ Bauds(tx, speed)
    BY <1>1, <2>1 DEF Placed, BaudsKnown
  <2> QED BY <1>3, <2>1, <2>2 DEF Flow
<1>8. Early(k + 1, "start")' <=> Early(k + 1, "start")
  BY DEF Early
<1> QED BY <1>1, <1>3, <1>4, <1>5, <1>6, <1>7, <1>8, <1>9 DEF Placed

LEMMA WithinMore ==
  ASSUME NEW s \in Seq(Message), NEW n \in Int, NEW p \in Int, n <= p, Within(s, n)
  PROVE  Within(s, p)
<1>1. \A i \in DOMAIN s : s[i][2] \in Nat
  BY MessageFacts, ElementOfSeq, LenProperties
<1> QED BY <1>1 DEF Within

LEMMA PlaceKept ==
  ASSUME TypeInv, [Next]_vars, NEW k, NEW w, Placed(k, w), UNCHANGED <<opts, speed, fileVars, todo>>,
         Flow(Sent(w), speed)
  PROVE  Placed(k, w)'
<1>1. UNCHANGED <<opts, speed, records, inside, todo>>
  BY DEF fileVars
<1>2. Sent(w)' = Sent(w) /\ (Early(k, w)' <=> Early(k, w))
  BY <1>1 DEF Sent, Early
<1>3. (Sound(w)' <=> Sound(w)) /\ (Sound(w) => ~Faulty)
  BY <1>2, FaultyStays DEF Sound
<1>4. BaudsKnown(k, w)'
  <2>1. BaudsKnown(k, w)
    BY DEF Placed
  <2> QED BY <1>1, <2>1 DEF BaudsKnown, Flow
<1>5. Early(k, w) => Fresh(done', tx', chip', records')
  BY <1>1 DEF Placed, Flow
<1>6. Within(done', Sent(w)) /\ Within(tx', Sent(w))
  BY DEF Placed, Flow
<1>7. Sound(w) /\ k \in 4 .. 6 /\ ~Early(k, w) => Goes(done', tx', chip', speed, Sent(w))
  <2> SUFFICES ASSUME Sound(w), k \in 4 .. 6, ~Early(k, w)
               PROVE  Goes(done', tx', chip', speed, Sent(w))
    OBVIOUS
  <2>1. Goes(done, tx, chip, speed, Sent(w)) /\ Bauds(tx, speed)
    BY DEF Placed, BaudsKnown
  <2> QED BY <1>3, <2>1 DEF Flow
<1>8. Held(w)'
  BY <1>1, FaultyStays DEF Placed, Held
<1> QED BY <1>1, <1>2, <1>3, <1>4, <1>5, <1>6, <1>7, <1>8 DEF Placed

(* From a record that has been answered back to the head of the loop.      *)
LEMMA LoopsBack ==
  ASSUME TypeInv, [Next]_vars, Placed(6, "body"), Flow(records, speed),
         UNCHANGED <<opts, speed, records, inside>>
  PROVE  Placed(6, "start")'
<1>1. Sent("body") = records /\ Sent("start")' = records
  BY DEF Sent
<1>2. ~Early(6, "body") /\ ~Early(6, "start") /\ ~Early(6, "start")'
  BY DEF Early
<1>3. (Sound("start")' <=> Sound("body")) /\ (Sound("body") => ~Faulty)
  BY <1>1, FaultyStays DEF Sound
<1>7. Held("start")'
  <2>1. Held("body") /\ {"body", "start"} \cap {"payload", "send"} = {}
    BY DEF Placed
  <2> QED BY <2>1, HeldStill
<1>4. Bauds(tx, speed) /\ BaudsKnown(6, "start")'
  <2>1. BaudsKnown(6, "body") /\ 6 \in 4 .. 6
    BY DEF Placed
  <2> QED BY <2>1 DEF BaudsKnown, Flow
<1>5. Within(done', records) /\ Within(tx', records)
  BY <1>1 DEF Placed, Flow
<1>6. Sound("body") => Goes(done', tx', chip', speed, records)
  BY <1>1, <1>2, <1>3, <1>4 DEF Placed, Flow
<1> QED BY <1>1, <1>2, <1>3, <1>4, <1>5, <1>6, <1>7 DEF Placed

LEMMA SendsPlaced ==
  ASSUME TypeInv, [Next]_vars, NEW k, NEW w, Sends(k, w), Standing(todo, k, w, opts), Placed(k, w),
         NEW v \in {"armed", "header"}
  PROVE  Placed(k, v)'
<1> DEFINE m == <<Head(todo)[2], Head(todo)[3]>>
<1>1. m \in Message /\ m[1] = Head(todo)[2] /\ m[2] = Head(todo)[3]
  BY SendCommandTypes DEF Sends
<1>2. \/ tx' = Append(tx, m) /\ chip.awake /\ ~chip.gone /\ speed = chip.speed
      \/ tx' = tx
  BY Hears DEF Sends
<1> HIDE DEF m
<1>3. /\ UNCHANGED <<opts, speed, records, inside, chip, done>>
      /\ SendCommand /\ w = "start" /\ k \in Commanding /\ Head(todo) = Send(Name(k), Par(k, opts))
  BY DEF Sends, SendCommand, hci_send_cmd, OnlyMain, fileVars
<1>4. /\ done \in Seq(Message) /\ tx \in Seq(Message) /\ chip \in Chip
      /\ m[1] = Name(k) /\ m[2] = Par(k, opts) /\ opts \in Globals
  BY <1>1, <1>3, CallParts DEF TypeInv
<1>5. /\ m[1] # "write_ram" /\ ~Genuine(m)
      /\ k = 1 => m[1] = "reset"
      /\ k = 2 => m[1] = "baud" /\ m[2] = opts.termios_baudrate
      /\ k = 4 => m[1] = "minidriver"
  <2>1. m[1] # "write_ram"
    BY <1>3, <1>4, NamesAreCommands
  <2>2. k = 1 => m[1] = "reset"
    BY <1>4, NameTable DEF Resets
  <2>3. k = 2 => m[1] = "baud" /\ m[2] = opts.termios_baudrate
    BY <1>4, NameTable, ParTable
  <2>4. k = 4 => m[1] = "minidriver"
    BY <1>4, NameTable
  <2> QED BY <2>1, <2>2, <2>3, <2>4 DEF Genuine
<1>6. Given(k, opts)
  BY <1>3 DEF Standing, Commanding, Last
<1>7. Sent(w) = records /\ Sent(v)' = records
  BY <1>3 DEF Sent
<1>8. Held(v)'
  <2>1. Held(w) /\ {w, v} \cap {"payload", "send"} = {}
    BY <1>3 DEF Placed
  <2> QED BY <1>3, <2>1, HeldStill
<1>9. (Early(k, v)' <=> k < 4) /\ (Early(k, w) <=> k <= 4) /\ k \in Nat
  BY <1>3 DEF Early, Commanding
<1>10. BaudsKnown(k, v)'
  <2>1. BaudsKnown(k, "start")
    BY <1>3 DEF Placed
  <2>2. /\ Named(Append(tx, m), "baud") <=> Named(tx, "baud") \/ m[1] = "baud"
        /\ \A b : Bauds(Append(tx, m), b) <=> Bauds(tx, b) /\ (m[1] = "baud" => m[2] = b)
    BY <1>1, <1>4, NamedFacts, EachFacts
  <2>3. \A b : ~Named(tx, "baud") => Bauds(tx, b)
    BY DEF Named, Bauds
  <2>4. v # "start"
    OBVIOUS
  <2>5. CASE k = 1
    <3>1. ~Named(tx, "baud") /\ m[1] = "reset"
      BY <1>5, <2>1, <2>5 DEF BaudsKnown
    <3>2. ~Named(tx', "baud")
      BY <1>2, <2>2, <3>1
    <3> QED BY <2>4, <2>5, <3>2 DEF BaudsKnown
  <2>6. CASE k = 2
    <3>1. Fast(opts) /\ ~Named(tx, "baud")
      BY <1>6, <2>1, <2>6 DEF Given, BaudsKnown
    <3>2. ~Named(tx', "baud") \/ Bauds(tx', opts.termios_baudrate)
      BY <1>2, <1>5, <2>2, <2>3, <2>6, <3>1
    <3> QED BY <1>3, <2>4, <2>6, <3>1, <3>2 DEF BaudsKnown
  <2>7. CASE k = 4
    <3>1. Bauds(tx, speed) /\ m[1] # "baud"
      BY <1>5, <2>1, <2>7 DEF BaudsKnown
    <3>2. Bauds(tx', speed)
      BY <1>2, <2>2, <3>1
    <3> QED BY <1>3, <2>7, <3>2 DEF BaudsKnown
  <2>8. CASE k \notin {1, 2, 4}
    <3>1. k \notin {2, 3} /\ k # 1 /\ k \notin 4 .. 6
      BY <1>3, <2>8 DEF Commanding
    <3> QED BY <3>1 DEF BaudsKnown
  <2> QED BY <2>5, <2>6, <2>7, <2>8
<1>11. k < 4 => Fresh(done', tx', chip', records')
  <2> SUFFICES ASSUME k < 4 PROVE Fresh(done', tx', chip', records')
    OBVIOUS
  <2>1. Fresh(done, tx, chip, records) /\ m[1] \notin {"minidriver", "write_ram"}
    <3>1. k \in {1, 2} /\ k <= 4
      BY <1>3 DEF Commanding
    <3> QED BY <1>5, <1>9, <3>1 DEF Placed
  <2>2. Fresh(done, Append(tx, m), chip, records)
    BY <1>1, <1>4, <2>1, FreshFacts
  <2> QED BY <1>2, <1>3, <2>1, <2>2
<1>12. Within(done', records) /\ Within(tx', records)
  <2>1. Within(done, records) /\ Within(tx, records)
    BY <1>7 DEF Placed
  <2>2. Within(Append(tx, m), records) <=> Within(tx, records) /\ (Genuine(m) => m[2] <= records)
    BY <1>1, <1>4, EachFacts
  <2> QED BY <1>2, <1>3, <1>5, <2>1, <2>2
<1>13. k \in 4 .. 6 => Goes(done', tx', chip', speed', records)
  <2> SUFFICES ASSUME k \in 4 .. 6 PROVE Goes(done', tx', chip', speed', records)
    OBVIOUS
  <2>1. k = 4
    BY <1>3 DEF Commanding
  <2>2. Fresh(done, tx, chip, records)
    BY <1>9, <2>1 DEF Placed
  <2>3. CASE tx' = tx
    BY <1>3, <2>2, <2>3 DEF Fresh, Goes, Dead
  <2>4. CASE chip.awake /\ speed = chip.speed
    <3>1. records = 0
      BY <2>2 DEF Fresh
    <3> QED BY <1>3, <2>4, <3>1 DEF Goes, Able
  <2> QED BY <1>2, <2>3, <2>4
<1> QED BY <1>3, <1>7, <1>8, <1>9, <1>10, <1>11, <1>12, <1>13 DEF Placed

LEMMA SendsRecordPlaced ==
  ASSUME TypeInv, [Next]_vars, SendsRecord(6, "send"), Placed(6, "send")
  PROVE  Placed(6, "header")'
<1> DEFINE m == <<Head(todo)[2], Head(todo)[3]>>
           n == Sent("send")
<1>1. m \in Message /\ m[1] = Head(todo)[2] /\ m[2] = Head(todo)[3]
  BY SendCommandTypes DEF SendsRecord
<1>2. \/ tx' = Append(tx, m)
      \/ tx' = tx /\ (~chip.awake \/ chip.gone \/ speed # chip.speed)
  BY Hears DEF SendsRecord
<1> HIDE DEF m
<1>3. UNCHANGED <<opts, speed, records, inside, chip, done>>
  BY DEF SendsRecord, SendCommand, hci_send_cmd, OnlyMain, fileVars
<1>4. /\ done \in Seq(Message) /\ tx \in Seq(Message) /\ chip \in Chip
      /\ m[1] = "write_ram" /\ m[2] \in Nat /\ records \in Nat /\ Records \in Nat
  BY <1>1, MessageFacts, CallParts, ConstantFacts DEF SendsRecord, TypeInv
<1>5. /\ Genuine(m) <=> m[2] <= Records
      /\ Genuine(m) => m[2] = records /\ n = records - 1
      /\ ~Genuine(m) => n = records
  BY <1>1, <1>4 DEF Genuine, Sent, Placed, Held
<1>6. Within(done, n) /\ Within(tx, n) /\ BaudsKnown(6, "send")
  BY DEF Placed
<1>7. Sound("send") => Goes(done, tx, chip, speed, n)
  BY DEF Placed, Early
<1>14. Sound("send") <=> ~Faulty /\ n <= args.file.whole
  BY DEF Sound
<1> HIDE DEF n
<1>8. n \in Int /\ n <= records /\ args.file.whole \in Nat
  BY <1>4, <1>5, FileFacts
<1>9. Sent("header")' = records /\ ~Early(6, "header")'
  BY <1>3 DEF Sent, Early
<1>10. Sound("header")' => Sound("send")
  BY <1>4, <1>8, <1>9, <1>14, FaultyStays DEF Sound
<1>15. Held("header")'
  BY <1>3, FaultyStays DEF Placed, Held
<1>11. Within(done', records) /\ Within(tx', records)
  <2>1. Within(done, records) /\ Within(tx, records)
    BY <1>4, <1>6, <1>8, WithinMore
  <2>2. Within(Append(tx, m), records) <=> Within(tx, records) /\ (Genuine(m) => m[2] <= records)
    BY <1>1, <1>4, EachFacts
  <2>3. Genuine(m) => m[2] <= records
    BY <1>4, <1>5
  <2> QED BY <1>2, <1>3, <2>1, <2>2, <2>3, Zenon
<1>12. BaudsKnown(6, "header")'
  <2>1. Bauds(tx, speed)
    BY <1>6 DEF BaudsKnown
  <2>2. Bauds(Append(tx, m), speed) <=> Bauds(tx, speed) /\ (m[1] = "baud" => m[2] = speed)
    BY <1>1, <1>4, EachFacts
  <2>3. Bauds(tx', speed)
    BY <1>2, <1>4, <2>1, <2>2
  <2> QED BY <1>3, <2>3 DEF BaudsKnown
<1>13. Goes(done, tx, chip, speed, n) => Goes(done', tx', chip', speed', records)
  <2>1. CASE Dead(chip, tx)
    <3>1. Named(Append(tx, m), "minidriver") <=> Named(tx, "minidriver") \/ m[1] = "minidriver"
      BY <1>1, <1>4, NamedFacts
    <3>2. Dead(chip, tx')
      BY <1>2, <1>4, <2>1, <3>1 DEF Dead
    <3> QED BY <1>3, <3>2 DEF Goes
  <2>2. CASE chip.gone
    BY <1>3, <2>2 DEF Goes
  <2>3. CASE Able(done, tx, chip, speed, n) /\ ~chip.gone
    <3>1. chip.awake /\ speed = chip.speed
      BY <2>3 DEF Able
    <3>2. tx' = Append(tx, m)
      BY <1>2, <2>3, <3>1
    <3>3. ASSUME NEW q \in 1 .. records, q <= Records PROVE Has(tx', q) \/ Has(done, q)
      <4>1. q \in Nat /\ (Has(tx', q) <=> Has(tx, q) \/ (Genuine(m) /\ m[2] = q))
        BY <1>1, <1>4, <3>2, HasFacts
      <4>2. q \in 1 .. n \/ (Genuine(m) /\ m[2] = q)
        BY <1>4, <1>5
      <4>3. q \in 1 .. n => Has(tx, q) \/ Has(done, q)
        BY <2>3, <3>3 DEF Able
      <4> QED BY <4>1, <4>2, <4>3
    <3> QED BY <1>3, <3>1, <3>3 DEF Goes, Able
  <2> QED BY <2>1, <2>2, <2>3 DEF Goes
<1> QED BY <1>3, <1>7, <1>9, <1>10, <1>11, <1>12, <1>13, <1>15 DEF Placed

LEMMA FindsRecordPlaced ==
  ASSUME TypeInv, [Next]_vars, FindsRecord(6, "start"), Placed(6, "start")
  PROVE  Placed(6, "payload")'
<1>1. PICK r \in 1 .. Records + 1 :
        /\ Head(todo') = Payload(r)
        /\ r = Corrupt \/ (r = records + 1 /\ records < args.file.whole)
        /\ \/ records' = records + 1 /\ ~inside /\ records < Begun
              /\ (r = Corrupt => args.file.whole <= records)
           \/ records' = records /\ r = Corrupt /\ (inside \/ Fails("hcd_read"))
  BY DEF FindsRecord
<1>2. /\ r \in Nat /\ records \in Nat /\ args.file.whole \in 0 .. Records /\ Records \in Nat
      /\ Corrupt = Records + 1 /\ done \in Seq(Message) /\ tx \in Seq(Message)
  BY FileFacts DEF TypeInv
<1>3. Head(todo')[3] = r
  BY <1>1, CallParts
<1>4. UNCHANGED <<opts, speed, tx, chip, done>>
  BY DEF FindsRecord, ReadRecordHeader, OnlyMain, lineVars
<1>5. /\ Faulty' <=> Faulty
      /\ Fails("hcd_read")' <=> Fails("hcd_read")
      /\ args'.file.whole = args.file.whole
  BY FaultyStays
<1>6. Sent("start") = records /\ ~Early(6, "start") /\ ~Early(6, "payload")'
  BY DEF Sent, Early
<1>7. Sent("payload")' = IF r <= Records THEN records' - 1 ELSE records'
  BY <1>3 DEF Sent
<1>8. PICK n : n = Sent("payload")'
  OBVIOUS
<1>14. \/ r = Corrupt /\ records' = records + 1 /\ args.file.whole <= records
       \/ r = records + 1 /\ records' = records + 1 /\ records < args.file.whole
       \/ r = Corrupt /\ records' = records /\ (inside \/ Fails("hcd_read"))
  BY <1>1, Zenon
<1>9. n = records \/ (n = records + 1 /\ args.file.whole < n)
  <2>1. CASE r = Corrupt /\ records' = records + 1 /\ args.file.whole <= records
    BY <1>2, <1>7, <1>8, <2>1
  <2>2. CASE r = records + 1 /\ records' = records + 1 /\ records < args.file.whole
    BY <1>2, <1>7, <1>8, <2>2
  <2>3. CASE r = Corrupt /\ records' = records
    BY <1>2, <1>7, <1>8, <2>3
  <2> QED BY <1>14, <2>1, <2>2, <2>3, Zenon
<1>10. Within(done, n) /\ Within(tx, n)
  <2>1. Within(done, records) /\ Within(tx, records)
    BY <1>6 DEF Placed
  <2>2. n \in Int /\ records <= n
    BY <1>2, <1>9
  <2> QED BY <1>2, <2>1, <2>2, WithinMore
<1>11. BaudsKnown(6, "payload")'
  <2>1. BaudsKnown(6, "start")
    BY DEF Placed
  <2> QED BY <1>4, <2>1 DEF BaudsKnown
<1>12. Sound("payload")' => Goes(done, tx, chip, speed, n)
  <2>1. Sound("payload")' => ~Faulty /\ n <= args.file.whole
    BY <1>5, <1>8 DEF Sound
  <2>2. n <= args.file.whole => n = records
    BY <1>2, <1>9
  <2>3. ~Faulty /\ n <= args.file.whole => Sound("start")
    BY <1>6, <2>2 DEF Sound
  <2>4. Sound("start") => Goes(done, tx, chip, speed, records)
    BY <1>6 DEF Placed
  <2> QED BY <2>1, <2>2, <2>3, <2>4, Zenon
<1>13. Held("payload")'
  <2>1. r <= Records => r = records' /\ records' <= args.file.whole
    <3>1. r = Corrupt \/ (r = records' /\ records' = records + 1 /\ records < args.file.whole)
      BY <1>14, Zenon
    <3> QED BY <1>2, <3>1
  <2>2. ASSUME ~Fails("hcd_read"), r > Records PROVE records' > args.file.whole
    <3>1. ~inside
      BY <2>2 DEF Placed, Held
    <3>2. ~(r = records + 1 /\ records < args.file.whole)
      BY <1>2, <2>2
    <3>3. records' = records + 1 /\ args.file.whole <= records
      BY <1>14, <2>2, <3>1, <3>2, Zenon
    <3> QED BY <1>2, <3>3
  <2> QED BY <1>3, <1>5, <2>1, <2>2 DEF Held
<1> QED BY <1>4, <1>6, <1>8, <1>10, <1>11, <1>12, <1>13 DEF Placed

LEMMA TakesRecordPlaced ==
  ASSUME TypeInv, [Next]_vars, TakesRecord(6, "payload"), Placed(6, "payload")
  PROVE  Placed(6, "send")'
<1>1. PICK r \in 1 .. Records + 1, x \in 1 .. Records + 1 :
        /\ Head(todo) = Payload(r) /\ Head(todo') = Send("write_ram", x)
        /\ \/ x = r /\ x # Corrupt /\ records' = records /\ inside' = FALSE
           \/ x = Corrupt /\ (r = Corrupt \/ Fails("hcd_read"))
  BY DEF TakesRecord
<1>2. /\ r \in Nat /\ x \in Nat /\ records \in Nat /\ args.file.whole \in 0 .. Records /\ Records \in Nat
      /\ Corrupt = Records + 1 /\ done \in Seq(Message) /\ tx \in Seq(Message)
  BY FileFacts DEF TypeInv
<1>3. Head(todo)[3] = r /\ Head(todo')[3] = x
  BY <1>1, CallParts
<1>4. UNCHANGED <<opts, speed, tx, chip, done>>
  BY DEF TakesRecord, ReadRecordPayload, OnlyMain, lineVars
<1>5. /\ Faulty' <=> Faulty
      /\ Fails("hcd_read")' <=> Fails("hcd_read")
      /\ args'.file.whole = args.file.whole
  BY FaultyStays
<1>6. ~Early(6, "payload") /\ ~Early(6, "send")'
  BY DEF Early
<1>14. records' \in Nat /\ records <= records'
  <2>1. TypeInv'
    BY NextTypes
  <2>2. records' \in 0 .. Begun' /\ Begun' \in Nat
    <3>1. (TypeInv => Begun \in Nat)'
      BY FileFacts, PTL
    <3> QED BY <2>1, <3>1 DEF TypeInv
  <2> QED BY <2>2 DEF TakesRecord
<1>7. /\ Sent("payload") = IF r <= Records THEN records - 1 ELSE records
      /\ Sent("send")' = IF x <= Records THEN records' - 1 ELSE records'
  BY <1>3 DEF Sent
<1>8. PICK n, p : n = Sent("send")' /\ p = Sent("payload")
  OBVIOUS
<1>15. r > Records /\ ~Fails("hcd_read") => records > args.file.whole
  BY <1>3 DEF Placed, Held
<1>9. /\ n \in Int /\ p \in Int /\ p <= n
      /\ ~Fails("hcd_read") /\ n <= args.file.whole => n = p
  <2>1. CASE x = r /\ x # Corrupt /\ records' = records
    BY <1>2, <1>7, <1>8, <2>1
  <2>2. CASE x = Corrupt /\ r = Corrupt
    BY <1>2, <1>7, <1>8, <1>14, <1>15, <2>2
  <2>3. CASE x = Corrupt /\ Fails("hcd_read")
    <3>1. n \in Int /\ p \in Int /\ p <= n
      BY <1>2, <1>7, <1>8, <1>14, <2>3
    <3> QED BY <2>3, <3>1, Zenon
  <2> QED BY <1>1, <2>1, <2>2, <2>3, Zenon
<1>10. Within(done, n) /\ Within(tx, n)
  <2>1. Within(done, p) /\ Within(tx, p)
    BY <1>8 DEF Placed
  <2> QED BY <1>2, <1>9, <2>1, WithinMore
<1>11. BaudsKnown(6, "send")'
  <2>1. BaudsKnown(6, "payload")
    BY DEF Placed
  <2> QED BY <1>4, <2>1 DEF BaudsKnown
<1>12. Sound("send")' => Goes(done, tx, chip, speed, n)
  <2>1. Sound("send")' => ~Faulty /\ n <= args.file.whole
    BY <1>5, <1>8 DEF Sound
  <2>2. ~Faulty => ~Fails("hcd_read")
    BY DEF Faulty
  <2>3. ~Faulty /\ n <= args.file.whole => Sound("payload") /\ n = p
    BY <1>8, <1>9, <2>2 DEF Sound
  <2>4. Sound("payload") => Goes(done, tx, chip, speed, p)
    BY <1>6, <1>8 DEF Placed
  <2> QED BY <2>1, <2>3, <2>4, Zenon
<1>13. Held("send")'
  <2>1. x <= Records => x = records' /\ records' <= args.file.whole
    <3>1. r <= Records => r = records /\ records <= args.file.whole
      BY <1>3 DEF Placed, Held
    <3> QED BY <1>1, <1>2, <3>1
  <2>2. inside' => Fails("hcd_read")
    BY Zenon DEF TakesRecord, ReadRecordPayload
  <2> QED BY <1>3, <1>5, <2>1, <2>2 DEF Held
<1> QED BY <1>4, <1>6, <1>8, <1>10, <1>11, <1>12, <1>13 DEF Placed

LEMMA StartPlaced ==
  ASSUME TypeInv, OrderInv, init_uart, TypeInv'
  PROVE  Placed(1, "start")'
<1>1. /\ Fresh(done, tx, chip, records) /\ tx = << >> /\ done = << >> /\ InOrder(done, tx)
      /\ ~inside
  BY DEF init_uart, OrderInv, LineOrder
<1>2. tx' = << >> /\ UNCHANGED <<chip, done, records, inside>>
  BY DEF init_uart, fileVars
<1>5. Held("start")'
  BY <1>1, <1>2 DEF Held
<1>3. \A n : ~Named(<< >>, n) /\ Within(<< >>, n)
  BY <1>1, EmptyLine DEF InOrder
<1>4. BaudsKnown(1, "start")'
  BY <1>2, <1>3 DEF BaudsKnown
<1>6. Early(1, "start")' /\ 1 \notin 4 .. 6
  BY DEF Early
<1> QED BY <1>1, <1>2, <1>3, <1>4, <1>5, <1>6 DEF Placed

LEMMA OnlySendsMove ==
  ASSUME TypeInv, Stays
  PROVE  ~SendCommand /\ UNCHANGED <<opts, speed, fileVars, todo>>
<1>1. UNCHANGED <<opts, speed, fileVars, todo>>
  BY DEF Stays, expired, ChipExecutes, ChipAnswers, ChipBoots, LineGoes, hostVars, vars
<1>2. SendCommand => todo' = Tail(todo) /\ todo # << >> /\ todo \in Seq(Calls)
  BY DEF SendCommand, Proceed, Does, TypeInv
<1>3. ASSUME NEW s \in Seq(Calls), s # << >> PROVE Tail(s) # s
  BY <1>3, HeadTailProperties, LenProperties, EmptySeq
<1>4. todo' = todo
  BY DEF Stays
<1> QED BY <1>1, <1>2, <1>3, <1>4

LEMMA OrderStep == TypeInv /\ OrderInv /\ [Next]_vars => OrderInv'
<1> SUFFICES ASSUME TypeInv, OrderInv, [Next]_vars PROVE OrderInv'
  OBVIOUS
<1>0. LineOrder' /\ TypeInv'
  BY LineOrderStep, NextTypes
<1>1. ASSUME NEW j \in 1 .. Last, At(todo', j, "start", opts'), Placed(j, "start")'
      PROVE  \E k \in 1 .. Last, w \in Where : Standing(todo', k, w, opts') /\ Placed(k, w)'
  <2>1. (TypeInv => Settling)'
    BY PlacedGoesOn, PTL
  <2>2. \E i \in 1 .. Last : Standing(todo', i, "start", opts') /\ Placed(i, "start")'
    BY <1>0, <1>1, <2>1 DEF Settling
  <2> QED BY <2>2 DEF Where
<1>2. CASE phase \in {"options", "uart"}
  <2>1. Fresh(done, tx, chip, records) /\ tx = << >> /\ done = << >> /\ ~inside
    BY <1>2 DEF OrderInv
  <2>2. ~Does("send") /\ phase # "main"
    BY <1>2 DEF Does
  <2>3. tx' = << >> /\ done' = << >>
    BY <1>2, <2>1, <2>2, LineMoves DEF SendCommand, expired
  <2>4. CASE init_uart
    <3>1. opts \in Globals /\ opts' = opts /\ todo' = main(opts) /\ phase' = "main"
      BY <2>4 DEF init_uart, TypeInv
    <3>2. At(todo', 1, "start", opts')
      BY <3>1, MainIsRest DEF At
    <3>3. Placed(1, "start")'
      BY <1>0, <2>4, StartPlaced
    <3>4. 1 \in 1 .. Last
      BY DEF Last
    <3> QED BY <1>0, <1>1, <3>1, <3>2, <3>3, <3>4 DEF OrderInv
  <2>5. CASE ~init_uart
    <3>1. phase' \in {"options", "uart", "exit"} /\ records' = records /\ inside' = inside
      BY <1>2, <2>5 DEF Next, HostStep, ParseOption, OpenDevice, SendCommand, SetAlarm, ReadHeader, ReadBody,
           ReadTwoBytes, ReadRecordHeader, ReadRecordPayload, SetSpeed, proc_enable_hci, Finish, Does,
           expired, ChipExecutes,
           ChipAnswers, ChipBoots, LineGoes, hostVars, fileVars, vars
    <3>2. chip'.mode = chip.mode
      <4>1. ~ChipExecutes
        BY <2>1 DEF ChipExecutes
      <4> QED BY <4>1, ChipStays
    <3>3. Fresh(done', tx', chip', records')
      BY <2>1, <2>3, <3>1, <3>2 DEF Fresh
    <3>4. ~inside' /\ phase' # "main"
      BY <2>1, <3>1
    <3> QED BY <1>0, <2>3, <3>3, <3>4 DEF OrderInv
  <2> QED BY <2>4, <2>5
<1>3. CASE phase = "main" /\ phase' # "main"
  <2>1. Finish
    BY <1>3 DEF Next, HostStep, ParseOption, OpenDevice, init_uart, SendCommand, SetAlarm, ReadHeader, ReadBody,
         ReadTwoBytes, ReadRecordHeader, ReadRecordPayload, SetSpeed, proc_enable_hci, OnlyMain, expired,
         ChipExecutes,
         ChipAnswers, ChipBoots, LineGoes, hostVars, vars
  <2>2. phase' \in {"sleep", "exit"}
    BY <2>1 DEF Finish
  <2> QED BY <1>0, <2>2 DEF OrderInv
<1>4. CASE phase \in {"sleep", "exit"}
  <2>1. phase' = phase
    BY <1>4 DEF Next, HostStep, ParseOption, OpenDevice, init_uart, SendCommand, SetAlarm, ReadHeader,
         ReadBody, ReadTwoBytes, ReadRecordHeader, ReadRecordPayload, SetSpeed, proc_enable_hci, Finish,
         Does, expired, ChipExecutes,
         ChipAnswers, ChipBoots, LineGoes, hostVars, vars
  <2> QED BY <1>0, <1>4, <2>1 DEF OrderInv
<1>5. CASE phase = "main" /\ phase' = "main"
  <2>1. PICK k \in 1 .. Last, w \in Where : Standing(todo, k, w, opts) /\ Placed(k, w)
    BY <1>5 DEF OrderInv
  <2>2. MainSteps(k, w)
    BY <1>5, <2>1, MainStep
  <2>3. records \in Nat /\ LineOrder
    BY ConstantFacts DEF TypeInv, OrderInv
  <2>4. ~SendCommand => Flow(records, speed)
    BY <1>5, <2>3, FlowKept
  <2>5. SUFFICES \E j \in 1 .. Last, v \in Where : Standing(todo', j, v, opts') /\ Placed(j, v)'
    BY <1>0, <1>5 DEF OrderInv
  <2>6. k \in Commanding \cup {6} \cup {3, 5, 7, 10, 16} => k \in 1 .. 16
    BY DEF Commanding
  <2>7. CASE Stays
    <3>1. ~SendCommand /\ UNCHANGED <<opts, speed, fileVars, todo>>
      BY <2>7, OnlySendsMove
    <3>2. Sent(w) \in Nat \cup {-1}
      BY <2>3 DEF Sent
    <3>3. Flow(Sent(w), speed)
      BY <1>5, <2>3, <3>1, <3>2, FlowKept
    <3>4. Placed(k, w)'
      BY <2>1, <3>1, <3>3, PlaceKept
    <3>5. Standing(todo', k, w, opts')
      BY <2>1, <2>7 DEF Stays
    <3> QED BY <3>4, <3>5
  <2>8. CASE Sends(k, w)
    <3>1. PICK v \in {"armed", "header"} : v = IF k \in Resets THEN "armed" ELSE "header"
      OBVIOUS
    <3>2. Standing(todo', k, v, opts') /\ v \in Where
      BY <2>8, <3>1 DEF Sends, Where
    <3>3. Placed(k, v)'
      BY <2>1, <2>8, SendsPlaced
    <3> QED BY <3>2, <3>3
  <2>9. CASE SendsRecord(k, w)
    <3>1. w = "send" /\ k = 6 /\ Standing(todo', 6, "header", opts')
      BY <2>9 DEF SendsRecord
    <3>2. Placed(6, "header")'
      BY <2>1, <2>9, <3>1, SendsRecordPlaced
    <3> QED BY <3>1, <3>2 DEF Where
  <2>10. CASE Arms(k, w)
    <3>1. SetAlarm /\ w = "armed" /\ Standing(todo', k, "header", opts')
      BY <2>10 DEF Arms
    <3>2. ~SendCommand /\ UNCHANGED <<opts, speed, records, inside>>
      BY <3>1 DEF SetAlarm, SendCommand, Does, OnlyMain, fileVars
    <3>3. Placed(k, "header")'
      BY <2>1, <2>4, <3>1, <3>2, SamePlace
    <3> QED BY <3>1, <3>3 DEF Where
  <2>11. CASE Disarms(k, w)
    <3>1. /\ SetAlarm /\ w = "off" /\ k \in Resets
          /\ k + 1 \in 1 .. Last /\ At(todo', k + 1, "start", opts')
      BY <2>11 DEF Disarms
    <3>2. ~SendCommand /\ UNCHANGED <<opts, speed, records, inside>>
      BY <3>1 DEF SetAlarm, SendCommand, Does, OnlyMain, fileVars
    <3>3. k \in 1 .. 16 /\ k # 3
      BY <3>1 DEF Resets
    <3>4. Placed(k + 1, "start")'
      BY <2>1, <2>4, <3>1, <3>2, <3>3, NextPlace
    <3> QED BY <1>1, <3>1, <3>4
  <2>12. CASE GetsHeader(k, w)
    <3>1. ReadHeader /\ w = "header" /\ Standing(todo', k, "body", opts')
      BY <2>12 DEF GetsHeader
    <3>2. ~SendCommand /\ UNCHANGED <<opts, speed, records, inside>>
      BY <3>1 DEF ReadHeader, SendCommand, Does, OnlyMain, fileVars
    <3>3. Placed(k, "body")'
      BY <2>1, <2>4, <3>1, <3>2, SamePlace
    <3> QED BY <3>1, <3>3 DEF Where
  <2>13. CASE GetsBody(k, w)
    <3>1. ReadBody /\ w = "body"
      BY <2>13 DEF GetsBody
    <3>2. ~SendCommand /\ UNCHANGED <<opts, speed, records, inside>>
      BY <3>1 DEF ReadBody, SendCommand, Does, OnlyMain, fileVars
    <3>3. CASE k \in Resets /\ Standing(todo', k, "off", opts')
      <4>1. Placed(k, "off")'
        BY <2>1, <2>4, <3>1, <3>2, SamePlace
      <4> QED BY <3>3, <4>1 DEF Where
    <3>4. CASE k = 6 /\ At(todo', 6, "start", opts')
      <4>1. Placed(6, "start")' /\ 6 \in 1 .. Last
        BY <2>1, <2>4, <3>1, <3>2, <3>4, LoopsBack DEF Last
      <4> QED BY <1>1, <3>4, <4>1
    <3>5. CASE k \in Commanding \ Resets /\ k + 1 \in 1 .. Last /\ At(todo', k + 1, "start", opts')
      <4>1. k \in 1 .. 16 /\ k # 3
        BY <2>6, <3>5 DEF Commanding
      <4>2. Placed(k + 1, "start")'
        BY <2>1, <2>4, <3>1, <3>2, <4>1, NextPlace
      <4> QED BY <1>1, <3>5, <4>2
    <3> QED BY <2>13, <3>3, <3>4, <3>5 DEF GetsBody
  <2>14. CASE Passes(k, w)
    <3>1. w = "start" /\ k + 1 \in 1 .. Last /\ At(todo', k + 1, "start", opts')
      BY <2>14 DEF Passes
    <3>2. /\ ~SendCommand /\ UNCHANGED <<opts, records, inside>> /\ k \in 1 .. 16 /\ k # 4
          /\ \/ speed' = speed /\ k # 3
             \/ k \in {3, 7, 10} /\ (k = 3 => speed' = opts.termios_baudrate)
      <4>1. CASE ReadTwoBytes /\ k = 5
        BY <4>1 DEF ReadTwoBytes, SendCommand, Does, OnlyMain, fileVars
      <4>2. CASE SetSpeed /\ k \in {3, 7, 10} /\ speed' = IF k = 7 THEN Default ELSE opts.termios_baudrate
        BY <4>2 DEF SetSpeed, SendCommand, Does, OnlyMain, fileVars
      <4>3. CASE ReadRecordHeader /\ k = 6 /\ UNCHANGED fileVars
        BY <4>3 DEF ReadRecordHeader, SendCommand, Does, OnlyMain, fileVars
      <4>4. CASE proc_enable_hci /\ k = 16
        BY <4>4 DEF proc_enable_hci, SendCommand, Does, OnlyMain, fileVars
      <4> QED BY <2>14, <4>1, <4>2, <4>3, <4>4 DEF Passes
    <3>3. Placed(k + 1, "start")'
      BY <2>1, <2>4, <3>1, <3>2, NextPlace
    <3> QED BY <1>1, <3>1, <3>3
  <2>15. CASE TakesRecord(k, w)
    <3>1. w = "payload" /\ k = 6 /\ Standing(todo', 6, "send", opts')
      BY <2>15 DEF TakesRecord
    <3>2. Placed(6, "send")'
      BY <2>1, <2>15, <3>1, TakesRecordPlaced
    <3> QED BY <3>1, <3>2 DEF Where
  <2>16. CASE FindsRecord(k, w)
    <3>1. w = "start" /\ k = 6 /\ Standing(todo', 6, "payload", opts')
      BY <2>16 DEF FindsRecord
    <3>2. Placed(6, "payload")'
      BY <2>1, <2>16, <3>1, FindsRecordPlaced
    <3> QED BY <3>1, <3>2 DEF Where
  <2> QED BY <2>2, <2>7, <2>8, <2>9, <2>10, <2>11, <2>12, <2>13, <2>14, <2>15, <2>16 DEF MainSteps
<1> QED BY <1>2, <1>3, <1>4, <1>5 DEF TypeInv

LEMMA OrderInvariant == Spec => []OrderInv
  BY TypeInvariant, OrderInit, OrderStep, PTL DEF Spec

(* Whatever is late, lost or cut off, whatever the file holds and          *)
(* whichever of its reads fail: the chip takes the records of the firmware *)
(* in the order of the file, none of them twice, and leaves none out as    *)
(* long as it refuses none and no read of the file fails.                  *)
THEOREM RecordsArriveInOrder == Spec => []RecordsInOrder
<1>1. TypeInv /\ OrderInv => RecordsInOrder
  <2> SUFFICES ASSUME TypeInv, OrderInv, NEW j \in DOMAIN done, Written(j)
               PROVE  /\ \A i \in 1 .. j - 1 : Written(i) => done[i][2] < done[j][2]
                      /\ Fails("rejected") \/ Fails("hcd_read") \/ done[j][2] = 1
                           \/ \E i \in 1 .. j - 1 : Written(i) /\ done[i][2] = done[j][2] - 1
    BY DEF RecordsInOrder
  <2>1. /\ Rising(done) /\ \A i \in DOMAIN done : Written(i) => Genuine(done[i])
        /\ ~Faulty => Chained(<< >>, done)
    BY DEF OrderInv, LineOrder, InOrder, Taken, Whole, Written
  <2>2. DOMAIN done = 1 .. Len(done) /\ Len(done) \in Nat /\ j \in 1 .. Len(done)
    BY LenProperties DEF TypeInv
  <2>3. ASSUME NEW i \in 1 .. j - 1, Written(i) PROVE done[i][2] < done[j][2]
    <3>1. i < j
      BY <2>2
    <3>2. Genuine(done[i]) /\ Genuine(done[j]) /\ i \in DOMAIN done
      BY <2>1, <2>3 DEF Written
    <3> QED BY <2>1, <3>1, <3>2 DEF Rising
  <2>4. ASSUME ~Faulty, done[j][2] # 1
        PROVE  \E i \in 1 .. j - 1 : Written(i) /\ done[i][2] = done[j][2] - 1
    <3>1. Before(done, j, done[j][2] - 1)
      <4>1. Has(<< >>, done[j][2] - 1) \/ Before(done, j, done[j][2] - 1)
        BY <2>1, <2>4 DEF Chained
      <4>2. ~Has(<< >>, done[j][2] - 1)
        BY <2>1, EmptyLine
      <4> QED BY <4>1, <4>2
    <3>2. PICK i \in DOMAIN done : i < j /\ Genuine(done[i]) /\ done[i][2] = done[j][2] - 1
      BY <3>1 DEF Before
    <3>3. i \in 1 .. j - 1 /\ Written(i)
      BY <2>2, <3>2 DEF Written, Genuine
    <3> QED BY <3>2, <3>3
  <2> QED BY <2>3, <2>4 DEF Faulty
<1> QED BY <1>1, TypeInvariant, OrderInvariant, PTL
-----------------------------------------------------------------------------
(* The configuration: what the chip and the host's UART must be set to     *)
(* before each block of main, with answers in time and a whole file, until *)
(* the chip has refused a command.                                         *)

(* The speed before the download, after it, and in the end. *)
Down(g) == IF Fast(g) THEN g.termios_baudrate ELSE Default
Booted(g) == IF g.hcdfile_fd > 0 THEN Default ELSE Down(g)
Final(g) == IF g.termios_baudrate = 0 THEN Default ELSE g.termios_baudrate

HostSpeed(k, g) ==
  CASE k <= 3 -> Default [] k \in 4 .. 7 -> Down(g) [] k \in 8 .. 10 -> Booted(g) [] OTHER -> Final(g)
(* In the sixth block, the download, n is the number of records taken.     *)
ChipSpeed(k, g, n) ==
  CASE k <= 2 \/ (k = 6 /\ n >= Records) -> Default
    [] k \in 3 .. 5 \/ (k = 6 /\ n < Records) -> Down(g)
    [] k \in 7 .. 9 -> Booted(g)
    [] OTHER -> Final(g)
ChipMode(k, g, n) ==
  IF k <= 4 \/ g.hcdfile_fd <= 0 THEN "rom"
  ELSE IF k = 5 \/ (k = 6 /\ n < Records) THEN "download" ELSE "patched"
ChipAddr(k, g) == IF k <= 11 THEN NoAddress ELSE g.bdaddr
ChipSettings(k, g) == {Name(j) : j \in {i \in 12 .. 15 : i < k /\ Given(i, g)}}

(* The chip c is what the k-th block of main expects. *)
Suits(c, k, g, n) ==
  /\ c.mode = ChipMode(k, g, n) /\ c.speed = ChipSpeed(k, g, n)
  /\ c.addr = ChipAddr(k, g) /\ c.settings = ChipSettings(k, g)

(* The chip when the k-th command has been carried out; the one on its way *)
(* to it.                                                                  *)
Obeyed(k) == IF k = 6 THEN Suits(chip, 6, opts, records) ELSE Suits(chip, k + 1, opts, records)
InFlight(k) ==
  /\ speed = chip.speed
  /\ k # 6 => Head(tx) = <<Name(k), Par(k, opts)>> /\ Suits(chip, k, opts, records)
  /\ k = 6 => Head(tx) = <<"write_ram", records>> /\ Suits(chip, 6, opts, records - 1)

HostReady(k, w) ==
  /\ speed = HostSpeed(k, opts) /\ Watched(k, w) /\ ~garbled
  /\ records # 0 => k >= 6 /\ Given(6, opts)
  /\ w # "payload" => ~inside
ChipReady(k, w) ==
  /\ w = "start" => Suits(chip, k, opts, records)
  /\ w \in {"payload", "send"} => Head(todo)[3] = records /\ Suits(chip, 6, opts, records - 1)
  /\ w \in {"armed", "header"} =>
       /\ tx # << >> => InFlight(k)
       /\ rx # << >> \/ (tx = << >> /\ k \in Resets) => Obeyed(k)
  /\ w \in {"body", "off"} => Obeyed(k)
(* Behind the last block the line has gone to the kernel, if it could.     *)
Handed == opts.enable_hci => chip.attached \/ Fails("ldisc") \/ chip.gone
Configured(k, w) == HostReady(k, w) /\ ChipReady(k, w) /\ (k = Last => Handed)

Placing(k, w) ==
  Standing(todo, k, w, opts) /\ InStep(k, w, opts, chip, tx, rx, len) /\ Configured(k, w)
Untouched == Suits(chip, 1, opts, 0) /\ ~garbled /\ records = 0 /\ ~inside
ConfInv ==
  /\ phase \in {"options", "uart"} => Untouched
  /\ Prompt /\ WholeFile /\ ~chip.rejected =>
       /\ phase = "main" => \E k \in 1 .. Last, w \in Where : Placing(k, w)
       /\ phase \in {"sleep", "exit"} => tx = << >> /\ ~garbled
       /\ Finished => Suits(chip, Last, opts, records) /\ speed = HostSpeed(Last, opts) /\ Handed

LEMMA SpeedTable ==
  ASSUME NEW g
  PROVE  /\ \A k \in 1 .. 3 : HostSpeed(k, g) = Default
         /\ \A k \in 4 .. 7 : HostSpeed(k, g) = Down(g)
         /\ \A k \in 8 .. 10 : HostSpeed(k, g) = Booted(g)
         /\ \A k \in 11 .. Last : HostSpeed(k, g) = Final(g)
         /\ \A n : ChipSpeed(1, g, n) = Default /\ ChipSpeed(2, g, n) = Default
         /\ \A n : \A k \in 3 .. 5 : ChipSpeed(k, g, n) = Down(g)
         /\ \A n \in Nat : n >= Records => ChipSpeed(6, g, n) = Default
         /\ \A n \in Nat : n < Records => ChipSpeed(6, g, n) = Down(g)
         /\ \A n : \A k \in 7 .. 9 : ChipSpeed(k, g, n) = Booted(g)
         /\ \A n : \A k \in 10 .. Last : ChipSpeed(k, g, n) = Final(g)
<1>1. \A k \in 1 .. 3 : HostSpeed(k, g) = Default
  BY DEF HostSpeed
<1>2. \A k \in 4 .. 7 : HostSpeed(k, g) = Down(g)
  BY DEF HostSpeed
<1>3. \A k \in 8 .. 10 : HostSpeed(k, g) = Booted(g)
  BY DEF HostSpeed
<1>4. \A k \in 11 .. Last : HostSpeed(k, g) = Final(g)
  BY DEF HostSpeed, Last
<1>5. \A n : ChipSpeed(1, g, n) = Default /\ ChipSpeed(2, g, n) = Default
  BY DEF ChipSpeed
<1>6. \A n : \A k \in 3 .. 5 : ChipSpeed(k, g, n) = Down(g)
  BY DEF ChipSpeed
<1>7. /\ \A n \in Nat : n >= Records => ChipSpeed(6, g, n) = Default
      /\ \A n \in Nat : n < Records => ChipSpeed(6, g, n) = Down(g)
  BY ConstantFacts DEF ChipSpeed
<1>8. \A n : \A k \in 7 .. 9 : ChipSpeed(k, g, n) = Booted(g)
  BY DEF ChipSpeed
<1>9. \A n : \A k \in 10 .. Last : ChipSpeed(k, g, n) = Final(g)
  BY DEF ChipSpeed, Last
<1> QED BY <1>1, <1>2, <1>3, <1>4, <1>5, <1>6, <1>7, <1>8, <1>9

(* The three speeds are one where nothing is to be done between them.      *)
LEMMA SpeedFacts ==
  ASSUME NEW g \in Globals
  PROVE  /\ Fast(g) => Down(g) = g.termios_baudrate
         /\ ~Fast(g) => Down(g) = Default
         /\ g.hcdfile_fd > 0 => Booted(g) = Default
         /\ ~(g.hcdfile_fd > 0) => Booted(g) = Down(g)
         /\ g.hcdfile_fd > 0 /\ ~g.use_baudrate_for_download => Booted(g) = Down(g)
         /\ g.termios_baudrate = 0 => Final(g) = Booted(g)
         /\ g.termios_baudrate # 0 => Final(g) = g.termios_baudrate
  BY DEF Fast, Down, Booted, Final

LEMMA SettingsGrow ==
  ASSUME NEW g, NEW k \in 1 .. 16
  PROVE  ChipSettings(k + 1, g)
           = IF k \in 12 .. 15 /\ Given(k, g) THEN ChipSettings(k, g) \cup {Name(k)} ELSE ChipSettings(k, g)
<1> DEFINE S(n) == {i \in 12 .. 15 : i < n /\ Given(i, g)}
<1>1. CASE k \in 12 .. 15 /\ Given(k, g)
  <2>1. S(k + 1) = S(k) \cup {k}
    BY <1>1
  <2>2. {Name(j) : j \in S(k + 1)} = {Name(j) : j \in S(k)} \cup {Name(k)}
    <3> HIDE DEF S
    <3> QED BY <2>1
  <2> QED BY <1>1, <2>2 DEF ChipSettings
<1>2. CASE ~(k \in 12 .. 15 /\ Given(k, g))
  <2>1. S(k + 1) = S(k)
    BY <1>2
  <2> QED BY <1>2, <2>1 DEF ChipSettings
<1> QED BY <1>1, <1>2

LEMMA NothingSetYet ==
  ASSUME NEW g, NEW k \in 1 .. 12
  PROVE  ChipSettings(k, g) = {}
  BY DEF ChipSettings

LEMMA SuitsFirst ==
  ASSUME NEW c, NEW g, NEW n
  PROVE  Suits(c, 1, g, n) <=>
           c.mode = "rom" /\ c.speed = Default /\ c.addr = NoAddress /\ c.settings = {}
<1>1. ChipSettings(1, g) = {} /\ ChipSpeed(1, g, n) = Default
  BY NothingSetYet, SpeedTable
<1> QED BY <1>1 DEF Suits, ChipMode, ChipAddr

(* Only the download asks how far it has come. *)
LEMMA SuitsAny ==
  ASSUME NEW c, NEW g, NEW k \in 1 .. Last, k # 6, NEW n, NEW m, Suits(c, k, g, n)
  PROVE  Suits(c, k, g, m)
<1>1. ChipSpeed(k, g, n) = ChipSpeed(k, g, m)
  BY SpeedTable DEF Last
<1>2. ChipMode(k, g, n) = ChipMode(k, g, m)
  BY DEF ChipMode
<1> QED BY <1>1, <1>2 DEF Suits

(* Main goes past a block that is not given, or that sends nothing.        *)
LEMMA SuitsPast ==
  ASSUME NEW c, NEW g \in Globals, NEW k \in 1 .. 16, NEW n \in Nat, Suits(c, k, g, n),
         ~Given(k, g) \/ k \in {3, 5, 6, 7, 10, 16},
         k = 6 => (n >= Records <=> g.hcdfile_fd > 0), k = 5 => n < Records
  PROVE  Suits(c, k + 1, g, n)
<1>1. ChipSettings(k + 1, g) = ChipSettings(k, g)
  BY SettingsGrow
<1>2. ChipAddr(k + 1, g) = ChipAddr(k, g)
  BY DEF ChipAddr, Given
<1>3. ChipMode(k + 1, g, n) = ChipMode(k, g, n)
  <2>1. k = 4 => ~Given(4, g)
    OBVIOUS
  <2>2. k = 4 => g.hcdfile_fd <= 0
    BY <2>1, GlobalsFacts DEF Given
  <2>3. g.hcdfile_fd \in Int /\ Records \in Nat
    BY GlobalsFacts, ConstantFacts
  <2>4. CASE k \in {1, 2, 3, 4} \/ k \in 7 .. 16
    BY <2>2, <2>4 DEF ChipMode
  <2>5. CASE k = 5
    BY <2>5 DEF ChipMode
  <2>6. CASE k = 6
    BY <2>3, <2>6 DEF ChipMode
  <2> QED BY <2>4, <2>5, <2>6
<1>4. ChipSpeed(k + 1, g, n) = ChipSpeed(k, g, n)
  <2>1. CASE k = 1
    BY <2>1, SpeedTable
  <2>6. CASE k \in {3, 4}
    BY <2>6, SpeedTable
  <2>7. CASE k \in {7, 8}
    BY <2>7, SpeedTable
  <2>8. CASE k \in 10 .. 16
    BY <2>8, SpeedTable DEF Last
  <2>2. CASE k = 2
    <3>1. Down(g) = Default
      BY <2>2, SpeedFacts DEF Given
    <3> QED BY <2>2, <3>1, SpeedTable
  <2>3. CASE k = 5
    BY <2>3, SpeedTable
  <2>4. CASE k = 6
    <3>1. CASE n >= Records
      <4>1. Booted(g) = Default
        BY <2>4, <3>1, SpeedFacts
      <4> QED BY <2>4, <3>1, <4>1, SpeedTable, ConstantFacts
    <3>2. CASE ~(n >= Records)
      <4>1. Booted(g) = Down(g)
        BY <2>4, <3>2, SpeedFacts
      <4> QED BY <2>4, <3>2, <4>1, SpeedTable, ConstantFacts
    <3> QED BY <3>1, <3>2
  <2>5. CASE k = 9
    <3>1. Final(g) = Booted(g)
      BY <2>5, SpeedFacts DEF Given
    <3> QED BY <2>5, <3>1, SpeedTable DEF Last
  <2> QED BY <2>1, <2>2, <2>3, <2>4, <2>5, <2>6, <2>7, <2>8
<1> QED BY <1>1, <1>2, <1>3, <1>4 DEF Suits

(* The chip has carried out the command of the k-th block.                 *)
LEMMA SuitsDone ==
  ASSUME NEW c \in Chip, NEW g \in Globals, NEW k \in Commanding, Given(k, g), NEW n, Suits(c, k, g, n)
  PROVE  Suits(Effect(c, Name(k), Par(k, g)), k + 1, g, n)
<1> DEFINE e == Effect(c, Name(k), Par(k, g))
<1>1. /\ e.mode = ModeAfter(c, Name(k), Par(k, g)) /\ e.speed = SpeedAfter(c, Name(k), Par(k, g))
      /\ e.addr = AddrAfter(c, Name(k), Par(k, g)) /\ e.settings = SettingsAfter(c, Name(k), Par(k, g))
  BY NamesAreCommands, EffectOf
<1>2. ~Launches(Name(k), Par(k, g))
  BY NamesAreCommands DEF Launches
<1> HIDE DEF e
<1> USE DEF ModeAfter, SpeedAfter, AddrAfter, SettingsAfter, Wipes
<1>3. k \in 1 .. 16 /\ k # 6
  BY DEF Commanding
<1>4. e.settings = ChipSettings(k + 1, g)
  <2>1. CASE k \in 12 .. 15
    BY <1>1, <1>3, <2>1, NamesAreCommands, SettingsGrow DEF Suits
  <2>2. CASE k \notin 12 .. 15
    <3>1. ChipSettings(k + 1, g) = ChipSettings(k, g)
      BY <1>3, <2>2, SettingsGrow
    <3>2. k \in Resets => ChipSettings(k, g) = {}
      BY NothingSetYet DEF Resets
    <3> QED BY <1>1, <1>2, <2>2, <3>1, <3>2, NamesAreCommands DEF Suits
  <2> QED BY <2>1, <2>2
<1>5. e.addr = ChipAddr(k + 1, g)
  <2>1. c.addr = ChipAddr(k, g)
    BY DEF Suits
  <2>2. CASE k = 11
    BY <1>1, <2>2, NamesAreCommands, ParTable DEF ChipAddr
  <2>3. CASE k # 11
    <3>1. ChipAddr(k + 1, g) = ChipAddr(k, g)
      BY <1>3, <2>3 DEF ChipAddr
    <3>2. k \in Resets => ChipAddr(k, g) = NoAddress
      BY DEF Resets, ChipAddr
    <3> QED BY <1>1, <1>2, <2>1, <2>3, <3>1, <3>2, NamesAreCommands
  <2> QED BY <2>2, <2>3
<1>6. e.mode = ChipMode(k + 1, g, n)
  <2>1. c.mode = ChipMode(k, g, n)
    BY DEF Suits
  <2>2. CASE k = 4
    <3>1. g.hcdfile_fd > 0 /\ g.hcdfile_fd \in Int
      BY <2>2, GlobalsFacts DEF Given
    <3>2. ChipMode(5, g, n) = "download"
      BY <3>1 DEF ChipMode
    <3>3. e.mode = "download"
      BY <1>1, <2>2, NamesAreCommands
    <3> QED BY <2>2, <3>2, <3>3
  <2>3. CASE k # 4
    <3>1. ChipMode(k + 1, g, n) = ChipMode(k, g, n)
      BY <2>3 DEF ChipMode, Commanding
    <3> QED BY <1>1, <1>2, <2>1, <2>3, <3>1, NamesAreCommands
  <2> QED BY <2>2, <2>3
<1>7. e.speed = ChipSpeed(k + 1, g, n)
  <2>1. c.speed = ChipSpeed(k, g, n)
    BY DEF Suits
  <2>2. CASE k = 2
    <3>1. Down(g) = Par(2, g)
      BY <2>2, SpeedFacts, ParTable DEF Given
    <3> QED BY <1>1, <2>2, <3>1, NamesAreCommands, SpeedTable
  <2>3. CASE k = 9
    <3>1. Final(g) = Par(9, g)
      BY <2>3, SpeedFacts, ParTable DEF Given
    <3> QED BY <1>1, <2>3, <3>1, NamesAreCommands, SpeedTable DEF Last
  <2>4. CASE k \notin {2, 9}
    <3>1. ChipSpeed(k + 1, g, n) = ChipSpeed(k, g, n)
      BY <2>4, SpeedTable DEF Last, Commanding
    <3> QED BY <1>1, <1>2, <2>1, <2>4, <3>1, NamesAreCommands
  <2> QED BY <2>2, <2>3, <2>4
<1> QED BY <1>4, <1>5, <1>6, <1>7 DEF Suits, e

(* A reset finds nothing set yet: the chip is the same without it.         *)
LEMMA SuitsReset ==
  ASSUME NEW c, NEW g, NEW k \in Resets, NEW n
  PROVE  Suits(c, k, g, n) <=> Suits(c, k + 1, g, n)
<1>1. k \in {1, 8}
  BY DEF Resets
<1>2. ChipSettings(k, g) = {} /\ ChipSettings(k + 1, g) = {}
  BY <1>1, NothingSetYet
<1>3. ChipSpeed(k, g, n) = ChipSpeed(k + 1, g, n)
  BY <1>1, SpeedTable
<1>4. ChipMode(k, g, n) = ChipMode(k + 1, g, n) /\ ChipAddr(k, g) = ChipAddr(k + 1, g)
  BY <1>1 DEF ChipMode, ChipAddr
<1> QED BY <1>2, <1>3, <1>4 DEF Suits

(* The chip has taken a record: the last one starts the firmware.          *)
LEMMA SuitsRecord ==
  ASSUME NEW c \in Chip, NEW g \in Globals, g.hcdfile_fd > 0, NEW r \in Nat, r <= Records,
         Suits(c, 6, g, r - 1)
  PROVE  Suits(Effect(c, "write_ram", r), 6, g, r)
<1>0. Records \in Nat
  BY ConstantFacts
<1>1. ChipSettings(6, g) = {} /\ ChipAddr(6, g) = NoAddress
  BY NothingSetYet DEF ChipAddr
<1>2. CASE r = Records
  <2>1. Effect(c, "write_ram", r) = [c EXCEPT !.mode = "patched", !.speed = Default, !.awake = FALSE,
                                              !.settings = {}, !.addr = NoAddress]
    BY <1>2 DEF Effect
  <2>2. ChipMode(6, g, r) = "patched"
    BY <1>0, <1>2, GlobalsFacts DEF ChipMode
  <2>3. ChipSpeed(6, g, r) = Default
    BY <1>0, <1>2, SpeedTable
  <2> QED BY <1>1, <2>1, <2>2, <2>3 DEF Suits, Chip
<1>3. CASE r # Records
  <2>1. Effect(c, "write_ram", r) = c
    BY <1>3 DEF Effect
  <2>2. ChipMode(6, g, r) = ChipMode(6, g, r - 1)
    BY <1>0, <1>3, GlobalsFacts DEF ChipMode
  <2>3. r < Records
    BY <1>0, <1>3
  <2>4. ChipSpeed(6, g, r) = ChipSpeed(6, g, r - 1)
    BY <1>0, <2>3 DEF ChipSpeed
  <2> QED BY <2>1, <2>2, <2>4 DEF Suits
<1> QED BY <1>2, <1>3

(* Both ends are at one speed wherever main sends a command.               *)
LEMMA SpeedsAgree ==
  ASSUME NEW c, NEW g, NEW k \in Commanding \cup {6}, NEW n \in Nat, k = 6 => n < Records, Suits(c, k, g, n)
  PROVE  c.speed = HostSpeed(k, g)
<1>1. CASE k = 6
  BY <1>1, SpeedTable DEF Suits
<1>2. CASE k \in Commanding
  BY <1>2, SpeedTable DEF Suits, Commanding, Last
<1> QED BY <1>1, <1>2

(* The host's speed where it does not change it.                           *)
LEMMA HostPast ==
  ASSUME NEW g \in Globals, NEW k \in 1 .. 16, ~Given(k, g) \/ k \notin {3, 7, 10}
  PROVE  HostSpeed(k + 1, g) = HostSpeed(k, g)
<1>1. CASE k = 3
  <2>1. Down(g) = Default
    BY <1>1, SpeedFacts DEF Given
  <2> QED BY <1>1, <2>1, SpeedTable
<1>2. CASE k = 7
  <2>1. Booted(g) = Down(g)
    BY <1>2, SpeedFacts DEF Given
  <2> QED BY <1>2, <2>1, SpeedTable
<1>3. CASE k = 10
  <2>1. Final(g) = Booted(g)
    BY <1>3, SpeedFacts DEF Given
  <2> QED BY <1>3, <2>1, SpeedTable DEF Last
<1>4. CASE k \notin {3, 7, 10}
  BY <1>4, SpeedTable DEF Last
<1> QED BY <1>1, <1>2, <1>3, <1>4

LEMMA HostChanges ==
  ASSUME NEW g \in Globals, NEW k \in {3, 7, 10}, Given(k, g)
  PROVE  HostSpeed(k + 1, g) = IF k = 7 THEN Default ELSE g.termios_baudrate
<1>1. CASE k = 3
  <2>1. Down(g) = g.termios_baudrate
    BY <1>1, SpeedFacts DEF Given
  <2> QED BY <1>1, <2>1, SpeedTable
<1>2. CASE k = 7
  <2>1. Booted(g) = Default
    BY <1>2, SpeedFacts DEF Given
  <2> QED BY <1>2, <2>1, SpeedTable
<1>3. CASE k = 10
  <2>1. Final(g) = g.termios_baudrate
    BY <1>3, SpeedFacts DEF Given
  <2> QED BY <1>3, <2>1, SpeedTable DEF Last
<1> QED BY <1>1, <1>2, <1>3

LEMMA RecordsIsNat == TypeInv => records \in Nat
  BY FileFacts

LEMMA WholeFacts ==
  ASSUME TypeInv, WholeFile
  PROVE  /\ args.file.whole = Records /\ Begun = Records /\ ~Fails("hcd_read")
         /\ records \in Nat /\ records <= Records /\ Corrupt = Records + 1 /\ Records \in Nat \ {0}
<1>1. args.file.whole = Records /\ args.file.part = FALSE /\ ~Fails("hcd_read")
  BY DEF WholeFile
<1>2. Records \in Nat \ {0} /\ records \in Nat /\ records <= Begun /\ Corrupt = Records + 1
  BY FileFacts
<1>3. Begun = Records
  BY <1>1, <1>2 DEF Begun
<1> QED BY <1>1, <1>2, <1>3

(* The line is handed over by the last block only.                         *)
LEMMA HandedKept ==
  ASSUME TypeInv, [Next]_vars, phase = "main", phase' = "main", Stays, Handed
  PROVE  Handed'
<1>1. opts' = opts /\ (Fails("ldisc")' <=> Fails("ldisc"))
  BY MainKeeps, FaultsStay
<1>2. chip.attached => chip'.attached
  <2>1. CASE ChipExecutes
    <3>1. Head(tx)[1] \in Commands /\ chip \in Chip
      BY <2>1, ChipExecutesTypes DEF Message, TypeInv
    <3>2. Effect(chip, Head(tx)[1], Head(tx)[2]).attached = chip.attached
      BY <3>1, EffectKeeps
    <3> QED BY <3>1, <3>2, ChipMoves DEF Chip
  <2>2. CASE ~ChipExecutes
    BY <2>2, ChipMoves DEF TypeInv, Chip
  <2> QED BY <2>1, <2>2
<1>3. chip.gone => chip'.gone
  <2>1. CASE ChipExecutes
    <3>1. Head(tx)[1] \in Commands /\ chip \in Chip
      BY <2>1, ChipExecutesTypes DEF Message, TypeInv
    <3>2. Effect(chip, Head(tx)[1], Head(tx)[2]).gone = chip.gone
      BY <3>1, EffectKeeps
    <3> QED BY <3>1, <3>2, ChipMoves DEF Chip
  <2>2. CASE ~ChipExecutes
    BY <2>2, ChipMoves DEF TypeInv, Chip
  <2> QED BY <2>1, <2>2
<1> QED BY <1>1, <1>2, <1>3 DEF Handed

(* What main, the line and the chip do while main stays where it is.       *)
LEMMA SuitsAlike ==
  ASSUME NEW c, NEW d, d.mode = c.mode, d.speed = c.speed, d.addr = c.addr, d.settings = c.settings
  PROVE  \A k, g, n : Suits(d, k, g, n) <=> Suits(c, k, g, n)
  BY DEF Suits

LEMMA ExpiredReady ==
  ASSUME TypeInv, Course, Prompt, [Next]_vars, phase = "main", NEW k \in 1 .. Last, NEW w \in Where,
         Standing(todo, k, w, opts), Configured(k, w), expired
  PROVE  Configured(k, w)'
<1>0. alarm = "set"
  BY DEF expired, Course, Prompt
<1>1. /\ Does("header") /\ tx = << >> /\ rx = << >> /\ rx' = << >> /\ chip' = chip
      /\ opts' = opts /\ speed' = speed /\ records' = records /\ alarm' = alarm /\ inside' = inside
      /\ todo' = todo
  BY <1>0 DEF expired, hci_send_cmd, Prompt, fileVars
<1>2. w = "header"
  <2>1. Doings(k, w)
    BY Doing
  <2> QED BY <1>1, <2>1 DEF Doings
<1>3. k \in Resets /\ k # 6 /\ Resets \subseteq Commanding
  BY <1>0 DEF Configured, HostReady, Watched, Resets, Commanding
<1>4. Suits(chip, k + 1, opts, records)
  BY <1>1, <1>2, <1>3 DEF Configured, ChipReady, Obeyed
<1>5. Suits(chip, k, opts, records)
  BY <1>3, <1>4, SuitsReset
<1>6. records \in Nat
  BY RecordsIsNat
<1>7. chip.speed = speed
  BY <1>3, <1>5, <1>6, SpeedsAgree DEF Configured, HostReady
<1>8. ~garbled => ~garbled'
  BY <1>7 DEF expired, hci_send_cmd
<1>9. tx' = << >> \/ Head(tx') = <<"reset", 0>>
  <2>1. <<"reset", 0>> \in Message
    BY DEF Message, Commands
  <2>2. tx' = << >> \/ tx' = Append(<< >>, <<"reset", 0>>)
    BY <1>1 DEF expired, hci_send_cmd
  <2> QED BY <2>1, <2>2, SentFacts
<1>10. Name(k) = "reset" /\ Par(k, opts) = 0
  <2>1. k \in Commanding \ {2, 9, 11} /\ opts \in Globals
    BY <1>3 DEF Resets, TypeInv
  <2> QED BY <1>3, <2>1, NameTable, ParTable
<1>11. tx' # << >> => InFlight(k)'
  BY <1>1, <1>3, <1>5, <1>7, <1>9, <1>10 DEF InFlight
<1>12. Obeyed(k)'
  BY <1>1, <1>3, <1>4 DEF Obeyed
<1>13. HostReady(k, w)'
  BY <1>1, <1>8 DEF Configured, HostReady, Watched
<1>14. ChipReady(k, w)'
  BY <1>1, <1>2, <1>11, <1>12 DEF ChipReady
<1> QED BY <1>3, <1>13, <1>14 DEF Configured, Resets, Last

LEMMA ExecutesReady ==
  ASSUME TypeInv, WholeFile, [Next]_vars, NEW k \in 1 .. Last, NEW w \in Where,
         Standing(todo, k, w, opts), InStep(k, w, opts, chip, tx, rx, len), Configured(k, w),
         ChipExecutes, ~chip'.rejected
  PROVE  Configured(k, w)'
<1> DEFINE n == Head(tx)[1]
           p == Head(tx)[2]
<1>1. /\ tx # << >> /\ Head(tx) \in Message /\ tx' = Tail(tx) /\ UNCHANGED hostVars
      /\ n \in Commands /\ p \in Nat /\ chip \in Chip /\ opts \in Globals /\ records \in Nat
  BY ChipExecutesTypes, MessageFacts, RecordsIsNat DEF TypeInv
<1>2. /\ opts' = opts /\ speed' = speed /\ records' = records /\ alarm' = alarm /\ inside' = inside
      /\ todo' = todo
  BY <1>1 DEF hostVars, fileVars
<1>3. w \in {"armed", "header"} /\ Len(tx) = 1
  BY <1>1 DEF InStep, Waiting, Where
<1>4. tx' = << >>
  BY <1>1, <1>3, OneFacts DEF TypeInv
<1>5. InFlight(k)
  BY <1>1, <1>3 DEF Configured, ChipReady
<1>6. /\ chip' = Effect(chip, n, p) /\ Accepts(n, p)
      /\ ChipAnswers(n, p, 0, More(n))
  <2>1. [chip EXCEPT !.rejected = TRUE].rejected
    BY <1>1 DEF Chip
  <2>2. ~Spoils(n, p)
    <3>1. CASE k = 6
      <4>1. p = records /\ records <= Records /\ records \in Nat /\ Records \in Nat
        BY <1>5, <3>1, WholeFacts DEF InFlight
      <4> QED BY <4>1 DEF Spoils
    <3>2. CASE k # 6
      <4>1. k \in Commanding
        BY <1>3, <3>2 DEF Standing, At, Resets, Commanding
      <4>2. n = Name(k)
        BY <1>5, <3>2 DEF InFlight
      <4> QED BY <4>1, <4>2, NamesAreCommands DEF Spoils
    <3> QED BY <3>1, <3>2
  <2> QED BY <2>1, <2>2, ChipMoves
<1>7. ~garbled => ~garbled'
  BY <1>5, <1>6 DEF ChipAnswers, InFlight
<1>8. Obeyed(k)'
  <2>1. CASE k # 6
    <3>1. n = Name(k) /\ p = Par(k, opts) /\ Suits(chip, k, opts, records)
      BY <1>5, <2>1 DEF InFlight
    <3>2. k \in Commanding /\ Given(k, opts)
      BY <1>3, <2>1 DEF Standing, At, Resets, Commanding
    <3>3. Suits(Effect(chip, n, p), k + 1, opts, records)
      BY <1>1, <3>1, <3>2, SuitsDone
    <3> QED BY <1>2, <1>6, <2>1, <3>3 DEF Obeyed
  <2>2. CASE k = 6
    <3>2. n = "write_ram" /\ p = records /\ Suits(chip, 6, opts, p - 1)
      BY <1>5, <2>2 DEF InFlight
    <3>1. p <= Records
      BY <3>2, WholeFacts
    <3>3. opts.hcdfile_fd > 0
      BY <1>3, <2>2 DEF Standing, At, Given, Resets
    <3>4. Suits(Effect(chip, "write_ram", p), 6, opts, p)
      BY <1>1, <3>1, <3>2, <3>3, SuitsRecord
    <3> QED BY <1>2, <1>6, <2>2, <3>2, <3>4 DEF Obeyed
  <2> QED BY <2>1, <2>2
<1>9. HostReady(k, w)'
  BY <1>2, <1>7 DEF Configured, HostReady, Watched
<1>10. ChipReady(k, w)'
  BY <1>3, <1>4, <1>8 DEF ChipReady
<1>11. k # Last
  BY <1>3 DEF Standing, At, Resets, Commanding, Last
<1> QED BY <1>9, <1>10, <1>11 DEF Configured

LEMMA StaysReady ==
  ASSUME TypeInv, Course, Prompt, WholeFile, [Next]_vars, phase = "main", phase' = "main", ~chip'.rejected,
         NEW k \in 1 .. Last, NEW w \in Where,
         Standing(todo, k, w, opts), InStep(k, w, opts, chip, tx, rx, len), Configured(k, w), Stays
  PROVE  Configured(k, w)'
<1>1. CASE expired
  BY <1>1, ExpiredReady
<1>2. CASE ChipExecutes
  BY <1>2, ExecutesReady
<1>3. CASE ChipBoots \/ LineGoes \/ UNCHANGED vars
  <2>1. /\ UNCHANGED hostVars /\ garbled' = garbled
        /\ (tx' = tx /\ rx' = rx) \/ (tx' = << >> /\ rx' = << >>)
    BY <1>3 DEF ChipBoots, LineGoes, vars, lineVars
  <2>2. /\ opts' = opts /\ speed' = speed /\ records' = records /\ alarm' = alarm /\ inside' = inside
        /\ todo' = todo
    BY <2>1 DEF hostVars, fileVars
  <2>3. /\ chip'.mode = chip.mode /\ chip'.speed = chip.speed
        /\ chip'.addr = chip.addr /\ chip'.settings = chip.settings
    BY <1>3 DEF ChipBoots, LineGoes, vars, lineVars, TypeInv, Chip
  <2>4. \A i, g, n : Suits(chip', i, g, n) <=> Suits(chip, i, g, n)
    BY <2>3, SuitsAlike
  <2>5. Obeyed(k)' <=> Obeyed(k)
    BY <2>2, <2>4 DEF Obeyed
  <2>6. HostReady(k, w)'
    BY <2>1, <2>2 DEF Configured, HostReady, Watched
  <2>9. k = Last => Handed'
    BY HandedKept DEF Configured
  <2>7. CASE w \notin {"armed", "header"}
    <3>1. ChipReady(k, w)'
      BY <2>2, <2>4, <2>5, <2>7 DEF Configured, ChipReady
    <3> QED BY <2>6, <2>9, <3>1 DEF Configured
  <2>8. CASE w \in {"armed", "header"}
    <3>1. CASE tx' = tx /\ rx' = rx
      <4>1. InFlight(k)' <=> InFlight(k)
        BY <2>2, <2>3, <2>4, <3>1 DEF InFlight
      <4>2. ChipReady(k, w)'
        BY <2>5, <2>8, <3>1, <4>1 DEF Configured, ChipReady
      <4> QED BY <2>6, <2>9, <4>2 DEF Configured
    <3>2. CASE tx' = << >> /\ rx' = << >>
      <4>1. ASSUME k \in Resets PROVE Obeyed(k)
        <5>1. CASE tx = << >>
          BY <2>8, <4>1, <5>1 DEF Configured, ChipReady
        <5>2. CASE tx # << >>
          <6>1. Suits(chip, k, opts, records) /\ k # 6
            BY <2>8, <4>1, <5>2 DEF Configured, ChipReady, InFlight, Resets
          <6> QED BY <4>1, <6>1, SuitsReset DEF Obeyed
        <5> QED BY <5>1, <5>2
      <4>2. ChipReady(k, w)'
        BY <2>5, <2>8, <3>2, <4>1 DEF ChipReady
      <4> QED BY <2>6, <2>9, <4>2 DEF Configured
    <3> QED BY <2>1, <3>1, <3>2
  <2> QED BY <2>7, <2>8
<1> QED BY <1>1, <1>2, <1>3 DEF Stays

(* Each step that moves main leaves the configuration as its new place     *)
(* expects it.                                                             *)
LEMMA SendsReady ==
  ASSUME TypeInv, [Next]_vars, phase = "main", NEW k \in 1 .. Last, NEW w \in Where,
         Standing(todo, k, w, opts), InStep(k, w, opts, chip, tx, rx, len), Configured(k, w), Sends(k, w)
  PROVE  /\ Configured(k, "armed")'
         /\ Configured(k, "header")'
<1>1. /\ w = "start" /\ k \in Commanding /\ k # 6 /\ Head(todo) = Send(Name(k), Par(k, opts))
      /\ SendCommand /\ k # Last
  BY DEF Sends, Commanding, Last
<1>2. /\ opts' = opts /\ speed' = speed /\ records' = records /\ alarm' = alarm /\ inside' = inside
      /\ chip' = chip /\ rx' = rx
  BY <1>1 DEF SendCommand, hci_send_cmd, OnlyMain, fileVars
<1>3. tx = << >> /\ rx = << >>
  BY <1>1 DEF InStep, Commanding
<1>4. Suits(chip, k, opts, records) /\ alarm # "set" /\ ~inside
  BY <1>1 DEF Configured, ChipReady, HostReady, Watched
<1>5. chip.speed = speed
  BY <1>1, <1>4, RecordsIsNat, SpeedsAgree DEF Configured, HostReady
<1>6. ~garbled => ~garbled'
  BY <1>1, <1>5 DEF SendCommand, hci_send_cmd
<1>7. tx' = << >> \/ Head(tx') = <<Name(k), Par(k, opts)>>
  <2>1. <<Name(k), Par(k, opts)>> \in Message
    BY <1>1, SendCommandTypes, CallParts
  <2>2. tx' = << >> \/ tx' = Append(<< >>, <<Name(k), Par(k, opts)>>)
    BY <1>1, <1>3, CallParts DEF SendCommand, hci_send_cmd
  <2> QED BY <2>1, <2>2, SentFacts
<1>8. tx' # << >> => InFlight(k)'
  BY <1>1, <1>2, <1>4, <1>5, <1>7 DEF InFlight
<1>9. k \in Resets => Obeyed(k)'
  BY <1>1, <1>2, <1>4, SuitsReset DEF Obeyed
<1>10. HostReady(k, "armed")' /\ HostReady(k, "header")'
  BY <1>2, <1>4, <1>6 DEF Configured, HostReady, Watched
<1>11. ChipReady(k, "armed")' /\ ChipReady(k, "header")'
  BY <1>2, <1>3, <1>8, <1>9 DEF ChipReady
<1> QED BY <1>1, <1>10, <1>11 DEF Configured

LEMMA SendsRecordReady ==
  ASSUME TypeInv, WholeFile, [Next]_vars, phase = "main", NEW k \in 1 .. Last, NEW w \in Where,
         Standing(todo, k, w, opts), InStep(k, w, opts, chip, tx, rx, len), Configured(k, w),
         SendsRecord(k, w)
  PROVE  Configured(6, "header")'
<1> DEFINE m == <<Head(todo)[2], Head(todo)[3]>>
<1>1. /\ w = "send" /\ k = 6 /\ SendCommand /\ m \in Message
      /\ m[1] = "write_ram" /\ m[2] = Head(todo)[3] /\ m[2] \in Nat
  BY SendCommandTypes, MessageFacts, CallParts DEF SendsRecord
<1>2. /\ opts' = opts /\ speed' = speed /\ records' = records /\ alarm' = alarm /\ inside' = inside
      /\ chip' = chip /\ rx' = rx /\ tx = << >> /\ rx = << >>
  BY <1>1 DEF SendCommand, hci_send_cmd, OnlyMain, InStep, fileVars
<1>3. tx' = << >> \/ (tx' = Append(<< >>, m) /\ speed = chip.speed)
  BY <1>1, <1>2 DEF SendCommand, hci_send_cmd
<1>4. m[2] = records /\ Suits(chip, 6, opts, records - 1) /\ alarm # "set" /\ ~inside
  BY <1>1 DEF Configured, ChipReady, HostReady, Watched, Resets
<1>5. tx' = << >> \/ (Head(tx') = m /\ speed = chip.speed)
  BY <1>1, <1>3, SentFacts
<1>6. tx' # << >> => InFlight(6)'
  <2>1. m = <<"write_ram", records>>
    BY <1>1, <1>4
  <2> QED BY <1>1, <1>2, <1>4, <1>5, <2>1 DEF InFlight
<1>7. chip.speed = speed
  <2>1. records # 0
    <3>1. \E r \in 1 .. Records + 1 : Head(todo) = Send("write_ram", r)
      BY DEF SendsRecord
    <3>2. m[2] # 0
      BY <1>1, <3>1, CallParts
    <3> QED BY <1>4, <3>2
  <2>2. records - 1 \in Nat /\ records - 1 < Records
    BY <2>1, WholeFacts
  <2> QED BY <1>1, <1>4, <2>2, SpeedsAgree DEF Configured, HostReady
<1>8. ~garbled => ~garbled'
  BY <1>1, <1>7 DEF SendCommand, hci_send_cmd
<1>9. HostReady(6, "header")'
  BY <1>1, <1>2, <1>4, <1>8 DEF Configured, HostReady, Watched
<1>10. ChipReady(6, "header")'
  BY <1>2, <1>6 DEF ChipReady, Resets
<1> QED BY <1>9, <1>10 DEF Configured, Last

LEMMA AlarmReady ==
  ASSUME TypeInv, NEW k \in 1 .. Last, NEW w \in Where, Standing(todo, k, w, opts), Configured(k, w)
  PROVE  /\ Arms(k, w) => Configured(k, "header")'
         /\ Disarms(k, w) => Configured(k + 1, "start")'
<1>1. ASSUME SetAlarm
      PROVE  /\ opts' = opts /\ speed' = speed /\ records' = records /\ inside' = inside
             /\ chip' = chip /\ rx' = rx /\ tx' = tx /\ garbled' = garbled
  BY <1>1 DEF SetAlarm, OnlyMain, lineVars, fileVars
<1>2. ASSUME Arms(k, w) PROVE Configured(k, "header")'
  <2>1. SetAlarm /\ w = "armed" /\ k \in Resets
    BY <1>2 DEF Arms
  <2>2. HostReady(k, "header")'
    BY <1>1, <2>1 DEF Configured, HostReady, Watched
  <2>3. (Obeyed(k)' <=> Obeyed(k)) /\ (InFlight(k)' <=> InFlight(k))
    BY <1>1, <2>1 DEF Obeyed, InFlight
  <2>4. ChipReady(k, "header")'
    BY <1>1, <2>1, <2>3 DEF Configured, ChipReady
  <2> QED BY <2>1, <2>2, <2>4 DEF Configured, Resets, Last
<1>3. ASSUME Disarms(k, w) PROVE Configured(k + 1, "start")'
  <2>1. SetAlarm /\ alarm' # "set" /\ w = "off" /\ k \in {1, 8} /\ k # 6 /\ k + 1 # 6 /\ k \in 1 .. 16
    BY <1>3 DEF Disarms, Resets
  <2>2. Suits(chip, k + 1, opts, records)
    BY <2>1 DEF Configured, ChipReady, Obeyed
  <2>7. opts \in Globals /\ k \notin {3, 7, 10}
    BY <2>1 DEF TypeInv
  <2>3. HostSpeed(k + 1, opts) = HostSpeed(k, opts)
    BY <2>1, <2>7, HostPast
  <2>4. records # 0 => k + 1 >= 6 /\ Given(6, opts)
    BY <2>1 DEF Configured, HostReady
  <2>5. HostReady(k + 1, "start")'
    BY <1>1, <2>1, <2>3, <2>4 DEF Configured, HostReady, Watched
  <2>6. ChipReady(k + 1, "start")'
    BY <1>1, <2>1, <2>2 DEF ChipReady
  <2> QED BY <2>1, <2>5, <2>6 DEF Configured, Last
<1> QED BY <1>2, <1>3

LEMMA ReadReady ==
  ASSUME TypeInv, NEW k \in 1 .. Last, NEW w \in Where, Standing(todo, k, w, opts), Configured(k, w)
  PROVE  /\ GetsHeader(k, w) => Configured(k, "body")'
         /\ GetsBody(k, w) /\ k \in Resets => Configured(k, "off")'
         /\ GetsBody(k, w) /\ k = 6 => Configured(6, "start")'
         /\ GetsBody(k, w) /\ k \in Commanding \ Resets => Configured(k + 1, "start")'
<1>1. ASSUME ReadHeader \/ ReadBody
      PROVE  /\ opts' = opts /\ speed' = speed /\ records' = records /\ inside' = inside
             /\ chip' = chip /\ tx' = tx /\ garbled' = garbled /\ alarm' = alarm
  BY <1>1 DEF ReadHeader, ReadBody, OnlyMain, Drop, fileVars
<1>2. ASSUME GetsHeader(k, w) PROVE Configured(k, "body")'
  <2>1. ReadHeader /\ w = "header" /\ Len(rx) >= 3 /\ k # Last
    BY <1>2 DEF GetsHeader, ReadHeader, Commanding, Last
  <2>2. rx # << >>
    BY <2>1
  <2>3. Obeyed(k)
    BY <2>1, <2>2 DEF Configured, ChipReady
  <2>4. Obeyed(k)'
    BY <1>1, <2>1, <2>3 DEF Obeyed
  <2>5. HostReady(k, "body")'
    BY <1>1, <2>1 DEF Configured, HostReady, Watched
  <2>6. ChipReady(k, "body")'
    BY <2>4 DEF ChipReady
  <2> QED BY <2>1, <2>5, <2>6 DEF Configured
<1>3. ASSUME GetsBody(k, w)
      PROVE  ReadBody /\ w = "body" /\ Obeyed(k) /\ Obeyed(k)'
  <2>1. ReadBody /\ w = "body" /\ Obeyed(k)
    BY <1>3 DEF GetsBody, Configured, ChipReady
  <2> QED BY <1>1, <2>1 DEF Obeyed
<1>4. ASSUME GetsBody(k, w), k \in Resets PROVE Configured(k, "off")'
  <2>1. HostReady(k, "off")'
    BY <1>1, <1>3, <1>4 DEF Configured, HostReady, Watched
  <2>2. ChipReady(k, "off")'
    BY <1>3, <1>4 DEF ChipReady
  <2> QED BY <1>4, <2>1, <2>2 DEF Configured, Resets, Last
<1>5. ASSUME GetsBody(k, w), k = 6 PROVE Configured(6, "start")'
  <2>1. HostReady(6, "start")'
    BY <1>1, <1>3, <1>5 DEF Configured, HostReady, Watched, Resets
  <2>2. ChipReady(6, "start")'
    BY <1>3, <1>5 DEF ChipReady, Obeyed
  <2> QED BY <2>1, <2>2 DEF Configured, Last
<1>6. ASSUME GetsBody(k, w), k \in Commanding \ Resets PROVE Configured(k + 1, "start")'
  <2>1. k \in 1 .. 16 /\ k # 6 /\ k + 1 # 6 /\ k \notin {3, 7, 10} /\ k + 1 # Last
    BY <1>6 DEF Commanding, Last
  <2>2. Suits(chip, k + 1, opts, records)
    BY <1>3, <1>6, <2>1 DEF Obeyed
  <2>3. HostSpeed(k + 1, opts) = HostSpeed(k, opts)
    BY <2>1, HostPast DEF TypeInv
  <2>4. records # 0 => k + 1 >= 6 /\ Given(6, opts)
    BY <2>1 DEF Configured, HostReady
  <2>5. alarm # "set"
    BY <1>6 DEF Configured, HostReady, Watched
  <2>6. HostReady(k + 1, "start")'
    BY <1>1, <1>3, <1>6, <2>3, <2>4, <2>5 DEF Configured, HostReady, Watched
  <2>7. ChipReady(k + 1, "start")'
    BY <1>1, <1>3, <1>6, <2>1, <2>2 DEF ChipReady
  <2> QED BY <2>1, <2>6, <2>7 DEF Configured
<1> QED BY <1>2, <1>4, <1>5, <1>6

LEMMA PassesReady ==
  ASSUME TypeInv, WholeFile, [Next]_vars, NEW k \in 1 .. Last, NEW w \in Where, Standing(todo, k, w, opts),
         Configured(k, w), Passes(k, w)
  PROVE  Configured(k + 1, "start")'
<1>1. w = "start" /\ k \in {3, 5, 6, 7, 10, 16} /\ k \in 1 .. 16 /\ opts \in Globals /\ Given(k, opts)
  BY DEF Passes, Standing, TypeInv, Last
<1>2. /\ alarm # "set" /\ Suits(chip, k, opts, records) /\ ~inside
      /\ records # 0 => k >= 6 /\ Given(6, opts)
  BY <1>1 DEF Configured, HostReady, ChipReady, Watched
<1>3. /\ opts' = opts /\ alarm' = alarm /\ inside' = inside /\ garbled' = garbled /\ records' = records
  <2>1. CASE ReadTwoBytes
    BY <2>1 DEF ReadTwoBytes, OnlyMain, Drop, fileVars
  <2>2. CASE SetSpeed
    BY <2>2 DEF SetSpeed, OnlyMain, lineVars, fileVars
  <2>3. CASE ReadRecordHeader /\ UNCHANGED fileVars
    BY <2>3 DEF ReadRecordHeader, OnlyMain, lineVars, fileVars
  <2>4. CASE proc_enable_hci
    BY <2>4 DEF proc_enable_hci, OnlyMain, fileVars
  <2> QED BY <2>1, <2>2, <2>3, <2>4 DEF Passes
<1>4. /\ chip'.mode = chip.mode /\ chip'.speed = chip.speed
      /\ chip'.addr = chip.addr /\ chip'.settings = chip.settings
  <2>1. CASE ReadTwoBytes \/ SetSpeed \/ ReadRecordHeader
    BY <2>1 DEF ReadTwoBytes, Drop, SetSpeed, ReadRecordHeader, lineVars
  <2>2. CASE proc_enable_hci
    BY <2>2 DEF proc_enable_hci, TypeInv, Chip
  <2> QED BY <2>1, <2>2 DEF Passes
<1>5. k = 6 => records >= Records
  <2>1. k = 6 => records = Begun
    BY DEF Passes
  <2> QED BY <2>1, WholeFacts
<1>6. k = 5 => records < Records
  BY <1>2, ConstantFacts
<1>7. Suits(chip, k + 1, opts, records)
  <2>1. k = 6 => (records >= Records <=> opts.hcdfile_fd > 0)
    BY <1>1, <1>5 DEF Given
  <2> QED BY <1>1, <1>2, <1>6, <2>1, RecordsIsNat, SuitsPast
<1>8. Suits(chip', k + 1, opts', records')
  BY <1>3, <1>4, <1>7, SuitsAlike
<1>9. speed' = HostSpeed(k + 1, opts)
  <2>1. CASE k \in {3, 7, 10}
    <3>1. SetSpeed /\ speed' = IF k = 7 THEN Default ELSE opts.termios_baudrate
      BY <2>1 DEF Passes
    <3> QED BY <1>1, <2>1, <3>1, HostChanges
  <2>2. CASE k \notin {3, 7, 10}
    <3>1. speed' = speed
      BY <2>2 DEF Passes, ReadTwoBytes, ReadRecordHeader, proc_enable_hci
    <3> QED BY <1>1, <2>2, <3>1, HostPast DEF Configured, HostReady
  <2> QED BY <2>1, <2>2
<1>10. HostReady(k + 1, "start")'
  BY <1>1, <1>2, <1>3, <1>9 DEF Configured, HostReady, Watched
<1>11. k + 1 = Last => Handed'
  <2> SUFFICES ASSUME k = 16 PROVE Handed'
    BY <1>1 DEF Last
  <2>1. proc_enable_hci
    BY DEF Passes
  <2>2. chip'.attached \/ ((Fails("ldisc") \/ chip.gone) /\ chip' = chip)
    BY <2>1 DEF proc_enable_hci, TypeInv, Chip
  <2>3. Fails("ldisc")' <=> Fails("ldisc")
    BY FaultsStay
  <2> QED BY <2>2, <2>3 DEF Handed
<1>12. ChipReady(k + 1, "start")'
  BY <1>8 DEF ChipReady
<1> QED BY <1>10, <1>11, <1>12 DEF Configured

LEMMA FindsRecordReady ==
  ASSUME TypeInv, WholeFile, [Next]_vars, NEW k \in 1 .. Last, NEW w \in Where, Standing(todo, k, w, opts),
         Configured(k, w), FindsRecord(k, w)
  PROVE  Configured(6, "payload")'
<1>1. w = "start" /\ k = 6 /\ ReadRecordHeader /\ Given(6, opts)
  BY DEF FindsRecord, Standing, Last
<1>2. alarm # "set" /\ Suits(chip, 6, opts, records) /\ ~inside
  BY <1>1 DEF Configured, HostReady, ChipReady, Watched, Resets
<1>3. PICK r \in 1 .. Records + 1 :
        /\ Head(todo') = Payload(r)
        /\ r = Corrupt \/ (r = records + 1 /\ records < args.file.whole)
        /\ \/ records' = records + 1 /\ ~inside /\ records < Begun
              /\ (r = Corrupt => args.file.whole <= records)
           \/ records' = records /\ r = Corrupt /\ (inside \/ Fails("hcd_read"))
  BY DEF FindsRecord
<1>4. /\ args.file.whole = Records /\ Begun = Records /\ ~Fails("hcd_read")
      /\ records \in Nat /\ Records \in Nat
  BY WholeFacts
<1>5. /\ records' = records + 1 /\ records < Begun /\ (r = Corrupt => args.file.whole <= records)
      /\ r = Corrupt \/ r = records + 1
  BY <1>2, <1>3, <1>4, Zenon
<1>6. r # Corrupt
  BY <1>4, <1>5
<1>7. Head(todo')[3] = records' /\ records' - 1 = records
  BY <1>3, <1>4, <1>5, <1>6, CallParts
<1>8. /\ opts' = opts /\ alarm' = alarm /\ garbled' = garbled /\ chip' = chip /\ speed' = speed
  BY <1>1 DEF ReadRecordHeader, OnlyMain, lineVars
<1>9. HostReady(6, "payload")'
  BY <1>1, <1>2, <1>8 DEF Configured, HostReady, Watched
<1>10. ChipReady(6, "payload")'
  BY <1>2, <1>7, <1>8 DEF ChipReady
<1> QED BY <1>9, <1>10 DEF Configured, Last

LEMMA TakesRecordReady ==
  ASSUME TypeInv, WholeFile, [Next]_vars, NEW k \in 1 .. Last, NEW w \in Where, Standing(todo, k, w, opts),
         Configured(k, w), TakesRecord(k, w)
  PROVE  Configured(6, "send")'
<1>1. w = "payload" /\ k = 6 /\ ReadRecordPayload /\ Given(6, opts)
  BY DEF TakesRecord, Standing, At, Last
<1>2. PICK r \in 1 .. Records + 1, x \in 1 .. Records + 1 :
        /\ Head(todo) = Payload(r) /\ Head(todo') = Send("write_ram", x)
        /\ \/ x = r /\ x # Corrupt /\ records' = records /\ inside' = FALSE
           \/ x = Corrupt /\ (r = Corrupt \/ Fails("hcd_read"))
  BY DEF TakesRecord
<1>3. Head(todo)[3] = r /\ Head(todo')[3] = x
  BY <1>2, CallParts
<1>4. /\ opts' = opts /\ alarm' = alarm /\ garbled' = garbled /\ chip' = chip /\ speed' = speed
  BY <1>1 DEF ReadRecordPayload, OnlyMain, lineVars
<1>5. alarm # "set" /\ r = records /\ Suits(chip, 6, opts, records - 1)
  BY <1>1, <1>3 DEF Configured, HostReady, ChipReady, Watched, Resets
<1>6. r # Corrupt /\ ~Fails("hcd_read")
  BY <1>5, WholeFacts
<1>7. x = r /\ records' = records /\ inside' = FALSE
  BY <1>2, <1>6, Zenon
<1>8. HostReady(6, "send")'
  BY <1>1, <1>4, <1>5, <1>7 DEF Configured, HostReady, Watched
<1>10. ChipReady(6, "send")'
  BY <1>3, <1>4, <1>5, <1>7 DEF ChipReady
<1> QED BY <1>8, <1>10 DEF Configured, Last

LEMMA ConfMoves ==
  ASSUME TypeInv, Course, Prompt, WholeFile, [Next]_vars, phase = "main", phase' = "main", ~chip'.rejected,
         NEW k \in 1 .. Last, NEW w \in Where, NEW j \in 1 .. Last, NEW v \in Where,
         Standing(todo, k, w, opts), InStep(k, w, opts, chip, tx, rx, len), Configured(k, w),
         Reaches(k, w, j, v)
  PROVE  Configured(j, v)'
<1>1. CASE Stays /\ j = k /\ v = w
  BY <1>1, StaysReady
<1>2. CASE Sends(k, w) /\ j = k /\ v = IF k \in Resets THEN "armed" ELSE "header"
  <2>1. Configured(k, "armed")' /\ Configured(k, "header")'
    BY <1>2, SendsReady
  <2>2. v = "armed" \/ v = "header"
    BY <1>2
  <2> QED BY <1>2, <2>1, <2>2
<1>3. CASE SendsRecord(k, w) /\ j = 6 /\ v = "header"
  BY <1>3, SendsRecordReady
<1>4. CASE Arms(k, w) /\ j = k /\ v = "header"
  BY <1>4, AlarmReady
<1>5. CASE Disarms(k, w) /\ j = k + 1 /\ v = "start"
  BY <1>5, AlarmReady
<1>6. CASE GetsHeader(k, w) /\ j = k /\ v = "body"
  BY <1>6, ReadReady
<1>7. CASE GetsBody(k, w) /\ k \in Resets /\ j = k /\ v = "off"
  BY <1>7, ReadReady
<1>8. CASE GetsBody(k, w) /\ k = 6 /\ j = 6 /\ v = "start"
  BY <1>8, ReadReady
<1>9. CASE GetsBody(k, w) /\ k \in Commanding \ Resets /\ j = k + 1 /\ v = "start"
  BY <1>9, ReadReady
<1>10. CASE Passes(k, w) /\ j = k + 1 /\ v = "start"
  BY <1>10, PassesReady
<1>11. CASE FindsRecord(k, w) /\ j = 6 /\ v = "payload"
  BY <1>11, FindsRecordReady
<1>12. CASE TakesRecord(k, w) /\ j = 6 /\ v = "send"
  BY <1>12, TakesRecordReady
<1> QED BY <1>1, <1>2, <1>3, <1>4, <1>5, <1>6, <1>7, <1>8, <1>9, <1>10, <1>11, <1>12 DEF Reaches

(* Between two blocks main goes on to one that is given: what is left out  *)
(* would have changed nothing.                                             *)
Between(k) ==
  At(todo, k, "start", opts) /\ InStep(k, "start", opts, chip, tx, rx, len) /\ Configured(k, "start")
Onward == \A k \in 1 .. Last : Between(k) => \E j \in 1 .. Last : Placing(j, "start")

LEMMA LeavesOut ==
  ASSUME TypeInv, OldIsKnown, NEW k \in 1 .. 16, ~Given(k, opts), Between(k)
  PROVE  Between(k + 1)
<1>1. /\ opts \in Globals /\ speed = HostSpeed(k, opts) /\ alarm # "set" /\ ~garbled /\ ~inside
      /\ records # 0 => k >= 6 /\ Given(6, opts)
      /\ Suits(chip, k, opts, records)
  BY DEF Between, Configured, HostReady, ChipReady, Watched, TypeInv
<1>2. records # 0 => k > 6
  BY <1>1
<1>3. At(todo, k + 1, "start", opts)
  BY <1>1, Skips DEF Between
<1>4. InStep(k + 1, "start", opts, chip, tx, rx, len)
  <2>1. ~(k = 5 /\ opts.hcdfile_fd > 0 /\ chip.old)
    BY DEF Given, OldIsKnown
  <2> QED BY <2>1 DEF Between, InStep
<1>5. speed = HostSpeed(k + 1, opts)
  BY <1>1, HostPast
<1>6. Suits(chip, k + 1, opts, records)
  <2>1. k = 6 => (records >= Records <=> opts.hcdfile_fd > 0)
    BY <1>2, ConstantFacts DEF Given
  <2>2. k = 5 => records < Records
    BY <1>2, ConstantFacts
  <2> QED BY <1>1, <2>1, <2>2, RecordsIsNat, SuitsPast
<1>7. k + 1 = Last => Handed
  BY DEF Last, Given, Handed
<1>8. HostReady(k + 1, "start")
  BY <1>1, <1>2, <1>5 DEF HostReady, Watched
<1>9. ChipReady(k + 1, "start")
  BY <1>6 DEF ChipReady
<1> QED BY <1>3, <1>4, <1>7, <1>8, <1>9 DEF Between, Configured

LEMMA ConfGoesOn == TypeInv /\ OldIsKnown => Onward
<1> SUFFICES ASSUME TypeInv, OldIsKnown, NEW k \in 1 .. Last, Between(k)
             PROVE  \E j \in 1 .. Last : Placing(j, "start")
  BY DEF Onward
<1> DEFINE K == {j \in 1 .. Last : Between(j)}
<1>1. K \in SUBSET (1 .. Last) /\ k \in K /\ opts \in Globals
  BY DEF TypeInv
<1>2. \A j \in K : j # Last /\ ~Given(j, opts) => j + 1 \in K
  <2> SUFFICES ASSUME NEW j \in K, j # Last, ~Given(j, opts) PROVE j + 1 \in K
    OBVIOUS
  <2>1. j \in 1 .. 16 /\ j + 1 \in 1 .. Last
    BY DEF Last
  <2>2. Between(j + 1)
    BY <2>1, LeavesOut
  <2> QED BY <2>1, <2>2
<1>3. PICK j \in K : j = Last \/ Given(j, opts)
  <2> HIDE DEF K
  <2> QED BY <1>1, <1>2, Settles
<1>4. Between(j) /\ j \in 1 .. Last
  OBVIOUS
<1>5. Standing(todo, j, "start", opts)
  BY <1>3, <1>4 DEF Standing, Between, Where
<1> QED BY <1>4, <1>5 DEF Placing, Between

LEMMA UntouchedFacts ==
  Untouched <=> /\ chip.mode = "rom" /\ chip.speed = Default /\ chip.addr = NoAddress /\ chip.settings = {}
                /\ ~garbled /\ records = 0 /\ ~inside
  BY SuitsFirst DEF Untouched

LEMMA ConfInit == Init => ConfInv
<1> SUFFICES ASSUME Init PROVE ConfInv
  OBVIOUS
<1>1. /\ chip.mode = "rom" /\ chip.speed = Default /\ chip.addr = NoAddress /\ chip.settings = {}
      /\ ~garbled /\ records = 0 /\ ~inside /\ phase = "options"
  BY DEF Init
<1> QED BY <1>1, UntouchedFacts DEF ConfInv, Finished

(* Before main the chip is left alone. *)
LEMMA ConfBefore ==
  ASSUME TypeInv, Course, ConfInv, [Next]_vars, phase \in {"options", "uart"}, ~init_uart
  PROVE  /\ Untouched' /\ tx' = << >> /\ ~garbled'
         /\ phase' \in {"options", "uart", "exit"} /\ (phase' = "exit" => code' # 0)
<1>1. /\ chip.mode = "rom" /\ chip.speed = Default /\ chip.addr = NoAddress /\ chip.settings = {}
      /\ ~garbled /\ records = 0 /\ ~inside /\ tx = << >> /\ alarm = "off" /\ chip \in Chip
  BY UntouchedFacts DEF ConfInv, Course, TypeInv
<1>2. \/ ParseOption \/ OpenDevice \/ ChipBoots \/ LineGoes \/ UNCHANGED vars
  BY <1>1 DEF Next, HostStep, SendCommand, SetAlarm, ReadHeader, ReadBody,
       ReadTwoBytes, ReadRecordHeader, ReadRecordPayload, SetSpeed, proc_enable_hci, Finish, Does, expired,
       ChipExecutes
<1>3. /\ tx' = << >> /\ garbled' = garbled /\ records' = records /\ inside' = inside
      /\ chip'.mode = chip.mode /\ chip'.speed = chip.speed
      /\ chip'.addr = chip.addr /\ chip'.settings = chip.settings
  <2>1. CASE ParseOption \/ OpenDevice \/ UNCHANGED vars
    BY <1>1, <2>1 DEF ParseOption, OpenDevice, lineVars, hostVars, vars, fileVars
  <2>2. CASE ChipBoots \/ LineGoes
    BY <1>1, <2>2 DEF ChipBoots, LineGoes, hostVars, Chip, fileVars
  <2> QED BY <1>2, <2>1, <2>2
<1>4. /\ phase' \in {"options", "uart", "exit"} /\ (phase' = "exit" => code' # 0)
  <2>1. CASE ParseOption
    BY <2>1 DEF ParseOption
  <2>2. CASE OpenDevice
    BY <2>2 DEF OpenDevice
  <2>3. CASE ChipBoots \/ LineGoes \/ UNCHANGED vars
    BY <2>3 DEF ChipBoots, LineGoes, hostVars, vars
  <2> QED BY <1>2, <2>1, <2>2, <2>3
<1>5. (Untouched <=> /\ chip.mode = "rom" /\ chip.speed = Default /\ chip.addr = NoAddress /\ chip.settings = {}
                     /\ ~garbled /\ records = 0 /\ ~inside)'
  BY UntouchedFacts, PTL
<1>6. Untouched'
  BY <1>1, <1>3, <1>5
<1>7. ~garbled'
  BY <1>6 DEF Untouched
<1> QED BY <1>3, <1>4, <1>6, <1>7

LEMMA ConfStarts ==
  ASSUME TypeInv, Course, OldIsKnown, ConfInv, [Next]_vars, init_uart
  PROVE  \E k \in 1 .. Last : Placing(k, "start")'
<1>1. /\ phase = "uart" /\ Untouched /\ alarm = "off" /\ opts \in Globals
      /\ opts' = opts /\ todo' = main(opts) /\ tx' = << >> /\ rx' = << >> /\ speed' = Default
      /\ records' = records /\ inside' = inside /\ alarm' = alarm /\ chip' = chip /\ garbled' = garbled
  BY DEF init_uart, ConfInv, Course, TypeInv, fileVars
<1>2. Onward'
  <2>1. TypeInv' /\ OldIsKnown'
    BY NextTypes, OldStep
  <2>2. (TypeInv /\ OldIsKnown => Onward)'
    BY ConfGoesOn, PTL
  <2> QED BY <2>1, <2>2
<1>3. At(todo', 1, "start", opts')
  BY <1>1, MainIsRest DEF At
<1>4. InStep(1, "start", opts', chip', tx', rx', len')
  BY <1>1 DEF InStep
<1>5. HostReady(1, "start")'
  BY <1>1, SpeedTable DEF HostReady, Watched, Untouched
<1>6. ChipReady(1, "start")'
  BY <1>1 DEF ChipReady, Untouched
<1>7. Between(1)'
  BY <1>3, <1>4, <1>5, <1>6 DEF Between, Configured, Last
<1> QED BY <1>2, <1>7 DEF Onward, Last

LEMMA ConfInMain ==
  ASSUME TypeInv, Course, OldIsKnown, ConfInv, [Next]_vars, phase = "main", phase' = "main",
         Prompt, WholeFile, ~chip'.rejected, ~chip.rejected
  PROVE  \E k \in 1 .. Last, w \in Where : Placing(k, w)'
<1>1. PICK k \in 1 .. Last, w \in Where : Placing(k, w)
  BY DEF ConfInv
<1>2. Standing(todo, k, w, opts) /\ InStep(k, w, opts, chip, tx, rx, len) /\ Configured(k, w)
  BY <1>1 DEF Placing
<1>3. PICK j \in 1 .. Last, v \in Where :
        Reaches(k, w, j, v) /\ Arrives(j, v) /\ InStep(j, v, opts', chip', tx', rx', len')
  BY <1>2, InStepMoves
<1>4. Configured(j, v)'
  BY <1>2, <1>3, ConfMoves
<1>5. CASE Standing(todo', j, v, opts')
  BY <1>3, <1>4, <1>5 DEF Placing
<1>6. CASE v = "start" /\ At(todo', j, "start", opts')
  <2>1. TypeInv' /\ OldIsKnown'
    BY NextTypes, OldStep
  <2>2. (TypeInv /\ OldIsKnown => Onward)'
    BY ConfGoesOn, PTL
  <2>3. Between(j)'
    BY <1>3, <1>4, <1>6 DEF Between
  <2>4. \E i \in 1 .. Last : Placing(i, "start")'
    BY <2>1, <2>2, <2>3 DEF Onward
  <2> QED BY <2>4 DEF Where
<1> QED BY <1>3, <1>5, <1>6 DEF Arrives

LEMMA ConfEnds ==
  ASSUME TypeInv, ConfInv, [Next]_vars, phase = "main", phase' # "main", Prompt, WholeFile, ~chip.rejected
  PROVE  /\ phase' \in {"sleep", "exit"} /\ tx' = << >> /\ ~garbled'
         /\ Suits(chip', Last, opts', records') /\ speed' = HostSpeed(Last, opts') /\ Handed'
<1>1. PICK k \in 1 .. Last, w \in Where : Placing(k, w)
  BY DEF ConfInv
<1>2. Standing(todo, k, w, opts) /\ InStep(k, w, opts, chip, tx, rx, len) /\ Configured(k, w)
  BY <1>1 DEF Placing
<1>3. Finish
  BY DEF Next, HostStep, ParseOption, OpenDevice, init_uart, SendCommand, SetAlarm, ReadHeader, ReadBody,
       ReadTwoBytes, ReadRecordHeader, ReadRecordPayload, SetSpeed, proc_enable_hci, OnlyMain, expired,
       ChipExecutes,
       ChipAnswers, ChipBoots, LineGoes, hostVars, vars
<1>4. /\ todo = << >> /\ phase' \in {"sleep", "exit"}
      /\ opts' = opts /\ records' = records /\ speed' = speed /\ tx' = tx /\ chip' = chip /\ garbled' = garbled
      /\ args' = args
  BY <1>3 DEF Finish, lineVars, fileVars
<1>5. w = "start" /\ k = Last
  BY <1>2, <1>4, Doing DEF Doings
<1>6. tx = << >>
  BY <1>2, <1>5 DEF InStep
<1>7. Suits(chip, Last, opts, records) /\ speed = HostSpeed(Last, opts) /\ ~garbled /\ Handed
  BY <1>2, <1>5 DEF Configured, HostReady, ChipReady
<1>8. Handed'
  BY <1>4, <1>7 DEF Handed, Fails
<1> QED BY <1>4, <1>6, <1>7, <1>8

LEMMA ConfStays ==
  ASSUME TypeInv, Course, Prompt, [Next]_vars, phase \in {"sleep", "exit"}, tx = << >>
  PROVE  /\ UNCHANGED <<phase, code, opts, records, speed, garbled, args>> /\ tx' = << >>
         /\ chip'.mode = chip.mode /\ chip'.speed = chip.speed
         /\ chip'.addr = chip.addr /\ chip'.settings = chip.settings
         /\ chip'.attached = chip.attached /\ chip'.gone = chip.gone
<1>0. ~expired
  BY DEF Course, Prompt, expired
<1>1. ChipBoots \/ UNCHANGED vars
  BY <1>0 DEF Next, HostStep, ParseOption, OpenDevice, init_uart, SendCommand, SetAlarm, ReadHeader,
       ReadBody, ReadTwoBytes, ReadRecordHeader, ReadRecordPayload, SetSpeed, proc_enable_hci, Finish,
       Does, ChipExecutes, LineGoes
<1> QED BY <1>1 DEF ChipBoots, vars, hostVars, lineVars, fileVars, TypeInv, Chip

LEMMA PromptStays ==
  ASSUME TypeInv, [Next]_vars
  PROVE  /\ Prompt' => Prompt
         /\ WholeFile' => WholeFile
         /\ chip.rejected => chip'.rejected
<1>3. chip.rejected => chip'.rejected
  <2> SUFFICES ASSUME chip.rejected PROVE chip'.rejected
    OBVIOUS
  <2>1. chip \in Chip
    BY DEF TypeInv
  <2>2. ChipExecutes => Head(tx)[1] \in Commands
    BY ChipExecutesTypes DEF Message
  <2>3. ASSUME NEW n \in Commands, NEW p
        PROVE  Effect(chip, n, p).rejected = chip.rejected
    BY <2>1, EffectKeeps
  <2>4. ChipExecutes => Effect(chip, Head(tx)[1], Head(tx)[2]).rejected
    BY <2>2, <2>3, Zenon
  <2> QED BY <2>1, <2>4, ChipMoves DEF Chip
<1> QED BY <1>3, FaultsStay DEF Prompt, WholeFile

LEMMA ConfStep == TypeInv /\ Course /\ OldIsKnown /\ ConfInv /\ [Next]_vars => ConfInv'
<1> SUFFICES ASSUME TypeInv, Course, OldIsKnown, ConfInv, [Next]_vars PROVE ConfInv'
  OBVIOUS
<1>1. (Prompt' => Prompt) /\ (WholeFile' => WholeFile) /\ (chip.rejected => chip'.rejected)
  BY PromptStays
<1>2. CASE phase \in {"options", "uart"} /\ ~init_uart
  <2>1. /\ Untouched' /\ tx' = << >> /\ ~garbled'
        /\ phase' \in {"options", "uart", "exit"} /\ (phase' = "exit" => code' # 0)
    BY <1>2, ConfBefore
  <2> QED BY <2>1 DEF ConfInv, Finished
<1>3. CASE init_uart
  <2>1. phase' = "main"
    BY <1>3 DEF init_uart
  <2>2. \E k \in 1 .. Last : Placing(k, "start")'
    BY <1>3, ConfStarts
  <2> QED BY <2>1, <2>2 DEF ConfInv, Finished, Where
<1>4. CASE phase = "main" /\ phase' = "main"
  <2>1. Prompt' /\ WholeFile' /\ ~chip'.rejected => \E k \in 1 .. Last, w \in Where : Placing(k, w)'
    BY <1>1, <1>4, ConfInMain
  <2> QED BY <1>4, <2>1 DEF ConfInv, Finished
<1>5. CASE phase = "main" /\ phase' # "main"
  <2>1. Finish
    BY <1>5 DEF Next, HostStep, ParseOption, OpenDevice, init_uart, SendCommand, SetAlarm, ReadHeader, ReadBody,
         ReadTwoBytes, ReadRecordHeader, ReadRecordPayload, SetSpeed, proc_enable_hci, OnlyMain, expired,
         ChipExecutes,
         ChipAnswers, ChipBoots, LineGoes, hostVars, vars
  <2>2. phase' \in {"sleep", "exit"}
    BY <2>1 DEF Finish
  <2>3. Prompt' /\ WholeFile' /\ ~chip'.rejected =>
          /\ tx' = << >> /\ ~garbled'
          /\ Suits(chip', Last, opts', records') /\ speed' = HostSpeed(Last, opts') /\ Handed'
    BY <1>1, <1>5, ConfEnds
  <2> QED BY <1>1, <2>2, <2>3 DEF ConfInv
<1>6. CASE phase \in {"sleep", "exit"}
  <2>1. phase' = phase /\ code' = code
    BY <1>6 DEF Next, HostStep, ParseOption, OpenDevice, init_uart, SendCommand, SetAlarm, ReadHeader,
       ReadBody, ReadTwoBytes, ReadRecordHeader, ReadRecordPayload, SetSpeed, proc_enable_hci, Finish, Does,
       expired, ChipExecutes, ChipAnswers, ChipBoots, LineGoes, hostVars, vars
  <2>2. SUFFICES ASSUME Prompt', WholeFile', ~chip'.rejected
                 PROVE  /\ tx' = << >> /\ ~garbled'
                        /\ Finished' => Suits(chip', Last, opts', records') /\ speed' = HostSpeed(Last, opts')
                                           /\ Handed'
    BY <1>6, <2>1 DEF ConfInv
  <2>3. /\ tx = << >> /\ ~garbled
        /\ Finished => Suits(chip, Last, opts, records) /\ speed = HostSpeed(Last, opts) /\ Handed
    BY <1>1, <1>6, <2>2 DEF ConfInv
  <2>4. /\ UNCHANGED <<phase, code, opts, records, speed, garbled, args>> /\ tx' = << >>
        /\ chip'.mode = chip.mode /\ chip'.speed = chip.speed
        /\ chip'.addr = chip.addr /\ chip'.settings = chip.settings
        /\ chip'.attached = chip.attached /\ chip'.gone = chip.gone
    BY <1>1, <1>6, <2>2, <2>3, ConfStays
  <2>5. Suits(chip', Last, opts', records') <=> Suits(chip, Last, opts, records)
    BY <2>4, SuitsAlike
  <2>6. Handed' <=> Handed
    BY <2>4 DEF Handed, Fails
  <2> QED BY <2>3, <2>4, <2>5, <2>6 DEF Finished
<1> QED BY <1>2, <1>3, <1>4, <1>5, <1>6 DEF TypeInv

LEMMA ConfInvariant == Spec => []ConfInv
<1>1. LineInv => OldIsKnown
  BY DEF LineInv
<1> QED BY <1>1, ConfInit, ConfStep, TypeInvariant, CourseInvariant, LineInvariant, PTL DEF Spec

(* Until the chip has refused a command, with answers in time and a whole  *)
(* file, neither end ever sends while the other listens at another speed,  *)
(* though both change theirs several times on the way.                     *)
THEOREM NothingIsGarbled == Spec => []NothingGarbled
<1>1. ConfInv /\ TypeInv => NothingGarbled
  <2> SUFFICES ASSUME ConfInv, TypeInv, Prompt, WholeFile, ~chip.rejected PROVE ~garbled
    BY DEF NothingGarbled
  <2>1. CASE phase \in {"options", "uart"}
    BY <2>1 DEF ConfInv, Untouched
  <2>2. CASE phase = "main"
    <3>1. PICK k \in 1 .. Last, w \in Where : Placing(k, w)
      BY <2>2 DEF ConfInv
    <3> QED BY <3>1 DEF Placing, Configured, HostReady
  <2>3. CASE phase \in {"sleep", "exit"}
    BY <2>3 DEF ConfInv
  <2> QED BY <2>1, <2>2, <2>3 DEF TypeInv
<1> QED BY <1>1, ConfInvariant, TypeInvariant, PTL

(* The descriptor of the firmware file is not 0, which main would take for *)
(* no file at all.                                                         *)
FdInv == opts.nextFd # 0 /\ opts.hcdfile_fd # 0

LEMMA ParsedFd ==
  ASSUME NEW g \in Globals, g.nextFd # 0, g.hcdfile_fd # 0, NEW n, NEW a, NEW h \in Parsed(g, n, a)
  PROVE  h.nextFd # 0 /\ h.hcdfile_fd # 0
<1>1. CASE n = "patchram"
  <2>1. Parsed(g, n, a) = {[Opened(g) EXCEPT !.hcdfile_fd = g.nextFd]}
    BY <1>1 DEF Parsed, Flag
  <2>2. h = [Opened(g) EXCEPT !.hcdfile_fd = g.nextFd]
    BY <2>1
  <2> QED BY <2>2 DEF Opened, Globals
<1>2. CASE n = "baudrate"
  BY <1>2 DEF Parsed, Globals
<1>3. CASE n = "bd_addr"
  BY <1>3 DEF Parsed, Globals
<1>4. CASE n \in Flag
  <2>1. h = [g EXCEPT ![n] = TRUE]
    BY <1>4 DEF Parsed, Flag
  <2> QED BY <1>4, <2>1 DEF Globals, Flag
<1>5. CASE n \notin {"patchram", "baudrate", "bd_addr"} \cup Flag
  BY <1>5 DEF Parsed
<1> QED BY <1>1, <1>2, <1>3, <1>4, <1>5

LEMMA FdStep == TypeInv /\ FdInv /\ [Next]_vars => FdInv'
<1> SUFFICES ASSUME TypeInv, FdInv, [Next]_vars PROVE FdInv'
  OBVIOUS
<1>0. opts \in Globals /\ opts.nextFd \in Nat
  BY DEF TypeInv, Globals
<1>1. CASE ParseOption
  <2>1. opts' = opts \/ \E n, a : opts' \in Parsed(opts, n, a)
    BY <1>1 DEF ParseOption
  <2> QED BY <1>0, <2>1, ParsedFd DEF FdInv
<1>2. CASE OpenDevice
  <2>1. opts' = opts \/ opts' = [Opened(opts) EXCEPT !.uart_fd = opts.nextFd]
    BY <1>2 DEF OpenDevice
  <2>2. opts.nextFd # 0 /\ opts.hcdfile_fd # 0
    BY DEF FdInv
  <2>3. Opened(opts) = [opts EXCEPT !.nextFd = opts.nextFd + 1]
    BY <2>2 DEF Opened
  <2>4. opts'.nextFd # 0
    <3>1. opts'.nextFd = opts.nextFd \/ opts'.nextFd = opts.nextFd + 1
      BY <1>0, <2>1, <2>3 DEF Globals
    <3> QED BY <1>0, <2>2, <3>1
  <2>5. opts'.hcdfile_fd = opts.hcdfile_fd
    BY <1>0, <2>1, <2>3 DEF Globals
  <2> QED BY <2>2, <2>4, <2>5 DEF FdInv
<1>3. CASE ~ParseOption /\ ~OpenDevice
  <2>1. opts' = opts
    BY <1>3 DEF Next, HostStep, init_uart, SendCommand, SetAlarm, ReadHeader, ReadBody, OnlyMain,
       ReadTwoBytes, ReadRecordHeader, ReadRecordPayload, SetSpeed, proc_enable_hci, Finish, expired,
       ChipExecutes,
       ChipAnswers, ChipBoots, LineGoes, hostVars, vars
  <2> QED BY <2>1 DEF FdInv
<1> QED BY <1>1, <1>2, <1>3

LEMMA AllSettings ==
  ASSUME NEW g
  PROVE  ChipSettings(Last, g) = {s \in Settings :
           \/ s = "sleep_mode" /\ g.enable_lpm
           \/ s \in {"sco_pcm_int", "pcm_data_format"} /\ g.scopcm
           \/ s = "i2spcm_interface" /\ g.i2s}
<1>1. ChipSettings(Last, g) = {Name(j) : j \in {i \in 12 .. 15 : Given(i, g)}}
  <2>1. {i \in 12 .. 15 : i < Last /\ Given(i, g)} = {i \in 12 .. 15 : Given(i, g)}
    BY DEF Last
  <2> QED BY <2>1 DEF ChipSettings
<1>2. 12 .. 15 = {12, 13, 14, 15}
  OBVIOUS
<1>3. /\ Name(12) = "sleep_mode" /\ Name(13) = "sco_pcm_int"
      /\ Name(14) = "pcm_data_format" /\ Name(15) = "i2spcm_interface"
  BY NameTable
<1>4. /\ Given(12, g) <=> g.enable_lpm
      /\ Given(13, g) <=> g.scopcm
      /\ Given(14, g) <=> g.scopcm
      /\ Given(15, g) <=> g.i2s
  BY DEF Given
<1>5. ASSUME NEW s
      PROVE  s \in {Name(j) : j \in {i \in 12 .. 15 : Given(i, g)}} <=>
               \/ s = "sleep_mode" /\ g.enable_lpm
               \/ s = "sco_pcm_int" /\ g.scopcm
               \/ s = "pcm_data_format" /\ g.scopcm
               \/ s = "i2spcm_interface" /\ g.i2s
  <2>1. s \in {Name(j) : j \in {i \in 12 .. 15 : Given(i, g)}} <=> \E j \in 12 .. 15 : Given(j, g) /\ s = Name(j)
    BY Zenon
  <2>2. (\E j \in {12, 13, 14, 15} : Given(j, g) /\ s = Name(j)) <=>
          \/ (Given(12, g) /\ s = Name(12))
          \/ (Given(13, g) /\ s = Name(13))
          \/ (Given(14, g) /\ s = Name(14))
          \/ (Given(15, g) /\ s = Name(15))
    OBVIOUS
  <2>3. s \in {Name(j) : j \in {i \in 12 .. 15 : Given(i, g)}} <=>
          \/ (Given(12, g) /\ s = Name(12))
          \/ (Given(13, g) /\ s = Name(13))
          \/ (Given(14, g) /\ s = Name(14))
          \/ (Given(15, g) /\ s = Name(15))
    BY <1>2, <2>1, <2>2, Zenon
  <2> QED BY <1>3, <1>4, <2>3, Zenon
<1> QED BY <1>1, <1>5 DEF Settings

(* When the program ends with 0 or goes to sleep, the file was whole, the  *)
(* answers came in time and no command was refused, chip and line are as   *)
(* the command line asks: the firmware, the speed of both ends, the        *)
(* address, every setting and the line discipline, unless the kernel       *)
(* refused the line or it had gone - provided the firmware file cannot     *)
(* have been opened as descriptor 0, which main would take for no file:    *)
(* descriptor 0 is in use, or read_default_bdaddr has taken it.            *)
THEOREM EndIsConfigured ==
  ASSUME StdinOpen \/ PropertyFile["ro.bt.bdaddr_path"] \in Address
  PROVE  Spec => []EndMeansConfigured
<1>1. Init => FdInv
  <2> SUFFICES ASSUME Init PROVE FdInv
    OBVIOUS
  <2>1. Defaults.hcdfile_fd = -1 /\ Defaults.nextFd \in {3, 4}
    BY DEF Defaults
  <2> QED BY <2>1 DEF Init, FdInv
<1>2. ConfInv /\ TypeInv /\ FdInv => EndMeansConfigured
  <2> SUFFICES ASSUME ConfInv, TypeInv, FdInv, Finished, Prompt, WholeFile, ~chip.rejected
               PROVE  /\ chip.mode = IF opts.hcdfile_fd = -1 THEN "rom" ELSE "patched"
                      /\ chip.speed = IF opts.termios_baudrate = 0 THEN Default ELSE opts.termios_baudrate
                      /\ speed = chip.speed
                      /\ chip.addr = opts.bdaddr
                      /\ chip.settings = {s \in Settings :
                           \/ s = "sleep_mode" /\ opts.enable_lpm
                           \/ s \in {"sco_pcm_int", "pcm_data_format"} /\ opts.scopcm
                           \/ s = "i2spcm_interface" /\ opts.i2s}
                      /\ opts.enable_hci => chip.attached \/ Fails("ldisc") \/ chip.gone
    BY DEF EndMeansConfigured
  <2>1. Suits(chip, Last, opts, records) /\ speed = HostSpeed(Last, opts) /\ Handed /\ opts \in Globals
    BY DEF ConfInv, TypeInv
  <2>2. opts.hcdfile_fd \in Nat \cup {-1} /\ opts.hcdfile_fd # 0
    BY <2>1 DEF FdInv, Globals
  <2>3. ChipMode(Last, opts, records) = IF opts.hcdfile_fd = -1 THEN "rom" ELSE "patched"
    BY <2>2 DEF ChipMode, Last
  <2>4. ChipSpeed(Last, opts, records) = Final(opts) /\ HostSpeed(Last, opts) = Final(opts)
    BY SpeedTable DEF Last
  <2>5. ChipAddr(Last, opts) = opts.bdaddr
    BY DEF ChipAddr, Last
  <2> QED BY <2>1, <2>3, <2>4, <2>5, AllSettings DEF Suits, Final, Handed
<1> QED BY <1>1, <1>2, FdStep, ConfInvariant, TypeInvariant, PTL DEF Spec
=============================================================================
