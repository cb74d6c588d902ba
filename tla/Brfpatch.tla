------------------------------ MODULE Brfpatch ------------------------------
(***************************************************************************)
(* brfpatch: converts a script of lines                                    *)
(*    Send_HCI_xxxx OPCODE DATA1 DATA2 ...                                 *)
(* to binary HCI commands.  The lines pass through one buffer that keeps   *)
(* what former lines left in it, and a scanner moves over it by the        *)
(* lengths it expects.  A character is its class and, for a hexadecimal    *)
(* digit of a value, its place in the script, so that every byte of the    *)
(* output says of which digits it was made.                                *)
(***************************************************************************)
EXTENDS Integers, Sequences

CONSTANTS
  Scripts,    \* the scripts: [text : Seq(Char), ...]
  Garbage,    \* the classes of characters the memory may hold at the start
  BufSize,    \* size of buffer (1024 in the code)
  DataSize,   \* size of data (1024)
  LenValues   \* number of values of an unsigned char (256)

(* "S" is the word Send_HCI_xxxx, "s" any other one with that letter, "W"  *)
(* a word like Wait_HCI_xxxx, "z" a letter that is no digit.               *)
Class == {"S", "s", "W", "#", " ", "newline", "NUL", "0", "x", "hex", "z", ":", "quote"}
Space == {" ", "newline"}
Alnum == {"S", "s", "W", "0", "x", "hex", "z"}
HexDigit == {"0", "hex"}
Char == Class \X Nat
NUL == <<"NUL", 0>>

ASSUME BrfpatchAssumption ==
  /\ BufSize \in Nat \ {0, 1} /\ LenValues \in Nat \ {0}
  /\ DataSize \in Nat /\ BufSize + 16 <= 2 * DataSize
  /\ Garbage \subseteq Class
  /\ \A s \in Scripts : s.text \in Seq(Char)

VARIABLES
  script,   \* the script that is converted
  rest,     \* the part of its text that has not been read
  buffer,   \* the buffer, and a bit of the memory behind it
  buf,      \* the position of the scanner in it
  opcode,   \* the bytes of the opcode
  data,     \* the bytes data .. dp - 1
  out,      \* the records written
  phase,    \* "read", "opcode", "data", "quoted" or "exit"
  code      \* the exit code

lineVars == <<opcode, data>>
vars == <<script, rest, buffer, buf, lineVars, out, phase, code>>

MemLast == BufSize + 3   \* bound: the memory behind the buffer that is modelled
Memory == 0 .. MemLast

Init ==
  /\ script \in Scripts
  /\ rest = script.text
  /\ \E c \in Garbage :
       buffer = [i \in Memory |-> IF i < MemLast - 1 THEN <<c, 0>> ELSE NUL]
  /\ buf = 0 /\ opcode = << >> /\ data = << >> /\ out = << >>
  /\ phase = "read" /\ code = 0
-----------------------------------------------------------------------------
(* Scanning *)

(* The first position from p on that holds a character of a class in S.    *)
First(m, p, S) ==
  CHOOSE i \in Memory : /\ i >= p /\ m[i][1] \in S
                        /\ \A j \in Memory : p <= j /\ j < i => m[j][1] \notin S

SkipSpace(m, p) == First(m, p, Class \ Space)

(* Beyond the next white space; on a NUL it is the end of the string.      *)
advance(p) == SkipSpace(buffer, First(buffer, p, Space \cup {"NUL"}))

(* The hexadecimal digits at p, at most w of them. *)
Digits(p, w) ==
  LET end == First(buffer, p, Class \ HexDigit)
      n == IF end - p < w THEN end - p ELSE w
  IN  [i \in 1 .. n |-> buffer[p + i - 1][2]]

(* The digits sscanf("%0<w>x") may take at p, << >> being a failure.  It   *)
(* skips white space and an "0x"; of an "0x" with no digit behind it       *)
(* within the width it takes the 0 or nothing, as the library pleases.     *)
Scan(p, w) ==
  LET q == SkipSpace(buffer, p)
      prefixed == buffer[q][1] = "0" /\ buffer[q + 1][1] = "x"
  IN  IF ~prefixed THEN {Digits(q, w)}
      ELSE IF Digits(q + 2, w - 2) # << >> THEN {Digits(q + 2, w - 2)}
      ELSE {Digits(q, 1), << >>}
Read(p, w) == Scan(p, w) \ {<< >>}
ScanFails(p, w) == << >> \in Scan(p, w)

(* The n bytes of a number, the lowest first: a byte is the one or two     *)
(* digits it is made of, or none.                                          *)
(* mutated: the highest first *)
BytesSwapped(digits, n) ==
  [i \in 1 .. n |-> LET lo == Len(digits) - 2 * (n - i)
                    IN SubSeq(digits, IF lo > 1 THEN lo - 1 ELSE 1, lo)]
Bytes(digits, n) ==
  [i \in 1 .. n |-> LET lo == Len(digits) - 2 * (i - 1)
                    IN SubSeq(digits, IF lo > 1 THEN lo - 1 ELSE 1, lo)]

Exit(c) == phase' = "exit" /\ code' = c
Fail == Exit(1) /\ UNCHANGED <<script, rest, buffer, buf, lineVars, out>>
-----------------------------------------------------------------------------
(* main: fgets, white space, and what the first character says. *)

ChunkLength ==
  LET ends == {i \in DOMAIN rest : rest[i][1] = "newline"}
      line == IF ends = {} THEN Len(rest) ELSE CHOOSE i \in ends : \A j \in ends : i <= j
  IN  IF line < BufSize THEN line ELSE BufSize - 1

(* mutated: no NUL is put behind the line *)
LineWithoutEnd(n) ==
  [i \in Memory |-> IF i < n THEN rest[i + 1] ELSE buffer[i]]
LineOf(n) ==
  [i \in Memory |-> IF i < n THEN rest[i + 1] ELSE IF i = n THEN NUL ELSE buffer[i]]

ReadLine ==
  LET start == SkipSpace(buffer', 0)
      kind == buffer'[start][1]
  IN
  /\ phase = "read" /\ rest # << >>
  /\ buffer' = LineOf(ChunkLength)
  /\ rest' = SubSeq(rest, ChunkLength + 1, Len(rest))
  /\ buf' = start
  /\ CASE kind = "S" -> phase' = "opcode" /\ UNCHANGED code
       [] kind \in {"W", "#", "NUL"} -> UNCHANGED <<phase, code>>
       [] OTHER -> Exit(1)
  /\ UNCHANGED <<script, lineVars, out>>

EndOfFile ==
  /\ phase = "read" /\ rest = << >>
  /\ Exit(0)
  /\ UNCHANGED <<script, rest, buffer, buf, lineVars, out>>
-----------------------------------------------------------------------------
(* process_line *)

FindOpcode ==
  LET p == advance(buf)
      found == buffer[p][1] = "0" /\ buffer[p + 1][1] = "x"
  IN
  /\ phase = "opcode"
  /\ \/ /\ found
        /\ \E digits \in Read(p + 2, 4) : opcode' = Bytes(digits, 2)
        /\ data' = << >> /\ buf' = p /\ phase' = "data"
        /\ UNCHANGED <<script, rest, buffer, out, code>>
     \/ /\ found => ScanFails(p + 2, 4)
        /\ Fail

(* dump_record, at the end of the line.  The length is an unsigned char.   *)
DumpRecord ==
  LET len == Len(data) % LenValues IN
  /\ phase = "data" /\ buffer[advance(buf)] = NUL
  /\ out' = Append(out, [opcode |-> opcode, data |-> SubSeq(data, 1, len)])
  /\ phase' = "read"
  /\ UNCHANGED <<script, rest, buffer, buf, lineVars, code>>

(* mutated: the halves of a number of 16 digits are stored as they come *)
FieldBytesInOrder(p, n) ==
  IF n = 16 THEN {Bytes(high, 4) \o Bytes(low, 4) : high \in Read(p, 8), low \in Read(p + 8, 8)}
            ELSE {Bytes(digits, n \div 2) : digits \in Read(p, n)}
(* mutated: as many bytes as digits *)
FieldBytesUnhalved(p, n) ==
  IF n = 16 THEN {Bytes(low, 8) \o Bytes(high, 8) : high \in Read(p, 8), low \in Read(p + 8, 8)}
            ELSE {Bytes(digits, n) : digits \in Read(p, n)}
FieldBytes(p, n) ==
  IF n = 16 THEN {Bytes(low, 4) \o Bytes(high, 4) : high \in Read(p, 8), low \in Read(p + 8, 8)}
            ELSE {Bytes(digits, n \div 2) : digits \in Read(p, n)}

(* A field 0x...: the letters and digits that follow give its length, and  *)
(* sscanf reads the hexadecimal digits at their head.                      *)
HexField ==
  LET field == advance(buf)
      p == field + 2
      n == First(buffer, p, Class \ Alnum) - p
      fits == buffer[field + 1][1] = "x" /\ n \in {2, 4, 6, 8, 16}
  IN
  /\ phase = "data" /\ buffer[field][1] = "0"
  /\ \/ /\ fits /\ \E bytes \in FieldBytes(p, n) : data' = data \o bytes
        /\ buf' = p + n
        /\ UNCHANGED <<script, rest, buffer, opcode, out, phase, code>>
     \/ /\ fits => ScanFails(p, IF n = 16 THEN 8 ELSE n) \/ (n = 16 /\ ScanFails(p + 8, 8))
        /\ Fail

(* The opening quote, and any other character no field begins with.        *)
OtherField ==
  LET field == advance(buf) IN
  /\ phase = "data" /\ buffer[field][1] \notin {"0", "NUL"}
  /\ IF buffer[field][1] = "quote"
       THEN /\ buf' = field + 1 /\ phase' = "quoted"
            /\ UNCHANGED <<script, rest, buffer, lineVars, out, code>>
       ELSE Fail

(* One round of the loop over a quoted field: sscanf takes one or two      *)
(* digits, and the scanner moves on by two characters whatever was read,   *)
(* and over a colon.                                                       *)
(* mutated: the separator is not skipped *)
AfterByteNoColon(p) == p
AfterByte(p) == IF buffer[p][1] = ":" THEN p + 1 ELSE p

QuotedByte ==
  /\ phase = "quoted" /\ buffer[buf][1] \notin {"quote", "NUL"}
  /\ \/ /\ Len(data) <= DataSize
        /\ \E digits \in Read(buf, 2) : data' = data \o Bytes(digits, 1)
        /\ buf' = AfterByte(buf + 2)
        /\ UNCHANGED <<script, rest, buffer, opcode, out, phase, code>>
     \/ /\ Len(data) > DataSize \/ ScanFails(buf, 2)
        /\ Fail

EndOfQuoted ==
  /\ phase = "quoted" /\ buffer[buf][1] \in {"quote", "NUL"}
  /\ phase' = "data"
  /\ UNCHANGED <<script, rest, buffer, buf, lineVars, out, code>>
-----------------------------------------------------------------------------
Next == ReadLine \/ EndOfFile \/ FindOpcode \/ DumpRecord \/ HexField \/ OtherField
        \/ QuotedByte \/ EndOfQuoted

Spec == Init /\ [][Next]_vars
=============================================================================
