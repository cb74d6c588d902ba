------------------------ MODULE BrfpatchProperties ------------------------
(***************************************************************************)
(* What brfpatch must keep.  A script is made of lines, a line of words,   *)
(* a word of classes of characters; the meaning of a word is the one       *)
(* usage() gives it, read off the word itself.                             *)
(***************************************************************************)
EXTENDS Brfpatch, SequencesExt

Hex(n) == <<"0", "x">> \o [k \in 1 .. n |-> "hex"]
Quoted(digits) == <<"quote">> \o digits \o <<"quote">>
Plain(n) == [k \in 1 .. n |-> "hex"]
Pairwise(n) == [k \in 1 .. 3 * n - 1 |-> IF k % 3 = 0 THEN ":" ELSE "hex"]

(* The text of a script; a digit is numbered by line, word and place.      *)
WordText(line, l, w) ==
  [k \in DOMAIN line[w] |-> <<line[w][k], IF line[w][k] = "hex" THEN 1000 * l + 40 * w + k ELSE 0>>]
LineText(line, l) ==
  FlattenSeq([w \in DOMAIN line |-> (IF w = 1 THEN << >> ELSE << <<" ", 0>> >>) \o WordText(line, l, w)])
Script(lines, newline) ==
  LET End(l) == IF l < Len(lines) \/ newline THEN << <<"newline", 0>> >> ELSE << >>
  IN  [lines |-> lines,
       text |-> FlattenSeq([l \in DOMAIN lines |-> LineText(lines[l], l) \o End(l)])]
-----------------------------------------------------------------------------
(* The meaning of a line *)

Pairs(s) == [i \in 1 .. Len(s) \div 2 |-> <<s[2 * i - 1], s[2 * i]>>]
Meaning(line, l, w) ==
  LET chars == SelectSeq(WordText(line, l, w), LAMBDA c : c[1] = "hex")
      bytes == Pairs([i \in DOMAIN chars |-> chars[i][2]])
  IN  IF Head(line[w]) = "quote" THEN bytes ELSE Reverse(bytes)
Command(line, l) ==
  [opcode |-> Meaning(line, l, 2),
   data |-> FlattenSeq([w \in 1 .. Len(line) - 2 |-> Meaning(line, l, w + 2)])]

Value(word) ==
  \/ \E n \in {2, 4, 6, 8, 16} : word = Hex(n)
  \/ \E n \in 0 .. BufSize : word = Quoted(Plain(2 * n)) \/ (n > 0 /\ word = Quoted(Pairwise(n)))
IsCommand(line) == Head(line) = <<"S">>
WellFormed(line) ==
  /\ Len(line) >= 2 /\ line[2] = Hex(4)
  /\ \A w \in 3 .. Len(line) : Value(line[w])

(* What the program takes although the usage does not allow it, or cannot  *)
(* write: anything behind the digits of a number (a letter is counted as a *)
(* digit, and a tail from a character that is neither letter nor digit on  *)
(* is passed over), an opcode of another length or with such a tail, some  *)
(* quoted fields that are not closed, go on behind the quote or have an    *)
(* odd digit, and more data than a length byte can tell.                   *)
EndsInBuffer(line, l) == Len(LineText(line, l)) < BufSize - 1
Number(word) == Len(word) >= 2 /\ SubSeq(word, 1, 2) = <<"0", "x">>
LaxOpcode(word) == Number(word) /\ word # Hex(4)
LaxField(word) ==
  \/ Number(word) /\ \E k \in 3 .. Len(word) : word[k] # "hex"
  \/ Head(word) = "quote" /\ ~Value(word)
Lenient(line, l) ==
  /\ Len(line) >= 2
  /\ \/ LaxOpcode(line[2])
     \/ \E w \in 3 .. Len(line) : LaxField(line[w])
     \/ Len(Command(line, l).data) >= LenValues

Commands == SelectSeq([l \in DOMAIN script.lines |-> l], LAMBDA l : IsCommand(script.lines[l]))
RightlyWritten(i) ==
  LET l == Commands[i]
      line == script.lines[l]
  IN  Lenient(line, l) \/ (WellFormed(line) /\ out[i] = Command(line, l))

(* The rest of a skipped line that does not fit the buffer is taken for a  *)
(* line of its own.                                                        *)
SkippedLinesFit ==
  \A l \in DOMAIN script.lines : IsCommand(script.lines[l]) \/ EndsInBuffer(script.lines[l], l)
-----------------------------------------------------------------------------
(* Exit code 0 says that every command of the script is in the output,     *)
(* each with its opcode and its bytes as usage() describes them, and       *)
(* nothing else: but for the words named under Lenient, no line that is    *)
(* malformed, too long for the buffer, or cut by it in the middle of a     *)
(* field is passed over or half converted.                                 *)
ExitZeroMeansConverted ==
  phase = "exit" /\ code = 0 /\ SkippedLinesFit =>
    /\ Len(out) = Len(Commands)
    /\ \A i \in DOMAIN out : RightlyWritten(i)

(* A script whose every line keeps to usage() and fits the buffer is       *)
(* converted, whatever the lines before it have left in the buffer.        *)
Accepted(line) == IF IsCommand(line) THEN WellFormed(line) ELSE Head(line) \in {<<"#">>, <<"W">>, << >>}
SoundScriptsPass ==
  phase = "exit" /\ code # 0 =>
    \E l \in DOMAIN script.lines :
      ~Accepted(script.lines[l]) \/ ~EndsInBuffer(script.lines[l], l)

(* The output of a run that fails may end with one record that should not  *)
(* be there (of a line that was cut), but all before it are right.         *)
OnlyLastRecordMayBeWrong ==
  SkippedLinesFit =>
    /\ Len(out) <= Len(Commands)
    /\ \A i \in DOMAIN out : i < Len(out) => RightlyWritten(i)

(* The scanner never goes past the end of the line it was given, into what *)
(* an earlier line left in the buffer or behind the buffer - as long as    *)
(* the line ended with a newline: the two steps it makes for each byte of  *)
(* a quoted field then cannot cross the end.                               *)
ScannerStaysInText ==
  LET read == Len(script.text) - Len(rest) IN
  phase \in {"opcode", "data", "quoted"} /\ script.text[read][1] = "newline" =>
    \E end \in Memory :
      /\ buffer[end][1] = "newline" /\ \A i \in 0 .. end - 1 : buffer[i][1] # "newline"
      /\ buf <= end + 1

(* The bytes of a line are never more than half of the characters scanned, *)
(* so no store passes the end of data, which the loop over a quoted field  *)
(* tests one byte late and the other fields do not test.                   *)
DataFits ==
  phase \in {"data", "quoted"} =>
    2 * Len(data) <= buf /\ (buf <= BufSize => Len(data) + 8 <= DataSize)
=============================================================================
