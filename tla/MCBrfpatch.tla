---------------------------- MODULE MCBrfpatch ----------------------------
(* An instance of Brfpatch for TLC: scripts of one line made of any words, *)
(* and of two lines, of which the first is a command of up to one word of  *)
(* any kind or of two sound ones, skipped, or too long.                    *)
EXTENDS BrfpatchProperties

Fields ==
  {Hex(n) : n \in {2, 3, 4, 6, 8, 16}}
  \cup {<<"0", "x", "hex", "z">>, <<"0", "hex">>, <<"z">>}
  \cup {Hex(2) \o <<c, "hex", "hex">> : c \in {":", "quote"}}
  \cup {Quoted(Plain(n)) : n \in {0, 2, 3, 8}}
  \cup {Quoted(Pairwise(2)), <<"quote", "hex", "hex">>, <<"quote", "hex">>}
SoundFields == {Hex(2), Hex(16), Quoted(Plain(4)), Quoted(Pairwise(2))}
Opcodes == {Hex(4), Hex(5), <<"0", "x">>, Hex(2) \o <<":", "hex">>}

Send(o, fields) == << <<"S">>, o>> \o fields
Skipped == {<< <<"#">>, <<"S">> >>, << <<"W">> >>, << << >> >>}
LongComment == << <<"#">>, Plain(29), <<"S">>, Hex(4) >>
Odd == {<< <<"s">>, Hex(4)>>, << <<"S">> >>, << <<"z">> >>}

Lines1 == {Send(o, f) : o \in Opcodes, f \in UNION {[1 .. n -> Fields] : n \in 0 .. 2}}
  \cup {Send(Hex(4), f) : f \in [1 .. 3 -> Fields]} \cup Skipped \cup Odd
(* The quotes, the digits and the newline around the end of the buffer.    *)
LongLines == {Send(Hex(4), <<Quoted(Plain(n))>>) : n \in 17 .. 22}
FirstLines == {Send(o, f) : o \in Opcodes, f \in UNION {[1 .. n -> Fields] : n \in 0 .. 1}}
  \cup {Send(Hex(4), f) : f \in UNION {[1 .. n -> SoundFields] : n \in 0 .. 2}}
  \cup Skipped \cup LongLines \cup {LongComment}
SecondLines == {Send(Hex(4), f) : f \in UNION {[1 .. n -> Fields] : n \in 0 .. 1}}
  \cup Skipped \cup Odd

AllScripts ==
  {Script(<<l>>, nl) : l \in Lines1 \cup LongLines, nl \in BOOLEAN}
  \cup {Script(<<l, m>>, nl) : l \in FirstLines, m \in SecondLines, nl \in BOOLEAN}
=============================================================================
