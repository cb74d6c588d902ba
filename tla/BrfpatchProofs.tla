--------------------------- MODULE BrfpatchProofs ---------------------------
(***************************************************************************)
(* Proofs about Brfpatch for any scripts, any size of the buffers and any  *)
(* memory to begin with.                                                   *)
(***************************************************************************)
EXTENDS BrfpatchProperties, WellFoundedInduction, SequenceTheorems, TLAPS

(* The scanner stays in the memory that is modelled, and its bytes within  *)
(* half of what it has passed.                                             *)
IInv ==
  /\ rest \in Seq(Char)
  /\ buffer \in [Memory -> Char]
  /\ buffer[MemLast] = NUL /\ buffer[MemLast - 1] = NUL
  /\ buf \in Memory
  /\ data \in Seq(Seq(Nat))
  /\ phase \in {"read", "opcode", "data", "quoted", "exit"}
  /\ phase \in {"data", "quoted"} => 2 * Len(data) <= buf
-----------------------------------------------------------------------------
(* Memory and scanning *)

LEMMA MemoryFacts ==
  /\ MemLast \in Nat /\ MemLast = BufSize + 3 /\ BufSize \in Nat
  /\ \A i : i \in Memory <=> i \in Nat /\ i <= MemLast
  BY BrfpatchAssumption DEF MemLast, Memory

LessThan == {ss \in Nat \X Nat : ss[1] < ss[2]}

LEMMA LeastExists ==
  ASSUME NEW T \in SUBSET Nat, T # {}
  PROVE  \E x \in T : \A y \in T : x <= y
<1>0. IsWellFoundedOn(LessThan, Nat)
  BY NatLessThanWellFounded DEF OpToRel, LessThan
<1>1. PICK x \in T : \A y \in T : ~(<<y, x>> \in LessThan)
  BY <1>0, WFMin
<1>2. \A y \in T : ~(y < x)
  BY <1>1 DEF LessThan
<1> QED
  BY <1>2

(* A search that some position satisfies finds one, not before its start.  *)
LEMMA FirstFinds ==
  ASSUME NEW m \in [Memory -> Char], NEW p \in Memory, NEW S, m[MemLast][1] \in S
  PROVE  /\ First(m, p, S) \in Memory
         /\ First(m, p, S) >= p
         /\ m[First(m, p, S)][1] \in S
<1> DEFINE T == {i \in Memory : i >= p /\ m[i][1] \in S}
<1>1. T \in SUBSET Nat /\ MemLast \in T
  BY MemoryFacts
<1>2. PICK x \in T : \A y \in T : x <= y
  BY <1>1, LeastExists
<1>3. /\ x \in Memory /\ x >= p /\ m[x][1] \in S
      /\ \A j \in Memory : p <= j /\ j < x => m[j][1] \notin S
  BY <1>2, MemoryFacts
<1> QED
  BY <1>3 DEF First

LEMMA AdvanceFinds ==
  ASSUME buffer \in [Memory -> Char], buffer[MemLast] = NUL, NEW p \in Memory
  PROVE  /\ advance(p) \in Memory /\ advance(p) >= p
         /\ SkipSpace(buffer, p) \in Memory /\ SkipSpace(buffer, p) >= p
<1>1. /\ buffer[MemLast][1] \in Class \ Space
      /\ buffer[MemLast][1] \in Space \cup {"NUL"}
  BY DEF NUL, Class, Space
<1> DEFINE q == First(buffer, p, Space \cup {"NUL"})
<1>2. q \in Memory /\ q >= p
  BY <1>1, FirstFinds
<1>3. SkipSpace(buffer, q) \in Memory /\ SkipSpace(buffer, q) >= q
  BY <1>1, <1>2, FirstFinds DEF SkipSpace
<1>4. SkipSpace(buffer, p) \in Memory /\ SkipSpace(buffer, p) >= p
  BY <1>1, FirstFinds DEF SkipSpace
<1> HIDE DEF q
<1>5. advance(p) = SkipSpace(buffer, q)
  BY DEF advance, q
<1> QED
  BY <1>2, <1>3, <1>4, <1>5, MemoryFacts

(* Digits are numbers, and Bytes makes as many bytes as it is asked for.   *)
LEMMA DigitsType ==
  ASSUME buffer \in [Memory -> Char], buffer[MemLast] = NUL,
         NEW p \in Memory, NEW w \in Nat
  PROVE  Digits(p, w) \in Seq(Nat)
<1> DEFINE end == First(buffer, p, Class \ HexDigit)
           n == IF end - p < w THEN end - p ELSE w
<1>0. buffer[MemLast][1] \in Class \ HexDigit
  BY DEF NUL, Class, HexDigit
<1>1. end \in Memory /\ end >= p
  BY <1>0, FirstFinds
<1>2. n \in Nat /\ \A i \in 1 .. n : p + i - 1 \in Memory
  BY <1>1, MemoryFacts
<1>3. \A i \in 1 .. n : buffer[p + i - 1][2] \in Nat
  BY <1>2 DEF Char
<1>4. Digits(p, w) = [i \in 1 .. n |-> buffer[p + i - 1][2]]
  BY DEF Digits
<1> HIDE DEF n
<1> QED
  BY <1>2, <1>3, <1>4

LEMMA BytesType ==
  ASSUME NEW digits \in Seq(Nat), NEW n \in Nat
  PROVE  Bytes(digits, n) \in Seq(Seq(Nat)) /\ Len(Bytes(digits, n)) = n
<1> DEFINE lo(i) == Len(digits) - 2 * (i - 1)
           byte(i) == SubSeq(digits, IF lo(i) > 1 THEN lo(i) - 1 ELSE 1, lo(i))
<1>1. ASSUME NEW i \in 1 .. n PROVE byte(i) \in Seq(Nat)
  <2>1. /\ lo(i) \in Int /\ lo(i) <= Len(digits)
        /\ (IF lo(i) > 1 THEN lo(i) - 1 ELSE 1) \in Int
        /\ (IF lo(i) > 1 THEN lo(i) - 1 ELSE 1) >= 1
    OBVIOUS
  <2>2. \A k \in (IF lo(i) > 1 THEN lo(i) - 1 ELSE 1) .. lo(i) : digits[k] \in Nat
    BY <2>1
  <2> QED
    BY <2>1, <2>2, SubSeqProperties
<1>2. Bytes(digits, n) = [i \in 1 .. n |-> byte(i)]
  BY DEF Bytes
<1> HIDE DEF byte
<1> QED
  BY <1>1, <1>2

LEMMA Joined ==
  ASSUME NEW s \in Seq(Seq(Nat)), NEW t \in Seq(Seq(Nat))
  PROVE  s \o t \in Seq(Seq(Nat)) /\ Len(s \o t) = Len(s) + Len(t)
  BY ConcatProperties

LEMMA ScanType ==
  ASSUME buffer \in [Memory -> Char], buffer[MemLast] = NUL, buffer[MemLast - 1] = NUL,
         NEW p \in Memory, NEW w \in Nat, w >= 2
  PROVE  Read(p, w) \subseteq Seq(Nat)
<1> DEFINE q == SkipSpace(buffer, p)
<1>1. q \in Memory
  BY AdvanceFinds
<1> HIDE DEF q
<1>2. Digits(q, w) \in Seq(Nat) /\ Digits(q, 1) \in Seq(Nat)
  BY <1>1, DigitsType
<1>3. ASSUME buffer[q][1] = "0" PROVE Digits(q + 2, w - 2) \in Seq(Nat)
  <2>1. q # MemLast /\ q # MemLast - 1
    BY <1>3 DEF NUL
  <2>2. q + 2 \in Memory /\ w - 2 \in Nat
    BY <1>1, <2>1, MemoryFacts
  <2> QED
    BY <2>2, DigitsType
<1>4. \A digits \in Scan(p, w) :
        \/ digits \in {Digits(q, w), Digits(q, 1), << >>}
        \/ buffer[q][1] = "0" /\ digits = Digits(q + 2, w - 2)
  BY DEF Scan, q
<1> QED
  BY <1>2, <1>3, <1>4 DEF Read

LEMMA FieldBytesType ==
  ASSUME buffer \in [Memory -> Char], buffer[MemLast] = NUL, buffer[MemLast - 1] = NUL,
         NEW n \in {2, 4, 6, 8, 16}, NEW p \in Memory, p + n \in Memory,
         NEW bytes \in FieldBytes(p, n)
  PROVE  bytes \in Seq(Seq(Nat)) /\ 2 * Len(bytes) = n
<1>1. CASE n = 16
  <2>1. p + 8 \in Memory
    BY <1>1, MemoryFacts
  <2>2. PICK high \in Read(p, 8), low \in Read(p + 8, 8) : bytes = Bytes(low, 4) \o Bytes(high, 4)
    BY <1>1 DEF FieldBytes
  <2>3. high \in Seq(Nat) /\ low \in Seq(Nat)
    BY <2>1, ScanType
  <2> DEFINE l == Bytes(low, 4)
             h == Bytes(high, 4)
  <2>4. l \in Seq(Seq(Nat)) /\ Len(l) = 4 /\ h \in Seq(Seq(Nat)) /\ Len(h) = 4
    BY <2>3, BytesType
  <2>5. bytes = l \o h
    BY <2>2
  <2> HIDE DEF l, h
  <2>6. l \o h \in Seq(Seq(Nat)) /\ Len(l \o h) = Len(l) + Len(h)
    BY <2>4, Joined
  <2>7. Len(l \o h) = 8
    BY <2>4, <2>6
  <2> QED
    BY <1>1, <2>5, <2>6, <2>7
<1>2. CASE n \in {2, 4, 6, 8}
  <2>1. PICK digits \in Read(p, n) : bytes = Bytes(digits, n \div 2)
    BY <1>2 DEF FieldBytes
  <2>2. digits \in Seq(Nat)
    BY <1>2, ScanType
  <2>3. n \div 2 \in Nat /\ 2 * (n \div 2) = n
    BY <1>2
  <2> QED
    BY <2>1, <2>2, <2>3, BytesType
<1> QED
  BY <1>1, <1>2

-----------------------------------------------------------------------------
(* The invariant *)

LEMMA InitInv == Init => IInv
<1> SUFFICES ASSUME Init PROVE IInv
  OBVIOUS
<1>1. rest \in Seq(Char)
  BY BrfpatchAssumption DEF Init
<1>2. PICK c \in Garbage : buffer = [i \in Memory |-> IF i < MemLast - 1 THEN <<c, 0>> ELSE NUL]
  BY DEF Init
<1>3. <<c, 0>> \in Char /\ NUL \in Char
  BY BrfpatchAssumption DEF Char, NUL, Class
<1>4. MemLast \in Memory /\ MemLast - 1 \in Memory /\ 0 \in Memory /\ MemLast \in Nat
  BY MemoryFacts
<1>5. /\ buffer \in [Memory -> Char]
      /\ buffer[MemLast] = NUL /\ buffer[MemLast - 1] = NUL
  BY <1>2, <1>3, <1>4
<1>6. buf \in Memory /\ data \in Seq(Seq(Nat)) /\ phase = "read"
  BY <1>4 DEF Init
<1> QED
  BY <1>1, <1>5, <1>6 DEF IInv

LEMMA FailInv ==
  ASSUME IInv, Fail PROVE IInv'
  BY DEF IInv, Fail, Exit, lineVars

LEMMA ReadLineInv ==
  ASSUME IInv, ReadLine PROVE IInv'
<1> DEFINE n == ChunkLength
<1>1. /\ rest \in Seq(Char) /\ rest # << >> /\ buffer \in [Memory -> Char]
      /\ buffer[MemLast] = NUL /\ buffer[MemLast - 1] = NUL /\ data \in Seq(Seq(Nat))
  BY DEF IInv, ReadLine
<1>2. n \in Nat /\ n <= Len(rest) /\ n < BufSize
  <2> DEFINE ends == {i \in DOMAIN rest : rest[i][1] = "newline"}
             line == IF ends = {} THEN Len(rest) ELSE CHOOSE i \in ends : \A j \in ends : i <= j
  <2>1. line \in 0 .. Len(rest)
    <3>1. CASE ends = {}
      BY <1>1, <3>1
    <3>2. CASE ends # {}
      <4>1. ends \in SUBSET Nat /\ ends \subseteq 0 .. Len(rest)
        BY <1>1
      <4>2. \E i \in ends : \A j \in ends : i <= j
        BY <3>2, <4>1, LeastExists
      <4>3. line \in ends
        BY <3>2, <4>2
      <4> QED
        BY <4>1, <4>3
    <3> QED
      BY <3>1, <3>2
  <2>2. n = IF line < BufSize THEN line ELSE BufSize - 1
    BY DEF ChunkLength
  <2> HIDE DEF line, n
  <2>3. BufSize \in Nat /\ BufSize > 1
    BY BrfpatchAssumption
  <2> QED
    BY <1>1, <2>1, <2>2, <2>3
<1> HIDE DEF n
<1>3. buffer' = LineOf(n) /\ rest' = SubSeq(rest, n + 1, Len(rest))
  BY DEF ReadLine, n
<1>4. rest' \in Seq(Char)
  BY <1>1, <1>2, <1>3, SubSeqProperties
<1>5. /\ buffer' \in [Memory -> Char]
      /\ buffer'[MemLast] = NUL /\ buffer'[MemLast - 1] = NUL
  <2>1. NUL \in Char
    BY DEF NUL, Char, Class
  <2>2. \A i \in Memory : i < n => rest[i + 1] \in Char
    <3> SUFFICES ASSUME NEW i \in Memory, i < n PROVE rest[i + 1] \in Char
      OBVIOUS
    <3>1. i + 1 \in 1 .. Len(rest)
      BY <1>1, <1>2, MemoryFacts
    <3> QED
      BY <1>1, <3>1
  <2>3. \A i \in Memory :
          (IF i < n THEN rest[i + 1] ELSE IF i = n THEN NUL ELSE buffer[i]) \in Char
    BY <1>1, <2>1, <2>2
  <2>4. MemLast \in Memory /\ MemLast - 1 \in Memory /\ MemLast - 1 > n
    BY <1>2, MemoryFacts
  <2> QED
    BY <1>1, <1>2, <1>3, <2>3, <2>4, MemoryFacts DEF LineOf
<1>6. buf' \in Memory
  <2>1. buffer'[MemLast][1] \in Class \ Space
    BY <1>5 DEF NUL, Class, Space
  <2>2. 0 \in Memory
    BY MemoryFacts
  <2>3. First(buffer', 0, Class \ Space) \in Memory
    BY <1>5, <2>1, <2>2, FirstFinds
  <2> QED
    BY <2>3 DEF ReadLine, SkipSpace
<1>7. data' = data /\ phase' \in {"read", "opcode", "exit"}
  BY DEF ReadLine, lineVars, Exit
<1> QED
  BY <1>1, <1>4, <1>5, <1>6, <1>7 DEF IInv

LEMMA HexFieldInv ==
  ASSUME IInv, HexField PROVE IInv'
<1> DEFINE field == advance(buf)
           p == field + 2
           end == First(buffer, p, Class \ Alnum)
           n == end - p
<1>1. CASE Fail
  BY <1>1, FailInv
<1>2. CASE /\ buffer[field + 1][1] = "x" /\ n \in {2, 4, 6, 8, 16}
           /\ \E bytes \in FieldBytes(p, n) : data' = data \o bytes
           /\ buf' = p + n
           /\ UNCHANGED <<rest, buffer, phase>>
  <2>1. /\ buffer \in [Memory -> Char] /\ buffer[MemLast] = NUL /\ buffer[MemLast - 1] = NUL
        /\ buf \in Memory /\ data \in Seq(Seq(Nat)) /\ 2 * Len(data) <= buf
    BY DEF IInv, HexField
  <2>2. field \in Memory /\ field >= buf
    BY <2>1, AdvanceFinds
  <2>3. buffer[field][1] = "0"
    BY DEF HexField
  <2>4. p \in Memory /\ p >= buf
    <3>1. field # MemLast /\ field # MemLast - 1
      BY <2>1, <2>3 DEF NUL
    <3> HIDE DEF field
    <3>2. field \in Nat /\ field <= MemLast /\ MemLast \in Nat /\ buf \in Nat
      BY <2>1, <2>2, MemoryFacts
    <3>3. field + 2 \in Nat /\ field + 2 <= MemLast /\ field + 2 >= buf
      BY <2>2, <3>1, <3>2
    <3> QED
      BY <3>3, MemoryFacts
  <2>5. end \in Memory /\ end >= p
    <3>1. buffer[MemLast][1] \in Class \ Alnum
      BY <2>1 DEF NUL, Class, Alnum
    <3> HIDE DEF p
    <3> QED
      BY <2>1, <2>4, <3>1, FirstFinds
  <2> HIDE DEF p, end
  <2>6. p + n = end
    BY <2>4, <2>5, MemoryFacts
  <2>7. PICK bytes \in FieldBytes(p, n) : data' = data \o bytes
    BY <1>2
  <2>8. bytes \in Seq(Seq(Nat)) /\ 2 * Len(bytes) = n
    BY <1>2, <2>1, <2>4, <2>5, <2>6, FieldBytesType
  <2> HIDE DEF n
  <2>9. data' \in Seq(Seq(Nat)) /\ Len(data') = Len(data) + Len(bytes)
    BY <2>1, <2>8, <2>7, Joined
  <2>10. 2 * Len(data') <= buf'
    BY <1>2, <2>1, <2>4, <2>8, <2>9, MemoryFacts
  <2>11. buf' \in Memory
    BY <1>2, <2>5, <2>6
  <2> QED
    BY <1>2, <2>9, <2>10, <2>11 DEF IInv
<1> QED
  BY <1>1, <1>2 DEF HexField

LEMMA QuotedByteInv ==
  ASSUME IInv, QuotedByte PROVE IInv'
<1>1. CASE Fail
  BY <1>1, FailInv
<1>2. CASE /\ \E digits \in Read(buf, 2) : data' = data \o Bytes(digits, 1)
           /\ buf' = AfterByte(buf + 2)
           /\ UNCHANGED <<rest, buffer, phase>>
  <2>1. /\ buffer \in [Memory -> Char] /\ buffer[MemLast] = NUL /\ buffer[MemLast - 1] = NUL
        /\ buf \in Memory /\ data \in Seq(Seq(Nat)) /\ 2 * Len(data) <= buf
        /\ buffer[buf][1] # "NUL"
    BY DEF IInv, QuotedByte
  <2>2. buf + 2 \in Memory
    <3>1. buf # MemLast /\ buf # MemLast - 1
      BY <2>1 DEF NUL
    <3> QED
      BY <2>1, <3>1, MemoryFacts
  <2>3. buf' \in Memory /\ buf' >= buf + 2
    <3>1. CASE buffer[buf + 2][1] = ":"
      <4>1. buf + 2 # MemLast
        BY <2>1, <3>1 DEF NUL
      <4>2. buf' = buf + 3
        BY <1>2, <2>1, <3>1, MemoryFacts DEF AfterByte
      <4> QED
        BY <2>1, <2>2, <4>1, <4>2, MemoryFacts
    <3>2. CASE buffer[buf + 2][1] # ":"
      BY <1>2, <2>1, <2>2, <3>2, MemoryFacts DEF AfterByte
    <3> QED
      BY <3>1, <3>2
  <2>4. PICK digits \in Read(buf, 2) : data' = data \o Bytes(digits, 1)
    BY <1>2
  <2> DEFINE byte == Bytes(digits, 1)
  <2>5. digits \in Seq(Nat)
    BY <2>1, ScanType
  <2>6. byte \in Seq(Seq(Nat)) /\ Len(byte) = 1
    BY <2>5, BytesType
  <2>7. data' = data \o byte
    BY <2>4
  <2> HIDE DEF byte
  <2>8. data' \in Seq(Seq(Nat)) /\ Len(data') = Len(data) + 1
    <3>1. data \o byte \in Seq(Seq(Nat)) /\ Len(data \o byte) = Len(data) + Len(byte)
      BY <2>1, <2>6, Joined
    <3> QED
      BY <2>6, <2>7, <3>1
  <2>9. 2 * Len(data') <= buf'
    BY <2>1, <2>3, <2>8, MemoryFacts
  <2> QED
    BY <1>2, <2>3, <2>8, <2>9 DEF IInv
<1> QED
  BY <1>1, <1>2 DEF QuotedByte

LEMMA OtherFieldInv ==
  ASSUME IInv, OtherField PROVE IInv'
<1> DEFINE field == advance(buf)
<1>1. CASE Fail
  BY <1>1, FailInv
<1>2. CASE /\ buffer[field][1] = "quote" /\ buf' = field + 1 /\ phase' = "quoted"
           /\ UNCHANGED <<rest, buffer, data>>
  <2>1. /\ buffer \in [Memory -> Char] /\ buffer[MemLast] = NUL
        /\ buf \in Memory /\ data \in Seq(Seq(Nat)) /\ 2 * Len(data) <= buf
    BY DEF IInv, OtherField
  <2>2. field \in Memory /\ field >= buf
    BY <2>1, AdvanceFinds
  <2> HIDE DEF field
  <2>3. field # MemLast
    BY <1>2, <2>1 DEF NUL
  <2>4. buf' \in Memory /\ buf' >= buf
    BY <1>2, <2>1, <2>2, <2>3, MemoryFacts
  <2>5. 2 * Len(data) <= buf'
    BY <2>1, <2>4, MemoryFacts
  <2> QED
    BY <1>2, <2>4, <2>5 DEF IInv
<1> QED
  BY <1>1, <1>2 DEF OtherField, lineVars

LEMMA FindOpcodeInv ==
  ASSUME IInv, FindOpcode PROVE IInv'
<1> DEFINE p == advance(buf)
<1>1. CASE Fail
  BY <1>1, FailInv
<1>2. CASE data' = << >> /\ buf' = p /\ phase' = "data" /\ UNCHANGED <<rest, buffer>>
  <2>1. p \in Memory
    BY AdvanceFinds DEF IInv
  <2> HIDE DEF p
  <2>2. data' \in Seq(Seq(Nat)) /\ 2 * Len(data') <= buf'
    BY <1>2, <2>1, MemoryFacts
  <2> QED
    BY <1>2, <2>1, <2>2 DEF IInv
<1> QED
  BY <1>1, <1>2 DEF FindOpcode

LEMMA NextIInv == IInv /\ [Next]_vars => IInv'
<1> SUFFICES ASSUME IInv, [Next]_vars PROVE IInv'
  OBVIOUS
<1>1. CASE ReadLine
  BY <1>1, ReadLineInv
<1>2. CASE FindOpcode
  BY <1>2, FindOpcodeInv
<1>3. CASE HexField
  BY <1>3, HexFieldInv
<1>4. CASE OtherField
  BY <1>4, OtherFieldInv
<1>5. CASE QuotedByte
  BY <1>5, QuotedByteInv
<1>6. CASE EndOfFile
  BY <1>6 DEF EndOfFile, Exit, lineVars, IInv
<1>7. CASE DumpRecord
  BY <1>7 DEF DumpRecord, lineVars, IInv
<1>8. CASE EndOfQuoted
  BY <1>8 DEF EndOfQuoted, lineVars, IInv
<1>9. CASE UNCHANGED vars
  BY <1>9 DEF vars, lineVars, IInv
<1> QED
  BY <1>1, <1>2, <1>3, <1>4, <1>5, <1>6, <1>7, <1>8, <1>9 DEF Next

LEMMA InductiveInvariant == Spec => []IInv
  BY InitInv, NextIInv, PTL DEF Spec

(* The bytes of a line fit: no store into data passes its end, for any     *)
(* script and any size of the two buffers with half the one, and eight     *)
(* bytes, in the other.                                                    *)
THEOREM BytesOfLineFit == Spec => []DataFits
<1>1. IInv => DataFits
  <2> SUFFICES ASSUME IInv, phase \in {"data", "quoted"}
               PROVE  2 * Len(data) <= buf /\ (buf <= BufSize => Len(data) + 8 <= DataSize)
    BY DEF DataFits
  <2>1. /\ Len(data) \in Nat /\ buf \in Nat /\ 2 * Len(data) <= buf
        /\ BufSize \in Nat /\ DataSize \in Nat /\ BufSize + 16 <= 2 * DataSize
    BY BrfpatchAssumption, MemoryFacts DEF IInv
  <2> QED
    BY <2>1
<1> QED
  BY <1>1, InductiveInvariant, PTL
-----------------------------------------------------------------------------
(* The scanner and the end of the line: the newline, with the NUL of fgets *)
(* behind it.                                                              *)
LastRead == Len(script.text) - Len(rest)
LineEnds(end) ==
  /\ buffer[end][1] = "newline" /\ \A i \in 0 .. end - 1 : buffer[i][1] # "newline"
  /\ end + 1 \in Memory /\ buffer[end + 1] = NUL

TextInv ==
  /\ IInv
  /\ script.text \in Seq(Char) /\ Len(rest) <= Len(script.text)
  /\ \A i \in 1 .. Len(rest) : rest[i] = script.text[LastRead + i]
  /\ phase \in {"opcode", "data", "quoted"} /\ script.text[LastRead][1] = "newline" =>
       \E end \in Memory : LineEnds(end) /\ buf <= end + 1

(* A search goes no further than a position it would stop at. *)
LEMMA FirstBefore ==
  ASSUME NEW m \in [Memory -> Char], NEW p \in Memory, NEW e \in Memory, p <= e,
         NEW S, m[e][1] \in S, m[MemLast][1] \in S
  PROVE  First(m, p, S) \in Memory /\ First(m, p, S) >= p /\ First(m, p, S) <= e
<1> DEFINE T == {i \in Memory : i >= p /\ m[i][1] \in S}
<1>1. T \in SUBSET Nat /\ e \in T
  BY MemoryFacts
<1>2. PICK x \in T : \A y \in T : x <= y
  BY <1>1, LeastExists
<1>3. \E i \in Memory : /\ i >= p /\ m[i][1] \in S
                        /\ \A j \in Memory : p <= j /\ j < i => m[j][1] \notin S
  BY <1>2, MemoryFacts
<1> DEFINE f == First(m, p, S)
<1>4. /\ f \in Memory /\ f >= p
      /\ \A j \in Memory : p <= j /\ j < f => m[j][1] \notin S
  BY <1>3 DEF First
<1> HIDE DEF f
<1>5. f <= e
  BY <1>4, MemoryFacts
<1> QED
  BY <1>4, <1>5 DEF f

LEMMA SpaceBefore ==
  ASSUME NEW m \in [Memory -> Char], m[MemLast] = NUL, NEW e \in Memory, m[e] = NUL,
         NEW p \in Memory, p <= e
  PROVE  SkipSpace(m, p) \in Memory /\ SkipSpace(m, p) >= p /\ SkipSpace(m, p) <= e
<1>1. m[e][1] \in Class \ Space /\ m[MemLast][1] \in Class \ Space
  BY DEF NUL, Class, Space
<1> QED
  BY <1>1, FirstBefore DEF SkipSpace

LEMMA AdvanceBefore ==
  ASSUME buffer \in [Memory -> Char], buffer[MemLast] = NUL, NEW e \in Memory, buffer[e] = NUL,
         NEW p \in Memory, p <= e
  PROVE  advance(p) \in Memory /\ advance(p) >= p /\ advance(p) <= e
<1> DEFINE q == First(buffer, p, Space \cup {"NUL"})
<1>1. buffer[e][1] \in Space \cup {"NUL"} /\ buffer[MemLast][1] \in Space \cup {"NUL"}
  BY DEF NUL
<1>2. q \in Memory /\ q >= p /\ q <= e
  BY <1>1, FirstBefore
<1> HIDE DEF q
<1>3. SkipSpace(buffer, q) \in Memory /\ SkipSpace(buffer, q) >= q /\ SkipSpace(buffer, q) <= e
  BY <1>2, SpaceBefore
<1>4. advance(p) = SkipSpace(buffer, q)
  BY DEF advance, q
<1> QED
  BY <1>2, <1>3, <1>4, MemoryFacts

(* On the newline sscanf finds no digit. *)
LEMMA NothingOnNewline ==
  ASSUME IInv, NEW end \in Memory, LineEnds(end)
  PROVE  Read(end, 2) = {}
<1> DEFINE q == SkipSpace(buffer, end)
<1>0. /\ buffer \in [Memory -> Char] /\ buffer[MemLast] = NUL
      /\ buffer[end][1] = "newline" /\ end + 1 \in Memory /\ buffer[end + 1] = NUL
  BY DEF IInv, LineEnds
<1>1. q = end + 1
  <2>1. q \in Memory /\ q >= end /\ q <= end + 1
    BY <1>0, SpaceBefore, MemoryFacts
  <2>2. buffer[MemLast][1] \in Class \ Space
    BY <1>0 DEF NUL, Class, Space
  <2>3. buffer[q][1] \in Class \ Space
    BY <1>0, <2>2, FirstFinds DEF SkipSpace
  <2>4. q # end
    BY <1>0, <2>3 DEF Space
  <2> HIDE DEF q
  <2> QED
    BY <2>1, <2>4, MemoryFacts
<1> HIDE DEF q
<1>2. buffer[q][1] # "0"
  BY <1>0, <1>1 DEF NUL
<1>3. Digits(q, 2) = << >>
  <2> DEFINE f == First(buffer, q, Class \ HexDigit)
             n == IF f - q < 2 THEN f - q ELSE 2
  <2>0. buffer[q] = NUL /\ NUL[1] \in Class \ HexDigit
    BY <1>0, <1>1 DEF NUL, Class, HexDigit
  <2>1. buffer[q][1] \in Class \ HexDigit /\ buffer[MemLast][1] \in Class \ HexDigit
    BY <1>0, <2>0
  <2>2. q \in Memory /\ q <= q
    BY <1>0, <1>1, MemoryFacts
  <2>3. f \in Memory /\ f >= q /\ f <= q
    BY <1>0, <2>1, <2>2, FirstBefore
  <2>4. Digits(q, 2) = [i \in 1 .. n |-> buffer[q + i - 1][2]]
    BY DEF Digits
  <2> HIDE DEF f
  <2>5. n = 0
    BY <2>2, <2>3, MemoryFacts
  <2> HIDE DEF n
  <2> QED
    BY <2>4, <2>5
<1>4. Scan(end, 2) = {<< >>}
  BY <1>2, <1>3 DEF Scan, q
<1> QED
  BY <1>4 DEF Read

(* A character that is neither the newline nor the NUL is before both. *)
LEMMA InsideLine ==
  ASSUME NEW end \in Memory, LineEnds(end), NEW p \in Memory, p <= end + 1,
         buffer[p][1] \notin {"newline", "NUL"}
  PROVE  p <= end - 1
<1>1. p # end /\ p # end + 1
  BY DEF LineEnds, NUL
<1> QED
  BY <1>1, MemoryFacts

-----------------------------------------------------------------------------
(* Reading a line; scanning it *)

LEMMA ReadLineText ==
  ASSUME TextInv, ReadLine PROVE TextInv'
<1> DEFINE n == ChunkLength
           text == script.text
           ends == {i \in DOMAIN rest : rest[i][1] = "newline"}
           line == IF ends = {} THEN Len(rest) ELSE CHOOSE i \in ends : \A j \in ends : i <= j
<1>1. /\ rest \in Seq(Char) /\ rest # << >> /\ buffer \in [Memory -> Char]
      /\ IInv /\ IInv' /\ script' = script
      /\ text \in Seq(Char) /\ Len(rest) <= Len(text) /\ Len(rest) \in Nat /\ Len(text) \in Nat
      /\ \A i \in 1 .. Len(rest) : rest[i] = text[LastRead + i]
  BY ReadLineInv DEF TextInv, IInv, ReadLine
<1>2. /\ line \in 0 .. Len(rest)
      /\ line > 0
      /\ \A i \in 1 .. line - 1 : rest[i][1] # "newline"
  <2>1. CASE ends = {}
    <3>1. line = Len(rest) /\ \A i \in 1 .. Len(rest) : rest[i][1] # "newline"
      BY <1>1, <2>1
    <3> HIDE DEF line
    <3> QED
      BY <1>1, <3>1
  <2>2. CASE ends # {}
    <3>1. ends \in SUBSET Nat /\ ends \subseteq 1 .. Len(rest)
      BY <1>1
    <3>2. \E i \in ends : \A j \in ends : i <= j
      BY <2>2, <3>1, LeastExists
    <3>3. line \in ends /\ \A j \in ends : line <= j
      BY <2>2, <3>2
    <3>4. \A i \in 1 .. Len(rest) : rest[i][1] = "newline" => i \in ends
      BY <1>1
    <3> HIDE DEF line, ends
    <3> QED
      BY <1>1, <3>1, <3>3, <3>4
  <2> QED
    BY <2>1, <2>2
<1>3. n = IF line < BufSize THEN line ELSE BufSize - 1
  BY DEF ChunkLength
<1> HIDE DEF line, n, ends
<1>4. BufSize \in Nat /\ BufSize > 1
  BY BrfpatchAssumption
<1>5. n \in Nat /\ n >= 1 /\ n <= line /\ n < BufSize /\ n <= Len(rest)
  BY <1>1, <1>2, <1>3, <1>4
<1>6. /\ buffer' = LineOf(n) /\ rest' = SubSeq(rest, n + 1, Len(rest))
      /\ buf' = SkipSpace(buffer', 0)
  BY DEF ReadLine, n
<1>7. /\ Len(rest') = Len(rest) - n
      /\ \A i \in 1 .. Len(rest') : rest'[i] = rest[n + i]
  <2>1. SubSeq(rest, n + 1, Len(rest)) = [i \in 1 .. Len(rest) - n |-> rest[n + i]]
    BY <1>1, <1>5
  <2> QED
    BY <1>1, <1>5, <1>6, <2>1
<1>8. LastRead' = LastRead + n /\ LastRead \in Nat
  BY <1>1, <1>5, <1>7 DEF LastRead
<1>9. \A i \in 1 .. Len(rest') : rest'[i] = script'.text[LastRead' + i]
  <2> SUFFICES ASSUME NEW i \in 1 .. Len(rest') PROVE rest'[i] = text[LastRead' + i]
    BY <1>1
  <2>1. n + i \in 1 .. Len(rest) /\ LastRead + (n + i) = LastRead' + i
    BY <1>1, <1>5, <1>7, <1>8
  <2> QED
    BY <1>1, <1>7, <2>1
<1>10. \A i \in Memory : buffer'[i] = IF i < n THEN rest[i + 1] ELSE IF i = n THEN NUL ELSE buffer[i]
  BY <1>6 DEF LineOf
<1>11. ASSUME script'.text[LastRead'][1] = "newline"
       PROVE  \E end \in Memory : LineEnds(end)' /\ buf' <= end + 1
  <2>0. n - 1 \in Memory /\ n \in Memory /\ n - 1 + 1 = n /\ n - 1 < n /\ 0 \in Memory
    BY <1>4, <1>5, MemoryFacts
  <2>1. PICK end \in Memory : end = n - 1 /\ end + 1 = n
    BY <2>0
  <2>2. rest[n] = text[LastRead'] /\ n \in 1 .. Len(rest)
    BY <1>1, <1>5, <1>8
  <2>3. buffer'[end] = rest[n] /\ buffer'[n] = NUL
    BY <1>5, <1>10, <2>0, <2>1
  <2>4. \A i \in 0 .. end - 1 : buffer'[i][1] # "newline"
    <3> SUFFICES ASSUME NEW i \in 0 .. end - 1 PROVE buffer'[i][1] # "newline"
      OBVIOUS
    <3>1. i \in Memory /\ i < n /\ i + 1 \in 1 .. line - 1
      BY <1>2, <1>5, <2>0, <2>1, MemoryFacts
    <3> QED
      BY <1>2, <1>10, <3>1
  <2>5. buf' <= n
    <3>1. buffer' \in [Memory -> Char] /\ buffer'[MemLast] = NUL
      BY <1>1 DEF IInv
    <3>2. 0 <= n
      BY <1>5
    <3> QED
      BY <1>6, <2>0, <2>3, <3>1, <3>2, SpaceBefore
  <2>6. buffer'[end][1] = "newline"
    BY <1>1, <1>11, <2>2, <2>3
  <2>7. LineEnds(end)'
    BY <2>0, <2>1, <2>3, <2>4, <2>6 DEF LineEnds
  <2> QED
    BY <2>1, <2>5, <2>7
<1> QED
  BY <1>1, <1>5, <1>7, <1>9, <1>11 DEF TextInv

(* A step that keeps the line and does not leave it keeps TextInv. *)
LEMMA ScanText ==
  ASSUME TextInv, IInv', UNCHANGED <<script, rest, buffer>>, phase \in {"opcode", "data", "quoted"},
         \A end \in Memory : LineEnds(end) /\ buf <= end + 1 => buf' <= end + 1
  PROVE  TextInv'
<1>1. \A end \in Memory : LineEnds(end) => LineEnds(end)'
  BY DEF LineEnds
<1>2. LastRead' = LastRead
  BY DEF LastRead
<1> QED
  BY <1>1, <1>2 DEF TextInv

(* A step that ends the line. *)
LEMMA LeaveText ==
  ASSUME TextInv, IInv', UNCHANGED <<script, rest>>, phase' \in {"read", "exit"}
  PROVE  TextInv'
<1>1. LastRead' = LastRead
  BY DEF LastRead
<1> QED
  BY <1>1 DEF TextInv

LEMMA HexFieldText ==
  ASSUME TextInv, HexField PROVE TextInv'
<1> DEFINE field == advance(buf)
           p == field + 2
           n == First(buffer, p, Class \ Alnum) - p
<1>0. IInv /\ IInv' /\ phase = "data" /\ buffer[field][1] = "0"
  BY HexFieldInv DEF TextInv, HexField
<1>1. CASE Fail
  BY <1>0, <1>1, LeaveText DEF Fail, Exit
<1>2. CASE buf' = p + n /\ UNCHANGED <<script, rest, buffer>>
  <2> SUFFICES ASSUME NEW end \in Memory, LineEnds(end), buf <= end + 1 PROVE buf' <= end + 1
    BY <1>0, <1>2, ScanText
  <2>1. /\ buffer \in [Memory -> Char] /\ buffer[MemLast] = NUL /\ buf \in Memory
        /\ buffer[end][1] = "newline" /\ end + 1 \in Memory /\ buffer[end + 1] = NUL
    BY <1>0 DEF IInv, LineEnds
  <2>2. field \in Memory /\ field <= end + 1
    BY <2>1, AdvanceBefore
  <2> HIDE DEF field
  <2>3. field <= end - 1
    BY <1>0, <2>2, InsideLine
  <2>4. p \in Memory /\ p <= end + 1
    BY <2>1, <2>2, <2>3, MemoryFacts
  <2>5. buffer[end + 1][1] \in Class \ Alnum /\ buffer[MemLast][1] \in Class \ Alnum
    BY <2>1 DEF NUL, Class, Alnum
  <2> DEFINE f == First(buffer, p, Class \ Alnum)
  <2> HIDE DEF p
  <2>6. f \in Memory /\ f <= end + 1
    BY <2>1, <2>4, <2>5, FirstBefore
  <2>7. n = f - p
    OBVIOUS
  <2> HIDE DEF f, n
  <2>8. p + n = f
    BY <2>4, <2>6, <2>7, MemoryFacts
  <2> QED
    BY <1>2, <2>6, <2>8
<1> QED
  BY <1>1, <1>2 DEF HexField

LEMMA OtherFieldText ==
  ASSUME TextInv, OtherField PROVE TextInv'
<1> DEFINE field == advance(buf)
<1>0. IInv /\ IInv' /\ phase = "data"
  BY OtherFieldInv DEF TextInv, OtherField
<1>1. CASE Fail
  BY <1>0, <1>1, LeaveText DEF Fail, Exit
<1>2. CASE buffer[field][1] = "quote" /\ buf' = field + 1 /\ UNCHANGED <<script, rest, buffer>>
  <2> SUFFICES ASSUME NEW end \in Memory, LineEnds(end), buf <= end + 1 PROVE buf' <= end + 1
    BY <1>0, <1>2, ScanText
  <2>1. /\ buffer \in [Memory -> Char] /\ buffer[MemLast] = NUL /\ buf \in Memory
        /\ end + 1 \in Memory /\ buffer[end + 1] = NUL
    BY <1>0 DEF IInv, LineEnds
  <2>2. field \in Memory /\ field <= end + 1
    BY <2>1, AdvanceBefore
  <2> HIDE DEF field
  <2>3. field <= end - 1
    BY <1>2, <2>2, InsideLine
  <2> QED
    BY <1>2, <2>2, <2>3, MemoryFacts
<1> QED
  BY <1>1, <1>2 DEF OtherField

LEMMA QuotedByteText ==
  ASSUME TextInv, QuotedByte PROVE TextInv'
<1>0. /\ IInv /\ IInv' /\ phase = "quoted" /\ buffer[buf][1] # "NUL"
      /\ buffer \in [Memory -> Char] /\ buf \in Memory
  BY QuotedByteInv DEF TextInv, QuotedByte, IInv
<1>1. CASE Fail
  BY <1>0, <1>1, LeaveText DEF Fail, Exit
<1>2. CASE Read(buf, 2) # {} /\ buf' = AfterByte(buf + 2) /\ UNCHANGED <<script, rest, buffer>>
  <2> SUFFICES ASSUME NEW end \in Memory, LineEnds(end), buf <= end + 1 PROVE buf' <= end + 1
    BY <1>0, <1>2, ScanText
  <2>1. /\ end + 1 \in Memory /\ buffer[end + 1] = NUL /\ buffer[end][1] = "newline"
    BY DEF LineEnds
  <2>2. buf # end + 1 /\ buf # end
    BY <1>0, <1>2, <2>1, NothingOnNewline DEF NUL
  <2>3. buf + 2 \in Memory /\ buf + 2 <= end + 1
    BY <1>0, <2>1, <2>2, MemoryFacts
  <2>4. CASE buffer[buf + 2][1] = ":"
    <3>1. buf + 2 <= end - 1
      BY <2>3, <2>4, InsideLine
    <3> QED
      BY <1>0, <1>2, <2>4, <3>1, MemoryFacts DEF AfterByte
  <2>5. CASE buffer[buf + 2][1] # ":"
    BY <1>2, <2>3, <2>5 DEF AfterByte
  <2> QED
    BY <2>4, <2>5
<1> QED
  BY <1>1, <1>2 DEF QuotedByte

LEMMA FindOpcodeText ==
  ASSUME TextInv, FindOpcode PROVE TextInv'
<1>0. IInv /\ IInv' /\ phase = "opcode"
  BY FindOpcodeInv DEF TextInv, FindOpcode
<1>1. CASE Fail
  BY <1>0, <1>1, LeaveText DEF Fail, Exit
<1>2. CASE buf' = advance(buf) /\ UNCHANGED <<script, rest, buffer>>
  <2> SUFFICES ASSUME NEW end \in Memory, LineEnds(end), buf <= end + 1 PROVE buf' <= end + 1
    BY <1>0, <1>2, ScanText
  <2>1. /\ buffer \in [Memory -> Char] /\ buffer[MemLast] = NUL /\ buf \in Memory
        /\ end + 1 \in Memory /\ buffer[end + 1] = NUL
    BY <1>0 DEF IInv, LineEnds
  <2> QED
    BY <1>2, <2>1, AdvanceBefore
<1> QED
  BY <1>1, <1>2 DEF FindOpcode

LEMMA NextTextInv == TextInv /\ [Next]_vars => TextInv'
<1> SUFFICES ASSUME TextInv, [Next]_vars PROVE TextInv'
  OBVIOUS
<1>0. IInv'
  BY NextIInv DEF TextInv
<1>1. CASE ReadLine
  BY <1>1, ReadLineText
<1>2. CASE FindOpcode
  BY <1>2, FindOpcodeText
<1>3. CASE HexField
  BY <1>3, HexFieldText
<1>4. CASE OtherField
  BY <1>4, OtherFieldText
<1>5. CASE QuotedByte
  BY <1>5, QuotedByteText
<1>6. CASE EndOfFile \/ DumpRecord
  BY <1>0, <1>6, LeaveText DEF EndOfFile, DumpRecord, Exit
<1>7. CASE EndOfQuoted
  BY <1>0, <1>7, ScanText DEF EndOfQuoted
<1>8. CASE UNCHANGED vars
  BY <1>0, <1>8 DEF vars, TextInv, LastRead, LineEnds
<1> QED
  BY <1>1, <1>2, <1>3, <1>4, <1>5, <1>6, <1>7, <1>8 DEF Next

(* The scanner does not pass the end of a line that ends with a newline,   *)
(* whatever the script holds, white space, NULs and odd digits included,   *)
(* and whatever was in the buffer before.                                  *)
THEOREM ScannerStays == Spec => []ScannerStaysInText
<1>1. Init => TextInv
  <2> SUFFICES ASSUME Init PROVE TextInv
    OBVIOUS
  <2>1. /\ IInv /\ script.text \in Seq(Char) /\ rest = script.text /\ phase = "read"
    BY InitInv, BrfpatchAssumption DEF Init
  <2>2. LastRead = 0 /\ Len(rest) \in Nat
    BY <2>1 DEF LastRead
  <2>3. \A i \in 1 .. Len(rest) : rest[i] = script.text[LastRead + i]
    BY <2>1, <2>2
  <2> QED
    BY <2>1, <2>2, <2>3 DEF TextInv
<1>2. TextInv => ScannerStaysInText
  BY DEF TextInv, ScannerStaysInText, LastRead, LineEnds
<1> QED
  BY <1>1, <1>2, NextTextInv, PTL DEF Spec

=============================================================================
