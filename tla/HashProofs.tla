----------------------------- MODULE HashProofs -----------------------------
(***************************************************************************)
(* Proofs about Hash, for any size of a hash, any bytes and any texts.     *)
(***************************************************************************)
EXTENDS Hash, SequenceTheorems, TLAPS

-----------------------------------------------------------------------------
(* Arithmetic of bytes, digits and places. *)

\* A byte is made of two values below 16.
LEMMA ByteParts ==
  ASSUME NEW b \in 0..255
  PROVE  /\ b \div 16 \in 0..15
         /\ b % 16 \in 0..15
         /\ (b \div 16) * 16 + (b % 16) = b
  BY Z3

\* Two values below 16 make a byte, from which they can be had back.
LEMMA ByteOfParts ==
  ASSUME NEW h \in 0..15, NEW l \in 0..15
  PROVE  /\ h * 16 + l \in 0..255
         /\ (h * 16 + l) % 256 = h * 16 + l
         /\ (h * 16 + l) \div 16 = h
         /\ (h * 16 + l) % 16 = l
  BY Z3

\* What sprintf prints for a value below 16 is a digit that char_from_hex turns
\* back, and never a NUL.
LEMMA DigitIsHex ==
  ASSUME NEW n \in 0..15
  PROVE  /\ Digit(n) \in 0..255
         /\ Digit(n) # Nul
         /\ IsHex(Digit(n))
         /\ FromHex(Digit(n)) = n
  BY DEF Digit, Nul, IsHex, FromHex

\* The value of a digit is below 16 and printed as the digit in lower case.
LEMMA HexIsDigit ==
  ASSUME NEW c \in 0..255, IsHex(c)
  PROVE  /\ FromHex(c) \in 0..15
         /\ Digit(FromHex(c)) = Lower(c)
  BY DEF Digit, IsHex, FromHex, Lower

\* The characters of n bytes: the first and the second of each byte.
LEMMA Places ==
  ASSUME NEW n \in Nat, NEW k \in 1..(2 * n)
  PROVE  \E j \in 0..(n - 1) : k = 2 * j + 1 \/ k = 2 * j + 2
<1> DEFINE j == (k - 1) \div 2
<1>1. j \in 0..(n - 1) /\ (k = 2 * j + 1 \/ k = 2 * j + 2)
  BY Z3
<1> QED
  BY <1>1

\* The two characters of byte j in the text of n bytes.
LEMMA TextAt ==
  ASSUME NEW d, NEW n \in Nat, NEW j \in 0..(n - 1)
  PROVE  /\ TextOf(d, n)[2 * j + 1] = Digit(d[j] \div 16)
         /\ TextOf(d, n)[2 * j + 2] = Digit(d[j] % 16)
<1>1. /\ 2 * j + 1 \in 1..(2 * n) /\ 2 * j + 2 \in 1..(2 * n)
      /\ (2 * j + 1 - 1) \div 2 = j /\ (2 * j + 2 - 1) \div 2 = j
      /\ (2 * j + 1) % 2 = 1 /\ (2 * j + 2) % 2 = 0
  BY Z3
<1>2. (2 * j + 2) % 2 # 1
  BY <1>1
<1>3. ASSUME NEW k \in 1..(2 * n)
      PROVE  /\ k % 2 = 1 => TextOf(d, n)[k] = Digit(d[(k - 1) \div 2] \div 16)
             /\ k % 2 # 1 => TextOf(d, n)[k] = Digit(d[(k - 1) \div 2] % 16)
  BY DEF TextOf
<1> QED
  BY <1>1, <1>2, <1>3

\* A zeroed buffer holds bytes.
LEMMA ZerosType ==
  ASSUME NEW S
  PROVE  Zeros(S) \in [S -> 0..255]
  BY DEF Zeros

-----------------------------------------------------------------------------
(* The inductive invariant, in parts. *)

Refused == {"throw", "threw", "terminated"}

\* The characters hi and lo are the two digits of byte b.
Shows(hi, lo, b) == hi = Digit(b \div 16) /\ lo = Digit(b % 16)

\* string(): behind i the digits are printed and are not touched by later NULs.
\* Before the call buf is empty, and its terminator is never overwritten by
\* anything but a NUL.
PrintInv ==
  /\ buf[2 * Size] = Nul
  /\ pc = "start" => buf = Zeros(Cells) /\ i = 0
  /\ pc = "string" =>
       \A j \in 0..(i - 1) : Shows(buf[2 * j], buf[2 * j + 1], data[j])

\* The text that string() has returned is the argument of parse.
TextInv ==
  pc \notin {"start", "string"} /\ buf # Zeros(Cells) =>
    /\ Len(text) = 2 * Size
    /\ \A j \in Index : Shows(text[2 * j + 1], text[2 * j + 2], data[j])

\* parse(): behind i the characters are digits, and the bytes are theirs.
ParseInv ==
  /\ pc \in {"parse", "returned"} =>
       /\ Len(text) = 2 * Size
       /\ \A j \in 0..(i - 1) :
            /\ IsHex(text[2 * j + 1]) /\ IsHex(text[2 * j + 2])
            /\ parsed[j] = FromHex(text[2 * j + 1]) * 16
                             + FromHex(text[2 * j + 2])
  /\ pc = "returned" => i = Size

\* parse() refuses for a reason.
RefuseInv ==
  pc \in Refused =>
    Len(text) # 2 * Size \/ \E k \in 1..Len(text) : ~IsHex(text[k])

IndInv == TypeOK /\ PrintInv /\ TextInv /\ ParseInv /\ RefuseInv

-----------------------------------------------------------------------------
(* The initial states satisfy the invariant, and each action preserves it. *)

\* Nothing is printed or parsed at the start.
LEMMA InitInv == Init => IndInv
<1> SUFFICES ASSUME Init
             PROVE  IndInv
  OBVIOUS
<1> USE SizeAssumption, BytesAssumption
<1>1. TypeOK
  <2>1. data \in [Index -> 0..255]
    <3>1. Bytes \cup {0} \subseteq 0..255
      OBVIOUS
    <3>2. data \in [Index -> Bytes \cup {0}]
      BY DEF Init
    <3> QED
      BY <3>1, <3>2
  <2>2. text \in Seq(0..255) /\ i \in 0..Size
    BY DEF Init
  <2> QED
    BY <2>1, <2>2, ZerosType DEF Init, TypeOK
<1>2. PrintInv
  BY DEF Init, PrintInv, Zeros, Cells, Nul
<1>3. TextInv /\ ParseInv /\ RefuseInv
  BY DEF Init, TextInv, ParseInv, RefuseInv, Refused
<1> QED
  BY <1>1, <1>2, <1>3 DEF IndInv

\* string(): the call and its loop.  The NUL behind byte i falls on a place that
\* is not printed yet, or on the terminator.
LEMMA StringPreserves ==
  ASSUME IndInv, CallString \/ PrintByte
  PROVE  IndInv'
<1> USE SizeAssumption DEF IndInv
<1>1. CASE CallString
  <2>1. TypeOK'
    <3>1. buf' \in [Cells -> 0..255] /\ i' \in 0..Size
      BY <1>1, ZerosType DEF CallString
    <3> QED
      BY <1>1, <3>1 DEF CallString, TypeOK
  <2>2. PrintInv'
    BY <1>1 DEF CallString, PrintInv, Zeros, Cells, Nul
  <2> QED
    BY <1>1, <2>1, <2>2 DEF CallString, TextInv, ParseInv, RefuseInv, Refused
<1>2. CASE PrintByte
  <2>1. /\ i \in Index
        /\ data[i] \in 0..255
        /\ 2 * i \in Cells /\ 2 * i + 1 \in Cells /\ 2 * i + 2 \in Cells
    BY <1>2 DEF PrintByte, TypeOK, Index, Cells
  <2>2. /\ Digit(data[i] \div 16) \in 0..255
        /\ Digit(data[i] % 16) \in 0..255
        /\ Nul \in 0..255
    <3>1. data[i] \div 16 \in 0..15 /\ data[i] % 16 \in 0..15
      BY <2>1, ByteParts
    <3>2. Nul \in 0..255
      BY DEF Nul
    <3> QED
      BY <3>1, <3>2, DigitIsHex, Zenon
  <2>3. TypeOK'
    <3>1. buf' \in [Cells -> 0..255]
      BY <1>2, <2>1, <2>2 DEF PrintByte, TypeOK
    <3>2. i' \in 0..Size
      BY <1>2 DEF PrintByte, TypeOK
    <3> QED
      BY <1>2, <3>1, <3>2 DEF PrintByte, TypeOK
  <2>4. /\ buf'[2 * i] = Digit(data[i] \div 16)
        /\ buf'[2 * i + 1] = Digit(data[i] % 16)
        /\ buf'[2 * i + 2] = Nul
        /\ \A c \in Cells \ {2 * i, 2 * i + 1, 2 * i + 2} : buf'[c] = buf[c]
    BY <1>2, <2>1 DEF PrintByte, TypeOK
  <2>5. PrintInv'
    <3>1. buf'[2 * Size] = Nul
      <4>1. CASE 2 * Size = 2 * i + 2
        BY <4>1, <2>4
      <4>2. CASE 2 * Size # 2 * i + 2
        <5>1. 2 * Size \in Cells \ {2 * i, 2 * i + 1, 2 * i + 2}
          BY <4>2, <2>1 DEF Index, Cells
        <5> QED
          BY <5>1, <2>4 DEF PrintInv
      <4> QED
        BY <4>1, <4>2
    <3>2. ASSUME NEW j \in 0..(i' - 1)
          PROVE  Shows(buf'[2 * j], buf'[2 * j + 1], data[j])
      <4>1. CASE j = i
        BY <4>1, <2>4 DEF Shows
      <4>2. CASE j # i
        <5>1. j \in 0..(i - 1)
          BY <1>2, <4>2, <3>2, <2>1 DEF PrintByte, Index
        <5>2. /\ 2 * j \in Cells \ {2 * i, 2 * i + 1, 2 * i + 2}
              /\ 2 * j + 1 \in Cells \ {2 * i, 2 * i + 1, 2 * i + 2}
          BY <5>1, <2>1 DEF Index, Cells
        <5> QED
          BY <1>2, <5>1, <5>2, <2>4 DEF PrintByte, PrintInv, Shows
      <4> QED
        BY <4>1, <4>2
    <3> QED
      BY <1>2, <3>1, <3>2 DEF PrintByte, PrintInv
  <2> QED
    BY <1>2, <2>3, <2>5 DEF PrintByte, TextInv, ParseInv, RefuseInv, Refused
<1> QED
  BY <1>1, <1>2

\* The text of string(), and any other text, becomes the argument of parse.
LEMMA TextPreserves ==
  ASSUME IndInv, StringReturns \/ CallParse
  PROVE  IndInv'
<1> USE SizeAssumption, BytesAssumption DEF IndInv
<1>1. CASE StringReturns
  <2>1. /\ text' \in Seq(0..255)
        /\ Len(text') = 2 * Size
        /\ \A k \in 1..(2 * Size) : text'[k] = buf[k - 1]
    BY <1>1 DEF StringReturns, TypeOK, Cells
  <2>2. TypeOK'
    BY <1>1, <2>1 DEF StringReturns, TypeOK
  <2>3. ASSUME NEW j \in Index
        PROVE  Shows(text'[2 * j + 1], text'[2 * j + 2], data[j])
    <3>1. /\ 2 * j + 1 \in 1..(2 * Size) /\ 2 * j + 2 \in 1..(2 * Size)
          /\ (2 * j + 1) - 1 = 2 * j /\ (2 * j + 2) - 1 = 2 * j + 1
      BY DEF Index
    <3>2. Shows(buf[2 * j], buf[2 * j + 1], data[j])
      BY <1>1 DEF StringReturns, PrintInv, Index
    <3> QED
      BY <2>1, <3>1, <3>2 DEF Shows
  <2> QED
    BY <1>1, <2>1, <2>2, <2>3 DEF StringReturns, PrintInv, TextInv, ParseInv,
       RefuseInv, Refused
<1>2. CASE CallParse
  <2>1. TypeOK'
    <3>1. PICK n \in Nat : text' \in [1..n -> Chars]
      BY <1>2 DEF CallParse, Texts
    <3>2. text' \in [1..n -> 0..255]
      BY <3>1
    <3>3. text' \in Seq(0..255)
      BY <3>2, SeqDef
    <3> QED
      BY <1>2, <3>3 DEF CallParse, TypeOK
  <2> QED
    BY <1>2, <2>1 DEF CallParse, PrintInv, TextInv, ParseInv, RefuseInv, Refused
<1> QED
  BY <1>1, <1>2

\* parse(): the length, the loop and the ends.
LEMMA ParsePreserves ==
  ASSUME IndInv, TestLength \/ ParseByte \/ ParseReturns \/ Throw
  PROVE  IndInv'
<1> USE SizeAssumption DEF IndInv
<1>1. CASE TestLength
  <2>1. TypeOK'
    <3>1. parsed' \in [Index -> 0..255]
      BY <1>1, ZerosType, Zenon DEF TestLength
    <3>2. i' \in 0..Size
      BY <1>1 DEF TestLength
    <3> QED
      BY <1>1, <3>1, <3>2 DEF TestLength, TypeOK
  <2> QED
    BY <1>1, <2>1 DEF TestLength, PrintInv, TextInv, ParseInv, RefuseInv, Refused
<1>2. CASE ParseByte
  <2> DEFINE hi == text[2 * i + 1]
             lo == text[2 * i + 2]
  <2>1. /\ i \in Index
        /\ Len(text) = 2 * Size
        /\ 2 * i + 1 \in 1..Len(text) /\ 2 * i + 2 \in 1..Len(text)
    BY <1>2 DEF ParseByte, TypeOK, ParseInv, Index
  <2>2. hi \in 0..255 /\ lo \in 0..255
    BY <2>1, ElementOfSeq DEF TypeOK
  <2>3. CASE IsHex(hi) /\ IsHex(lo)
    <3>1. /\ FromHex(hi) \in 0..15 /\ FromHex(lo) \in 0..15
      BY <2>2, <2>3, HexIsDigit
    <3>2. /\ FromHex(hi) * 16 + FromHex(lo) \in 0..255
          /\ (FromHex(hi) * 16 + FromHex(lo)) % 256
               = FromHex(hi) * 16 + FromHex(lo)
      BY <3>1, ByteOfParts
    <3>3. /\ parsed' = [parsed EXCEPT ![i] = FromHex(hi) * 16 + FromHex(lo)]
          /\ i' = i + 1
          /\ UNCHANGED <<pc, data, buf, text>>
      BY <1>2, <2>3, <3>2 DEF ParseByte
    <3>4. TypeOK'
      <4>1. parsed' \in [Index -> 0..255]
        BY <3>2, <3>3 DEF TypeOK
      <4>2. i' \in 0..Size
        BY <2>1, <3>3 DEF Index
      <4> QED
        BY <3>3, <4>1, <4>2 DEF TypeOK
    <3>5. ParseInv'
      <4>1. ASSUME NEW j \in 0..(i' - 1)
            PROVE  /\ IsHex(text[2 * j + 1]) /\ IsHex(text[2 * j + 2])
                   /\ parsed'[j] = FromHex(text[2 * j + 1]) * 16
                                     + FromHex(text[2 * j + 2])
        <5>1. CASE j = i
          BY <5>1, <2>1, <2>3, <3>3 DEF TypeOK
        <5>2. CASE j # i
          <6>1. j \in 0..(i - 1)
            BY <5>2, <4>1, <3>3, <2>1 DEF Index
          <6>2. parsed'[j] = parsed[j]
            BY <6>1, <5>2, <3>3, <2>1 DEF TypeOK, Index
          <6> QED
            BY <1>2, <6>1, <6>2 DEF ParseByte, ParseInv
        <5> QED
          BY <5>1, <5>2
      <4> QED
        BY <1>2, <2>1, <3>3, <4>1 DEF ParseByte, ParseInv
    <3> QED
      BY <1>2, <3>3, <3>4, <3>5 DEF ParseByte, PrintInv, TextInv, RefuseInv,
         Refused
  <2>4. CASE ~(IsHex(hi) /\ IsHex(lo))
    <3>1. pc' = "throw" /\ UNCHANGED <<parsed, i, data, buf, text>>
      BY <1>2, <2>4 DEF ParseByte
    <3>2. TypeOK'
      BY <3>1 DEF TypeOK
    <3>3. RefuseInv'
      BY <3>1, <2>1, <2>4 DEF RefuseInv
    <3> QED
      BY <1>2, <3>1, <3>2, <3>3 DEF ParseByte, PrintInv, TextInv, ParseInv
  <2> QED
    BY <2>3, <2>4
<1>3. CASE ParseReturns \/ Throw
  <2>1. TypeOK'
    <3>1. pc' \in Results /\ UNCHANGED <<data, buf, text, parsed, i>>
      BY <1>3 DEF ParseReturns, Throw, Results
    <3> QED
      BY <3>1 DEF TypeOK
  <2> QED
    BY <1>3, <2>1 DEF ParseReturns, Throw, PrintInv, TextInv, ParseInv, RefuseInv,
       Refused
<1> QED
  BY <1>1, <1>2, <1>3

\* The invariant holds in every reachable state.
THEOREM Invariance == Spec => []IndInv
<1>1. IndInv /\ [Next]_vars => IndInv'
  <2> SUFFICES ASSUME IndInv, [Next]_vars
               PROVE  IndInv'
    OBVIOUS
  <2>1. CASE UNCHANGED vars
    <3>1. TypeOK' /\ PrintInv' /\ TextInv'
      BY <2>1 DEF vars, IndInv, TypeOK, PrintInv, TextInv
    <3>2. ParseInv' /\ RefuseInv'
      BY <2>1 DEF vars, IndInv, ParseInv, RefuseInv
    <3> QED
      BY <3>1, <3>2 DEF IndInv
  <2> QED
    BY <2>1, StringPreserves, TextPreserves, ParsePreserves DEF Next
<1> QED
  BY <1>1, InitInv, PTL DEF Spec

-----------------------------------------------------------------------------
(* The theorems. *)

\* A text that shows the bytes of a hash is one of digits that stand for them.
LEMMA ShownIsHex ==
  ASSUME NEW b \in 0..255, NEW hi, NEW lo, Shows(hi, lo, b)
  PROVE  /\ IsHex(hi) /\ IsHex(lo)
         /\ FromHex(hi) * 16 + FromHex(lo) = b
<1>1. /\ IsHex(hi) /\ FromHex(hi) = b \div 16
      /\ IsHex(lo) /\ FromHex(lo) = b % 16
  BY ByteParts, DigitIsHex DEF Shows
<1> QED
  BY <1>1, ByteParts

\* Hash.cpp:58-84, hash.hpp:28-30.  Whatever the bytes of a hash of any size,
\* string() prints their digits, none of which a NUL of sprintf overwrites, and
\* parse() accepts the text and returns the bytes.
THEOREM RoundTrips == Spec => []RoundTrip
<1>1. IndInv => RoundTrip
  <2> SUFFICES ASSUME IndInv
               PROVE  RoundTrip
    OBVIOUS
  <2> USE SizeAssumption
  <2>1. ASSUME pc = "string", NEW k \in 1..(2 * i)
        PROVE  buf[k - 1] = TextOf(data, i)[k]
    <3>1. i \in Nat
      BY DEF IndInv, TypeOK
    <3>2. PICK j \in 0..(i - 1) : k = 2 * j + 1 \/ k = 2 * j + 2
      BY <3>1, Places
    <3>3. Shows(buf[2 * j], buf[2 * j + 1], data[j])
      BY <2>1 DEF IndInv, PrintInv
    <3>4. /\ TextOf(data, i)[2 * j + 1] = Digit(data[j] \div 16)
          /\ TextOf(data, i)[2 * j + 2] = Digit(data[j] % 16)
      BY <3>1, TextAt
    <3>5. (2 * j + 1) - 1 = 2 * j /\ (2 * j + 2) - 1 = 2 * j + 1
      OBVIOUS
    <3> QED
      BY <3>2, <3>3, <3>4, <3>5 DEF Shows
  <2>2. buf[2 * Size] = Nul
    BY DEF IndInv, PrintInv
  <2>3. ASSUME pc # "string", buf # Zeros(Cells)
        PROVE  /\ pc \notin Refused
               /\ pc = "returned" => parsed = data
    <3>1. /\ Len(text) = 2 * Size
          /\ \A j \in Index : Shows(text[2 * j + 1], text[2 * j + 2], data[j])
      BY <2>3 DEF IndInv, PrintInv, TextInv
    <3>2. ASSUME NEW j \in Index
          PROVE  /\ IsHex(text[2 * j + 1]) /\ IsHex(text[2 * j + 2])
                 /\ FromHex(text[2 * j + 1]) * 16 + FromHex(text[2 * j + 2])
                      = data[j]
      <4>1. data[j] \in 0..255
        BY DEF IndInv, TypeOK
      <4> QED
        BY <3>1, <4>1, ShownIsHex
    <3>3. ASSUME NEW k \in 1..Len(text)
          PROVE  IsHex(text[k])
      <4>1. PICK j \in 0..(Size - 1) : k = 2 * j + 1 \/ k = 2 * j + 2
        BY <3>1, Places
      <4> QED
        BY <3>2, <4>1 DEF Index
    <3>4. pc \notin Refused
      BY <3>1, <3>3 DEF IndInv, RefuseInv
    <3>5. ASSUME pc = "returned"
          PROVE  parsed = data
      <4>1. \A j \in Index : parsed[j] = data[j]
        BY <3>2, <3>5 DEF IndInv, ParseInv, Index
      <4> QED
        BY <4>1 DEF IndInv, TypeOK
    <3> QED
      BY <3>4, <3>5
  <2> QED
    BY <2>1, <2>2, <2>3 DEF RoundTrip, Refused
<1> QED
  BY <1>1, Invariance, PTL

\* Hash.cpp:31-73.  Whatever text parse() is given, what it accepts is the text
\* of the result up to the case of letters, and what it refuses has the wrong
\* length or a character that is no digit.
THEOREM ParsesExactly == Spec => []ParseIsExact
<1>1. IndInv => ParseIsExact
  <2> SUFFICES ASSUME IndInv
               PROVE  ParseIsExact
    OBVIOUS
  <2> USE SizeAssumption
  <2>1. ASSUME pc = "returned"
        PROVE  TextOf(parsed, Size) = [k \in 1..Len(text) |-> Lower(text[k])]
    <3>1. Len(text) = 2 * Size /\ i = Size /\ text \in Seq(0..255)
      BY <2>1 DEF IndInv, ParseInv, TypeOK
    <3>2. ASSUME NEW j \in 0..(Size - 1)
          PROVE  /\ TextOf(parsed, Size)[2 * j + 1] = Lower(text[2 * j + 1])
                 /\ TextOf(parsed, Size)[2 * j + 2] = Lower(text[2 * j + 2])
      <4> DEFINE hi == text[2 * j + 1]
                 lo == text[2 * j + 2]
      <4>1. hi \in 0..255 /\ lo \in 0..255
        <5>1. 2 * j + 1 \in 1..Len(text) /\ 2 * j + 2 \in 1..Len(text)
          BY <3>1
        <5> QED
          BY <3>1, <5>1, ElementOfSeq
      <4>2. /\ IsHex(hi) /\ IsHex(lo)
            /\ parsed[j] = FromHex(hi) * 16 + FromHex(lo)
        BY <2>1, <3>1 DEF IndInv, ParseInv
      <4>3. /\ FromHex(hi) \in 0..15 /\ Digit(FromHex(hi)) = Lower(hi)
            /\ FromHex(lo) \in 0..15 /\ Digit(FromHex(lo)) = Lower(lo)
        BY <4>1, <4>2, HexIsDigit
      <4>4. parsed[j] \div 16 = FromHex(hi) /\ parsed[j] % 16 = FromHex(lo)
        BY <4>2, <4>3, ByteOfParts
      <4>5. /\ TextOf(parsed, Size)[2 * j + 1] = Digit(parsed[j] \div 16)
            /\ TextOf(parsed, Size)[2 * j + 2] = Digit(parsed[j] % 16)
        BY TextAt
      <4> QED
        BY <4>3, <4>4, <4>5
    <3>3. ASSUME NEW k \in 1..(2 * Size)
          PROVE  TextOf(parsed, Size)[k] = Lower(text[k])
      <4>1. PICK j \in 0..(Size - 1) : k = 2 * j + 1 \/ k = 2 * j + 2
        BY Places
      <4> QED
        BY <3>2, <4>1
    <3>4. TextOf(parsed, Size) = [k \in 1..(2 * Size) |-> TextOf(parsed, Size)[k]]
      BY DEF TextOf
    <3> QED
      BY <3>1, <3>3, <3>4
  <2> QED
    BY <2>1 DEF IndInv, RefuseInv, Refused, ParseIsExact
<1> QED
  BY <1>1, Invariance, PTL

=============================================================================
