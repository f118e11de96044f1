-------------------------------- MODULE Hash --------------------------------
(***************************************************************************)
(* ztstl::hash::Hash (source/hash/Hash.cpp) and hash::parse: a value of    *)
(* Size bytes, its text in hexadecimal digits, and the way back.           *)
(*                                                                         *)
(* Characters and bytes are numbers: '0' is 48, 'A' is 65, 'a' is 97.      *)
(* string() prints every byte in place with sprintf, which ends what it    *)
(* prints with a NUL: over the first digit of the next byte, and for the   *)
(* last byte over the terminator of the string.                            *)
(***************************************************************************)
EXTENDS Naturals, Sequences

CONSTANTS
  Size,        \* bytes of a hash
  Bytes,       \* the values that the bytes of a hash take
  Chars,       \* the characters of the texts that parse is given
  MaxLength    \* bound: length of those texts

ASSUME SizeAssumption == Size \in Nat /\ MaxLength \in Nat
ASSUME BytesAssumption == Bytes \subseteq 0..255 /\ Chars \subseteq 0..255

VARIABLES
  pc,      \* where the calls are
  data,    \* m_data of the hash whose string() is called
  buf,     \* buf of string(): its characters, and its terminator at 2 * Size
  text,    \* the argument of parse
  parsed,  \* data of parse
  i        \* i of the loop that runs

vars == <<pc, data, buf, text, parsed, i>>

Index == 0..(Size - 1)
Cells == 0..(2 * Size)
Nul == 0
Results == {"returned", "threw", "terminated"}

TypeOK ==
  /\ pc \in {"start", "string", "length", "parse", "throw"} \cup Results
  /\ data \in [Index -> 0..255]
  /\ buf \in [Cells -> 0..255]
  /\ text \in Seq(0..255)
  /\ parsed \in [Index -> 0..255]
  /\ i \in 0..Size

Zeros(S) == [k \in S |-> 0]

\* Hash() and Hash(data): the null hash, or what a Hasher has computed.
Init ==
  /\ pc = "start"
  /\ data \in [Index -> Bytes \cup {0}]
  /\ buf = Zeros(Cells)
  /\ text = <<>>
  /\ parsed = Zeros(Index)
  /\ i = 0

-----------------------------------------------------------------------------
(* string() *)

\* The digit that "%02x" prints for a value below 16.
Digit(n) == IF n < 10 THEN 48 + n ELSE 97 + (n - 10)

\* string(): buf.resize(2 * size).
CallString ==
  /\ pc = "start"
  /\ buf' = Zeros(Cells)
  /\ i' = 0
  /\ pc' = "string"
  /\ UNCHANGED <<data, text, parsed>>

\* Mutant: "%x" prints a byte below 16 with one digit.
PrintByteUnpadded ==
  /\ pc = "string"
  /\ i < Size
  /\ LET b == data[i]
     IN  buf' = IF b < 16
                THEN [buf EXCEPT ![2 * i] = Digit(b), ![2 * i + 1] = Nul]
                ELSE [buf EXCEPT ![2 * i] = Digit(b \div 16),
                                 ![2 * i + 1] = Digit(b % 16),
                                 ![2 * i + 2] = Nul]
  /\ i' = i + 1
  /\ UNCHANGED <<pc, data, text, parsed>>

\* sprintf(&buf[2 * i], "%02x", *ptr): two digits and a NUL.
PrintByte ==
  /\ pc = "string"
  /\ i < Size
  /\ buf' = [buf EXCEPT ![2 * i] = Digit(data[i] \div 16),
                        ![2 * i + 1] = Digit(data[i] % 16),
                        ![2 * i + 2] = Nul]
  /\ i' = i + 1
  /\ UNCHANGED <<pc, data, text, parsed>>

\* string() returns, and its text is parsed.
StringReturns ==
  /\ pc = "string"
  /\ i = Size
  /\ text' = [k \in 1..(2 * Size) |-> buf[k - 1]]
  /\ pc' = "length"
  /\ UNCHANGED <<data, buf, parsed, i>>

-----------------------------------------------------------------------------
(* parse() *)

Texts == UNION {[1..n -> Chars] : n \in 0..MaxLength}

\* parse is given some other text.  It looks at no other hash: the null hash
\* stands for all of them.
CallParse ==
  /\ pc = "start"
  /\ data = Zeros(Index)
  /\ text' \in Texts
  /\ pc' = "length"
  /\ UNCHANGED <<data, buf, parsed, i>>

\* The test of the length.
TestLength ==
  /\ pc = "length"
  /\ i' = 0
  /\ parsed' = Zeros(Index)
  /\ pc' = IF Len(text) # 2 * Size THEN "throw" ELSE "parse"
  /\ UNCHANGED <<data, buf, text>>

\* char_from_hex: the value of a digit in either case, or an exception.
IsHex(c) == c \in 48..57 \/ c \in 97..102 \/ c \in 65..70

\* Mutant: capital digits count from 0.
FromHexCapitals(c) ==
  CASE c \in 48..57 -> c - 48
    [] c \in 97..102 -> (c - 97) + 10
    [] c \in 65..70 -> c - 65

FromHex(c) ==
  CASE c \in 48..57 -> c - 48
    [] c \in 97..102 -> (c - 97) + 10
    [] c \in 65..70 -> (c - 65) + 10

\* One byte: its two characters are the ones at 2 * i and 2 * i + 1, which
\* in a TLA+ sequence are the next two.
ParseByte ==
  /\ pc = "parse"
  /\ i < Size
  /\ LET hi == text[2 * i + 1]
         lo == text[2 * i + 2]
     IN  IF IsHex(hi) /\ IsHex(lo)
         THEN /\ parsed' = [parsed EXCEPT ![i] =
                              (FromHex(hi) * 16 + FromHex(lo)) % 256]
              /\ i' = i + 1
              /\ UNCHANGED pc
         ELSE pc' = "throw" /\ UNCHANGED <<parsed, i>>
  /\ UNCHANGED <<data, buf, text>>

ParseReturns ==
  /\ pc = "parse"
  /\ i = Size
  /\ pc' = "returned"
  /\ UNCHANGED <<data, buf, text, parsed, i>>

\* The exception reaches the caller of Hash::parse; the free function
\* hash::parse is noexcept, so there it ends the process.
Throw ==
  /\ pc = "throw"
  /\ pc' \in {"threw", "terminated"}
  /\ UNCHANGED <<data, buf, text, parsed, i>>

-----------------------------------------------------------------------------
Next ==
  \/ CallString \/ PrintByte \/ StringReturns
  \/ CallParse \/ TestLength \/ ParseByte \/ ParseReturns \/ Throw

Spec == Init /\ [][Next]_vars

-----------------------------------------------------------------------------
(* Properties. *)

\* The text of the first n bytes of d, written down directly.
TextOf(d, n) ==
  [k \in 1..(2 * n) |-> LET b == d[(k - 1) \div 2]
                        IN  Digit(IF k % 2 = 1 THEN b \div 16 ELSE b % 16)]

\* Capital letters as small ones.
Lower(c) == IF c \in 65..70 THEN c + 32 ELSE c

\* Hash.cpp:58-84, hash.hpp:28-30.  The NULs of sprintf never reach the text:
\* whatever the bytes are, behind the loop's position there are digits only and
\* the terminator of the string is left a NUL.  And what string() has printed
\* parse() turns back into the same bytes, and never refuses.  (Once string()
\* has run, buf is no longer all zeros.)
RoundTrip ==
  /\ pc = "string" =>
       \A k \in 1..(2 * i) : buf[k - 1] = TextOf(data, i)[k]
  /\ buf[2 * Size] = Nul
  /\ pc # "string" /\ buf # Zeros(Cells) =>
       /\ pc \notin {"throw", "threw", "terminated"}
       /\ pc = "returned" => parsed = data

\* Hash.cpp:31-73.  A text that is accepted is the text of the result but for
\* the case of its letters, and one that is refused (which ends the process in
\* hash::parse) is the text of no hash.
ParseIsExact ==
  /\ pc = "returned" =>
       TextOf(parsed, Size) = [k \in 1..Len(text) |-> Lower(text[k])]
  /\ pc \in {"throw", "threw", "terminated"} =>
       Len(text) # 2 * Size \/ \E k \in 1..Len(text) : ~IsHex(text[k])

=============================================================================
