------------------------------- MODULE Encodings ------------------------------
(***************************************************************************)
(* Characters and the UTF-8 of encodings.h.  A character is its code unit, *)
(* a number; Text gives the code units of a string, so that the texts of   *)
(* other modules can be read.                                              *)
(***************************************************************************)
EXTENDS Integers, Sequences

Printable == " !\"#$%&'()*+,-./0123456789:;<=>?@ABCDEFGHIJKLMNOPQRSTUVWXYZ[\\]^_ abcdefghijklmnopqrstuvwxyz{|}~"
CodeOf ==    \* a grave accent cannot be written in a string: its place is a second blank
    [c \in {SubSeq(Printable, k, k) : k \in 1..Len(Printable)} |->
        31 + CHOOSE k \in 1..Len(Printable) : SubSeq(Printable, k, k) = c]
Char(c) == CodeOf[c]
Text(string) == [i \in 1..Len(string) |-> Char(SubSeq(string, i, i))]

\* The code unit at position i, counted from 0 as Tell does; the terminator after the end.
At(text, i) == IF i < Len(text) THEN text[i + 1] ELSE 0

IsDigit(c) == c \in 48..57
IsUpperHex(c) == c \in 65..70
IsLowerHex(c) == c \in 97..102
IsHex(c) == IsDigit(c) \/ IsUpperHex(c) \/ IsLowerHex(c)
HexValue(c) == IF IsDigit(c) THEN c - 48 ELSE IF IsUpperHex(c) THEN c - 55 ELSE c - 87
HexDigit(n) == IF n < 10 THEN 48 + n ELSE 55 + n

-------------------------------------------------------------------------------
Tail6(code) == 128 + (code % 64)

\* Variant of Encode for TextsRead: the shortest form is one bit too long.
EncodeLong(code) ==
    IF code <= 127 THEN <<code>>
    ELSE IF code <= 1023 THEN <<192 + code \div 64, Tail6(code)>>
    ELSE IF code <= 65535 THEN <<224 + code \div 4096, Tail6(code \div 64), Tail6(code)>>
    ELSE <<240 + code \div 262144, Tail6(code \div 4096), Tail6(code \div 64), Tail6(code)>>

\* UTF8::Encode.
Encode(code) ==
    IF code <= 127 THEN <<code>>
    ELSE IF code <= 2047 THEN <<192 + code \div 64, Tail6(code)>>
    ELSE IF code <= 65535 THEN <<224 + code \div 4096, Tail6(code \div 64), Tail6(code)>>
    ELSE <<240 + code \div 262144, Tail6(code \div 4096), Tail6(code \div 64), Tail6(code)>>

\* UTF8::GetRange: the class of a byte.
GetRange(c) ==
    CASE c < 128 -> 0
      [] c \in 128..143 -> 16
      [] c \in 144..159 -> 64
      [] c \in 160..191 -> 32
      [] c \in 194..223 -> 2
      [] c = 224 -> 10
      [] c = 237 -> 4
      [] c = 240 -> 11
      [] c \in 241..243 -> 6
      [] c = 244 -> 5
      [] c \in 225..239 \ {237} -> 3
      [] OTHER -> 8

\* What the bytes after one of this class have to be: TRANS and TAIL, in order.
AnyTail == {16, 32, 64}
Follow(class) ==
    CASE class = 2 -> <<AnyTail>>
      [] class = 3 -> <<AnyTail, AnyTail>>
      [] class = 4 -> <<{16, 64}, AnyTail>>
      [] class = 5 -> <<{16}, AnyTail, AnyTail>>
      [] class = 6 -> <<AnyTail, AnyTail, AnyTail>>
      [] class = 10 -> <<{32}, AnyTail>>
      [] class = 11 -> <<{32, 64}, AnyTail, AnyTail>>
      [] OTHER -> <<>>

\* UTF8::Validate: does a character begin at i, and how many bytes does it take?
Validate(text, i) ==
    LET class == GetRange(At(text, i))
        follow == Follow(class)
    IN [ok |-> /\ class = 0 \/ follow # <<>>
               /\ \A k \in 1..Len(follow) : GetRange(At(text, i + k)) \in follow[k],
        length |-> 1 + Len(follow)]

\* UTF8::Decode: the code point, by the bits of the first byte that its class leaves.
LeadBits(class, c) == CASE class = 2 -> c % 64 [] class \in {3, 4, 10} -> c % 32 [] OTHER -> c % 16
Decode(text, i) ==
    LET seen == Validate(text, i)
        class == GetRange(At(text, i))
        bits(k) == At(text, i + k) % 64
        lead == LeadBits(class, At(text, i))
    IN [ok |-> seen.ok, length |-> seen.length,
        code |-> CASE seen.length = 1 -> At(text, i)
                   [] seen.length = 2 -> lead * 64 + bits(1)
                   [] seen.length = 3 -> lead * 4096 + bits(1) * 64 + bits(2)
                   [] OTHER -> lead * 262144 + bits(1) * 4096 + bits(2) * 64 + bits(3)]
===============================================================================
