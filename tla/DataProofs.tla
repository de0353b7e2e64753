------------------------------ MODULE DataProofs ------------------------------
(***************************************************************************)
(* Texts and buffers, for every character, every text and every size of a  *)
(* buffer.  Four things are proved: UTF8::Encode and UTF8::Decode agree,   *)
(* and Decode takes nothing but the shortest form of a character; the loop *)
(* that reads the body of an answer never parts a character, nor fills its *)
(* buffer beyond the three bytes that it keeps free; a getter that is      *)
(* called with the size it asked for, or more, gives the whole text; and   *)
(* the bodies of requests and answers arrive whole with both HTTP clients, *)
(* whatever the sizes are in which they are read.                          *)
(***************************************************************************)
EXTENDS HttpClient, SequenceTheorems, WellFoundedInduction, TLAPS

\* The characters of Unicode: code points that are not halves of a surrogate pair.
Scalars == {c \in Nat : c <= 1114111 /\ (c < 55296 \/ 57343 < c)}

\* The bytes of a character are found at i.
HoldsAt(text, i, bytes) == \A k \in 1..Len(bytes) : At(text, i + k - 1) = bytes[k]

\* A byte that continues a character.
Continues(b) == 128 <= b /\ b < 192

-------------------------------------------------------------------------------
(* Characters and their bytes. *)

\* Division by 64.
LEMMA Quotient ==
    ASSUME NEW n \in Nat
    PROVE  n \div 64 \in Nat /\ n % 64 \in Nat /\ n % 64 < 64 /\ n = 64 * (n \div 64) + (n % 64)
BY SMT

\* The bits of a number from the thirteenth on, and from the nineteenth on.
LEMMA Nested ==
    ASSUME NEW n \in Nat
    PROVE  /\ n \div 4096 = (n \div 64) \div 64
           /\ n \div 262144 = ((n \div 64) \div 64) \div 64
BY SMT

\* A character of two bytes begins with its five high bits.
LEMMA TwoBytes ==
    ASSUME NEW c \in Nat, 127 < c, c <= 2047
    PROVE  \E q, r \in Nat :
              /\ c = 64 * q + r /\ 2 <= q /\ q < 32 /\ r < 64
              /\ Encode(c) = <<192 + q, 128 + r>>
<1> DEFINE q == c \div 64
           r == c % 64
<1>1. q \in Nat /\ r \in Nat /\ r < 64 /\ c = 64 * q + r
  BY Quotient, SMT
<1>2. Encode(c) = <<192 + q, 128 + r>>
  BY SMT DEF Encode, Tail6
<1> HIDE DEF q, r
<1>3. 2 <= q /\ q < 32
  BY <1>1, SMT
<1> QED
  BY <1>1, <1>2, <1>3, SMT

\* A character of three bytes is one of four, or an overlong or a half of a pair.
LEMMA ThreeBytes ==
    ASSUME NEW c \in Nat, 2047 < c, c <= 65535, c < 55296 \/ 57343 < c
    PROVE  \E t, s, r \in Nat :
              /\ c = 4096 * t + 64 * s + r /\ t < 16 /\ s < 64 /\ r < 64
              /\ t = 0 => 32 <= s
              /\ t = 13 => s < 32
              /\ Encode(c) = <<224 + t, 128 + s, 128 + r>>
<1> DEFINE q == c \div 64
           r == c % 64
           t == q \div 64
           s == q % 64
<1>1. q \in Nat /\ r \in Nat /\ r < 64 /\ c = 64 * q + r
  BY Quotient, SMT
<1>2. t \in Nat /\ s \in Nat /\ s < 64 /\ q = 64 * t + s
  BY <1>1, Quotient, SMT
<1>3. c \div 4096 = t
  BY Nested, SMT
<1> HIDE DEF t
<1>4. Encode(c) = <<224 + t, 128 + s, 128 + r>>
  BY <1>3, SMT DEF Encode, Tail6
<1> HIDE DEF q, r, s
<1>5. c = 4096 * t + 64 * s + r
  BY <1>1, <1>2, SMT
<1>6. t < 16
  BY <1>1, <1>2, <1>5, SMT
<1>7. t = 0 => 32 <= s
  BY <1>1, <1>2, <1>5, SMT
<1>8. t = 13 => s < 32
  BY <1>1, <1>2, <1>5, SMT
<1> QED
  BY <1>1, <1>2, <1>4, <1>5, <1>6, <1>7, <1>8, SMT

\* A character of four bytes.
LEMMA FourBytes ==
    ASSUME NEW c \in Nat, 65535 < c, c <= 1114111
    PROVE  \E u, w, s, r \in Nat :
              /\ c = 262144 * u + 4096 * w + 64 * s + r
              /\ u <= 4 /\ w < 64 /\ s < 64 /\ r < 64
              /\ u = 0 => 16 <= w
              /\ u = 4 => w < 16
              /\ Encode(c) = <<240 + u, 128 + w, 128 + s, 128 + r>>
<1> DEFINE q == c \div 64
           r == c % 64
           t == q \div 64
           s == q % 64
           u == t \div 64
           w == t % 64
<1>1. q \in Nat /\ r \in Nat /\ r < 64 /\ c = 64 * q + r
  BY Quotient, SMT
<1>2. t \in Nat /\ s \in Nat /\ s < 64 /\ q = 64 * t + s
  BY <1>1, Quotient, SMT
<1>3. u \in Nat /\ w \in Nat /\ w < 64 /\ t = 64 * u + w
  BY <1>2, Quotient, SMT
<1>4. c \div 4096 = t /\ c \div 262144 = u
  BY Nested, SMT
<1>5. Encode(c) = <<240 + c \div 262144, 128 + ((c \div 4096) % 64), 128 + (q % 64), 128 + r>>
  BY SMT DEF Encode, Tail6
<1>6. Encode(c) = <<240 + u, 128 + w, 128 + s, 128 + r>>
  BY <1>4, <1>5, SMT
<1> HIDE DEF q, r, t, s, u, w
<1>7. c = 262144 * u + 4096 * w + 64 * s + r
  BY <1>1, <1>2, <1>3, SMT
<1>8. u <= 4
  BY <1>1, <1>2, <1>3, <1>7, SMT
<1>9. u = 0 => 16 <= w
  BY <1>1, <1>2, <1>3, <1>7, SMT
<1>10. u = 4 => w < 16
  BY <1>1, <1>2, <1>3, <1>7, SMT
<1> QED
  BY <1>1, <1>2, <1>3, <1>6, <1>7, <1>8, <1>9, <1>10, SMT

\* The class of each byte, and the bytes of each class.
LEMMA RangeOf ==
    ASSUME NEW b \in Nat, b < 256
    PROVE  /\ b < 128 => GetRange(b) = 0
           /\ b \in 128..143 => GetRange(b) = 16
           /\ b \in 144..159 => GetRange(b) = 64
           /\ b \in 160..191 => GetRange(b) = 32
           /\ b \in 194..223 => GetRange(b) = 2
           /\ b = 224 => GetRange(b) = 10
           /\ b = 237 => GetRange(b) = 4
           /\ b = 240 => GetRange(b) = 11
           /\ b \in 241..243 => GetRange(b) = 6
           /\ b = 244 => GetRange(b) = 5
           /\ b \in 225..239 /\ b # 237 => GetRange(b) = 3
           /\ b \in 192..193 \/ b \in 245..255 => GetRange(b) = 8
<1>1. b < 128 => GetRange(b) = 0
  BY DEF GetRange
<1>2. b \in 128..143 => GetRange(b) = 16
  BY DEF GetRange
<1>3. b \in 144..159 => GetRange(b) = 64
  BY DEF GetRange
<1>4. b \in 160..191 => GetRange(b) = 32
  BY DEF GetRange
<1>5. b \in 194..223 => GetRange(b) = 2
  BY DEF GetRange
<1>6. b = 224 => GetRange(b) = 10
  BY DEF GetRange
<1>7. b = 237 => GetRange(b) = 4
  BY DEF GetRange
<1>8. b = 240 => GetRange(b) = 11
  BY DEF GetRange
<1>9. b \in 241..243 => GetRange(b) = 6
  BY DEF GetRange
<1>10. b = 244 => GetRange(b) = 5
  BY DEF GetRange
<1>11. b \in 225..239 /\ b # 237 => GetRange(b) = 3
  BY DEF GetRange
<1>12. b \in 192..193 \/ b \in 245..255 => GetRange(b) = 8
  BY DEF GetRange
<1> QED
  BY <1>1, <1>2, <1>3, <1>4, <1>5, <1>6, <1>7, <1>8, <1>9, <1>10, <1>11, <1>12

\* What follows a byte of each class.
LEMMA FollowOf ==
    /\ Follow(2) = <<AnyTail>> /\ Follow(3) = <<AnyTail, AnyTail>>
    /\ Follow(4) = <<{16, 64}, AnyTail>> /\ Follow(10) = <<{32}, AnyTail>>
    /\ Follow(5) = <<{16}, AnyTail, AnyTail>> /\ Follow(6) = <<AnyTail, AnyTail, AnyTail>>
    /\ Follow(11) = <<{32, 64}, AnyTail, AnyTail>>
    /\ \A class \in {0, 8, 16, 32, 64} : Follow(class) = <<>>
BY DEF Follow

\* The bits of a code point in each first byte.
LEMMA LeadBitsOf ==
    ASSUME NEW n \in Nat
    PROVE  /\ n < 32 => LeadBits(2, 192 + n) = n
           /\ n < 16 => \A class \in {3, 4, 10} : LeadBits(class, 224 + n) = n
           /\ n < 16 => \A class \in {5, 6, 11} : LeadBits(class, 240 + n) = n
<1>1. n < 32 => (192 + n) % 64 = n
  BY SMT
<1>2. n < 16 => (224 + n) % 32 = n /\ (240 + n) % 16 = n
  BY SMT
<1> QED
  BY <1>1, <1>2, SMT DEF LeadBits

\* The bits of a code point in the bytes that follow.
LEMMA TailOf ==
    ASSUME NEW b \in Nat, b < 256
    PROVE  /\ Continues(b) <=> GetRange(b) \in AnyTail
           /\ Continues(b) => b % 64 = b - 128
<1>1. Continues(b) <=> GetRange(b) \in AnyTail
  BY RangeOf DEF Continues, AnyTail
<1>2. Continues(b) => b % 64 = b - 128
  BY SMT DEF Continues
<1> QED
  BY <1>1, <1>2

-------------------------------------------------------------------------------
(* UTF8::Encode and UTF8::Decode. *)

\* The shapes of the bytes of a character, by the bits that each byte has.
Shape2(c, q, r) ==
    /\ c = 64 * q + r /\ 2 <= q /\ q < 32 /\ r < 64
    /\ Encode(c) = <<192 + q, 128 + r>>
Shape3(c, t, s, r) ==
    /\ c = 4096 * t + 64 * s + r /\ t < 16 /\ s < 64 /\ r < 64
    /\ t = 0 => 32 <= s
    /\ t = 13 => s < 32
    /\ Encode(c) = <<224 + t, 128 + s, 128 + r>>
Shape4(c, u, w, s, r) ==
    /\ c = 262144 * u + 4096 * w + 64 * s + r
    /\ u <= 4 /\ w < 64 /\ s < 64 /\ r < 64
    /\ u = 0 => 16 <= w
    /\ u = 4 => w < 16
    /\ Encode(c) = <<240 + u, 128 + w, 128 + s, 128 + r>>

\* The bytes that follow a first byte are looked at one after the other.
LEMMA Validate2 ==
    ASSUME NEW text, NEW i \in Nat, NEW A, Follow(GetRange(At(text, i))) = <<A>>
    PROVE  /\ Validate(text, i).ok <=> GetRange(At(text, i + 1)) \in A
           /\ Validate(text, i).length = 2
<1>1. Len(<<A>>) = 1 /\ <<A>>[1] = A /\ <<A>> # <<>>
  OBVIOUS
<1>2. Validate(text, i).length = 2
  BY <1>1 DEF Validate
<1>3. Validate(text, i).ok <=> \A k \in 1..1 : GetRange(At(text, i + k)) \in <<A>>[k]
  BY <1>1, Zenon DEF Validate
<1> QED
  BY <1>1, <1>2, <1>3

\* Both of two.
LEMMA Validate3 ==
    ASSUME NEW text, NEW i \in Nat, NEW A, NEW B, Follow(GetRange(At(text, i))) = <<A, B>>
    PROVE  /\ Validate(text, i).ok <=> /\ GetRange(At(text, i + 1)) \in A
                                       /\ GetRange(At(text, i + 2)) \in B
           /\ Validate(text, i).length = 3
<1>1. Len(<<A, B>>) = 2 /\ <<A, B>>[1] = A /\ <<A, B>>[2] = B /\ <<A, B>> # <<>>
  OBVIOUS
<1>2. Validate(text, i).length = 3
  BY <1>1 DEF Validate
<1>3. Validate(text, i).ok <=> \A k \in 1..2 : GetRange(At(text, i + k)) \in <<A, B>>[k]
  BY <1>1, Zenon DEF Validate
<1> QED
  BY <1>1, <1>2, <1>3

\* All of three.
LEMMA Validate4 ==
    ASSUME NEW text, NEW i \in Nat, NEW A, NEW B, NEW C,
           Follow(GetRange(At(text, i))) = <<A, B, C>>
    PROVE  /\ Validate(text, i).ok <=> /\ GetRange(At(text, i + 1)) \in A
                                       /\ GetRange(At(text, i + 2)) \in B
                                       /\ GetRange(At(text, i + 3)) \in C
           /\ Validate(text, i).length = 4
<1>1. /\ Len(<<A, B, C>>) = 3 /\ <<A, B, C>> # <<>>
      /\ <<A, B, C>>[1] = A /\ <<A, B, C>>[2] = B /\ <<A, B, C>>[3] = C
  OBVIOUS
<1>2. Validate(text, i).length = 4
  BY <1>1 DEF Validate
<1>3. Validate(text, i).ok <=> \A k \in 1..3 : GetRange(At(text, i + k)) \in <<A, B, C>>[k]
  BY <1>1, Zenon DEF Validate
<1> QED
  BY <1>1, <1>2, <1>3

\* A character of one byte is decoded.
LEMMA OneByteDecoded ==
    ASSUME NEW c \in Nat, c <= 127, NEW text, NEW i \in Nat, At(text, i) = c
    PROVE  Decode(text, i).ok /\ Decode(text, i).length = 1 /\ Decode(text, i).code = c
<1>1. GetRange(c) = 0
  BY RangeOf
<1>2. Follow(0) = <<>>
  BY FollowOf
<1>3. Validate(text, i).ok /\ Validate(text, i).length = 1
  BY <1>1, <1>2 DEF Validate
<1> QED
  BY <1>3 DEF Decode

\* A character of two bytes is decoded.
LEMMA TwoBytesDecoded ==
    ASSUME NEW c, NEW q \in Nat, NEW r \in Nat, Shape2(c, q, r), NEW text, NEW i \in Nat,
           At(text, i) = 192 + q, At(text, i + 1) = 128 + r
    PROVE  Decode(text, i).ok /\ Decode(text, i).length = 2 /\ Decode(text, i).code = c
<1> c = 64 * q + r /\ 2 <= q /\ q < 32 /\ r < 64
  BY SMT DEF Shape2
<1>1. GetRange(At(text, i)) = 2
  BY RangeOf
<1>2. GetRange(At(text, i + 1)) \in AnyTail
  BY RangeOf DEF AnyTail
<1>3. LeadBits(2, 192 + q) = q /\ (128 + r) % 64 = r
  BY LeadBitsOf, TailOf, SMT DEF Continues
<1>4. Follow(2) = <<AnyTail>>
  BY FollowOf
<1>5. Validate(text, i).ok /\ Validate(text, i).length = 2
  <2>1. Follow(GetRange(At(text, i))) = <<AnyTail>>
    BY <1>1, <1>4
  <2> QED
    BY <1>2, <2>1, Validate2
<1>6. Decode(text, i).code = c
  BY <1>1, <1>3, <1>5, SMT DEF Decode
<1>7. Decode(text, i).ok /\ Decode(text, i).length = 2
  BY <1>5 DEF Decode
<1> QED
  BY <1>6, <1>7

\* A character of three bytes is decoded.
LEMMA ThreeBytesDecoded ==
    ASSUME NEW c, NEW t \in Nat, NEW s \in Nat, NEW r \in Nat, Shape3(c, t, s, r),
           NEW text, NEW i \in Nat,
           At(text, i) = 224 + t, At(text, i + 1) = 128 + s, At(text, i + 2) = 128 + r
    PROVE  Decode(text, i).ok /\ Decode(text, i).length = 3 /\ Decode(text, i).code = c
<1> t < 16 /\ s < 64 /\ r < 64 /\ (t = 0 => 32 <= s) /\ (t = 13 => s < 32)
  BY SMT DEF Shape3
<1>1. GetRange(At(text, i + 2)) \in AnyTail
  BY RangeOf DEF AnyTail
<1>2. /\ (128 + s) % 64 = s /\ (128 + r) % 64 = r
      /\ \A class \in {3, 4, 10} : LeadBits(class, 224 + t) = t
  BY LeadBitsOf, TailOf, SMT DEF Continues
<1>3. /\ GetRange(At(text, i)) \in {3, 4, 10}
      /\ Validate(text, i).ok /\ Validate(text, i).length = 3
  <2>1. CASE t = 0
    <3>1. GetRange(At(text, i)) = 10 /\ GetRange(At(text, i + 1)) = 32
      BY <2>1, RangeOf
    <3>2. Follow(GetRange(At(text, i))) = <<{32}, AnyTail>>
      BY <3>1, FollowOf
    <3> QED
      BY <1>1, <3>1, <3>2, Validate3
  <2>2. CASE t = 13
    <3>1. GetRange(At(text, i)) = 4 /\ GetRange(At(text, i + 1)) \in {16, 64}
      BY <2>2, RangeOf
    <3>2. Follow(GetRange(At(text, i))) = <<{16, 64}, AnyTail>>
      BY <3>1, FollowOf
    <3> QED
      BY <1>1, <3>1, <3>2, Validate3
  <2>3. CASE t # 0 /\ t # 13
    <3>1. GetRange(At(text, i)) = 3 /\ GetRange(At(text, i + 1)) \in AnyTail
      BY <2>3, RangeOf DEF AnyTail
    <3>2. Follow(GetRange(At(text, i))) = <<AnyTail, AnyTail>>
      BY <3>1, FollowOf
    <3> QED
      BY <1>1, <3>1, <3>2, Validate3
  <2> QED
    BY <2>1, <2>2, <2>3
<1>4. Decode(text, i).code = c
  <2>1. Decode(text, i).code = 4096 * t + 64 * s + r
    BY <1>2, <1>3, SMT DEF Decode
  <2> QED
    BY <2>1, SMT DEF Shape3
<1>5. Decode(text, i).ok /\ Decode(text, i).length = 3
  BY <1>3 DEF Decode
<1> QED
  BY <1>4, <1>5

\* A character of four bytes is decoded.
LEMMA FourBytesDecoded ==
    ASSUME NEW c, NEW u \in Nat, NEW w \in Nat, NEW s \in Nat, NEW r \in Nat,
           Shape4(c, u, w, s, r), NEW text, NEW i \in Nat,
           At(text, i) = 240 + u, At(text, i + 1) = 128 + w,
           At(text, i + 2) = 128 + s, At(text, i + 3) = 128 + r
    PROVE  Decode(text, i).ok /\ Decode(text, i).length = 4 /\ Decode(text, i).code = c
<1> u <= 4 /\ w < 64 /\ s < 64 /\ r < 64 /\ (u = 0 => 16 <= w) /\ (u = 4 => w < 16)
  BY SMT DEF Shape4
<1>1. GetRange(At(text, i + 2)) \in AnyTail /\ GetRange(At(text, i + 3)) \in AnyTail
  BY RangeOf DEF AnyTail
<1>2. /\ (128 + w) % 64 = w /\ (128 + s) % 64 = s /\ (128 + r) % 64 = r
      /\ \A class \in {5, 6, 11} : LeadBits(class, 240 + u) = u
  BY LeadBitsOf, TailOf, SMT DEF Continues
<1>3. /\ GetRange(At(text, i)) \in {5, 6, 11}
      /\ Validate(text, i).ok /\ Validate(text, i).length = 4
  <2>1. CASE u = 0
    <3>1. GetRange(At(text, i)) = 11 /\ GetRange(At(text, i + 1)) \in {32, 64}
      BY <2>1, RangeOf
    <3>2. Follow(GetRange(At(text, i))) = <<{32, 64}, AnyTail, AnyTail>>
      BY <3>1, FollowOf
    <3> QED
      BY <1>1, <3>1, <3>2, Validate4
  <2>2. CASE u = 4
    <3>1. GetRange(At(text, i)) = 5 /\ GetRange(At(text, i + 1)) \in {16}
      BY <2>2, RangeOf
    <3>2. Follow(GetRange(At(text, i))) = <<{16}, AnyTail, AnyTail>>
      BY <3>1, FollowOf
    <3> QED
      BY <1>1, <3>1, <3>2, Validate4
  <2>3. CASE u # 0 /\ u # 4
    <3>1. GetRange(At(text, i)) = 6 /\ GetRange(At(text, i + 1)) \in AnyTail
      BY <2>3, RangeOf DEF AnyTail
    <3>2. Follow(GetRange(At(text, i))) = <<AnyTail, AnyTail, AnyTail>>
      BY <3>1, FollowOf
    <3> QED
      BY <1>1, <3>1, <3>2, Validate4
  <2> QED
    BY <2>1, <2>2, <2>3
<1>4. Decode(text, i).code = c
  <2>1. Decode(text, i).code = 262144 * u + 4096 * w + 64 * s + r
    BY <1>2, <1>3, SMT DEF Decode
  <2> QED
    BY <2>1, SMT DEF Shape4
<1>5. Decode(text, i).ok /\ Decode(text, i).length = 4
  BY <1>3 DEF Decode
<1> QED
  BY <1>4, <1>5

\* Every character has one of them.
LEMMA Encoded ==
    ASSUME NEW c \in Scalars
    PROVE  \/ c \in Nat /\ c <= 127 /\ Encode(c) = <<c>>
           \/ \E q, r \in Nat : Shape2(c, q, r)
           \/ \E t, s, r \in Nat : Shape3(c, t, s, r)
           \/ \E u, w, s, r \in Nat : Shape4(c, u, w, s, r)
<1>1. c \in Nat /\ c <= 1114111 /\ (c < 55296 \/ 57343 < c)
  BY SMT DEF Scalars
<1>2. CASE c <= 127
  BY <1>1, <1>2, SMT DEF Encode
<1>3. CASE 127 < c /\ c <= 2047
  BY <1>1, <1>3, TwoBytes, SMT DEF Shape2
<1>4. CASE 2047 < c /\ c <= 65535
  BY <1>1, <1>4, ThreeBytes, SMT DEF Shape3
<1>5. CASE 65535 < c
  BY <1>1, <1>5, FourBytes, SMT DEF Shape4
<1> QED
  BY <1>1, <1>2, <1>3, <1>4, <1>5, SMT

\* What UTF8::Encode makes of a character, UTF8::Decode reads as that character,
\* wherever it stands in a text.
THEOREM EncodedIsDecoded ==
    ASSUME NEW c \in Scalars, NEW text, NEW i \in Nat, HoldsAt(text, i, Encode(c))
    PROVE  /\ Decode(text, i).ok /\ Decode(text, i).length = Len(Encode(c))
           /\ Decode(text, i).code = c
<1> DEFINE Whole ==
        /\ Decode(text, i).ok /\ Decode(text, i).length = Len(Encode(c))
        /\ Decode(text, i).code = c
<1> HIDE DEF Whole
<1>1. ASSUME c \in Nat, c <= 127, Encode(c) = <<c>> PROVE Whole
  <2>1. At(text, i) = c /\ Len(<<c>>) = 1
    <3>1. HoldsAt(text, i, <<c>>)
      BY <1>1
    <3> QED
      BY <3>1, SMT DEF HoldsAt
  <2>2. Decode(text, i).ok /\ Decode(text, i).length = 1 /\ Decode(text, i).code = c
    BY <1>1, <2>1, OneByteDecoded
  <2> QED
    BY <1>1, <2>1, <2>2 DEF Whole
<1>2. ASSUME NEW q \in Nat, NEW r \in Nat, Shape2(c, q, r) PROVE Whole
  <2>1. At(text, i) = 192 + q /\ At(text, i + 1) = 128 + r
    <3>1. HoldsAt(text, i, <<192 + q, 128 + r>>)
      BY <1>2 DEF Shape2
    <3> QED
      BY <3>1, SMT DEF HoldsAt
  <2>2. Decode(text, i).ok /\ Decode(text, i).length = 2 /\ Decode(text, i).code = c
    BY <1>2, <2>1, TwoBytesDecoded
  <2> QED
    BY <1>2, <2>2 DEF Whole, Shape2
<1>3. ASSUME NEW t \in Nat, NEW s \in Nat, NEW r \in Nat, Shape3(c, t, s, r) PROVE Whole
  <2>1. At(text, i) = 224 + t /\ At(text, i + 1) = 128 + s /\ At(text, i + 2) = 128 + r
    <3>1. HoldsAt(text, i, <<224 + t, 128 + s, 128 + r>>)
      BY <1>3, SMT DEF Shape3
    <3> QED
      BY <3>1, SMT DEF HoldsAt
  <2>2. Decode(text, i).ok /\ Decode(text, i).length = 3 /\ Decode(text, i).code = c
    BY <1>3, <2>1, ThreeBytesDecoded
  <2> QED
    BY <1>3, <2>2, SMT DEF Whole, Shape3
<1>4. ASSUME NEW u \in Nat, NEW w \in Nat, NEW s \in Nat, NEW r \in Nat,
             Shape4(c, u, w, s, r)
      PROVE  Whole
  <2>1. /\ At(text, i) = 240 + u /\ At(text, i + 1) = 128 + w
        /\ At(text, i + 2) = 128 + s /\ At(text, i + 3) = 128 + r
    <3>1. HoldsAt(text, i, <<240 + u, 128 + w, 128 + s, 128 + r>>)
      BY <1>4, SMT DEF Shape4
    <3> QED
      BY <3>1, SMT DEF HoldsAt
  <2>2. Decode(text, i).ok /\ Decode(text, i).length = 4 /\ Decode(text, i).code = c
    BY <1>4, <2>1, FourBytesDecoded
  <2> QED
    BY <1>4, <2>2, SMT DEF Whole, Shape4
<1>5. Whole
  BY <1>1, <1>2, <1>3, <1>4, Encoded
<1> QED
  BY <1>5 DEF Whole

\* A byte below 128 is a character.
LEMMA OneByteEncoded ==
    ASSUME NEW c \in Nat, c < 128
    PROVE  c \in Scalars /\ Encode(c) = <<c>>
BY SMT DEF Encode, Scalars

\* The bits of the bytes make a character, and its shortest form.
LEMMA TwoBytesEncoded ==
    ASSUME NEW q \in Nat, NEW r \in Nat, 2 <= q, q < 32, r < 64
    PROVE  \E c \in Scalars : Shape2(c, q, r)
<1> DEFINE c == 64 * q + r
<1>1. c \in Nat /\ 127 < c /\ c <= 2047
  BY SMT
<1>2. c \div 64 = q /\ c % 64 = r
  BY SMT
<1> HIDE DEF c
<1>3. Encode(c) = <<192 + q, 128 + r>>
  BY <1>1, <1>2, SMT DEF Encode, Tail6
<1>4. c \in Scalars
  BY <1>1, SMT DEF Scalars
<1>5. Shape2(c, q, r)
  BY <1>3, SMT DEF Shape2, c
<1> QED
  BY <1>4, <1>5, Zenon

\* Those of three bytes, where neither an overlong nor a half of a pair is meant.
LEMMA ThreeBytesEncoded ==
    ASSUME NEW t \in Nat, NEW s \in Nat, NEW r \in Nat, t < 16, s < 64, r < 64,
           t = 0 => 32 <= s, t = 13 => s < 32
    PROVE  \E c \in Scalars : Shape3(c, t, s, r)
<1> DEFINE c == 4096 * t + 64 * s + r
           q == 64 * t + s
<1>1. c \in Nat /\ 2047 < c /\ c <= 65535 /\ (c < 55296 \/ 57343 < c) /\ q \in Nat
  BY SMT
<1>2. c \div 64 = q /\ c % 64 = r
  BY SMT
<1>3. q \div 64 = t /\ q % 64 = s
  BY SMT
<1> HIDE DEF c, q
<1>4. c \div 4096 = t
  BY <1>1, <1>2, <1>3, Nested, SMT
<1>5. Encode(c) = <<224 + t, 128 + s, 128 + r>>
  BY <1>1, <1>2, <1>3, <1>4, SMT DEF Encode, Tail6
<1>6. c \in Scalars
  BY <1>1, SMT DEF Scalars
<1>7. Shape3(c, t, s, r)
  BY <1>5, SMT DEF Shape3, c
<1> QED
  BY <1>6, <1>7, Zenon

\* Those of four bytes.
LEMMA FourBytesEncoded ==
    ASSUME NEW u \in Nat, NEW w \in Nat, NEW s \in Nat, NEW r \in Nat,
           u <= 4, w < 64, s < 64, r < 64, u = 0 => 16 <= w, u = 4 => w < 16
    PROVE  \E c \in Scalars : Shape4(c, u, w, s, r)
<1> DEFINE t == 64 * u + w
           q == 64 * t + s
           c == 64 * q + r
<1>1. t \in Nat /\ t \div 64 = u /\ t % 64 = w
  BY SMT
<1>2. q \in Nat /\ q \div 64 = t /\ q % 64 = s
  <2> HIDE DEF t
  <2> QED
    BY <1>1, SMT
<1>3. c \in Nat /\ c \div 64 = q /\ c % 64 = r
  <2> HIDE DEF q
  <2> QED
    BY <1>2, SMT
<1>4. c = 262144 * u + 4096 * w + 64 * s + r
  BY SMT
<1>5. 65535 < c /\ c <= 1114111
  <2> HIDE DEF c
  <2> QED
    BY <1>4, SMT
<1> HIDE DEF c, q, t
<1>6. c \div 4096 = t /\ c \div 262144 = u
  BY <1>1, <1>2, <1>3, Nested, SMT
<1>7. Encode(c) = <<240 + u, 128 + w, 128 + s, 128 + r>>
  BY <1>1, <1>2, <1>3, <1>5, <1>6, SMT DEF Encode, Tail6
<1>8. c \in Scalars
  BY <1>3, <1>5, SMT DEF Scalars
<1>9. Shape4(c, u, w, s, r)
  BY <1>4, <1>7, SMT DEF Shape4
<1> QED
  BY <1>8, <1>9, Zenon

\* The bytes that a class of followers lets through.
LEMMA BytesOf ==
    ASSUME NEW b \in Nat, b < 256
    PROVE  /\ GetRange(b) = 0 => b < 128
           /\ GetRange(b) \in AnyTail => 128 <= b /\ b < 192
           /\ GetRange(b) \in {16} => 128 <= b /\ b < 144
           /\ GetRange(b) \in {32} => 160 <= b /\ b < 192
           /\ GetRange(b) \in {16, 64} => 128 <= b /\ b < 160
           /\ GetRange(b) \in {32, 64} => 144 <= b /\ b < 192
BY RangeOf DEF AnyTail

\* What follows a first byte of three or of four.
Second(b) ==
    CASE b = 224 -> {32} [] b = 237 -> {16, 64} [] b = 240 -> {32, 64} [] b = 244 -> {16}
      [] OTHER -> AnyTail
LEMMA LeadOf ==
    ASSUME NEW b \in Nat
    PROVE  /\ 224 <= b /\ b < 240 => Follow(GetRange(b)) = <<Second(b), AnyTail>>
           /\ 240 <= b /\ b < 245 => Follow(GetRange(b)) = <<Second(b), AnyTail, AnyTail>>
<1>1. CASE b = 224
  BY <1>1, RangeOf, FollowOf DEF Second
<1>2. CASE b = 237
  BY <1>2, RangeOf, FollowOf DEF Second
<1>3. CASE b = 240
  BY <1>3, RangeOf, FollowOf DEF Second
<1>4. CASE b = 244
  BY <1>4, RangeOf, FollowOf DEF Second
<1>5. CASE b \notin {224, 237, 240, 244}
  <2>1. Second(b) = AnyTail
    BY <1>5 DEF Second
  <2>2. ASSUME 224 <= b, b < 240 PROVE Follow(GetRange(b)) = <<AnyTail, AnyTail>>
    BY <1>5, <2>2, RangeOf, FollowOf
  <2>3. ASSUME 240 <= b, b < 245 PROVE Follow(GetRange(b)) = <<AnyTail, AnyTail, AnyTail>>
    BY <1>5, <2>3, RangeOf, FollowOf
  <2> QED
    BY <2>1, <2>2, <2>3
<1> QED
  BY <1>1, <1>2, <1>3, <1>4, <1>5

\* A text of characters of one byte is made of bytes, and so is what At gives.
Bytes == {b \in Nat : b < 256}
LEMMA AtByte ==
    ASSUME NEW text \in Seq(Bytes), NEW i \in Nat
    PROVE  At(text, i) \in Nat /\ At(text, i) < 256
BY DEF At, Bytes

\* UTF8::Decode takes nothing but a character in its shortest form: no overlong form,
\* no half of a pair, nothing beyond the last code point, nothing cut off.
THEOREM DecodedIsEncoded ==
    ASSUME NEW text \in Seq(Bytes), NEW i \in Nat, Decode(text, i).ok
    PROVE  /\ Decode(text, i).code \in Scalars
           /\ Decode(text, i).length = Len(Encode(Decode(text, i).code))
           /\ HoldsAt(text, i, Encode(Decode(text, i).code))
<1> DEFINE Whole ==
        /\ Decode(text, i).code \in Scalars
        /\ Decode(text, i).length = Len(Encode(Decode(text, i).code))
        /\ HoldsAt(text, i, Encode(Decode(text, i).code))
<1> SUFFICES Whole
  OBVIOUS
<1> HIDE DEF Whole
<1> DEFINE a == At(text, i)
           b == At(text, i + 1)
           d == At(text, i + 2)
           e == At(text, i + 3)
<1>1. /\ a \in Nat /\ a < 256 /\ b \in Nat /\ b < 256
      /\ d \in Nat /\ d < 256 /\ e \in Nat /\ e < 256
  <2>1. i + 1 \in Nat /\ i + 2 \in Nat /\ i + 3 \in Nat
    OBVIOUS
  <2> QED
    BY <2>1, AtByte, Zenon
<1>2. Validate(text, i).ok
  BY DEF Decode
<1> HIDE DEF a, b, d, e
<1>3. CASE a < 128
  <2>1. Decode(text, i).code = a /\ Decode(text, i).length = 1
    BY <1>1, <1>3, OneByteDecoded DEF a
  <2>2. Encode(a) = <<a>> /\ a \in Scalars
    BY <1>1, <1>3, OneByteEncoded
  <2>3. HoldsAt(text, i, <<a>>)
    BY SMT DEF HoldsAt, a
  <2> QED
    BY <2>1, <2>2, <2>3 DEF Whole
<1>4. CASE (128 <= a /\ a < 194) \/ 245 <= a
  <2>1. GetRange(a) \in {8, 16, 32, 64}
    BY <1>1, <1>4, RangeOf
  <2>2. Follow(GetRange(a)) = <<>> /\ GetRange(a) # 0
    BY <2>1, FollowOf
  <2> QED
    BY <1>2, <2>2 DEF Validate, a
<1>5. CASE 194 <= a /\ a < 224
  <2>1. GetRange(a) = 2 /\ Follow(2) = <<AnyTail>>
    BY <1>1, <1>5, RangeOf, FollowOf
  <2>2. GetRange(b) \in AnyTail
    BY <1>2, <2>1, Validate2 DEF a, b
  <2>3. 128 <= b /\ b < 192
    BY <1>1, <2>2, BytesOf
  <2>4. PICK q \in Nat, r \in Nat :
            a = 192 + q /\ b = 128 + r /\ 2 <= q /\ q < 32 /\ r < 64
    <3>1. a - 192 \in Nat /\ b - 128 \in Nat
      BY <1>1, <1>5, <2>3, SMT
    <3> QED
      BY <1>1, <1>5, <2>3, <3>1, SMT
  <2>5. PICK c \in Scalars : Shape2(c, q, r)
    BY <2>4, TwoBytesEncoded
  <2>6. Decode(text, i).length = 2 /\ Decode(text, i).code = c
    BY <2>4, <2>5, TwoBytesDecoded DEF a, b
  <2>7. HoldsAt(text, i, <<192 + q, 128 + r>>)
    BY <2>4, SMT DEF HoldsAt, a, b
  <2> QED
    BY <2>5, <2>6, <2>7, SMT DEF Whole, Shape2
<1>6. CASE 224 <= a /\ a < 240
  <2>2. Follow(GetRange(a)) = <<Second(a), AnyTail>>
    BY <1>1, <1>6, LeadOf
  <2>3. GetRange(b) \in Second(a) /\ GetRange(d) \in AnyTail
    BY <1>2, <2>2, Validate3 DEF a, b, d
  <2>4. 128 <= b /\ b < 192 /\ (a = 224 => 160 <= b) /\ (a = 237 => b < 160)
    BY <1>1, <2>3, BytesOf DEF Second
  <2>5. 128 <= d /\ d < 192
    BY <1>1, <2>3, BytesOf
  <2>6. PICK t \in Nat, s \in Nat, r \in Nat :
            /\ a = 224 + t /\ b = 128 + s /\ d = 128 + r /\ t < 16 /\ s < 64 /\ r < 64
            /\ t = 0 => 32 <= s
            /\ t = 13 => s < 32
    <3>1. a - 224 \in Nat /\ b - 128 \in Nat /\ d - 128 \in Nat
      BY <1>1, <1>6, <2>4, <2>5, SMT
    <3> QED
      BY <1>1, <1>6, <2>4, <2>5, <3>1, SMT
  <2>7. PICK c \in Scalars : Shape3(c, t, s, r)
    BY <2>6, ThreeBytesEncoded
  <2>8. Decode(text, i).length = 3 /\ Decode(text, i).code = c
    BY <2>6, <2>7, ThreeBytesDecoded DEF a, b, d
  <2>9. HoldsAt(text, i, <<224 + t, 128 + s, 128 + r>>)
    BY <2>6, SMT DEF HoldsAt, a, b, d
  <2> QED
    BY <2>7, <2>8, <2>9, SMT DEF Whole, Shape3
<1>7. CASE 240 <= a /\ a < 245
  <2>2. Follow(GetRange(a)) = <<Second(a), AnyTail, AnyTail>>
    BY <1>1, <1>7, LeadOf
  <2>3. GetRange(b) \in Second(a) /\ GetRange(d) \in AnyTail /\ GetRange(e) \in AnyTail
    BY <1>2, <2>2, Validate4 DEF a, b, d, e
  <2>4. 128 <= b /\ b < 192 /\ (a = 240 => 144 <= b) /\ (a = 244 => b < 144)
    BY <1>1, <1>7, <2>3, BytesOf DEF Second
  <2>5. 128 <= d /\ d < 192 /\ 128 <= e /\ e < 192
    BY <1>1, <2>3, BytesOf
  <2>6. PICK u \in Nat, w \in Nat, s \in Nat, r \in Nat :
            /\ a = 240 + u /\ b = 128 + w /\ d = 128 + s /\ e = 128 + r
            /\ u <= 4 /\ w < 64 /\ s < 64 /\ r < 64
            /\ u = 0 => 16 <= w
            /\ u = 4 => w < 16
    <3>1. a - 240 \in Nat /\ b - 128 \in Nat /\ d - 128 \in Nat /\ e - 128 \in Nat
      BY <1>1, <1>7, <2>4, <2>5, SMT
    <3> QED
      BY <1>1, <1>7, <2>4, <2>5, <3>1, SMT
  <2>7. PICK c \in Scalars : Shape4(c, u, w, s, r)
    BY <2>6, FourBytesEncoded
  <2>8. Decode(text, i).length = 4 /\ Decode(text, i).code = c
    BY <2>6, <2>7, FourBytesDecoded DEF a, b, d, e
  <2>9. HoldsAt(text, i, <<240 + u, 128 + w, 128 + s, 128 + r>>)
    BY <2>6, SMT DEF HoldsAt, a, b, d, e
  <2> QED
    BY <2>7, <2>8, <2>9, SMT DEF Whole, Shape4
<1> QED
  BY <1>1, <1>3, <1>4, <1>5, <1>6, <1>7, SMT

-------------------------------------------------------------------------------
(* Texts in pieces. *)

\* A set of numbers has a smallest member.
LEMMA Smallest ==
    ASSUME NEW T, T \subseteq Nat, T # {}
    PROVE  \E m \in T : \A k \in T : m <= k
<1> DEFINE L == {r \in Nat \X Nat : r[1] < r[2]}
<1>1. IsWellFoundedOn(L, Nat)
  BY NatLessThanWellFounded, Zenon DEF OpToRel
<1> HIDE DEF L
<1>2. PICK m \in T : \A k \in T : <<k, m>> \notin L
  BY <1>1, WFMin
<1>3. ASSUME NEW k \in T PROVE m <= k
  <2>1. ~ (k < m)
    BY <1>2 DEF L
  <2> QED
    BY <2>1
<1> QED
  BY <1>3

\* A set of numbers has a largest member if it is bounded.
LEMMA Largest ==
    ASSUME NEW T, T \subseteq Nat, T # {}, NEW n \in Nat, \A k \in T : k <= n
    PROVE  \E m \in T : \A k \in T : k <= m
<1> DEFINE D == {n - k : k \in T}
<1>1. D \subseteq Nat /\ D # {}
  <2>1. ASSUME NEW k \in T PROVE n - k \in Nat
    <3>1. k \in Nat /\ k <= n
      OBVIOUS
    <3> QED
      BY <3>1
  <2>2. PICK k \in T : TRUE
    OBVIOUS
  <2> QED
    BY <2>1, <2>2
<1> HIDE DEF D
<1>2. PICK j \in D : \A k \in D : j <= k
  BY <1>1, Smallest
<1>3. PICK m \in T : j = n - m
  BY DEF D
<1>4. ASSUME NEW k \in T PROVE k <= m
  <2>1. n - k \in D
    BY DEF D
  <2> QED
    BY <1>2, <1>3, <2>1
<1> QED
  BY <1>4

\* A read takes what it is asked for, or what is left.
Stream(data, k) == [data |-> data, seekLocation |-> k]
Count(data, k, size) == IF k + size <= Len(data) THEN size ELSE Len(data) - k
LEMMA ReadGives ==
    ASSUME NEW data \in Seq(Bytes), NEW k \in Nat, NEW size \in Nat, k <= Len(data)
    PROVE  LET n == Count(data, k, size)
               got == Read(Stream(data, k), size)
           IN /\ n \in Nat /\ k + n <= Len(data) /\ got.bytesRead = n
              /\ got.bytes = SubSeq(data, k + 1, k + n) /\ got.stream = Stream(data, k + n)
<1> DEFINE n == Count(data, k, size)
<1>1. n \in Nat /\ k + n <= Len(data)
  BY DEF Count
<1>2. n = IF size > Len(data) - k THEN Len(data) - k ELSE size
  BY DEF Count
<1> HIDE DEF n
<1>3. /\ Read(Stream(data, k), size).bytesRead = n
      /\ Read(Stream(data, k), size).bytes = SubSeq(data, k + 1, k + n)
      /\ Read(Stream(data, k), size).stream = Stream(data, k + n)
  BY <1>2 DEF Read, Stream
<1> QED
  BY <1>1, <1>3 DEF n

\* What a piece of a text holds.
LEMMA PieceHolds ==
    ASSUME NEW data \in Seq(Bytes), NEW k \in Nat, NEW n \in Nat, k + n <= Len(data)
    PROVE  /\ SubSeq(data, k + 1, k + n) \in Seq(Bytes)
           /\ Len(SubSeq(data, k + 1, k + n)) = n
           /\ \A i \in Nat : i < n => At(SubSeq(data, k + 1, k + n), i) = At(data, k + i)
<1>1. \A i \in (k + 1)..(k + n) : data[i] \in Bytes
  OBVIOUS
<1>2. /\ SubSeq(data, k + 1, k + n) \in Seq(Bytes)
      /\ Len(SubSeq(data, k + 1, k + n)) = (IF k + 1 <= k + n THEN k + n - (k + 1) + 1 ELSE 0)
      /\ \A i \in 1..(k + n - (k + 1) + 1) : SubSeq(data, k + 1, k + n)[i] = data[k + 1 + i - 1]
  BY <1>1, SubSeqProperties
<1> QED
  BY <1>2 DEF At

\* The places of a text at which a character begins, or the text ends.
Starts(data) == {i \in Nat : i < Len(data) /\ ~Continues(At(data, i))} \cup {Len(data)}

\* A text begins with a character, and each is followed by another or by the end.
IsText(data) ==
    /\ 0 \in Starts(data)
    /\ \A i \in Starts(data) : i < Len(data) => i + CharacterLength(At(data, i)) \in Starts(data)

\* What LastLead passes over.
LEMMA ContinuesOf ==
    ASSUME NEW b \in Nat
    PROVE  b \in 128..191 <=> Continues(b)
BY DEF Continues

\* LastLead finds the last byte of a chunk that begins a character.
LEMMA LastLeadFound ==
    ASSUME NEW buffer \in Seq(Bytes), buffer # <<>>, ~Continues(At(buffer, 0))
    PROVE  /\ LastLead(buffer) \in Nat /\ LastLead(buffer) < Len(buffer)
           /\ ~Continues(At(buffer, LastLead(buffer)))
           /\ \A i \in Nat : LastLead(buffer) < i /\ i < Len(buffer) => Continues(At(buffer, i))
<1> DEFINE leads == {i \in 0..Len(buffer) - 1 : At(buffer, i) \notin 128..191}
<1>1. ASSUME NEW i \in Nat PROVE At(buffer, i) \in 128..191 <=> Continues(At(buffer, i))
  BY AtByte, ContinuesOf
<1>2. Len(buffer) \in Nat /\ Len(buffer) > 0
  OBVIOUS
<1>3. ASSUME NEW i
      PROVE  i \in leads <=> i \in Nat /\ i < Len(buffer) /\ ~Continues(At(buffer, i))
  <2>1. i \in 0..Len(buffer) - 1 <=> i \in Nat /\ i < Len(buffer)
    BY <1>2
  <2> QED
    BY <1>1, <2>1, Zenon
<1>4. 0 \in leads /\ leads \subseteq Nat /\ \A i \in leads : i <= Len(buffer)
  <2> HIDE DEF leads
  <2> QED
    BY <1>2, <1>3
<1>5. LastLead(buffer) = CHOOSE i \in leads : \A j \in leads : j <= i
  BY DEF LastLead
<1> HIDE DEF leads
<1>6. \E i \in leads : \A j \in leads : j <= i
  BY <1>2, <1>4, Largest
<1>7. LastLead(buffer) \in leads /\ \A j \in leads : j <= LastLead(buffer)
  BY <1>5, <1>6
<1>8. ASSUME NEW i \in Nat, LastLead(buffer) < i, i < Len(buffer)
      PROVE  Continues(At(buffer, i))
  <2>1. i \notin leads
    BY <1>3, <1>7, <1>8
  <2> QED
    BY <1>3, <1>8, <2>1
<1> QED
  BY <1>3, <1>7, <1>8

\* A chunk parts no character and skips none: read from the beginning of a character
\* it ends at the beginning of another or at the end of the text, with all the bytes in
\* between, no more than three of them after the first ChunkSize; and it is empty only
\* at the end of the text, so that the loop of ReadUtf8StringFromSequentialStream ends
\* there and nowhere else.
THEOREM ChunkIsWhole ==
    ASSUME NEW data \in Seq(Bytes), IsText(data), NEW k \in Starts(data)
    PROVE  \E n \in Nat :
              /\ k + n \in Starts(data) /\ n <= ChunkSize + 3
              /\ k < Len(data) => n > 0
              /\ Chunk(Stream(data, k)).bytes = SubSeq(data, k + 1, k + n)
              /\ Chunk(Stream(data, k)).stream = Stream(data, k + n)
<1> DEFINE C == ChunkSize
           first == Read(Stream(data, k), C)
           lead == LastLead(first.bytes)
           missing == lead + CharacterLength(At(first.bytes, lead)) - C
           rest == Read(first.stream, missing)
<1>1. C \in Nat /\ C > 0
  BY ChunkAssumption
<1>2. k \in Nat /\ k <= Len(data) /\ Len(data) \in Nat
  BY DEF Starts
<1>3. /\ first.bytesRead # C \/ ~ (missing > 0) =>
            /\ Chunk(Stream(data, k)).bytes = first.bytes
            /\ Chunk(Stream(data, k)).stream = first.stream
      /\ first.bytesRead = C /\ missing > 0 =>
            /\ Chunk(Stream(data, k)).bytes = first.bytes \o rest.bytes
            /\ Chunk(Stream(data, k)).stream = rest.stream
  BY DEF Chunk
<1> DEFINE c == Count(data, k, C)
<1>4. /\ c \in Nat /\ k + c <= Len(data) /\ first.bytesRead = c
      /\ first.bytes = SubSeq(data, k + 1, k + c) /\ first.stream = Stream(data, k + c)
  BY <1>1, <1>2, ReadGives
<1> HIDE DEF C, c, first, lead, missing, rest
<1>5. CASE k + C > Len(data)
  <2>1. c # C /\ k + c = Len(data)
    BY <1>1, <1>2, <1>5 DEF c, Count
  <2>2. /\ Chunk(Stream(data, k)).bytes = SubSeq(data, k + 1, k + c)
        /\ Chunk(Stream(data, k)).stream = Stream(data, k + c)
    BY <1>3, <1>4, <2>1
  <2>3. k + c \in Starts(data) /\ c <= C + 3 /\ (k < Len(data) => c > 0)
    BY <1>1, <1>2, <1>4, <1>5, <2>1 DEF Starts
  <2> QED
    BY <1>4, <2>2, <2>3 DEF C
<1>6. CASE k + C <= Len(data)
  <2>1. c = C /\ k < Len(data) /\ ~Continues(At(data, k))
    BY <1>1, <1>2, <1>6 DEF Starts, c, Count
  <2>2. /\ first.bytes \in Seq(Bytes) /\ Len(first.bytes) = C
        /\ \A i \in Nat : i < C => At(first.bytes, i) = At(data, k + i)
    <3>1. first.bytes = SubSeq(data, k + 1, k + C)
      BY <1>4, <2>1
    <3>2. /\ SubSeq(data, k + 1, k + C) \in Seq(Bytes) /\ Len(SubSeq(data, k + 1, k + C)) = C
          /\ \A i \in Nat : i < C => At(SubSeq(data, k + 1, k + C), i) = At(data, k + i)
      BY <1>1, <1>2, <1>6, PieceHolds
    <3> QED
      BY <3>1, <3>2
  <2>3. first.bytes # <<>> /\ ~Continues(At(first.bytes, 0))
    BY <1>1, <1>2, <2>1, <2>2
  <2>4. /\ lead \in Nat /\ lead < C /\ ~Continues(At(first.bytes, lead))
        /\ \A i \in Nat : lead < i /\ i < C => Continues(At(first.bytes, i))
    BY <2>2, <2>3, LastLeadFound DEF lead
  <2>5. At(first.bytes, lead) = At(data, k + lead)
    BY <2>2, <2>4
  <2>6. PICK m \in 1..4 : m = CharacterLength(At(data, k + lead))
    BY DEF CharacterLength
  <2>7. k + lead \in Starts(data) /\ k + lead < Len(data)
    BY <1>1, <1>2, <1>6, <2>4, <2>5 DEF Starts
  <2>8. k + lead + m \in Starts(data)
    BY <2>6, <2>7 DEF IsText
  <2>9. k + lead + m <= Len(data)
    BY <1>2, <2>8 DEF Starts
  <2>10. missing = lead + m - C
    BY <2>5, <2>6 DEF missing
  <2>11. CASE missing > 0
    <3>1. missing \in Nat /\ k + C + missing = k + lead + m /\ missing <= 3
      BY <1>1, <1>2, <2>4, <2>10, <2>11
    <3>2. /\ rest.bytes = SubSeq(data, k + C + 1, k + C + missing)
          /\ rest.stream = Stream(data, k + C + missing)
      <4>1. k + C \in Nat /\ k + C <= Len(data) /\ k + C + missing <= Len(data)
        BY <1>1, <1>2, <1>6, <2>9, <3>1
      <4>2. Count(data, k + C, missing) = missing
        BY <4>1 DEF Count
      <4>3. rest = Read(Stream(data, k + C), missing)
        BY <1>4, <2>1 DEF rest
      <4>4. LET n == Count(data, k + C, missing)
                got == Read(Stream(data, k + C), missing)
            IN /\ got.bytes = SubSeq(data, k + C + 1, k + C + n)
               /\ got.stream = Stream(data, k + C + n)
        BY <3>1, <4>1, ReadGives, Zenon
      <4> QED
        BY <4>2, <4>3, <4>4
    <3>3. SubSeq(data, k + 1, k + C) \o SubSeq(data, k + C + 1, k + C + missing)
             = SubSeq(data, k + 1, k + C + missing)
      <4>1. /\ k + 1 \in 1..Len(data) + 1 /\ k + C \in (k + 1) - 1..Len(data)
            /\ k + C + missing \in k + C..Len(data)
        BY <1>1, <1>2, <1>6, <2>9, <3>1
      <4> QED
        BY <4>1, ConcatAdjacentSubSeq
    <3>4. /\ Chunk(Stream(data, k)).bytes = SubSeq(data, k + 1, k + (C + missing))
          /\ Chunk(Stream(data, k)).stream = Stream(data, k + (C + missing))
      <4>1. k + C + missing = k + (C + missing)
        BY <1>1, <1>2, <3>1
      <4> QED
        BY <1>3, <1>4, <2>1, <2>11, <3>2, <3>3, <4>1
    <3>5. C + missing \in Nat /\ C + missing > 0 /\ C + missing <= C + 3
      BY <1>1, <3>1
    <3>6. k + (C + missing) \in Starts(data)
      BY <1>1, <1>2, <2>8, <3>1
    <3> QED
      BY <3>4, <3>5, <3>6 DEF C
  <2>12. CASE ~ (missing > 0)
    <3>1. k + lead + m <= k + C
      BY <1>1, <1>2, <2>4, <2>10, <2>12
    <3>2. ASSUME k + lead + m < k + C PROVE FALSE
      <4>1. lead + m \in Nat /\ lead < lead + m /\ lead + m < C
        BY <1>1, <1>2, <2>4, <3>2
      <4>2. Continues(At(data, k + (lead + m)))
        BY <2>2, <2>4, <4>1
      <4>3. k + (lead + m) < Len(data) /\ k + (lead + m) \in Starts(data)
        BY <1>1, <1>2, <1>6, <2>4, <2>8, <3>2
      <4> QED
        BY <1>2, <4>2, <4>3 DEF Starts
    <3>3. k + C \in Starts(data)
      BY <1>1, <1>2, <2>4, <2>8, <3>1, <3>2
    <3>4. /\ Chunk(Stream(data, k)).bytes = SubSeq(data, k + 1, k + C)
          /\ Chunk(Stream(data, k)).stream = Stream(data, k + C)
      BY <1>3, <1>4, <2>1, <2>12
    <3>5. C <= C + 3
      BY <1>1
    <3> QED
      BY <1>1, <3>3, <3>4, <3>5 DEF C
  <2> QED
    BY <2>11, <2>12
<1> QED
  BY <1>1, <1>2, <1>5, <1>6

\* The bytes of a character: one that begins it, with its length, and others that do not.
LEMMA CharacterOf ==
    ASSUME NEW c \in Scalars
    PROVE  /\ Encode(c) \in Seq(Bytes) /\ Len(Encode(c)) > 0
           /\ ~Continues(At(Encode(c), 0))
           /\ CharacterLength(At(Encode(c), 0)) = Len(Encode(c))
           /\ \A i \in Nat : 0 < i /\ i < Len(Encode(c)) => Continues(At(Encode(c), i))
<1> DEFINE e == Encode(c)
<1>1. CASE c \in Nat /\ c <= 127 /\ e = <<c>>
  <2>1. <<c>> \in Seq(Bytes)
    BY <1>1 DEF Bytes
  <2> HIDE DEF e
  <2>2. /\ e \in Seq(Bytes) /\ Len(e) = 1 /\ At(e, 0) = c
    BY <1>1, <2>1 DEF At
  <2>3. ~Continues(c) /\ CharacterLength(c) = 1
    BY <1>1 DEF Continues, CharacterLength
  <2> USE DEF e
  <2> QED
    BY <2>2, <2>3
<1>2. ASSUME NEW q \in Nat, NEW r \in Nat, q < 32, r < 64, e = <<192 + q, 128 + r>>
      PROVE  /\ e \in Seq(Bytes) /\ Len(e) > 0 /\ ~Continues(At(e, 0))
             /\ CharacterLength(At(e, 0)) = Len(e)
             /\ \A i \in Nat : 0 < i /\ i < Len(e) => Continues(At(e, i))
  <2> HIDE DEF e
  <2>1. e \in Seq(Bytes) /\ Len(e) = 2 /\ At(e, 0) = 192 + q /\ At(e, 1) = 128 + r
    BY <1>2 DEF At, Bytes
  <2>2. ~Continues(192 + q) /\ CharacterLength(192 + q) = 2 /\ Continues(128 + r)
    BY <1>2 DEF Continues, CharacterLength
  <2>3. \A i \in Nat : 0 < i /\ i < 2 => i = 1
    OBVIOUS
  <2> QED
    BY <2>1, <2>2, <2>3
<1>3. ASSUME NEW t \in Nat, NEW s \in Nat, NEW r \in Nat, t < 16, s < 64, r < 64,
             e = <<224 + t, 128 + s, 128 + r>>
      PROVE  /\ e \in Seq(Bytes) /\ Len(e) > 0 /\ ~Continues(At(e, 0))
             /\ CharacterLength(At(e, 0)) = Len(e)
             /\ \A i \in Nat : 0 < i /\ i < Len(e) => Continues(At(e, i))
  <2> HIDE DEF e
  <2>1. /\ e \in Seq(Bytes) /\ Len(e) = 3 /\ At(e, 0) = 224 + t
        /\ At(e, 1) = 128 + s /\ At(e, 2) = 128 + r
    BY <1>3 DEF At, Bytes
  <2>2. /\ ~Continues(224 + t) /\ CharacterLength(224 + t) = 3
        /\ Continues(128 + s) /\ Continues(128 + r)
    BY <1>3 DEF Continues, CharacterLength
  <2>3. \A i \in Nat : 0 < i /\ i < 3 => i = 1 \/ i = 2
    OBVIOUS
  <2> QED
    BY <2>1, <2>2, <2>3
<1>4. ASSUME NEW u \in Nat, NEW w \in Nat, NEW s \in Nat, NEW r \in Nat,
             u <= 4, w < 64, s < 64, r < 64,
             e = <<240 + u, 128 + w, 128 + s, 128 + r>>
      PROVE  /\ e \in Seq(Bytes) /\ Len(e) > 0 /\ ~Continues(At(e, 0))
             /\ CharacterLength(At(e, 0)) = Len(e)
             /\ \A i \in Nat : 0 < i /\ i < Len(e) => Continues(At(e, i))
  <2> HIDE DEF e
  <2>1. /\ e \in Seq(Bytes) /\ Len(e) = 4 /\ At(e, 0) = 240 + u
        /\ At(e, 1) = 128 + w /\ At(e, 2) = 128 + s /\ At(e, 3) = 128 + r
    BY <1>4 DEF At, Bytes
  <2>2. /\ ~Continues(240 + u) /\ CharacterLength(240 + u) = 4
        /\ Continues(128 + w) /\ Continues(128 + s) /\ Continues(128 + r)
    BY <1>4 DEF Continues, CharacterLength
  <2>3. \A i \in Nat : 0 < i /\ i < 4 => i = 1 \/ i = 2 \/ i = 3
    OBVIOUS
  <2> QED
    BY <2>1, <2>2, <2>3
<1>5. CASE \E q, r \in Nat : Shape2(c, q, r)
  BY <1>2, <1>5, SMT DEF Shape2
<1>6. CASE \E t, s, r \in Nat : Shape3(c, t, s, r)
  BY <1>3, <1>6, SMT DEF Shape3
<1>7. CASE \E u, w, s, r \in Nat : Shape4(c, u, w, s, r)
  BY <1>4, <1>7, SMT DEF Shape4
<1> QED
  BY <1>1, <1>5, <1>6, <1>7, Encoded

\* A text holds its own bytes, and then those of what is appended to it.
LEMMA Appended ==
    ASSUME NEW text \in Seq(Bytes), NEW e \in Seq(Bytes)
    PROVE  /\ text \o e \in Seq(Bytes) /\ Len(text \o e) = Len(text) + Len(e)
           /\ \A i \in Nat : i < Len(text) => At(text \o e, i) = At(text, i)
           /\ \A i \in Nat : At(text \o e, Len(text) + i) = At(e, i)
BY DEF At

\* The texts that a chunk is taken from are those of characters: the empty body is a
\* text, and a text to which the bytes of a character are appended is a text.
THEOREM TextsAreTexts ==
    /\ IsText(<<>>)
    /\ \A text \in Seq(Bytes), c \in Scalars :
          IsText(text) => text \o Encode(c) \in Seq(Bytes) /\ IsText(text \o Encode(c))
<1>1. IsText(<<>>)
  BY DEF IsText, Starts
<1>2. ASSUME NEW text \in Seq(Bytes), NEW c \in Scalars, IsText(text)
      PROVE  text \o Encode(c) \in Seq(Bytes) /\ IsText(text \o Encode(c))
  <2> DEFINE e == Encode(c)
             n == Len(text)
             m == Len(e)
             all == text \o e
  <2>1. /\ e \in Seq(Bytes) /\ n \in Nat /\ m \in Nat /\ m > 0
        /\ ~Continues(At(e, 0)) /\ CharacterLength(At(e, 0)) = m
        /\ \A i \in Nat : 0 < i /\ i < m => Continues(At(e, i))
    BY CharacterOf
  <2> HIDE DEF e
  <2>2. /\ all \in Seq(Bytes) /\ Len(all) = n + m
        /\ \A i \in Nat : i < n => At(all, i) = At(text, i)
        /\ \A i \in Nat : At(all, n + i) = At(e, i)
    BY <2>1, Appended
  <2> HIDE DEF n, m, all
  <2>3. ASSUME NEW i \in Nat, n < i, i < n + m PROVE Continues(At(all, i))
    <3>1. i - n \in Nat /\ 0 < i - n /\ i - n < m /\ n + (i - n) = i
      BY <2>1, <2>3
    <3> QED
      BY <2>1, <2>2, <3>1
  <2>4. At(all, n) = At(e, 0)
    BY <2>1, <2>2
  <2>5. \A i : i \in Starts(all) <=>
                 i = n + m \/ (i \in Nat /\ i < n + m /\ ~Continues(At(all, i)))
    BY <2>2 DEF Starts
  <2>6. \A i : i \in Starts(text) <=>
                 i = n \/ (i \in Nat /\ i < n /\ ~Continues(At(text, i)))
    BY DEF Starts, n
  <2>7. \A i \in Starts(text) : i \in Nat /\ i <= n /\ i \in Starts(all)
    <3>1. ASSUME NEW i \in Starts(text) PROVE i \in Nat /\ i <= n /\ i \in Starts(all)
      <4>1. CASE i = n
        BY <2>1, <2>4, <2>5, <4>1
      <4>2. CASE i \in Nat /\ i < n /\ ~Continues(At(text, i))
        <5>1. i < n + m /\ i <= n /\ At(all, i) = At(text, i)
          BY <2>1, <2>2, <4>2
        <5> QED
          BY <2>5, <4>2, <5>1
      <4> QED
        BY <2>6, <4>1, <4>2
    <3> QED
      BY <3>1
  <2>8. n + m \in Starts(all) /\ n \in Starts(text) /\ n \in Starts(all)
    BY <2>1, <2>2, <2>4 DEF Starts, n
  <2>9. ASSUME NEW i \in Starts(all), i < n + m PROVE i \in Starts(text)
    <3>1. i \in Nat /\ ~Continues(At(all, i))
      BY <2>1, <2>9, <2>5
    <3>2. i <= n
      BY <2>1, <2>3, <2>9, <3>1
    <3>3. i < n => At(text, i) = At(all, i)
      BY <2>2, <3>1
    <3> QED
      BY <2>1, <2>6, <3>1, <3>2, <3>3
  <2>10. ASSUME NEW i \in Starts(all), i < Len(all)
        PROVE  i + CharacterLength(At(all, i)) \in Starts(all)
    <3>1. i \in Starts(text) /\ i \in Nat /\ i <= n
      BY <2>2, <2>7, <2>9, <2>10
    <3>2. CASE i = n
      BY <2>1, <2>4, <2>8, <3>2
    <3>3. CASE i < n
      <4>1. i + CharacterLength(At(text, i)) \in Starts(text)
        BY <1>2, <3>1, <3>3 DEF IsText, n
      <4> QED
        BY <2>2, <2>7, <3>1, <3>3, <4>1
    <3> QED
      BY <2>1, <3>1, <3>2, <3>3
  <2>11. 0 \in Starts(all)
    BY <1>2, <2>7 DEF IsText
  <2> QED
    BY <2>2, <2>10, <2>11 DEF IsText, all, e
<1> QED
  BY <1>1, <1>2

-------------------------------------------------------------------------------
(* The getters. *)

\* A string without a 0 is a C string.
LEMMA WithoutZero ==
    ASSUME NEW s \in Seq(Nat), \A i \in 1..Len(s) : s[i] # 0
    PROVE  CString(s) = s
BY DEF CString

\* A getter that is called with room for the string and its terminator gives the whole C
\* string; with less it gives nothing and tells the length that it needs, and called again
\* with the length that it told, it gives the string: the loop of its callers ends with
\* their second call.  A string without a 0 is given as it is.
THEOREM GettersAreWhole ==
    ASSUME NEW s \in Seq(Nat), NEW length \in Nat
    PROVE  /\ Len(s) < length =>
                 /\ Copied(s, length).err = "OK" /\ Copied(s, length).text = CString(s)
                 /\ ParticipantText(s, length).err = "OK" /\ ParticipantText(s, length).text = CString(s)
           /\ ~ (Len(s) < length) =>
                 /\ Copied(s, length) = [err |-> "BUFFER_SIZE", length |-> Len(s) + 1]
                 /\ ParticipantText(s, length) = [err |-> "BUFFER_SIZE", length |-> Len(s) + 1]
           /\ Copied(s, Copied(s, length).length).text = CString(s)
           /\ ParticipantText(s, ParticipantText(s, length).length).text = CString(s)
           /\ (\A i \in 1..Len(s) : s[i] # 0) => CString(s) = s
<1>1. ASSUME NEW n \in Nat, Len(s) < n
      PROVE  /\ Copied(s, n).err = "OK" /\ Copied(s, n).length = n
             /\ Copied(s, n).text = CString(s)
  <2>1. SubSeq(s, 1, Len(s)) = s
    BY SubSeqFull
  <2>2. Terminated(s, n) = CString(s)
    BY <1>1, <2>1 DEF Terminated
  <2> QED
    BY <1>1, <2>2 DEF Copied
<1>2. ASSUME NEW n \in Nat, Len(s) < n
      PROVE  /\ ParticipantText(s, n).err = "OK" /\ ParticipantText(s, n).length = Len(s) + 1
             /\ ParticipantText(s, n).text = CString(s)
  BY <1>2 DEF ParticipantText
<1>3. ASSUME ~ (Len(s) < length)
      PROVE  /\ Copied(s, length) = [err |-> "BUFFER_SIZE", length |-> Len(s) + 1]
             /\ ParticipantText(s, length) = [err |-> "BUFFER_SIZE", length |-> Len(s) + 1]
  BY <1>3 DEF Copied, ParticipantText
<1>4. Copied(s, Copied(s, length).length).text = CString(s)
  <2>1. Copied(s, length).length \in Nat /\ Len(s) < Copied(s, length).length
    BY <1>1, <1>3
  <2> QED
    BY <1>1, <2>1
<1>5. ParticipantText(s, ParticipantText(s, length).length).text = CString(s)
  <2>1. /\ ParticipantText(s, length).length \in Nat
        /\ Len(s) < ParticipantText(s, length).length
    BY <1>2, <1>3
  <2> QED
    BY <1>2, <2>1
<1> QED
  BY <1>1, <1>2, <1>3, <1>4, <1>5, WithoutZero

-------------------------------------------------------------------------------
(* FlattenSeq. *)

\* The functions that FlattenSeq chooses from: f[k] is the first k sequences in one.
IsFlattening(f, s) ==
    f = [i \in 1..Len(s) |-> IF i = 1 THEN s[i] ELSE f[i - 1] \o s[i]]

\* There is such a function.
LEMMA FlatteningExists ==
    ASSUME NEW S, NEW s \in Seq(Seq(S))
    PROVE  \E f : IsFlattening(f, s)
<1> DEFINE Upto(f, n) == f = [i \in 1..n |-> IF i = 1 THEN s[i] ELSE f[i - 1] \o s[i]]
           Exists(n) == \E f : Upto(f, n)
           T == {n \in 0..Len(s) : ~Exists(n)}
<1> HIDE DEF Exists
<1>1. CASE T = {}
  <2>1. Len(s) \in 0..Len(s)
    OBVIOUS
  <2>2. Exists(Len(s))
    BY <1>1, <2>1
  <2> QED
    BY <2>2 DEF Exists, IsFlattening
<1>2. CASE T # {}
  <2>1. PICK n \in T : \A k \in T : n <= k
    <3>1. T \subseteq Nat
      OBVIOUS
    <3> HIDE DEF T
    <3> QED
      BY <1>2, <3>1, Smallest
  <2>2. n # 0
    <3>1. Upto([i \in {} |-> 0], 0)
      OBVIOUS
    <3>2. Exists(0)
      BY <3>1, Zenon DEF Exists
    <3> QED
      BY <2>1, <3>2
  <2>3. n - 1 \in 0..Len(s) /\ n \in 1..Len(s) /\ n - 1 \notin T
    <3>1. Len(s) \in Nat /\ n \in 0..Len(s)
      BY <2>1
    <3> HIDE DEF T
    <3> QED
      BY <2>1, <2>2, <3>1
  <2>4. PICK g : Upto(g, n - 1)
    BY <2>3 DEF Exists
  <2> DEFINE f == [i \in 1..n |-> IF i = n THEN IF n = 1 THEN s[1] ELSE g[n - 1] \o s[n] ELSE g[i]]
  <2>5. ASSUME NEW i \in 1..n PROVE f[i] = IF i = 1 THEN s[i] ELSE f[i - 1] \o s[i]
    <3>1. CASE i = n
      <4>1. n # 1 => n - 1 \in 1..n /\ n - 1 # n
        BY <2>3
      <4> QED
        BY <3>1, <4>1
    <3>2. CASE i # n
      <4>1. i \in 1..n - 1 /\ f[i] = g[i] /\ (i # 1 => f[i - 1] = g[i - 1])
        BY <2>3, <3>2
      <4>2. g[i] = IF i = 1 THEN s[i] ELSE g[i - 1] \o s[i]
        BY <2>4, <4>1
      <4> QED
        BY <4>1, <4>2
    <3> QED
      BY <3>1, <3>2
  <2>6. f = [i \in 1..n |-> f[i]]
    OBVIOUS
  <2> HIDE DEF f
  <2>7. f = [i \in 1..n |-> IF i = 1 THEN s[i] ELSE f[i - 1] \o s[i]]
    BY <2>5, <2>6
  <2>8. Exists(n)
    BY <2>7 DEF Exists
  <2> QED
    BY <2>1, <2>8
<1> QED
  BY <1>1, <1>2

\* FlattenSeq takes the last of its values.
LEMMA Flattened ==
    ASSUME NEW S, NEW s \in Seq(Seq(S)), s # <<>>
    PROVE  \E f : IsFlattening(f, s) /\ FlattenSeq(s) = f[Len(s)]
<1>1. FlattenSeq(s) = (CHOOSE f : IsFlattening(f, s))[Len(s)]
  BY DEF FlattenSeq, IsFlattening
<1>2. \E f : IsFlattening(f, s)
  BY FlatteningExists
<1>3. IsFlattening(CHOOSE f : IsFlattening(f, s), s)
  BY <1>2
<1> QED
  BY <1>1, <1>3

\* Its first value is the first sequence, and each of the others appends one.
LEMMA FlatteningSteps ==
    ASSUME NEW s, NEW f, IsFlattening(f, s), NEW i \in 1..Len(s)
    PROVE  /\ i = 1 => f[i] = s[i]
           /\ i # 1 => f[i] = f[i - 1] \o s[i]
BY DEF IsFlattening

\* Its values are sequences.
LEMMA FlatteningType ==
    ASSUME NEW S, NEW s \in Seq(Seq(S)), NEW f, IsFlattening(f, s)
    PROVE  \A i \in 1..Len(s) : f[i] \in Seq(S)
<1> DEFINE T == {i \in 1..Len(s) : f[i] \notin Seq(S)}
<1>1. CASE T # {}
  <2>1. PICK n \in T : \A k \in T : n <= k
    <3>1. T \subseteq Nat
      OBVIOUS
    <3> HIDE DEF T
    <3> QED
      BY <1>1, <3>1, Smallest
  <2> SUFFICES f[n] \in Seq(S)
    BY <2>1
  <2>2. n \in 1..Len(s) /\ s[n] \in Seq(S)
    BY <2>1
  <2>3. CASE n = 1
    BY <2>2, <2>3, FlatteningSteps
  <2>4. CASE n # 1
    <3>1. n - 1 \in 1..Len(s) /\ n - 1 \notin T
      BY <2>1, <2>2, <2>4
    <3>2. f[n] = f[n - 1] \o s[n]
      BY <2>2, <2>4, FlatteningSteps
    <3> QED
      BY <2>2, <3>1, <3>2
  <2> QED
    BY <2>3, <2>4
<1> QED
  BY <1>1

\* Sequences of which the second begins as the first does.
LEMMA FlatteningExtends ==
    ASSUME NEW S, NEW s \in Seq(Seq(S)), NEW t \in Seq(Seq(S)),
           NEW f, IsFlattening(f, s), NEW g, IsFlattening(g, s \o t)
    PROVE  \A i \in 1..Len(s) : g[i] = f[i]
<1> DEFINE T == {i \in 1..Len(s) : g[i] # f[i]}
<1>1. CASE T # {}
  <2>1. PICK n \in T : \A k \in T : n <= k
    <3>1. T \subseteq Nat
      OBVIOUS
    <3> HIDE DEF T
    <3> QED
      BY <1>1, <3>1, Smallest
  <2> SUFFICES g[n] = f[n]
    BY <2>1
  <2>2. s \o t \in Seq(Seq(S)) /\ Len(s \o t) = Len(s) + Len(t) /\ Len(s) \in Nat /\ Len(t) \in Nat
    OBVIOUS
  <2>3. n \in 1..Len(s) /\ n \in 1..Len(s \o t) /\ (s \o t)[n] = s[n] /\ (s \o t)[1] = s[1]
    BY <2>1, <2>2
  <2>4. CASE n = 1
    <3>1. f[1] = s[1] /\ g[1] = (s \o t)[1]
      BY <2>3, <2>4, FlatteningSteps
    <3> QED
      BY <2>3, <2>4, <3>1
  <2>5. CASE n # 1
    <3>1. n - 1 \in 1..Len(s) /\ n - 1 \notin T
      BY <2>1, <2>3, <2>5
    <3>2. g[n] = g[n - 1] \o (s \o t)[n] /\ f[n] = f[n - 1] \o s[n]
      BY <2>3, <2>5, FlatteningSteps
    <3> QED
      BY <2>3, <3>1, <3>2
  <2> QED
    BY <2>4, <2>5
<1> QED
  BY <1>1

\* FlattenSeq makes a sequence, of the sequences in one the elements of the one and of the other.
LEMMA FlattenType ==
    ASSUME NEW S, NEW s \in Seq(Seq(S))
    PROVE  FlattenSeq(s) \in Seq(S)
<1>1. CASE s = <<>>
  BY <1>1 DEF FlattenSeq
<1>2. CASE s # <<>>
  <2>1. PICK f : IsFlattening(f, s) /\ FlattenSeq(s) = f[Len(s)]
    BY <1>2, Flattened
  <2>2. Len(s) \in 1..Len(s)
    BY <1>2
  <2> QED
    BY <2>1, <2>2, FlatteningType
<1> QED
  BY <1>1, <1>2

\* A sequence is made of two.
Joined(s, t, u) == u = s \o t

\* A sequence ends with another, after n of its elements.
EndsWith(u, n, t) == Len(u) = n + Len(t) /\ \A k \in 1..Len(t) : u[n + k] = t[k]

\* The values for such a sequence.
LEMMA FlatteningConcat ==
    ASSUME NEW S, NEW t \in Seq(Seq(S)), NEW u \in Seq(Seq(S)),
           NEW n \in Nat, 0 < n, EndsWith(u, n, t),
           NEW h, IsFlattening(h, t), NEW g, IsFlattening(g, u)
    PROVE  \A k \in 1..Len(t) : Joined(g[n], h[k], g[n + k])
<1> DEFINE m == Len(t)
           T == {k \in 1..m : g[n + k] # g[n] \o h[k]}
<1>1. m \in Nat /\ Len(u) = n + m /\ \A k \in 1..m : u[n + k] = t[k]
  BY DEF EndsWith
<1>2. g[n] \in Seq(S) /\ \A k \in 1..m : h[k] \in Seq(S) /\ t[k] \in Seq(S)
  <2>1. n \in 1..Len(u)
    BY <1>1
  <2> QED
    BY <2>1, FlatteningType
<1>3. ASSUME NEW k \in 1..m PROVE g[n + k] = g[(n + k) - 1] \o t[k]
  <2>1. n + k \in 1..Len(u) /\ n + k # 1 /\ u[n + k] = t[k]
    BY <1>1
  <2> DEFINE p == n + k
  <2>2. p \in 1..Len(u) /\ p # 1 /\ u[p] = t[k]
    BY <2>1
  <2> HIDE DEF p
  <2>3. g[p] = g[p - 1] \o u[p]
    BY <2>2, FlatteningSteps
  <2>4. g[p] = g[p - 1] \o t[k]
    BY <2>2, <2>3
  <2> QED
    BY <2>4 DEF p
<1> HIDE DEF m, T
<1>4. T = {}
  <2>1. SUFFICES ASSUME T # {} PROVE FALSE
    OBVIOUS
  <2>2. T \subseteq Nat
    <3>1. \A k \in T : k \in 1..m
      BY Zenon DEF T
    <3> QED
      BY <1>1, <3>1
  <2>3. PICK k \in T : \A j \in T : k <= j
    BY <2>1, <2>2, Smallest
  <2>4. k \in 1..m /\ g[n + k] # g[n] \o h[k]
    BY DEF T
  <2>5. CASE k = 1
    <3>1. h[1] = t[1]
      BY <2>4, <2>5, FlatteningSteps DEF m
    <3>2. g[n + 1] = g[n] \o t[1]
      <4>1. (n + 1) - 1 = n
        OBVIOUS
      <4> QED
        BY <1>3, <2>4, <2>5, <4>1
    <3> QED
      BY <2>4, <2>5, <3>1, <3>2
  <2>6. CASE k # 1
    <3>1. k - 1 \in 1..m /\ (n + k) - 1 = n + (k - 1) /\ ~ (k <= k - 1)
      BY <1>1, <2>4, <2>6
    <3>2. g[n + (k - 1)] = g[n] \o h[k - 1]
      <4>1. k - 1 \notin T
        BY <2>3, <3>1
      <4> QED
        BY <3>1, <4>1 DEF T
    <3>3. h[k] = h[k - 1] \o t[k]
      BY <2>4, <2>6, FlatteningSteps DEF m
    <3>4. g[n + k] = (g[n] \o h[k - 1]) \o t[k]
      BY <1>3, <2>4, <3>1, <3>2
    <3>5. (g[n] \o h[k - 1]) \o t[k] = g[n] \o (h[k - 1] \o t[k])
      <4>1. g[n] \in Seq(S) /\ h[k - 1] \in Seq(S) /\ t[k] \in Seq(S)
        BY <1>2, <2>4, <3>1, Zenon
      <4> DEFINE a == g[n]
                 b == h[k - 1]
                 c == t[k]
      <4>2. a \in Seq(S) /\ b \in Seq(S) /\ c \in Seq(S)
        BY <4>1
      <4> HIDE DEF a, b, c
      <4>3. (a \o b) \o c = a \o (b \o c)
        BY <4>2, SMT
      <4> QED
        BY <4>3 DEF a, b, c
    <3> QED
      BY <2>4, <3>3, <3>4, <3>5
  <2> QED
    BY <2>5, <2>6
<1> QED
  BY <1>4 DEF T, m, Joined

\* What FlattenSeq makes of two sequences one after the other.
LEMMA FlattenConcat ==
    ASSUME NEW S, NEW s \in Seq(Seq(S)), NEW t \in Seq(Seq(S)), NEW u, Joined(s, t, u)
    PROVE  Joined(FlattenSeq(s), FlattenSeq(t), FlattenSeq(u))
<1> SUFFICES FlattenSeq(s \o t) = FlattenSeq(s) \o FlattenSeq(t)
  BY DEF Joined
<1>1. FlattenSeq(<<>>) = <<>>
  BY DEF FlattenSeq
<1>2. FlattenSeq(s) \in Seq(S) /\ FlattenSeq(t) \in Seq(S)
  BY FlattenType
<1>3. CASE s = <<>>
  BY <1>1, <1>2, <1>3, ConcatEmptySeq
<1>4. CASE t = <<>>
  BY <1>1, <1>2, <1>4, ConcatEmptySeq
<1>5. CASE s # <<>> /\ t # <<>>
  <2>1. PICK f : IsFlattening(f, s) /\ FlattenSeq(s) = f[Len(s)]
    BY <1>5, Flattened
  <2>2. PICK h : IsFlattening(h, t) /\ FlattenSeq(t) = h[Len(t)]
    BY <1>5, Flattened
  <2> DEFINE v == s \o t
             n == Len(s)
             m == Len(t)
  <2>3. /\ v \in Seq(Seq(S)) /\ Len(v) = n + m /\ v # <<>>
        /\ n \in Nat /\ 0 < n /\ n \in 1..n /\ m \in 1..m
        /\ EndsWith(v, n, t)
    BY <1>5 DEF EndsWith
  <2>4. PICK g : IsFlattening(g, s \o t) /\ FlattenSeq(s \o t) = g[Len(s \o t)]
    BY <2>3, Flattened
  <2>5. g[n] = f[n]
    BY <2>1, <2>3, <2>4, FlatteningExtends
  <2>6. IsFlattening(g, v) /\ FlattenSeq(v) = g[n + m]
    BY <2>3, <2>4
  <2> HIDE DEF v, n
  <2>7. \A k \in 1..Len(t) : Joined(g[n], h[k], g[n + k])
    BY <2>2, <2>3, <2>6, FlatteningConcat, Zenon
  <2>8. FlattenSeq(v) = g[n] \o h[m]
    BY <2>3, <2>6, <2>7 DEF Joined
  <2> QED
    BY <2>1, <2>2, <2>5, <2>8 DEF v, n
<1> QED
  BY <1>3, <1>4, <1>5

\* Of a single sequence it makes that sequence.
LEMMA FlattenOne ==
    ASSUME NEW S, NEW s \in Seq(S)
    PROVE  FlattenSeq(<<s>>) = s
<1>1. <<s>> \in Seq(Seq(S)) /\ <<s>> # <<>> /\ Len(<<s>>) = 1 /\ <<s>>[1] = s
  OBVIOUS
<1>2. PICK f : IsFlattening(f, <<s>>) /\ FlattenSeq(<<s>>) = f[1]
  BY <1>1, Flattened
<1>3. f[1] = <<s>>[1]
  <2>1. 1 \in 1..Len(<<s>>)
    BY <1>1
  <2> QED
    BY <1>2, <2>1, FlatteningSteps
<1> QED
  BY <1>1, <1>2, <1>3

-------------------------------------------------------------------------------
(* The bodies of requests and answers. *)

\* The bytes of a body are bytes, and none is a terminator.
LEMMA Utf8Bytes ==
    ASSUME NEW text \in Seq(1..255)
    PROVE  /\ text \in Seq(Bytes)
           /\ \A i \in Nat : i < Len(text) => At(text, i) \in 1..255
<1>1. 1..255 \subseteq Bytes
  BY DEF Bytes
<1>2. \A k \in 1..Len(text) : text[k] \in 1..255
  BY ElementOfSeq
<1>3. text \in Seq(Bytes)
  BY <1>1, SeqMonotonic
<1>4. ASSUME NEW i \in Nat, i < Len(text) PROVE At(text, i) \in 1..255
  <2>1. i + 1 \in 1..Len(text)
    BY <1>4
  <2> QED
    BY <1>2, <1>4, <2>1 DEF At
<1> QED
  BY <1>3, <1>4

\* What Decode takes lies within the text and begins a character that it continues.
LEMMA DecodedBytes ==
    ASSUME NEW text \in Seq(1..255), NEW i \in Nat, i < Len(text), Decode(text, i).ok
    PROVE  /\ Decode(text, i).length \in Nat /\ 0 < Decode(text, i).length
           /\ i + Decode(text, i).length <= Len(text)
           /\ Decode(text, i).length = CharacterLength(At(text, i))
           /\ ~Continues(At(text, i))
           /\ \A j \in Nat : i < j /\ j < i + Decode(text, i).length => Continues(At(text, j))
<1> DEFINE c == Decode(text, i).code
           e == Encode(c)
           n == Decode(text, i).length
<1>1. text \in Seq(Bytes)
  BY Utf8Bytes
<1>2. c \in Scalars /\ n = Len(e) /\ HoldsAt(text, i, e)
  BY <1>1, DecodedIsEncoded
<1> HIDE DEF c
<1>3. /\ e \in Seq(Bytes) /\ Len(e) > 0 /\ ~Continues(At(e, 0))
      /\ CharacterLength(At(e, 0)) = Len(e)
      /\ \A j \in Nat : 0 < j /\ j < Len(e) => Continues(At(e, j))
  BY <1>2, CharacterOf
<1> HIDE DEF e, n
<1>4. ASSUME NEW j \in Nat, j < n PROVE At(text, i + j) = At(e, j)
  <2>1. j + 1 \in 1..Len(e) /\ (i + (j + 1)) - 1 = i + j
    BY <1>2, <1>3, <1>4
  <2>2. At(text, (i + (j + 1)) - 1) = e[j + 1]
    BY <1>2, <2>1 DEF HoldsAt
  <2> QED
    BY <1>2, <1>4, <2>1, <2>2 DEF At
<1>5. At(text, i) = At(e, 0) /\ n \in Nat /\ 0 < n
  <2>1. n \in Nat /\ 0 < n /\ i + 0 = i
    BY <1>2, <1>3
  <2> QED
    BY <1>4, <2>1
<1>6. ASSUME NEW j \in Nat, i < j, j < i + n PROVE Continues(At(text, j))
  <2>1. j - i \in Nat /\ 0 < j - i /\ j - i < n /\ i + (j - i) = j
    BY <1>5, <1>6
  <2> QED
    BY <1>2, <1>3, <1>4, <2>1
<1>7. i + n <= Len(text)
  <2>1. SUFFICES ASSUME Len(text) < i + n PROVE FALSE
    BY <1>5
  <2>2. Continues(At(text, Len(text)))
    BY <1>6, <2>1
  <2>3. At(text, Len(text)) = 0
    BY DEF At
  <2> QED
    BY <2>2, <2>3 DEF Continues
<1> QED
  BY <1>2, <1>3, <1>5, <1>6, <1>7 DEF n

\* A place in a body is one at which a character begins, or lies in an earlier one.
LEMMA PlaceOf ==
    ASSUME NEW text, IsUtf8(text), NEW i \in Nat, i < Len(text)
    PROVE  /\ Decode(text, i).ok <=> i \in Starts(text)
           /\ i \notin Starts(text) => InsideCharacter(text, i)
           /\ InsideCharacter(text, i) => i \notin Starts(text)
<1>1. text \in Seq(1..255)
  BY DEF IsUtf8
<1>2. i \in Starts(text) <=> ~Continues(At(text, i))
  BY DEF Starts
<1>3. Decode(text, i).ok \/ InsideCharacter(text, i)
  <2>1. i \in 0..Len(text) - 1
    BY <1>1
  <2> QED
    BY <2>1 DEF IsUtf8
<1>4. InsideCharacter(text, i) => Continues(At(text, i))
  <2>1. SUFFICES ASSUME NEW j \in 0..i - 1, Decode(text, j).ok, i < j + Decode(text, j).length
                 PROVE  Continues(At(text, i))
    BY DEF InsideCharacter
  <2>2. j \in Nat /\ j < i /\ j < Len(text)
    BY <1>1
  <2> QED
    BY <1>1, <2>1, <2>2, DecodedBytes
<1>5. Decode(text, i).ok => ~Continues(At(text, i))
  BY <1>1, DecodedBytes
<1> QED
  BY <1>2, <1>3, <1>4, <1>5

\* A place at which a character begins, or the text ends, is not within a character.
LEMMA StartsAreOutside ==
    ASSUME NEW text \in Seq(1..255), NEW k \in Starts(text),
           NEW i \in Nat, i < k, Decode(text, i).ok
    PROVE  i + Decode(text, i).length <= k
<1>1. k \in Nat /\ k <= Len(text) /\ i < Len(text)
  BY DEF Starts
<1>2. Decode(text, i).length \in Nat /\ i + Decode(text, i).length <= Len(text)
  BY <1>1, DecodedBytes
<1>3. SUFFICES ASSUME k < i + Decode(text, i).length PROVE FALSE
  BY <1>1, <1>2
<1>4. Continues(At(text, k)) /\ k < Len(text)
  BY <1>1, <1>2, <1>3, DecodedBytes
<1> QED
  BY <1>1, <1>4 DEF Starts

\* A body is a text of characters.
LEMMA Utf8IsText ==
    ASSUME NEW text, IsUtf8(text)
    PROVE  text \in Seq(Bytes) /\ IsText(text)
<1>1. text \in Seq(1..255)
  BY DEF IsUtf8
<1>2. 0 \in Starts(text)
  <2>1. CASE 0 < Len(text)
    <3>1. ~InsideCharacter(text, 0)
      BY DEF InsideCharacter
    <3> QED
      BY <2>1, <3>1, PlaceOf
  <2>2. CASE ~ (0 < Len(text))
    <3>1. Len(text) = 0
      BY <1>1, <2>2
    <3> QED
      BY <3>1 DEF Starts
  <2> QED
    BY <2>1, <2>2
<1>3. ASSUME NEW i \in Starts(text), i < Len(text)
      PROVE  i + CharacterLength(At(text, i)) \in Starts(text)
  <2> DEFINE n == Decode(text, i).length
  <2>1. i \in Nat /\ Decode(text, i).ok
    <3>1. i \in Nat
      BY <1>1 DEF Starts
    <3> QED
      BY <1>3, <3>1, PlaceOf
  <2>2. n \in Nat /\ 0 < n /\ i + n <= Len(text) /\ n = CharacterLength(At(text, i))
    BY <1>1, <1>3, <2>1, DecodedBytes
  <2>3. ASSUME i + n < Len(text), i + n \notin Starts(text) PROVE FALSE
    <3> DEFINE p == i + n
    <3>1. p \in Nat /\ p < Len(text) /\ p \notin Starts(text) /\ i < p
      BY <2>1, <2>2, <2>3
    <3>2. p = i + n
      OBVIOUS
    <3> HIDE DEF p
    <3>3. PICK j \in 0..p - 1 : Decode(text, j).ok /\ p < j + Decode(text, j).length
      BY <3>1, PlaceOf DEF InsideCharacter
    <3>4. j \in Nat /\ j < p /\ j < Len(text)
      BY <1>1, <3>1
    <3>5. j \in Starts(text)
      BY <3>3, <3>4, PlaceOf
    <3>6. CASE j < i
      <4>1. j + Decode(text, j).length <= i /\ Decode(text, j).length \in Nat
        BY <1>1, <3>3, <3>4, <3>6, StartsAreOutside, DecodedBytes
      <4> QED
        BY <2>1, <2>2, <3>1, <3>3, <3>4, <4>1
    <3>7. CASE i < j
      <4>1. i + n <= j
        BY <1>1, <2>1, <3>5, <3>7, StartsAreOutside
      <4> QED
        BY <2>1, <2>2, <3>2, <3>4, <4>1
    <3>8. CASE j = i
      BY <2>1, <2>2, <3>2, <3>3, <3>8
    <3> QED
      BY <2>1, <3>4, <3>6, <3>7, <3>8
  <2>4. i + n = Len(text) => i + n \in Starts(text)
    BY DEF Starts
  <2>5. i + n \in Starts(text)
    <3>1. i + n < Len(text) \/ i + n = Len(text)
      BY <1>1, <2>1, <2>2
    <3> QED
      BY <2>3, <2>4, <3>1
  <2> QED
    BY <2>2, <2>5
<1> QED
  BY <1>1, <1>2, <1>3, Utf8Bytes DEF IsText

\* A piece of a body, from a place at which a character begins to another or to the end,
\* holds the characters that are there.
LEMMA PieceDecodes ==
    ASSUME NEW text, IsUtf8(text), NEW k \in Starts(text), NEW m \in Starts(text), k <= m,
           NEW i \in Nat, k + i < m
    PROVE  LET piece == SubSeq(text, k + 1, m)
           IN /\ Decode(piece, i).ok <=> k + i \in Starts(text)
              /\ k + i \in Starts(text) =>
                    /\ Decode(piece, i).code = Decode(text, k + i).code
                    /\ Decode(piece, i).length = Decode(text, k + i).length
<1> DEFINE piece == SubSeq(text, k + 1, m)
           n == m - k
<1>1. text \in Seq(1..255) /\ text \in Seq(Bytes)
  BY Utf8Bytes DEF IsUtf8
<1>2. k \in Nat /\ m \in Nat /\ m <= Len(text) /\ n \in Nat /\ m = k + n /\ i < n
  BY <1>1 DEF Starts
<1>3. /\ piece \in Seq(Bytes) /\ Len(piece) = n
      /\ \A j \in Nat : j < n => At(piece, j) = At(text, k + j)
  <2>1. piece = SubSeq(text, k + 1, k + n) /\ k + n <= Len(text)
    BY <1>2
  <2> HIDE DEF piece, n
  <2>2. /\ SubSeq(text, k + 1, k + n) \in Seq(Bytes) /\ Len(SubSeq(text, k + 1, k + n)) = n
        /\ \A j \in Nat : j < n => At(SubSeq(text, k + 1, k + n), j) = At(text, k + j)
    BY <1>1, <1>2, <2>1, PieceHolds
  <2> QED
    BY <2>1, <2>2
<1> HIDE DEF piece, n
<1>4. k + i \in Nat /\ k + i < Len(text) /\ k + i < m
  BY <1>2
<1>5. CASE k + i \in Starts(text)
  <2> DEFINE c == Decode(text, k + i).code
             e == Encode(c)
  <2>1. Decode(text, k + i).ok
    BY <1>4, <1>5, PlaceOf
  <2>2. c \in Scalars /\ Decode(text, k + i).length = Len(e) /\ HoldsAt(text, k + i, e)
    BY <1>1, <1>4, <2>1, DecodedIsEncoded
  <2>3. (k + i) + Len(e) <= m
    BY <1>1, <1>4, <2>1, <2>2, StartsAreOutside
  <2> HIDE DEF c
  <2>4. e \in Seq(Bytes)
    BY <2>2, CharacterOf
  <2> HIDE DEF e
  <2>5. HoldsAt(piece, i, e)
    <3>1. ASSUME NEW j \in 1..Len(e) PROVE At(piece, i + j - 1) = e[j]
      <4>1. /\ i + j - 1 \in Nat /\ i + j - 1 < n
            /\ k + (i + j - 1) = (k + i) + j - 1
        BY <1>2, <2>3, <2>4
      <4>2. At(text, (k + i) + j - 1) = e[j]
        BY <2>2, Zenon DEF HoldsAt
      <4> QED
        BY <1>3, <4>1, <4>2
    <3> QED
      BY <3>1 DEF HoldsAt
  <2>6. Decode(piece, i).ok /\ Decode(piece, i).length = Len(e) /\ Decode(piece, i).code = c
    BY <2>2, <2>5, EncodedIsDecoded DEF e
  <2> QED
    BY <1>5, <2>2, <2>6 DEF c, piece
<1>6. CASE k + i \notin Starts(text)
  <2>1. Continues(At(text, k + i))
    BY <1>4, <1>6 DEF Starts
  <2>2. Continues(At(piece, i))
    BY <1>2, <1>3, <2>1
  <2>3. ASSUME Decode(piece, i).ok PROVE FALSE
    <3> DEFINE c == Decode(piece, i).code
               e == Encode(c)
    <3>1. c \in Scalars /\ HoldsAt(piece, i, e)
      BY <1>3, <2>3, DecodedIsEncoded
    <3> HIDE DEF c
    <3>2. e \in Seq(Bytes) /\ Len(e) > 0 /\ ~Continues(At(e, 0))
      BY <3>1, CharacterOf
    <3> HIDE DEF e
    <3>3. 1 \in 1..Len(e) /\ (i + 1) - 1 = i /\ At(e, 0) = e[1]
      BY <3>2 DEF At
    <3>4. At(piece, (i + 1) - 1) = e[1]
      BY <3>1, <3>3 DEF HoldsAt
    <3> QED
      BY <2>2, <3>2, <3>3, <3>4
  <2> QED
    BY <1>6, <2>3 DEF piece
<1> QED
  BY <1>5, <1>6

\* Such a piece is a body.
LEMMA PieceIsUtf8 ==
    ASSUME NEW text, IsUtf8(text), NEW k \in Starts(text), NEW m \in Starts(text), k <= m
    PROVE  IsUtf8(SubSeq(text, k + 1, m)) /\ Len(SubSeq(text, k + 1, m)) = m - k
<1> DEFINE piece == SubSeq(text, k + 1, m)
           n == m - k
<1>1. text \in Seq(1..255) /\ text \in Seq(Bytes)
  BY Utf8Bytes DEF IsUtf8
<1>2. k \in Nat /\ m \in Nat /\ m <= Len(text) /\ n \in Nat /\ m = k + n
  BY <1>1 DEF Starts
<1>3. Len(piece) = n
  BY <1>1, <1>2, PieceHolds
<1>4. piece \in Seq(1..255)
  <2>1. \A j \in (k + 1)..m : text[j] \in 1..255
    <3>1. \A j \in (k + 1)..m : j \in 1..Len(text)
      BY <1>1, <1>2
    <3> QED
      BY <1>1, <3>1, ElementOfSeq
  <2> QED
    BY <1>2, <2>1, SubSeqProperties
<1>5. ASSUME NEW i \in 0..n - 1 PROVE Decode(piece, i).ok \/ InsideCharacter(piece, i)
  <2>1. i \in Nat /\ k + i < m /\ k + i \in Nat /\ k + i < Len(text)
    BY <1>2
  <2>2. CASE k + i \in Starts(text)
    BY <2>1, <2>2, PieceDecodes
  <2>3. CASE k + i \notin Starts(text)
    <3>1. PICK j \in 0..(k + i) - 1 :
              Decode(text, j).ok /\ k + i < j + Decode(text, j).length
      BY <2>1, <2>3, PlaceOf DEF InsideCharacter
    <3>2. j \in Nat /\ j < k + i /\ j < Len(text) /\ j \in Starts(text)
      <4>1. j \in Nat /\ j < k + i /\ j < Len(text)
        BY <1>1, <2>1
      <4> QED
        BY <3>1, <4>1, PlaceOf
    <3>3. ~ (j < k)
      <4>1. SUFFICES ASSUME j < k PROVE FALSE
        OBVIOUS
      <4>2. j + Decode(text, j).length <= k /\ Decode(text, j).length \in Nat
        BY <1>1, <3>1, <3>2, <4>1, StartsAreOutside, DecodedBytes
      <4> QED
        BY <1>2, <2>1, <3>1, <3>2, <4>2
    <3> DEFINE a == j - k
    <3>4. a \in Nat /\ a < i /\ k + a = j /\ k + a < m
      BY <1>2, <2>1, <3>2, <3>3
    <3> HIDE DEF a
    <3>5. Decode(piece, a).ok /\ Decode(piece, a).length = Decode(text, j).length
      <4>1. k + a \in Starts(text) /\ Decode(text, k + a) = Decode(text, j)
        BY <3>2, <3>4
      <4> QED
        BY <3>4, <4>1, PieceDecodes
    <3>6. Decode(text, j).length \in Nat
      BY <1>1, <3>1, <3>2, DecodedBytes
    <3>7. i < a + Decode(piece, a).length /\ a \in 0..i - 1
      BY <1>2, <2>1, <3>1, <3>2, <3>4, <3>5, <3>6
    <3> QED
      BY <3>5, <3>7 DEF InsideCharacter
  <2> QED
    BY <2>2, <2>3
<1> QED
  BY <1>3, <1>4, <1>5 DEF IsUtf8

\* The wide characters of each place.
WideTable(bytes) == [k \in 1..Len(bytes) |-> WideAt(bytes, k - 1)]

\* What MultiByteToWideChar makes of each place of a body, which is never a 0.
LEMMA WideAtOf ==
    ASSUME NEW text, IsUtf8(text), NEW i \in Nat, i < Len(text)
    PROVE  /\ i \in Starts(text) => WideAt(text, i) = Units(Decode(text, i).code)
           /\ i \notin Starts(text) => WideAt(text, i) = <<>>
           /\ WideAt(text, i) \in Seq(Nat \ {0})
<1>1. text \in Seq(1..255) /\ text \in Seq(Bytes)
  BY Utf8Bytes DEF IsUtf8
<1>2. CASE i \in Starts(text)
  <2> DEFINE c == Decode(text, i).code
             e == Encode(c)
  <2>1. Decode(text, i).ok /\ WideAt(text, i) = Units(c)
    BY <1>2, PlaceOf DEF WideAt
  <2>2. c \in Scalars /\ HoldsAt(text, i, e)
    BY <1>1, <2>1, DecodedIsEncoded
  <2> HIDE DEF c
  <2>3. c # 0
    <3>1. SUFFICES ASSUME c = 0 PROVE FALSE
      OBVIOUS
    <3>2. e = <<0>>
      BY <3>1 DEF Encode
    <3>3. HoldsAt(text, i, <<0>>)
      BY <2>2, <3>2
    <3>4. At(text, i) = 0
      BY <3>3, SMT DEF HoldsAt
    <3>5. At(text, i) \in 1..255
      BY <1>1, Utf8Bytes
    <3> QED
      BY <3>4, <3>5
  <2>4. Units(c) \in Seq(Nat \ {0})
    <3>1. c \in Nat
      BY <2>2 DEF Scalars
    <3>2. CASE c < 65536
      BY <2>3, <3>1, <3>2 DEF Units
    <3>3. CASE ~ (c < 65536)
      <4>1. 55296 + (c - 65536) \div 1024 \in Nat \ {0} /\ 56320 + ((c - 65536) % 1024) \in Nat \ {0}
        BY <3>1, <3>3, SMT
      <4> QED
        BY <3>3, <4>1 DEF Units
    <3> QED
      BY <3>2, <3>3
  <2> QED
    BY <1>2, <2>1, <2>4 DEF c
<1>3. CASE i \notin Starts(text)
  BY <1>3, PlaceOf DEF WideAt
<1> QED
  BY <1>2, <1>3

\* Wide makes a sequence of units that are not 0.
LEMMA WideType ==
    ASSUME NEW text, IsUtf8(text)
    PROVE  /\ WideTable(text) \in Seq(Seq(Nat \ {0}))
           /\ Wide(text) = FlattenSeq(WideTable(text))
           /\ Wide(text) \in Seq(Nat \ {0})
<1>1. Len(text) \in Nat
  BY DEF IsUtf8
<1>2. \A k \in 1..Len(text) : WideAt(text, k - 1) \in Seq(Nat \ {0})
  <2>1. \A k \in 1..Len(text) : k - 1 \in Nat /\ k - 1 < Len(text)
    BY <1>1
  <2> QED
    BY <2>1, WideAtOf
<1>3. WideTable(text) \in Seq(Seq(Nat \ {0}))
  <2> DEFINE S == Seq(Nat \ {0})
  <2>1. \A k \in 1..Len(text) : WideAt(text, k - 1) \in S
    BY <1>2
  <2> HIDE DEF S
  <2>2. [k \in 1..Len(text) |-> WideAt(text, k - 1)] \in Seq(S)
    BY <1>1, <2>1
  <2> QED
    BY <2>2 DEF WideTable, S
<1>4. Wide(text) = FlattenSeq(WideTable(text))
  BY DEF Wide, WideTable
<1> QED
  BY <1>3, <1>4, FlattenType

\* A sequence is made of two if it has their elements.
LEMMA JoinedOf ==
    ASSUME NEW S, NEW x \in Seq(S), NEW y \in Seq(S), NEW z \in Seq(S), NEW k \in Nat, NEW m \in Nat,
           Len(x) = k, Len(y) = m - k, Len(z) = m,
           \A i \in 1..k : x[i] = z[i], \A i \in 1..m - k : y[i] = z[k + i]
    PROVE  Joined(x, y, z)
<1>1. x \o y \in Seq(S) /\ Len(x \o y) = m
  <2>1. x \o y \in Seq(S) /\ Len(x \o y) = Len(x) + Len(y)
    BY ConcatProperties
  <2>2. k + (m - k) = m
    OBVIOUS
  <2> QED
    BY <2>1, <2>2
<1>2. ASSUME NEW i \in 1..m PROVE (x \o y)[i] = z[i]
  <2>1. (x \o y)[i] = IF i <= k THEN x[i] ELSE y[i - k]
    <3>1. i \in 1..Len(x) + Len(y)
      OBVIOUS
    <3> QED
      BY <3>1, ConcatProperties
  <2>2. i <= k => i \in 1..k
    OBVIOUS
  <2>3. ~ (i <= k) => i - k \in 1..m - k /\ k + (i - k) = i
    OBVIOUS
  <2> QED
    BY <2>1, <2>2, <2>3
<1>3. z = x \o y
  BY <1>1, <1>2, SeqEqual
<1> QED
  BY <1>3 DEF Joined

\* The pieces of a body can be made wide one by one.
LEMMA WideJoins ==
    ASSUME NEW text, IsUtf8(text), NEW k \in Starts(text), NEW m \in Starts(text), k <= m
    PROVE  Joined(Wide(SubSeq(text, 1, k)), Wide(SubSeq(text, k + 1, m)), Wide(SubSeq(text, 1, m)))
<1> DEFINE a == SubSeq(text, 1, k)
           b == SubSeq(text, k + 1, m)
           c == SubSeq(text, 1, m)
<1>1. text \in Seq(1..255) /\ k \in Nat /\ m \in Nat /\ m <= Len(text) /\ k <= Len(text)
  BY DEF IsUtf8, Starts
<1>2. 0 \in Starts(text)
  BY Utf8IsText DEF IsText
<1>3. /\ IsUtf8(a) /\ Len(a) = k
      /\ IsUtf8(b) /\ Len(b) = m - k
      /\ IsUtf8(c) /\ Len(c) = m
  <2>1. IsUtf8(SubSeq(text, 0 + 1, k)) /\ Len(SubSeq(text, 0 + 1, k)) = k - 0
    BY <1>1, <1>2, PieceIsUtf8
  <2>2. IsUtf8(SubSeq(text, 0 + 1, m)) /\ Len(SubSeq(text, 0 + 1, m)) = m - 0
    BY <1>1, <1>2, PieceIsUtf8
  <2>3. IsUtf8(b) /\ Len(b) = m - k
    BY PieceIsUtf8
  <2>4. 0 + 1 = 1 /\ k - 0 = k /\ m - 0 = m
    BY <1>1
  <2> QED
    BY <2>1, <2>2, <2>3, <2>4
<1>4. ASSUME NEW i \in Nat, i < k PROVE WideAt(a, i) = WideAt(text, i)
  <2>1. i < Len(text) /\ i < Len(a) /\ 0 + i = i /\ 0 + 1 = 1 /\ 0 <= k
    BY <1>1, <1>3, <1>4
  <2>2. /\ Decode(a, i).ok <=> i \in Starts(text)
        /\ i \in Starts(text) => Decode(a, i).code = Decode(text, i).code
    BY <1>2, <1>4, <2>1, PieceDecodes
  <2> QED
    BY <1>3, <1>4, <2>1, <2>2, WideAtOf, PlaceOf
<1>5. ASSUME NEW i \in Nat, i < m PROVE WideAt(c, i) = WideAt(text, i)
  <2>1. i < Len(text) /\ i < Len(c) /\ 0 + i = i /\ 0 + 1 = 1 /\ 0 <= m
    BY <1>1, <1>3, <1>5
  <2>2. /\ Decode(c, i).ok <=> i \in Starts(text)
        /\ i \in Starts(text) => Decode(c, i).code = Decode(text, i).code
    BY <1>2, <1>5, <2>1, PieceDecodes
  <2> QED
    BY <1>3, <1>5, <2>1, <2>2, WideAtOf, PlaceOf
<1>6. ASSUME NEW i \in Nat, k + i < m PROVE WideAt(b, i) = WideAt(text, k + i)
  <2>1. k + i < Len(text) /\ i < Len(b) /\ k + i \in Nat
    BY <1>1, <1>3, <1>6
  <2>2. /\ Decode(b, i).ok <=> k + i \in Starts(text)
        /\ k + i \in Starts(text) => Decode(b, i).code = Decode(text, k + i).code
    BY <1>6, PieceDecodes
  <2> QED
    BY <1>3, <2>1, <2>2, WideAtOf, PlaceOf
<1>7. Joined(WideTable(a), WideTable(b), WideTable(c))
  <2> HIDE DEF a, b, c
  <2>1. \A i \in 1..k : WideTable(a)[i] = WideAt(text, i - 1) /\ WideTable(c)[i] = WideAt(text, i - 1)
    <3>1. ASSUME NEW i \in 1..k PROVE WideAt(a, i - 1) = WideAt(text, i - 1) /\ WideAt(c, i - 1) = WideAt(text, i - 1)
      <4>1. i - 1 \in Nat /\ i - 1 < k /\ i - 1 < m
        BY <1>1
      <4> QED
        BY <1>4, <1>5, <4>1
    <3> QED
      BY <1>1, <1>3, <3>1 DEF WideTable
  <2>2. \A i \in 1..m - k : WideTable(b)[i] = WideTable(c)[k + i]
    <3>1. ASSUME NEW i \in 1..m - k PROVE WideAt(b, i - 1) = WideAt(c, k + i - 1)
      <4>1. i - 1 \in Nat /\ k + (i - 1) < m /\ k + i - 1 = k + (i - 1) /\ k + (i - 1) \in Nat
        BY <1>1
      <4> QED
        BY <1>5, <1>6, <4>1
    <3>2. \A i \in 1..m - k : k + i \in 1..m
      BY <1>1
    <3> QED
      BY <1>1, <1>3, <3>1, <3>2 DEF WideTable
  <2>3. /\ WideTable(a) \in Seq(Seq(Nat \ {0})) /\ Len(WideTable(a)) = k
        /\ WideTable(b) \in Seq(Seq(Nat \ {0})) /\ Len(WideTable(b)) = m - k
        /\ WideTable(c) \in Seq(Seq(Nat \ {0})) /\ Len(WideTable(c)) = m
    <3>1. Len(WideTable(a)) = k /\ Len(WideTable(b)) = m - k /\ Len(WideTable(c)) = m
      BY <1>1, <1>3 DEF WideTable
    <3> QED
      BY <1>3, <3>1, WideType
  <2> DEFINE x == WideTable(a)
             y == WideTable(b)
             z == WideTable(c)
             S == Seq(Nat \ {0})
  <2>4. /\ x \in Seq(S) /\ Len(x) = k /\ y \in Seq(S) /\ Len(y) = m - k
        /\ z \in Seq(S) /\ Len(z) = m
        /\ \A i \in 1..k : x[i] = z[i]
        /\ \A i \in 1..m - k : y[i] = z[k + i]
    BY <2>1, <2>2, <2>3
  <2> HIDE DEF x, y, z, S
  <2>5. Joined(x, y, z)
    BY <1>1, <2>4, JoinedOf
  <2> QED
    BY <2>5 DEF x, y, z
<1> HIDE DEF a, b, c
<1>8. /\ WideTable(a) \in Seq(Seq(Nat \ {0})) /\ Wide(a) = FlattenSeq(WideTable(a))
      /\ WideTable(b) \in Seq(Seq(Nat \ {0})) /\ Wide(b) = FlattenSeq(WideTable(b))
      /\ Wide(c) = FlattenSeq(WideTable(c))
  BY <1>3, WideType
<1>9. Joined(Wide(a), Wide(b), Wide(c))
  BY <1>7, <1>8, FlattenConcat
<1> QED
  BY <1>9 DEF a, b, c

\* The bytes of each unit.
EncodeTable(wstr) == [k \in 1..Len(wstr) |-> Encode(wstr[k])]

\* wstring_to_utf8 goes through its argument unit by unit.
LEMMA EncodeType ==
    ASSUME NEW s \in Seq(Nat)
    PROVE  /\ EncodeTable(s) \in Seq(Seq(Int)) /\ Len(EncodeTable(s)) = Len(s)
           /\ wstring_to_utf8(s) = FlattenSeq(EncodeTable(s))
           /\ wstring_to_utf8(s) \in Seq(Int)
<1>1. ASSUME NEW c \in Nat PROVE Encode(c) \in Seq(Int)
  <2>1. \A n \in Nat : Tail6(n) \in Int
    BY SMT DEF Tail6
  <2>2. c \div 64 \in Nat /\ c \div 4096 \in Nat /\ c \div 262144 \in Nat
    BY SMT
  <2>3. /\ 192 + c \div 64 \in Int /\ 224 + c \div 4096 \in Int /\ 240 + c \div 262144 \in Int
        /\ Tail6(c) \in Int /\ Tail6(c \div 64) \in Int /\ Tail6(c \div 4096) \in Int
    BY <2>1, <2>2
  <2> QED
    BY <2>3 DEF Encode
<1>2. EncodeTable(s) \in Seq(Seq(Int)) /\ Len(EncodeTable(s)) = Len(s)
  <2> DEFINE S == Seq(Int)
  <2>1. \A k \in 1..Len(s) : Encode(s[k]) \in S
    BY <1>1
  <2> HIDE DEF S
  <2>2. [k \in 1..Len(s) |-> Encode(s[k])] \in Seq(S)
    BY <2>1
  <2> QED
    BY <2>2 DEF EncodeTable, S
<1>3. wstring_to_utf8(s) = FlattenSeq(EncodeTable(s))
  BY DEF wstring_to_utf8, EncodeTable
<1> QED
  BY <1>2, <1>3, FlattenType

\* It can be given a string piece by piece.
LEMMA EncodeJoins ==
    ASSUME NEW s \in Seq(Nat), NEW t \in Seq(Nat), NEW u, Joined(s, t, u)
    PROVE  Joined(wstring_to_utf8(s), wstring_to_utf8(t), wstring_to_utf8(u))
<1> DEFINE n == Len(s)
           m == Len(u)
           S == Seq(Int)
<1>1. /\ u \in Seq(Nat) /\ n \in Nat /\ m \in Nat /\ Len(t) = m - n
      /\ \A i \in 1..n : u[i] = s[i] /\ i \in 1..m
      /\ \A i \in 1..m - n : u[n + i] = t[i] /\ n + i \in 1..m
  BY DEF Joined
<1>2. /\ EncodeTable(s) \in Seq(S) /\ Len(EncodeTable(s)) = n
      /\ EncodeTable(t) \in Seq(S) /\ Len(EncodeTable(t)) = m - n
      /\ EncodeTable(u) \in Seq(S) /\ Len(EncodeTable(u)) = m
  BY <1>1, EncodeType
<1>3. \A i \in 1..n : EncodeTable(s)[i] = EncodeTable(u)[i]
  BY <1>1 DEF EncodeTable
<1>4. \A i \in 1..m - n : EncodeTable(t)[i] = EncodeTable(u)[n + i]
  BY <1>1 DEF EncodeTable
<1>5. Joined(EncodeTable(s), EncodeTable(t), EncodeTable(u))
  <2> HIDE DEF n, m, S
  <2> QED
    BY <1>1, <1>2, <1>3, <1>4, JoinedOf
<1>6. /\ wstring_to_utf8(s) = FlattenSeq(EncodeTable(s))
      /\ wstring_to_utf8(t) = FlattenSeq(EncodeTable(t))
      /\ wstring_to_utf8(u) = FlattenSeq(EncodeTable(u))
  BY <1>1, EncodeType
<1> QED
  BY <1>2, <1>5, <1>6, FlattenConcat DEF S

\* A character of up to three bytes becomes one unit, and that unit the character.
LEMMA CharacterKept ==
    ASSUME NEW text, IsUtf8(text), Len(text) > 0, Decode(text, 0).length = Len(text),
           \A k \in 1..Len(text) : text[k] < 240
    PROVE  wstring_to_utf8(Wide(text)) = text
<1> DEFINE c == Decode(text, 0).code
           e == Encode(c)
           n == Len(text)
<1>1. text \in Seq(1..255) /\ text \in Seq(Bytes) /\ n \in Nat /\ 0 < n
  BY Utf8Bytes DEF IsUtf8
<1>2. 0 \in Starts(text) /\ Decode(text, 0).ok
  <2>1. 0 \in Starts(text)
    BY Utf8IsText DEF IsText
  <2> QED
    BY <1>1, <2>1, PlaceOf
<1>3. c \in Scalars /\ n = Len(e) /\ HoldsAt(text, 0, e)
  BY <1>1, <1>2, DecodedIsEncoded
<1>4. c \in Nat
  BY <1>3 DEF Scalars
<1> HIDE DEF c
<1>5. e \in Seq(Bytes)
  BY <1>3, CharacterOf
<1>6. text = e
  <2>1. ASSUME NEW k \in 1..n PROVE text[k] = e[k]
    <3>1. 0 + k - 1 = k - 1 /\ k - 1 < n /\ (k - 1) + 1 = k
      BY <1>1
    <3>2. At(text, 0 + k - 1) = e[k]
      BY <1>3 DEF HoldsAt
    <3> QED
      BY <3>1, <3>2 DEF At
  <2> HIDE DEF e
  <2> QED
    BY <1>1, <1>3, <1>5, <2>1, SeqEqual
<1>7. c < 65536
  <2>1. SUFFICES ASSUME ~ (c < 65536) PROVE FALSE
    OBVIOUS
  <2>2. e[1] = 240 + c \div 262144
    BY <1>4, <2>1, SMT DEF Encode
  <2>3. c \div 262144 \in Nat
    BY <1>4, SMT
  <2>4. e[1] < 240
    BY <1>1, <1>6
  <2> HIDE DEF e
  <2> QED
    BY <2>2, <2>3, <2>4
<1>8. WideAt(text, 0) = <<c>>
  BY <1>1, <1>2, <1>7, WideAtOf DEF Units, c
<1>9. ASSUME NEW i \in Nat, 0 < i, i < n PROVE WideAt(text, i) = <<>>
  <2>1. Continues(At(text, i))
    BY <1>1, <1>2, <1>9, DecodedBytes
  <2>2. i \notin Starts(text)
    BY <1>9, <2>1 DEF Starts
  <2> QED
    BY <1>9, <2>2, WideAtOf
<1>10. Wide(text) = <<c>>
  <2> DEFINE none == [k \in 1..n - 1 |-> <<>>]
             one == <<<<c>>>>
             S == Seq(Nat)
  <2>1. none \in Seq(Seq({})) /\ none \in Seq(S) /\ Len(none) = n - 1
    BY <1>1
  <2>2. one \in Seq(S) /\ Len(one) = 1 /\ one[1] = <<c>>
    BY <1>4
  <2>3. WideTable(text) \in Seq(S) /\ Len(WideTable(text)) = n
    <3>1. \A k \in 1..n : WideTable(text)[k] \in S
      <4>1. WideTable(text) \in Seq(Seq(Nat \ {0})) /\ Len(WideTable(text)) = n
        <5>1. Len(WideTable(text)) = n
          BY <1>1 DEF WideTable
        <5> QED
          BY <5>1, WideType
      <4>2. \A k \in 1..n : WideTable(text)[k] \in Seq(Nat \ {0})
        BY <4>1, ElementOfSeq
      <4>3. Seq(Nat \ {0}) \subseteq Seq(Nat)
        OBVIOUS
      <4> QED
        BY <4>2, <4>3
    <3>2. WideTable(text) = [k \in 1..n |-> WideTable(text)[k]]
      BY DEF WideTable
    <3> HIDE DEF S
    <3> QED
      BY <1>1, <3>1, <3>2
  <2>4. Joined(one, none, WideTable(text))
    <3>1. \A i \in 1..1 : one[i] = WideTable(text)[i]
      BY <1>1, <1>8, <2>2 DEF WideTable
    <3>2. \A i \in 1..n - 1 : none[i] = WideTable(text)[1 + i]
      BY <1>1, <1>9 DEF WideTable
    <3> HIDE DEF S, one, none
    <3> QED
      BY <1>1, <2>1, <2>2, <2>3, <3>1, <3>2, JoinedOf
  <2>5. FlattenSeq(none) = <<>>
    <3>1. FlattenSeq(none) \in Seq({})
      BY <2>1, FlattenType
    <3> QED
      BY <3>1
  <2>6. FlattenSeq(one) = <<c>>
    <3>1. <<c>> \in Seq(Nat)
      BY <1>4
    <3> QED
      BY <3>1, FlattenOne
  <2>7. Joined(<<c>>, <<>>, Wide(text))
    <3>1. Joined(FlattenSeq(one), FlattenSeq(none), FlattenSeq(WideTable(text)))
      BY <2>1, <2>2, <2>4, FlattenConcat DEF S
    <3> QED
      BY <2>5, <2>6, <3>1, WideType
  <2> QED
    BY <1>4, <2>7 DEF Joined
<1>11. wstring_to_utf8(<<c>>) = e
  <2>1. EncodeTable(<<c>>) = <<e>>
    BY DEF EncodeTable
  <2>2. wstring_to_utf8(<<c>>) = FlattenSeq(<<e>>)
    <3>1. <<c>> \in Seq(Nat)
      BY <1>4
    <3> QED
      BY <2>1, <3>1, EncodeType
  <2> QED
    BY <1>5, <2>2, FlattenOne
<1> QED
  BY <1>6, <1>10, <1>11

\* Of nothing there is nothing.
LEMMA NothingWide == Wide(<<>>) = <<>> /\ wstring_to_utf8(<<>>) = <<>>
<1>1. FlattenSeq(<<>>) = <<>>
  BY DEF FlattenSeq
<1>2. [k \in 1..Len(<<>>) |-> WideAt(<<>>, k - 1)] = <<>>
  OBVIOUS
<1>3. [k \in 1..Len(<<>>) |-> Encode(<<>>[k])] = <<>>
  OBVIOUS
<1> QED
  BY <1>1, <1>2, <1>3 DEF Wide, wstring_to_utf8

\* A body of characters of up to three bytes comes out of the conversions as it went in.
LEMMA BodyKept ==
    ASSUME NEW text, IsUtf8(text), \A k \in 1..Len(text) : text[k] < 240
    PROVE  wstring_to_utf8(Wide(text)) = text
<1> DEFINE Kept(j) == wstring_to_utf8(Wide(SubSeq(text, 1, j))) = SubSeq(text, 1, j)
           T == {j \in Starts(text) : ~Kept(j)}
<1> HIDE DEF Kept
<1>1. text \in Seq(1..255) /\ 0 \in Starts(text) /\ T \subseteq Nat
  <2>1. \A j \in Starts(text) : j \in Nat
    BY DEF IsUtf8, Starts
  <2> QED
    BY <2>1, Utf8IsText DEF IsUtf8, IsText
<1>2. CASE T # {}
  <2>1. PICK j \in T : \A k \in T : j <= k
    <3> HIDE DEF T
    <3> QED
      BY <1>1, <1>2, Smallest
  <2>2. j \in Nat /\ j \in Starts(text) /\ ~Kept(j) /\ j <= Len(text)
    BY <1>1, <2>1 DEF Starts
  <2>3. j # 0
    <3>1. SubSeq(text, 1, 0) = <<>>
      BY <1>1
    <3>2. Kept(0)
      BY <3>1, NothingWide DEF Kept
    <3> QED
      BY <2>2, <3>2
  <2>4. PICK i \in Nat : i < j /\ Decode(text, i).ok /\ i + Decode(text, i).length = j
    <3> DEFINE h == j - 1
    <3>1. h \in Nat /\ h < Len(text) /\ h < j
      BY <2>2, <2>3
    <3>2. j = h + 1
      BY <2>2
    <3> HIDE DEF h
    <3>3. \E i \in Nat : i <= h /\ Decode(text, i).ok /\ h < i + Decode(text, i).length
      <4>1. CASE h \in Starts(text)
        <5>1. Decode(text, h).ok
          BY <3>1, <4>1, PlaceOf
        <5>2. Decode(text, h).length \in Nat /\ 0 < Decode(text, h).length
          BY <1>1, <3>1, <5>1, DecodedBytes
        <5> QED
          BY <3>1, <5>1, <5>2
      <4>2. CASE h \notin Starts(text)
        <5>1. PICK i \in 0..h - 1 : Decode(text, i).ok /\ h < i + Decode(text, i).length
          BY <3>1, <4>2, PlaceOf DEF InsideCharacter
        <5> QED
          BY <3>1, <5>1
      <4> QED
        BY <4>1, <4>2
    <3>4. PICK i \in Nat : i <= h /\ Decode(text, i).ok /\ h < i + Decode(text, i).length
      BY <3>3
    <3>5. i < j /\ i < Len(text)
      BY <1>1, <3>1, <3>4
    <3>6. i + Decode(text, i).length <= j /\ Decode(text, i).length \in Nat
      BY <1>1, <2>2, <3>4, <3>5, StartsAreOutside, DecodedBytes
    <3>7. i + Decode(text, i).length = j
      BY <3>1, <3>2, <3>4, <3>6
    <3> QED
      BY <3>4, <3>5, <3>7
  <2>5. i \in Starts(text) /\ i <= j
    <3>1. i < Len(text)
      BY <1>1, <2>2, <2>4
    <3> QED
      BY <2>2, <2>4, <3>1, PlaceOf
  <2> DEFINE a == SubSeq(text, 1, i)
             b == SubSeq(text, i + 1, j)
             c == SubSeq(text, 1, j)
             n == j - i
  <2>6. IsUtf8(b) /\ Len(b) = n /\ n \in Nat /\ n > 0
    BY <2>2, <2>4, <2>5, PieceIsUtf8
  <2>7. Kept(i)
    BY <1>1, <2>1, <2>4, <2>5
  <2>8. Decode(b, 0).length = n
    <3>1. i + 0 = i /\ i + 0 < j /\ Decode(text, i).length = n
      <4>1. Decode(text, i).length \in Nat
        BY <1>1, <2>2, <2>4, DecodedBytes
      <4> QED
        BY <2>2, <2>4, <4>1
    <3> QED
      BY <2>2, <2>5, <3>1, PieceDecodes
  <2>9. \A k \in 1..n : b[k] < 240
    <3>1. /\ b \in Seq(1..255)
          /\ \A k \in 1..j - (i + 1) + 1 : b[k] = text[i + 1 + k - 1]
      <4>1. \A k \in (i + 1)..j : text[k] \in 1..255
        <5>1. \A k \in (i + 1)..j : k \in 1..Len(text)
          BY <1>1, <2>2
        <5> QED
          BY <1>1, <5>1, ElementOfSeq
      <4> QED
        BY <2>2, <4>1, SubSeqProperties
    <3>2. ASSUME NEW k \in 1..n PROVE b[k] = text[i + k] /\ i + k \in 1..Len(text)
      <4>1. k \in 1..j - (i + 1) + 1 /\ i + 1 + k - 1 = i + k /\ i + k \in 1..Len(text)
        BY <1>1, <2>2
      <4> QED
        BY <3>1, <4>1
    <3> HIDE DEF b
    <3> QED
      BY <3>2
  <2> HIDE DEF b
  <2>10. wstring_to_utf8(Wide(b)) = b
    BY <2>6, <2>8, <2>9, CharacterKept
  <2> USE DEF b
  <2>11. Joined(Wide(a), Wide(b), Wide(c))
    BY <2>2, <2>5, WideJoins
  <2>12. Wide(a) \in Seq(Nat) /\ Wide(b) \in Seq(Nat)
    <3>1. IsUtf8(SubSeq(text, 0 + 1, i)) /\ 0 + 1 = 1
      BY <1>1, <2>5, PieceIsUtf8
    <3>2. Wide(a) \in Seq(Nat \ {0}) /\ Wide(b) \in Seq(Nat \ {0})
      BY <2>6, <3>1, WideType
    <3> HIDE DEF a, b
    <3> QED
      BY <3>2, SeqMonotonic
  <2> HIDE DEF a, b, c
  <2>13. Joined(wstring_to_utf8(Wide(a)), wstring_to_utf8(Wide(b)), wstring_to_utf8(Wide(c)))
    BY <2>11, <2>12, EncodeJoins
  <2>14. wstring_to_utf8(Wide(a)) = a
    BY <2>7 DEF Kept, a
  <2>15. Joined(a, b, c)
    <3>1. 1 \in 1..Len(text) + 1 /\ i \in 1 - 1..Len(text) /\ j \in i..Len(text)
      BY <1>1, <2>2, <2>5
    <3>2. SubSeq(text, 1, i) \o SubSeq(text, i + 1, j) = SubSeq(text, 1, j)
      BY <1>1, <3>1, ConcatAdjacentSubSeq
    <3> QED
      BY <3>2 DEF Joined, a, b, c
  <2>16. wstring_to_utf8(Wide(c)) = c
    BY <2>10, <2>13, <2>14, <2>15 DEF Joined
  <2> QED
    BY <2>2, <2>16 DEF Kept, c
<1>3. CASE T = {}
  <2>1. Kept(Len(text))
    BY <1>3 DEF Starts
  <2>2. SubSeq(text, 1, Len(text)) = text
    BY <1>1, SubSeqFull
  <2> QED
    BY <2>1, <2>2 DEF Kept
<1> QED
  BY <1>2, <1>3

\* A read appends to what was read: on the desktop, and of a request body.
LEMMA ReadAppends ==
    ASSUME NEW data, IsUtf8(data), NEW k \in 0..Len(data), NEW size \in Nat \ {0}
    PROVE  LET got == Read(Stream(data, k), size)
           IN \E m \in k..Len(data) :
                 /\ got.stream = Stream(data, m)
                 /\ SubSeq(data, 1, k) \o got.bytes = SubSeq(data, 1, m)
                 /\ CString(got.bytes) = got.bytes
                 /\ got.bytesRead = 0 => k = Len(data) /\ m = k
<1> DEFINE got == Read(Stream(data, k), size)
           n == Count(data, k, size)
           m == k + n
<1>1. data \in Seq(1..255) /\ data \in Seq(Bytes) /\ k \in Nat /\ k <= Len(data) /\ Len(data) \in Nat
  BY Utf8Bytes DEF IsUtf8
<1>2. /\ n \in Nat /\ k + n <= Len(data) /\ got.bytesRead = n
      /\ got.bytes = SubSeq(data, k + 1, k + n) /\ got.stream = Stream(data, k + n)
  BY <1>1, ReadGives
<1>3. n = 0 => k = Len(data)
  BY <1>1 DEF Count
<1> HIDE DEF got, n
<1>4. m \in k..Len(data)
  BY <1>1, <1>2
<1>5. SubSeq(data, 1, k) \o SubSeq(data, k + 1, m) = SubSeq(data, 1, m)
  <2>1. 1 \in 1..Len(data) + 1 /\ k \in 1 - 1..Len(data) /\ m \in k..Len(data)
    BY <1>1, <1>4
  <2> QED
    BY <1>1, <2>1, ConcatAdjacentSubSeq
<1>6. CString(SubSeq(data, k + 1, m)) = SubSeq(data, k + 1, m)
  <2>1. \A j \in (k + 1)..m : data[j] \in 1..255
    <3>1. \A j \in (k + 1)..m : j \in 1..Len(data)
      BY <1>1, <1>2
    <3> QED
      BY <1>1, <3>1, ElementOfSeq
  <2>2. SubSeq(data, k + 1, m) \in Seq(1..255)
    BY <1>1, <1>2, <2>1, SubSeqProperties
  <2> DEFINE b == SubSeq(data, k + 1, m)
  <2>3. b \in Seq(1..255)
    BY <2>2
  <2> HIDE DEF b
  <2>4. b \in Seq(Nat) /\ \A j \in 1..Len(b) : b[j] # 0
    <3>1. b \in Seq(Nat)
      <4>1. 1..255 \subseteq Nat
        OBVIOUS
      <4> QED
        BY <2>3, <4>1, SeqMonotonic
    <3>2. ASSUME NEW j \in 1..Len(b) PROVE b[j] # 0
      <4>1. b[j] \in 1..255
        BY <2>3, ElementOfSeq
      <4>2. 0 \notin 1..255
        OBVIOUS
      <4> QED
        BY <4>1, <4>2, Zenon
    <3> QED
      BY <3>1, <3>2
  <2>5. CString(b) = b
    BY <2>4, WithoutZero
  <2> QED
    BY <2>5 DEF b
<1>7. got.bytesRead = 0 => k = Len(data) /\ m = k
  BY <1>1, <1>2, <1>3
<1> QED
  BY <1>2, <1>4, <1>5, <1>6, <1>7 DEF got

\* On UWP a chunk appends to what was converted, and an empty chunk is the end.
LEMMA ChunkAppends ==
    ASSUME NEW data, IsUtf8(data), NEW j \in Starts(data)
    PROVE  LET got == Chunk(Stream(data, j))
           IN \E m \in Starts(data) :
                 /\ got.stream = Stream(data, m)
                 /\ Wide(SubSeq(data, 1, j)) \o CString(Wide(got.bytes)) = Wide(SubSeq(data, 1, m))
                 /\ got.bytes = <<>> => j = Len(data)
<1>1. data \in Seq(Bytes) /\ IsText(data)
  BY Utf8IsText
<1>2. PICK n \in Nat :
              /\ j + n \in Starts(data)
              /\ j < Len(data) => n > 0
              /\ Chunk(Stream(data, j)).bytes = SubSeq(data, j + 1, j + n)
              /\ Chunk(Stream(data, j)).stream = Stream(data, j + n)
  BY <1>1, ChunkIsWhole
<1> DEFINE m == j + n
           b == SubSeq(data, j + 1, m)
<1>3. m \in Starts(data) /\ j \in Nat /\ m \in Nat /\ j <= m /\ j <= Len(data) /\ Len(data) \in Nat
  BY <1>1, <1>2 DEF Starts
<1>4. Chunk(Stream(data, j)).bytes = b /\ Chunk(Stream(data, j)).stream = Stream(data, m)
  BY <1>2
<1>5. m = j + n
  OBVIOUS
<1> HIDE DEF m
<1>6. IsUtf8(b) /\ Len(b) = m - j
  BY <1>3, PieceIsUtf8
<1>7. Joined(Wide(SubSeq(data, 1, j)), Wide(b), Wide(SubSeq(data, 1, m)))
  BY <1>3, WideJoins
<1> HIDE DEF b
<1>8. CString(Wide(b)) = Wide(b)
  <2> DEFINE w == Wide(b)
  <2>1. w \in Seq(Nat \ {0})
    BY <1>6, WideType
  <2> HIDE DEF w
  <2>2. w \in Seq(Nat) /\ \A k \in 1..Len(w) : w[k] # 0
    BY <2>1
  <2>3. CString(w) = w
    BY <2>2, WithoutZero
  <2> QED
    BY <2>3 DEF w
<1>9. b = <<>> => j = Len(data)
  BY <1>2, <1>3, <1>5, <1>6
<1> QED
  BY <1>3, <1>4, <1>7, <1>8, <1>9 DEF Joined

\* The invariant.  What the system has read of the request body is its beginning; until
\* the answer is read nothing of it has been taken and the response is the caller's; and
\* while it is read, what has been made of it is its beginning too, on UWP up to a place
\* at which a character begins, after a request body that was sent to its end.
Uploaded ==
    /\ \E k \in 0..Len(content) : upload = Stream(content, k) /\ sent = SubSeq(content, 1, k)
    /\ pc = "uploading" => client = "uwp"
Answered ==
    /\ pc \in {"calling", "uploading", "reading"} => response = before
    /\ pc \in {"calling", "uploading"} => download = Stream(content, 0) /\ str = <<>>
Downloaded ==
    pc = "reading" =>
        /\ client = "desktop" =>
              \E j \in 0..Len(content) : download = Stream(content, j) /\ str = SubSeq(content, 1, j)
        /\ client = "uwp" =>
              /\ sent = content
              /\ \E j \in Starts(content) :
                    download = Stream(content, j) /\ str = Wide(SubSeq(content, 1, j))
HttpInv ==
    /\ client \in {"desktop", "uwp"} /\ IsUtf8(content)
    /\ Uploaded
    /\ Answered
    /\ Downloaded
    /\ BodyWhole

\* A stream that was opened, and one that was not read.
LEMMA OpenedStream == ASSUME NEW data PROVE Opened(data) = Stream(data, 0)
BY DEF Opened, Stream

\* The empty body.
LEMMA EmptyUtf8 == IsUtf8(<<>>)
<1>1. <<>> \in Seq(1..255) /\ Len(<<>>) = 0
  OBVIOUS
<1> QED
  BY <1>1 DEF IsUtf8

\* Nothing of a body.
LEMMA NothingOf ==
    ASSUME NEW text, IsUtf8(text)
    PROVE  SubSeq(text, 1, 0) = <<>> /\ 0 \in 0..Len(text) /\ SubSeq(text, 1, Len(text)) = text
<1>1. text \in Seq(1..255)
  BY DEF IsUtf8
<1>2. SubSeq(text, 1, Len(text)) = text
  BY <1>1, SubSeqFull
<1>3. SubSeq(text, 1, 0) = <<>> /\ 0 \in 0..Len(text)
  BY <1>1
<1> QED
  BY <1>2, <1>3

\* What a request that is begun has read and made: nothing.
LEMMA MakeRequestInv ==
    ASSUME NEW c \in {"desktop", "uwp"}, NEW text, IsUtf8(text), MakeRequest(c, text)
    PROVE  HttpInv'
<1>1. /\ client' = c /\ content' = text /\ before' = response /\ pc' = "calling" /\ err' = "none"
      /\ upload' = Stream(text, 0) /\ sent' = <<>>
      /\ download' = Stream(text, 0) /\ str' = <<>> /\ response' = response
  BY OpenedStream DEF MakeRequest
<1>2. SubSeq(text, 1, 0) = <<>> /\ 0 \in 0..Len(text)
  BY NothingOf
<1>3. Uploaded' /\ Answered' /\ Downloaded'
  BY <1>1, <1>2 DEF Uploaded, Answered, Downloaded
<1>4. upload'.seekLocation = 0
  BY <1>1 DEF Stream
<1>5. BodyWhole'
  BY <1>1, <1>2, <1>4 DEF BodyWhole, AnswerWhole
<1> QED
  BY <1>1, <1>3, <1>5 DEF HttpInv

\* A request that returns.
LEMMA ReturnsInv ==
    ASSUME HttpInv, NEW answer, Returns(answer),
           client = "desktop" => answer = Response(200, SubSeq(content, 1, download.seekLocation)),
           client = "uwp" =>
               \/ answer = before
               \/ /\ answer = Response(200, wstring_to_utf8(Wide(content)))
                  /\ (\A i \in DOMAIN content : content[i] < 240) => answer.body = content
    PROVE  HttpInv'
<1>1. /\ pc' = "done" /\ err' = "OK" /\ response' = answer
      /\ UNCHANGED <<client, content, before, upload, sent, download, str>>
  BY DEF Returns, request, streams
<1>2. HttpInv
  OBVIOUS
<1>3. Uploaded' /\ Answered' /\ Downloaded'
  BY <1>1, <1>2 DEF HttpInv, Uploaded, Answered, Downloaded
<1>4. AnswerWhole'
  BY <1>1, <1>2 DEF AnswerWhole, HttpInv
<1>5. BodyWhole'
  BY <1>1, <1>2, <1>4 DEF BodyWhole, HttpInv
<1> QED
  BY <1>1, <1>2, <1>3, <1>5 DEF HttpInv

\* The invariant holds at the beginning.
LEMMA HttpInvInit == ASSUME HttpInit PROVE HttpInv
<1>1. /\ client = "desktop" /\ content = <<>> /\ pc = "idle" /\ err = "none"
      /\ upload = Stream(<<>>, 0) /\ sent = <<>>
  BY OpenedStream DEF HttpInit
<1>2. IsUtf8(content) /\ SubSeq(content, 1, 0) = <<>> /\ 0 \in 0..Len(content)
  BY <1>1, EmptyUtf8, NothingOf
<1>3. Uploaded /\ Answered /\ Downloaded
  BY <1>1, <1>2 DEF Uploaded, Answered, Downloaded
<1>4. BodyWhole
  BY <1>1, <1>2 DEF BodyWhole, AnswerWhole, Stream
<1> QED
  BY <1>1, <1>2, <1>3, <1>4 DEF HttpInv

\* And it is kept by every step.
LEMMA HttpInvNext == ASSUME HttpInv, [HttpNext]_httpVars PROVE HttpInv'
<1> SUFFICES HttpInv'
  OBVIOUS
<1>0. /\ HttpInv /\ client \in {"desktop", "uwp"} /\ IsUtf8(content)
      /\ Uploaded /\ Answered /\ Downloaded /\ BodyWhole
  BY DEF HttpInv
<1>1. CASE Begin
  <2>1. PICK c \in {"desktop", "uwp"}, text \in Bodies : MakeRequest(c, text)
    BY <1>1 DEF Begin
  <2>2. IsUtf8(text)
    BY HttpAssumption
  <2> QED
    BY <2>1, <2>2, MakeRequestInv
<1>2. CASE Again
  BY <1>0, <1>2, MakeRequestInv DEF Again
<1>3. CASE CallSucceeds
  <2>1. /\ pc = "calling" /\ pc' \in {"calling", "uploading", "reading"}
        /\ pc' = "uploading" => client = "uwp"
        /\ pc' = "reading" /\ client = "uwp" => content = <<>>
        /\ UNCHANGED <<client, content, before, upload, sent, download, str, response>>
    BY <1>3 DEF CallSucceeds, request, streams
  <2>2. download = Stream(content, 0) /\ str = <<>> /\ response = before
    BY <1>0, <2>1 DEF Answered
  <2>3. Uploaded' /\ Answered'
    BY <1>0, <2>1, <2>2 DEF Uploaded, Answered
  <2>4. Downloaded'
    <3>1. SubSeq(content, 1, 0) = <<>> /\ 0 \in 0..Len(content)
      BY <1>0, NothingOf
    <3>2. client = "uwp" /\ pc' = "reading" => sent = content
      <4>1. SUFFICES ASSUME client = "uwp", pc' = "reading" PROVE sent = <<>>
        BY <2>1
      <4>2. content = <<>>
        BY <2>1, <4>1
      <4>3. PICK k \in 0..Len(content) : sent = SubSeq(content, 1, k)
        BY <1>0 DEF Uploaded
      <4>4. k = 0
        BY <4>2, <4>3
      <4> QED
        BY <3>1, <4>3, <4>4
    <3>3. 0 \in Starts(content)
      BY <1>0, Utf8IsText DEF IsText
    <3>4. str = SubSeq(content, 1, 0) /\ str = Wide(SubSeq(content, 1, 0))
      BY <2>2, <3>1, NothingWide
    <3> QED
      BY <2>1, <2>2, <3>1, <3>2, <3>3, <3>4 DEF Downloaded
  <2>5. BodyWhole'
    <3>1. client = "uwp" /\ pc' = "reading" => sent = content
      BY <1>0, <2>1, <2>4 DEF Downloaded
    <3> QED
      BY <1>0, <2>1, <3>1 DEF BodyWhole, AnswerWhole
  <2> QED
    BY <1>0, <2>1, <2>3, <2>4, <2>5 DEF HttpInv
<1>4. CASE CallFails
  <2>1. /\ pc = "calling" /\ pc' = "done" /\ err' = "failed"
        /\ UNCHANGED <<client, content, before, upload, sent, download, str, response>>
    BY <1>4 DEF CallFails, request, streams
  <2>2. Uploaded' /\ Answered' /\ Downloaded'
    BY <1>0, <2>1 DEF Uploaded, Answered, Downloaded
  <2>3. BodyWhole'
    BY <1>0, <2>1 DEF BodyWhole, AnswerWhole, Answered
  <2> QED
    BY <1>0, <2>1, <2>2, <2>3 DEF HttpInv
<1>5. ASSUME NEW size \in Sizes, Upload(size) PROVE HttpInv'
  <2> DEFINE got == Read(upload, size)
  <2>1. /\ pc = "uploading" /\ upload' = got.stream /\ sent' = sent \o got.bytes
        /\ pc' = IF got.bytesRead = 0 THEN "reading" ELSE "uploading"
        /\ UNCHANGED <<client, content, before, download, str, response>>
    BY <1>5 DEF Upload, request
  <2>2. PICK k \in 0..Len(content) : upload = Stream(content, k) /\ sent = SubSeq(content, 1, k)
    BY <1>0 DEF Uploaded
  <2>3. size \in Nat \ {0}
    BY HttpAssumption
  <2>4. PICK m \in k..Len(content) :
              /\ got.stream = Stream(content, m)
              /\ SubSeq(content, 1, k) \o got.bytes = SubSeq(content, 1, m)
              /\ got.bytesRead = 0 => k = Len(content) /\ m = k
    <3> DEFINE gets == Read(Stream(content, k), size)
    <3>1. \E m \in k..Len(content) :
              /\ gets.stream = Stream(content, m)
              /\ SubSeq(content, 1, k) \o gets.bytes = SubSeq(content, 1, m)
              /\ CString(gets.bytes) = gets.bytes
              /\ gets.bytesRead = 0 => k = Len(content) /\ m = k
      BY <1>0, <2>3, ReadAppends, Zenon
    <3>2. got = gets
      BY <2>2
    <3> HIDE DEF got, gets
    <3> QED
      BY <3>1, <3>2
  <2> HIDE DEF got
  <2>5. /\ m \in 0..Len(content) /\ upload' = Stream(content, m) /\ sent' = SubSeq(content, 1, m)
        /\ pc' = "reading" => sent' = content
    <3>1. m \in 0..Len(content)
      BY <2>2, <2>4
    <3>2. upload' = Stream(content, m) /\ sent' = SubSeq(content, 1, m)
      BY <2>1, <2>2, <2>4
    <3>3. pc' = "reading" => m = Len(content)
      BY <2>1, <2>4
    <3> QED
      BY <1>0, <3>1, <3>2, <3>3, NothingOf
  <2>6. client = "uwp" /\ download = Stream(content, 0) /\ str = <<>> /\ response = before
    BY <1>0, <2>1 DEF Uploaded, Answered
  <2>7. pc' \in {"reading", "uploading"}
    BY <2>1
  <2>8. Uploaded' /\ Answered'
    BY <2>1, <2>5, <2>6, <2>7 DEF Uploaded, Answered
  <2>9. Downloaded'
    <3>1. 0 \in Starts(content) /\ SubSeq(content, 1, 0) = <<>>
      BY <1>0, Utf8IsText, NothingOf DEF IsText
    <3>2. str = Wide(SubSeq(content, 1, 0))
      BY <2>6, <3>1, NothingWide
    <3> QED
      BY <2>1, <2>5, <2>6, <3>1, <3>2 DEF Downloaded
  <2>10. BodyWhole'
    <3>1. upload'.seekLocation = m
      BY <2>5 DEF Stream
    <3> QED
      BY <2>1, <2>5, <2>7, <3>1 DEF BodyWhole, AnswerWhole
  <2> QED
    BY <1>0, <2>1, <2>8, <2>9, <2>10 DEF HttpInv
<1>6. CASE UwpFails
  <2>1. client = "uwp" /\ pc \in {"uploading", "reading"} /\ Returns(response)
    BY <1>6 DEF UwpFails
  <2>2. response = before
    BY <1>0, <2>1 DEF Answered
  <2> QED
    BY <1>0, <2>1, <2>2, ReturnsInv
<1>7. CASE UwpTurn
  <2> DEFINE got == Chunk(download)
  <2>1. /\ pc = "reading" /\ client = "uwp" /\ pc' = pc
        /\ download' = got.stream /\ str' = str \o CString(Wide(got.bytes))
        /\ UNCHANGED <<client, content, before, upload, sent, response>>
    BY <1>7 DEF UwpTurn, Reading, request
  <2>2. PICK j \in Starts(content) : download = Stream(content, j) /\ str = Wide(SubSeq(content, 1, j))
    BY <1>0, <2>1 DEF Downloaded
  <2>3. PICK m \in Starts(content) :
              /\ got.stream = Stream(content, m)
              /\ Wide(SubSeq(content, 1, j)) \o CString(Wide(got.bytes)) = Wide(SubSeq(content, 1, m))
    BY <1>0, <2>2, ChunkAppends
  <2> HIDE DEF got
  <2>4. download' = Stream(content, m) /\ str' = Wide(SubSeq(content, 1, m))
    BY <2>1, <2>2, <2>3
  <2>5. sent = content
    BY <1>0, <2>1 DEF Downloaded
  <2>6. Uploaded' /\ Answered'
    BY <1>0, <2>1 DEF Uploaded, Answered
  <2>7. Downloaded'
    BY <2>1, <2>4, <2>5 DEF Downloaded
  <2>8. BodyWhole'
    BY <1>0, <2>1, <2>5 DEF BodyWhole, AnswerWhole
  <2> QED
    BY <1>0, <2>1, <2>6, <2>7, <2>8 DEF HttpInv
<1>8. CASE UwpEnds
  <2>1. /\ pc = "reading" /\ client = "uwp" /\ Chunk(download).bytes = <<>>
        /\ Returns(Response(200, wstring_to_utf8(str)))
    BY <1>8 DEF UwpEnds, Reading
  <2>2. PICK j \in Starts(content) : download = Stream(content, j) /\ str = Wide(SubSeq(content, 1, j))
    BY <1>0, <2>1 DEF Downloaded
  <2>3. j = Len(content)
    BY <1>0, <2>1, <2>2, ChunkAppends
  <2>4. str = Wide(content)
    BY <1>0, <2>2, <2>3, NothingOf
  <2>5. ASSUME \A i \in DOMAIN content : content[i] < 240
        PROVE  wstring_to_utf8(Wide(content)) = content
    <3>1. DOMAIN content = 1..Len(content)
      BY <1>0 DEF IsUtf8
    <3> QED
      BY <1>0, <2>5, <3>1, BodyKept
  <2>6. Response(200, wstring_to_utf8(str)).body = wstring_to_utf8(Wide(content))
    BY <2>4 DEF Response
  <2> QED
    BY <1>0, <2>1, <2>4, <2>5, <2>6, ReturnsInv
<1>9. ASSUME NEW size \in 1..BufferSize, DesktopRead(size) PROVE HttpInv'
  <2> DEFINE got == Read(download, size)
  <2>1. /\ pc = "reading" /\ client = "desktop" /\ download' = got.stream
        /\ \/ pc' = "reading" /\ str' = str \o CString(got.bytes)
           \/ pc' = "undefined" /\ str' = str
        /\ UNCHANGED <<client, content, before, upload, sent, response>>
    BY <1>9 DEF DesktopRead, Reading, request
  <2>2. PICK j \in 0..Len(content) : download = Stream(content, j) /\ str = SubSeq(content, 1, j)
    BY <1>0, <2>1 DEF Downloaded
  <2>3. size \in Nat \ {0}
    BY HttpAssumption
  <2>4. PICK m \in j..Len(content) :
              /\ got.stream = Stream(content, m)
              /\ SubSeq(content, 1, j) \o got.bytes = SubSeq(content, 1, m)
              /\ CString(got.bytes) = got.bytes
    BY <1>0, <2>2, <2>3, ReadAppends
  <2> HIDE DEF got
  <2>5. m \in 0..Len(content) /\ download' = Stream(content, m)
        /\ (pc' = "reading" => str' = SubSeq(content, 1, m))
    <3>1. m \in 0..Len(content)
      BY <2>2, <2>4
    <3> QED
      BY <2>1, <2>2, <2>4, <3>1
  <2>6. Uploaded' /\ Answered'
    BY <1>0, <2>1 DEF Uploaded, Answered
  <2>7. Downloaded'
    BY <2>1, <2>5 DEF Downloaded
  <2>8. BodyWhole'
    BY <1>0, <2>1 DEF BodyWhole, AnswerWhole
  <2> QED
    BY <1>0, <2>1, <2>6, <2>7, <2>8 DEF HttpInv
<1>10. CASE DesktopEnds
  <2>1. pc = "reading" /\ client = "desktop" /\ Returns(Response(200, str))
    BY <1>10 DEF DesktopEnds, Reading
  <2>2. PICK j \in 0..Len(content) : download = Stream(content, j) /\ str = SubSeq(content, 1, j)
    BY <1>0, <2>1 DEF Downloaded
  <2>3. download.seekLocation = j
    BY <2>2 DEF Stream
  <2>4. Response(200, str) = Response(200, SubSeq(content, 1, download.seekLocation))
    BY <2>2, <2>3
  <2> QED
    BY <1>0, <2>1, <2>4, ReturnsInv
<1>11. CASE UNCHANGED httpVars
  <2>1. UNCHANGED <<client, content, pc, upload, sent, download, str, response, before, err>>
    BY <1>11 DEF httpVars
  <2>2. Uploaded' /\ Answered' /\ Downloaded' /\ BodyWhole'
    BY <1>0, <2>1 DEF Uploaded, Answered, Downloaded, BodyWhole, AnswerWhole
  <2> QED
    BY <1>0, <2>1, <2>2 DEF HttpInv
<1> QED
  BY <1>1, <1>2, <1>3, <1>4, <1>5, <1>6, <1>7, <1>8, <1>9, <1>10, <1>11 DEF HttpNext

\* What arrives of the bodies of requests and answers (both make_request): a request body
\* of UWP is read from its beginning to its end before the answer; the answer of the
\* desktop is what its reads gave, in their order; that of UWP is the whole body,
\* converted as if it had been read at once, whatever the size of the chunks is, and
\* equal to what was sent if its characters take up to three bytes; and a request that
\* fails leaves the caller's response as it was.
THEOREM BodiesArriveWhole == HttpSpec => []BodyWhole
<1>1. HttpInit => HttpInv
  BY HttpInvInit
<1>2. HttpInv /\ [HttpNext]_httpVars => HttpInv'
  BY HttpInvNext
<1>3. HttpInv => BodyWhole
  BY DEF HttpInv
<1> QED
  BY <1>1, <1>2, <1>3, PTL DEF HttpSpec
===============================================================================
