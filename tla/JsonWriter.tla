------------------------------- MODULE JsonWriter -----------------------------
(***************************************************************************)
(* From events to text: writer.h on a StringBuffer, with the conversions   *)
(* of itoa.h and dtoa.h; and between values and events: Accept and the     *)
(* handler of document.h.                                                  *)
(*                                                                         *)
(* A buffer is its text and its capacity; safe is whether every character  *)
(* was put into space that had been reserved and no assertion failed.  The *)
(* shortest digits of a double (Grisu2) are the digits of its decimal.     *)
(***************************************************************************)
EXTENDS JsonReader

LOCAL INSTANCE SequencesExt

CONSTANTS DefaultCapacity, IntRoom, UintRoom, Int64Room, Uint64Room, DoubleRoom,
          PlainDigits, SmallZeros

\* GenericStringBuffer on internal::Stack, which grows by a half.
EmptyBuffer == [text |-> <<>>, capacity |-> 0, safe |-> TRUE]
Reserve(b, count) ==
    LET size == Len(b.text) + count
        grown == IF b.capacity = 0 THEN DefaultCapacity ELSE b.capacity + (b.capacity + 1) \div 2
    IN IF size <= b.capacity THEN b
       ELSE [b EXCEPT !.capacity = IF grown < size THEN size ELSE grown]
PutUnsafe(b, chars) ==
    [b EXCEPT !.text = @ \o chars, !.safe = @ /\ Len(b.text) + Len(chars) <= b.capacity]
Put(b, c) == PutUnsafe(Reserve(b, 1), <<c>>)
\* Push of the room for a number, of which what is not used is given back by Pop.
PutNumber(b, room, chars) ==
    [Reserve(b, room) EXCEPT !.text = @ \o chars, !.safe = @ /\ Len(chars) <= room]

-------------------------------------------------------------------------------
\* itoa.h, with B for its base 10: the digits come in pairs, and the first ones
\* of the number are put only when it is as large as their power of the base.
Pair(B, n) == <<48 + n \div B, 48 + (n % B)>>
Four(B, n) == Pair(B, n \div B^2) \o Pair(B, n % B^2)
Eight(B, n) == Four(B, n \div B^4) \o Four(B, n % B^4)
\* The digits of a chunk whose last digit stands for B^shift, for this value.
Leading(B, chunk, value, shift) ==
    LET length == Len(chunk)
        kept == {k \in 1..length : k = length \/ value >= B^(length - k + shift)}
    IN SelectSeq([k \in 1..length |-> IF k \in kept THEN chunk[k] ELSE 0], LAMBDA c : c # 0)

u32toa(B, value) ==
    LET a == value \div B^8
    IN IF value < B^4 THEN Leading(B, Four(B, value), value, 0)
       ELSE IF value < B^8
       THEN Leading(B, Four(B, value \div B^4), value, 4) \o Four(B, value % B^4)
       ELSE (IF a >= B THEN Pair(B, a) ELSE <<48 + a>>) \o Eight(B, value % B^8)

u64toa(B, value) ==
    LET a == value \div B^16
        first == IF a < B THEN <<48 + a>>
                 ELSE IF a < B^2 THEN Pair(B, a)
                 ELSE IF a < B^3 THEN <<48 + a \div B^2>> \o Pair(B, a % B^2)
                 ELSE Four(B, a)
        rest == value % B^16
    IN IF value < B^4 THEN Leading(B, Four(B, value), value, 0)
       ELSE IF value < B^8
       THEN Leading(B, Four(B, value \div B^4), value, 4) \o Four(B, value % B^4)
       ELSE IF B^8 <= value /\ value \div B^8 < B^8
       THEN Leading(B, Eight(B, value \div B^8), value, 8) \o Eight(B, value % B^8)
       ELSE first \o Eight(B, rest \div B^8) \o Eight(B, rest % B^8)

\* The magnitude of a negative number is its complement plus one, in the width.
Magnitude(value, width) == 2^width - (value % 2^width)
i32toa(B, value) ==
    IF value < 0 THEN <<Char("-")>> \o u32toa(B, Magnitude(value, W32)) ELSE u32toa(B, value)
i64toa(B, value) ==
    IF value < 0 THEN <<Char("-")>> \o u64toa(B, Magnitude(value, W64)) ELSE u64toa(B, value)

\* dtoa.h.  The limit of 324 decimal places that every writer has cuts no double short.
Zeros(n) == [k \in 1..n |-> 48]
RECURSIVE Decimal(_)
Decimal(n) == IF n < 10 THEN <<48 + n>> ELSE Append(Decimal(n \div 10), 48 + (n % 10))
WriteExponent(K) == IF K < 0 THEN <<Char("-")>> \o Decimal(-K) ELSE Decimal(K)
Prettify(digits, k) ==
    LET length == Len(digits)
        kk == length + k
    IN IF 0 <= k /\ kk <= PlainDigits THEN digits \o Zeros(k) \o Text(".0")
       ELSE IF 0 < kk /\ kk <= PlainDigits
       THEN SubSeq(digits, 1, kk) \o Text(".") \o SubSeq(digits, kk + 1, length)
       ELSE IF -SmallZeros < kk /\ kk <= 0 THEN Text("0.") \o Zeros(-kk) \o digits
       ELSE IF length = 1 THEN digits \o Text("e") \o WriteExponent(kk - 1)
       ELSE <<Head(digits)>> \o Text(".") \o Tail(digits) \o Text("e") \o WriteExponent(kk - 1)
dtoa(d) ==
    (IF d.neg THEN Text("-") ELSE <<>>)
    \o IF d.n = 0 THEN Text("0.0") ELSE Prettify(Decimal(d.n), d.e)

-------------------------------------------------------------------------------
\* Variant of EscapeOf for RoundTrip: only what has a letter of its own is escaped.
EscapeOfFew(c) ==
    CASE c = 8 -> Text("\\b") [] c = 9 -> Text("\\t") [] c = 10 -> Text("\\n")
      [] c = 12 -> Text("\\f") [] c = 13 -> Text("\\r")
      [] c = Char("\"") \/ c = Char("\\") -> <<Char("\\"), c>>
      [] OTHER -> <<c>>

\* WriteString: the escape of a character, none for most.
EscapeOf(c) ==
    CASE c = 8 -> Text("\\b") [] c = 9 -> Text("\\t") [] c = 10 -> Text("\\n")
      [] c = 12 -> Text("\\f") [] c = 13 -> Text("\\r")
      [] c = Char("\"") \/ c = Char("\\") -> <<Char("\\"), c>>
      [] c < 32 /\ c \notin {8, 9, 10, 12, 13} ->
           Text("\\u00") \o <<HexDigit(c \div 16), HexDigit(c % 16)>>
      [] OTHER -> <<c>>
WriteString(b, s) ==
    PutUnsafe(Reserve(b, 2 + 6 * Len(s)),
              Text("\"") \o FlattenSeq([i \in 1..Len(s) |-> EscapeOf(s[i])]) \o Text("\""))

Writer == [buffer |-> EmptyBuffer, levels |-> <<>>, hasRoot |-> FALSE, ok |-> TRUE]

\* Prefix: the comma or colon before a value, which it counts in its level.
Prefix(w, isString) ==
    LET level == Head(w.levels)
        separator == IF level.inArray \/ level.count % 2 = 0 THEN Char(",") ELSE Char(":")
        mustBeName == ~level.inArray /\ level.count % 2 = 0
        separated == IF level.count = 0 THEN w.buffer ELSE Put(w.buffer, separator)
    IN IF w.levels = <<>>
       THEN [w EXCEPT !.hasRoot = TRUE, !.buffer.safe = @ /\ ~w.hasRoot]
       ELSE [w EXCEPT !.levels[1].count = @ + 1,
                      !.buffer = [separated EXCEPT !.safe = @ /\ (mustBeName => isString)]]

Opens(w, inArray) ==
    [w EXCEPT !.levels = <<[count |-> 0, inArray |-> inArray]>> \o @,
              !.buffer = Put(@, IF inArray THEN Char("[") ELSE Char("{"))]
Closes(w, inArray) ==
    [w EXCEPT !.levels = Tail(@),
              !.buffer = [Put(@, IF inArray THEN Char("]") ELSE Char("}"))
                          EXCEPT !.safe = @ /\ Head(w.levels).inArray = inArray]]
PutWord(b, word) == PutUnsafe(Reserve(b, Len(word)), word)

\* One event of the handler; a double that is no number ends the writing.
Write(w, event) ==
    LET ev == event.ev
        begun == Prefix(w, ev \in {"String", "Key"})
        put(buffer) == [begun EXCEPT !.buffer = buffer]
        b == begun.buffer
    IN CASE ~w.ok -> w
         [] w.ok /\ ev = "Null" -> put(PutWord(b, Text("null")))
         [] w.ok /\ ev = "Bool" -> put(PutWord(b, IF event.b THEN Text("true") ELSE Text("false")))
         [] w.ok /\ ev = "Int" -> put(PutNumber(b, IntRoom, i32toa(10, event.n)))
         [] w.ok /\ ev = "Uint" -> put(PutNumber(b, UintRoom, u32toa(10, event.n)))
         [] w.ok /\ ev = "Int64" -> put(PutNumber(b, Int64Room, i64toa(10, event.n)))
         [] w.ok /\ ev = "Uint64" -> put(PutNumber(b, Uint64Room, u64toa(10, event.n)))
         [] w.ok /\ ev = "Double" ->
              IF IsNanOrInf(event.d) THEN [begun EXCEPT !.ok = FALSE]
              ELSE put(PutNumber(b, DoubleRoom, dtoa(event.d)))
         [] w.ok /\ ev \in {"String", "Key"} -> put(WriteString(b, event.s))
         [] w.ok /\ ev \in {"StartObject", "StartArray"} -> Opens(begun, ev = "StartArray")
         [] OTHER -> Closes(w, ev = "EndArray")

\* GenericValue::Accept: the events of a value.
RECURSIVE Accept(_)
Accept(v) ==
    LET key(i) == [ev |-> "Key", s |-> v.members[i].name]
        all(seqs) == FlattenSeq(seqs)
        end(ev, count) == <<[ev |-> ev, count |-> count]>>
    IN CASE IsNull(v) -> <<Event("Null")>>
         [] IsBool(v) -> <<[ev |-> "Bool", b |-> v.b]>>
         [] IsString(v) -> <<[ev |-> "String", s |-> v.s]>>
         [] IsObject(v) ->
              <<Event("StartObject")>>
              \o all([i \in 1..Len(v.members) |-> <<key(i)>> \o Accept(v.members[i].value)])
              \o end("EndObject", Len(v.members))
         [] IsArray(v) ->
              <<Event("StartArray")>>
              \o all([i \in 1..Len(v.elements) |-> Accept(v.elements[i])])
              \o end("EndArray", Len(v.elements))
         [] OTHER ->
              IF Has(v, "double") THEN <<[ev |-> "Double", d |-> v.d]>>
              ELSE <<[ev |-> CASE Has(v, "int") -> "Int"
                               [] ~Has(v, "int") /\ Has(v, "uint") -> "Uint"
                               [] ~Has(v, "int") /\ ~Has(v, "uint") /\ Has(v, "int64") -> "Int64"
                               [] OTHER -> "Uint64",
                      n |-> v.n]>>

\* The text that Accept makes a Writer put into its buffer: jsonStringify.
Stringify(v) == FoldLeft(Write, Writer, Accept(v))

-------------------------------------------------------------------------------
\* The handler of a document: values on a stack, the last one first.
Handle(stack, event) ==
    LET ev == event.ev
        push(v) == <<v>> \o stack
        count == event.count
        below == SubSeq(stack, 2 * count + 2, Len(stack))
        belowElements == SubSeq(stack, count + 2, Len(stack))
        members == [i \in 1..count |->
                       Member(stack[2 * (count - i) + 2].s, stack[2 * (count - i) + 1])]
        elements == [i \in 1..count |-> stack[count - i + 1]]
    IN CASE ev = "Null" -> push(NullValue)
         [] ev = "Bool" -> push(BoolValue(event.b))
         [] ev = "Int" -> push(IntValue(event.n))
         [] ev = "Uint" -> push(UintValue(event.n))
         [] ev = "Int64" -> push(Int64Value(event.n))
         [] ev = "Uint64" -> push(Uint64Value(event.n))
         [] ev = "Double" -> push(DoubleValue(event.d))
         [] ev \in {"String", "Key"} -> push(StringValue(event.s))
         [] ev = "StartObject" -> push(ObjectValue(<<>>))
         [] ev = "StartArray" -> push(ArrayValue(<<>>))
         [] ev = "EndObject" -> <<ObjectValue(members)>> \o below
         [] OTHER -> <<ArrayValue(elements)>> \o belowElements

\* GenericDocument::ParseStream: the document keeps its value when the text has an error.
Populated(document, r) ==
    [value |-> IF HasParseError(r) THEN document ELSE FoldLeft(Handle, <<>>, r.events)[1],
     code |-> r.code, offset |-> r.offset]
ParseStream(document, text) == Populated(document, Parse(text))
\* GenericValue's copy constructor: the events of a value, handled by a document.
DeepCopy(v) == FoldLeft(Handle, <<>>, Accept(v))[1]
===============================================================================
