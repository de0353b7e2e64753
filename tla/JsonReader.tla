------------------------------ MODULE JsonReader ------------------------------
(***************************************************************************)
(* The parser of rapidjson's reader.h with its default flags, as           *)
(* Document::Parse uses it, and the iterative parser beside it.            *)
(*                                                                         *)
(* A reader r is its text, the position in it, the events the handler has  *)
(* been given and the error, if any, with its offset.  The handler is the  *)
(* document, which never stops a parse.  The limits of the numbers are     *)
(* those of the widths of JsonValue; MantissaBits, SignificandDigits,      *)
(* MaxExp10, MinExp10 and MaxExp stand for 53, 17, 308, 323 and 2^31 / 10. *)
(***************************************************************************)
EXTENDS JsonValue

CONSTANTS MantissaBits, SignificandDigits, MaxExp10, MinExp10, MaxExp

Reader(text) == [text |-> text, at |-> 0, events |-> <<>>, code |-> "None", offset |-> 0]
Peek(r) == At(r.text, r.at)
Take(r) == [r EXCEPT !.at = @ + 1]
Emit(r, event) == [r EXCEPT !.events = Append(@, event)]
HasParseError(r) == r.code # "None"
Fail(r, code, offset) == [r EXCEPT !.code = code, !.offset = offset]
Event(ev) == [ev |-> ev]

RECURSIVE SkipWhitespace(_)
SkipWhitespace(r) == IF Peek(r) \in {32, 10, 13, 9} THEN SkipWhitespace(Take(r)) ELSE r

\* Consume of each character of the word in turn: the reader stops where it differs.
RECURSIVE ConsumeAll(_, _)
ConsumeAll(r, word) ==
    IF word = <<>> \/ Peek(r) # Head(word) THEN r ELSE ConsumeAll(Take(r), Tail(word))
Literal(r, word, event) ==
    LET end == ConsumeAll(r, word)
    IN IF end.at - r.at = Len(word) THEN Emit(end, event) ELSE Fail(end, "ValueInvalid", end.at)
ParseNull(r) == Literal(r, Text("null"), Event("Null"))
ParseTrue(r) == Literal(r, Text("true"), [ev |-> "Bool", b |-> TRUE])
ParseFalse(r) == Literal(r, Text("false"), [ev |-> "Bool", b |-> FALSE])

-------------------------------------------------------------------------------
\* Strings.  escape: the character after the reverse solidus, and what it stands for.
UnescapedBy(e) ==
    CASE e = Char("b") -> 8 [] e = Char("f") -> 12 [] e = Char("n") -> 10
      [] e = Char("r") -> 13 [] e = Char("t") -> 9 [] OTHER -> e
Escapes == {Char("\""), Char("/"), Char("\\"), Char("b"), Char("f"), Char("n"), Char("r"), Char("t")}

ParseHex4(text, i) ==
    [ok |-> \A k \in 0..3 : IsHex(At(text, i + k)),
     code |-> 4096 * HexValue(At(text, i)) + 256 * HexValue(At(text, i + 1))
              + 16 * HexValue(At(text, i + 2)) + HexValue(At(text, i + 3))]
HighSurrogate(code) == code \in 55296..56319
LowSurrogate(code) == code \in 56320..57343

\* ParseStringToStream, at the characters after the first quote; out is what was put so far.
RECURSIVE ParseStringToStream(_, _), UnicodeEscape(_, _, _, _)
BadString(r, code, out) == [r |-> Fail(r, code, r.at), out |-> out]
Skip(r, n) == [r EXCEPT !.at = @ + n]

\* At \u: the first four digits, and the four of the escape that may follow them.
UnicodeEscape(r, out, hex, second) ==
    CASE ~hex.ok -> BadString(r, "StringUnicodeEscapeInvalidHex", out)
      [] hex.ok /\ ~HighSurrogate(hex.code) ->
           ParseStringToStream(Skip(r, 6), out \o Encode(hex.code))
      [] OTHER ->
           IF ~(At(r.text, r.at + 6) = Char("\\") /\ At(r.text, r.at + 7) = Char("u"))
           THEN BadString(r, "StringUnicodeSurrogateInvalid", out)
           ELSE IF ~second.ok THEN BadString(r, "StringUnicodeEscapeInvalidHex", out)
           ELSE IF ~LowSurrogate(second.code) THEN BadString(r, "StringUnicodeSurrogateInvalid", out)
           ELSE ParseStringToStream(Skip(r, 12), out \o
                    Encode((hex.code - 55296) * 1024 + (second.code - 56320) + 65536))

ParseStringToStream(r, out) ==
    LET c == Peek(r)
        e == At(r.text, r.at + 1)
    IN CASE c = Char("\"") -> [r |-> Take(r), out |-> out]
         [] c = 0 -> BadString(r, "StringMissQuotationMark", out)
         [] c \in 1..31 -> BadString(r, "StringEscapeInvalid", out)
         [] c = Char("\\") /\ e \in Escapes -> ParseStringToStream(Skip(r, 2), Append(out, UnescapedBy(e)))
         [] c = Char("\\") /\ e = Char("u") ->
              UnicodeEscape(r, out, ParseHex4(r.text, r.at + 2), ParseHex4(r.text, r.at + 8))
         [] c = Char("\\") /\ e \notin Escapes \cup {Char("u")} ->
              BadString(r, "StringEscapeInvalid", out)
         [] OTHER -> ParseStringToStream(Take(r), Append(out, c))

EmitString(parsed, ev) ==
    IF HasParseError(parsed.r) THEN parsed.r ELSE Emit(parsed.r, [ev |-> ev, s |-> parsed.out])
ParseString(r, ev) == EmitString(ParseStringToStream(Take(r), <<>>), ev)

-------------------------------------------------------------------------------
\* Numbers.  A scan is the value of the digits read, the position after them, the
\* significant digits after the first, the digits of the fraction, negated, and the
\* narrowest of int, int64 and double that the number may be.
Scanned(scan, c, significant) ==
    [scan EXCEPT !.v = 10 * @ + (c - 48), !.at = @ + 1, !.digits = @ + IF significant THEN 1 ELSE 0]

\* The digits that an unsigned with this largest value still holds.
RECURSIVE Digits(_, _, _)
Digits(text, scan, largest) ==
    LET c == At(text, scan.at)
    IN IF \/ ~IsDigit(c) \/ scan.v > largest \div 10
          \/ (scan.v = largest \div 10 /\ c - 48 > largest % 10)
       THEN scan
       ELSE Digits(text, Scanned(scan, c, TRUE), largest)

\* The digits of a double; they are not counted.
RECURSIVE BigDigits(_, _)
BigDigits(text, scan) ==
    IF ~IsDigit(At(text, scan.at)) \/ scan.v >= MaxDouble \div 10 THEN scan
    ELSE BigDigits(text, Scanned(scan, At(text, scan.at), FALSE))

\* The digits after the point: up to the mantissa as an integer, then as a double.
RECURSIVE Fraction(_, _, _)
Fraction(text, scan, fast) ==
    LET c == At(text, scan.at)
        next == [Scanned(scan, c, scan.v > 0 \/ c # 48) EXCEPT !.frac = @ - 1]
    IN IF ~IsDigit(c) THEN scan
       ELSE IF fast /\ scan.v < 2^MantissaBits THEN Fraction(text, next, TRUE)
       ELSE IF scan.digits < SignificandDigits THEN Fraction(text, next, FALSE)
       ELSE Fraction(text, [scan EXCEPT !.at = @ + 1], FALSE)

\* The exponent after its first digit; a large negative one is cut short, a positive one refused.
RECURSIVE Exponent(_, _, _, _)
Exponent(text, at, exp, largest) ==
    LET c == At(text, at)
    IN IF ~IsDigit(c) \/ exp > largest THEN [v |-> exp, at |-> at, big |-> exp > largest]
       ELSE Exponent(text, at + 1, 10 * exp + (c - 48), largest)
RECURSIVE NegativeExponent(_, _, _)
NegativeExponent(text, at, exp) ==
    LET c == At(text, at)
    IN IF ~IsDigit(c) THEN [v |-> -exp, at |-> at, big |-> FALSE]
       ELSE NegativeExponent(text, at + 1, IF exp >= MaxExp THEN exp ELSE 10 * exp + (c - 48))

RECURSIVE CountDigits(_)
CountDigits(n) == IF n < 10 THEN 1 ELSE 1 + CountDigits(n \div 10)

\* StrtodNormalPrecision: what is too small for a double is zero.
StrtodNormalPrecision(minus, n, p) ==
    IF p < -2 * MaxExp10 \/ CountDigits(n) + p < -MinExp10 THEN Double(minus, 0, 0)
    ELSE Normal(minus, n, p)

\* The digits before the point: in 32 bits, in 64 if there are more, then as a double.
IntegerPart(text, minus, start) ==
    LET largest(width) == IF minus THEN 2^(width - 1) ELSE 2^width - 1
        more(scan) == scan.v # 0 /\ IsDigit(At(text, scan.at))      \* none after a leading zero
        in64(scan) ==
            IF more(scan) THEN [Digits(text, scan, largest(W64)) EXCEPT !.type = "int64"] ELSE scan
        inDouble(scan) ==
            IF scan.type = "int64" /\ more(scan)
            THEN [BigDigits(text, scan) EXCEPT !.type = "double"] ELSE scan
    IN inDouble(in64(IF start.v = 0 THEN start ELSE Digits(text, start, largest(W32))))

\* The number of a scan and a power of ten.
EmitNumber(r, minus, scan, power) ==
    IF power.big THEN Fail(r, "NumberTooBig", r.at)
    ELSE Emit([r EXCEPT !.at = power.at],
              IF scan.type = "double"
              THEN [ev |-> "Double", d |-> StrtodNormalPrecision(minus, scan.v, power.v + scan.frac)]
              ELSE [ev |-> CASE scan.type = "int" /\ minus -> "Int"
                             [] scan.type = "int" /\ ~minus -> "Uint"
                             [] scan.type = "int64" /\ minus -> "Int64"
                             [] OTHER -> "Uint64",
                    n |-> IF minus THEN -scan.v ELSE scan.v])
ParseExponent(r, minus, scan) ==
    LET sign == At(r.text, scan.at + 1)
        from == scan.at + IF sign \in {Char("+"), Char("-")} THEN 2 ELSE 1
        first == At(r.text, from)
    IN IF At(r.text, scan.at) \notin {Char("e"), Char("E")}
       THEN EmitNumber(r, minus, scan, [v |-> 0, at |-> scan.at, big |-> FALSE])
       ELSE IF ~IsDigit(first) THEN Fail(r, "NumberMissExponent", from)
       ELSE EmitNumber(r, minus, [scan EXCEPT !.type = "double"],
                IF sign = Char("-") THEN NegativeExponent(r.text, from + 1, first - 48)
                ELSE Exponent(r.text, from + 1, first - 48, MaxExp10 - scan.frac))
ParseFraction(r, minus, scan) ==
    LET point == At(r.text, scan.at) = Char(".")
    IN IF scan.type = "double" /\ IsDigit(At(r.text, scan.at)) THEN Fail(r, "NumberTooBig", r.at)
       ELSE IF point /\ ~IsDigit(At(r.text, scan.at + 1))
       THEN Fail(r, "NumberMissFraction", scan.at + 1)
       ELSE ParseExponent(r, minus,
                IF point THEN Fraction(r.text, [scan EXCEPT !.at = @ + 1, !.type = "double"],
                                       scan.type # "double")
                ELSE scan)
ParseNumber(r) ==
    LET minus == Peek(r) = Char("-")
        lead == IF minus THEN r.at + 1 ELSE r.at
        first == At(r.text, lead)
    IN IF ~IsDigit(first) THEN Fail(r, "ValueInvalid", lead)
       ELSE ParseFraction(r, minus, IntegerPart(r.text, minus,
                [v |-> first - 48, at |-> lead + 1, digits |-> 0, frac |-> 0, type |-> "int"]))

-------------------------------------------------------------------------------
\* The recursive parser.  Closed: the bracket that ends an object or an array.
RECURSIVE ParseValue(_), Members(_, _), Elements(_, _), AfterMember(_, _), AfterElement(_, _)
Closed(r, ev, count) == Emit(Take(r), [ev |-> ev, count |-> count])

ParseObject(r) ==
    LET inside == SkipWhitespace(Emit(Take(r), Event("StartObject")))
    IN IF Peek(inside) = Char("}") THEN Closed(inside, "EndObject", 0) ELSE Members(inside, 1)
AfterKey(key) ==
    IF HasParseError(key) THEN key
    ELSE IF Peek(key) # Char(":") THEN Fail(key, "ObjectMissColon", key.at)
    ELSE SkipWhitespace(ParseValue(SkipWhitespace(Take(key))))
AfterMember(value, count) ==
    IF HasParseError(value) THEN value
    ELSE IF Peek(value) = Char(",") THEN Members(SkipWhitespace(Take(value)), count + 1)
    ELSE IF Peek(value) = Char("}") THEN Closed(value, "EndObject", count)
    ELSE Fail(value, "ObjectMissCommaOrCurlyBracket", value.at)
Members(r, count) ==
    IF Peek(r) # Char("\"") THEN Fail(r, "ObjectMissName", r.at)
    ELSE AfterMember(AfterKey(SkipWhitespace(ParseString(r, "Key"))), count)

ParseArray(r) ==
    LET inside == SkipWhitespace(Emit(Take(r), Event("StartArray")))
    IN IF Peek(inside) = Char("]") THEN Closed(inside, "EndArray", 0) ELSE Elements(inside, 1)
AfterElement(value, count) ==
    IF HasParseError(value) THEN value
    ELSE IF Peek(value) = Char(",") THEN Elements(SkipWhitespace(Take(value)), count + 1)
    ELSE IF Peek(value) = Char("]") THEN Closed(value, "EndArray", count)
    ELSE Fail(value, "ArrayMissCommaOrSquareBracket", value.at)
Elements(r, count) == AfterElement(SkipWhitespace(ParseValue(r)), count)

ParseValue(r) ==
    LET c == Peek(r)
    IN CASE c = Char("n") -> ParseNull(r)
         [] c = Char("t") -> ParseTrue(r)
         [] c = Char("f") -> ParseFalse(r)
         [] c = Char("\"") -> ParseString(r, "String")
         [] c = Char("{") -> ParseObject(r)
         [] c = Char("[") -> ParseArray(r)
         [] OTHER -> ParseNumber(r)

\* GenericReader::Parse.
AfterRoot(value) ==
    IF HasParseError(value) \/ Peek(value) = 0 THEN value
    ELSE Fail(value, "DocumentRootNotSingular", value.at)
ParseRoot(r) ==
    IF Peek(r) = 0 THEN Fail(r, "DocumentEmpty", r.at)
    ELSE AfterRoot(SkipWhitespace(ParseValue(r)))
Parse(text) == ParseRoot(SkipWhitespace(Reader(text)))

-------------------------------------------------------------------------------
\* The iterative parser: a reader with a stack of states and counts.
Tokenize(c) ==
    IF c \in {Char("["), Char("]"), Char("{"), Char("}"), Char(","), Char(":")} THEN c
    ELSE IF c = Char("\"") THEN c ELSE 0          \* 0: false, true, null and numbers

Predict(state, token) ==
    LET value == [Start |-> "Value", KeyValueDelimiter |-> "MemberValue",
                  ArrayInitial |-> "Element", ElementDelimiter |-> "Element"]
        is(c) == token = Char(c)
    IN CASE state \in DOMAIN value /\ is("[") -> "ArrayInitial"
         [] state \in DOMAIN value /\ is("{") -> "ObjectInitial"
         [] state \in DOMAIN value /\ (token = 0 \/ is("\"")) -> value[state]
         [] state \in {"ArrayInitial", "Element", "ElementDelimiter"} /\ is("]") -> "ArrayFinish"
         [] state \in {"ObjectInitial", "MemberValue", "MemberDelimiter"} /\ is("}") -> "ObjectFinish"
         [] state \in {"ObjectInitial", "MemberDelimiter"} /\ is("\"") -> "MemberKey"
         [] state = "MemberKey" /\ is(":") -> "KeyValueDelimiter"
         [] state = "MemberValue" /\ is(",") -> "MemberDelimiter"
         [] state = "Element" /\ is(",") -> "ElementDelimiter"
         [] OTHER -> "Error"

\* A machine: the state, the reader, and the frames of the open objects and arrays.
Machine(state, r, frames) == [state |-> state, r |-> r, frames |-> frames]
After(state, r, frames) == Machine(IF HasParseError(r) THEN "Error" ELSE state, r, frames)

\* Variant of Finish for ParsersAgree: the last element or member is not counted.
FinishUncounted(m, delimiter, last, code, ev) ==
    LET frame == Head(m.frames)
        outer == IF frame.state = "Start" THEN "Finish" ELSE frame.state
    IN IF m.state = delimiter THEN Machine("Error", Fail(m.r, code, m.r.at), m.frames)
       ELSE Machine(outer, Closed(m.r, ev, frame.count), Tail(m.frames))

\* The end of an object or array; last: the state in which there is one more to count.
Finish(m, delimiter, last, code, ev) ==
    LET frame == Head(m.frames)
        count == frame.count + IF m.state = last THEN 1 ELSE 0
        outer == IF frame.state = "Start" THEN "Finish" ELSE frame.state
    IN IF m.state = delimiter THEN Machine("Error", Fail(m.r, code, m.r.at), m.frames)
       ELSE Machine(outer, Closed(m.r, ev, count), Tail(m.frames))

Transit(m, next) ==
    LET frame == [state |-> CASE m.state \in {"ArrayInitial", "ElementDelimiter"} -> "Element"
                              [] m.state = "KeyValueDelimiter" -> "MemberValue"
                              [] OTHER -> m.state,
                  count |-> 0]
        open(ev) == Machine(next, Emit(Take(m.r), Event(ev)), <<frame>> \o m.frames)
    IN CASE next = "Error" -> Machine("Error", m.r, m.frames)
         [] next = "ObjectInitial" -> open("StartObject")
         [] next = "ArrayInitial" -> open("StartArray")
         [] next = "MemberKey" -> After(next, ParseString(m.r, "Key"), m.frames)
         [] next = "KeyValueDelimiter" -> Machine(next, Take(m.r), m.frames)
         [] next \in {"MemberValue", "Element", "Value"} ->
              After(IF next = "Value" THEN "Finish" ELSE next, ParseValue(m.r), m.frames)
         [] next \in {"MemberDelimiter", "ElementDelimiter"} ->
              Machine(next, Take(m.r), [m.frames EXCEPT ![1].count = @ + 1])
         [] next = "ObjectFinish" ->
              Finish(m, "MemberDelimiter", "MemberValue", "ObjectMissName", "EndObject")
         [] OTHER -> Finish(m, "ElementDelimiter", "Element", "ValueInvalid", "EndArray")

HandleError(state, r) ==
    LET code == CASE state = "Start" -> "DocumentEmpty"
                  [] state = "Finish" -> "DocumentRootNotSingular"
                  [] state \in {"ObjectInitial", "MemberDelimiter"} -> "ObjectMissName"
                  [] state = "MemberKey" -> "ObjectMissColon"
                  [] state = "MemberValue" -> "ObjectMissCommaOrCurlyBracket"
                  [] state \in {"KeyValueDelimiter", "ArrayInitial", "ElementDelimiter"} -> "ValueInvalid"
                  [] OTHER -> "ArrayMissCommaOrSquareBracket"
    IN IF HasParseError(r) THEN r ELSE Fail(r, code, r.at)

RECURSIVE Advance(_), AfterTransit(_, _)
AfterTransit(m, d) ==
    IF d.state = "Error" THEN HandleError(m.state, d.r)
    ELSE Advance([d EXCEPT !.r = SkipWhitespace(d.r)])
Advance(m) ==
    IF Peek(m.r) = 0 THEN IF m.state = "Finish" THEN m.r ELSE HandleError(m.state, m.r)
    ELSE AfterTransit(m, Transit(m, Predict(m.state, Tokenize(Peek(m.r)))))
IterativeParse(text) == Advance(Machine("Start", SkipWhitespace(Reader(text)), <<>>))
===============================================================================
