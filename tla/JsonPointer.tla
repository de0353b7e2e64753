------------------------------ MODULE JsonPointer -----------------------------
(***************************************************************************)
(* The JSON pointers of rapidjson's pointer.h, by which the session keeps  *)
(* the places of scenes, groups and controls in its cached documents.      *)
(*                                                                         *)
(* A pointer is the sequence of its tokens, or the error of its text.  An  *)
(* index has W32 bits; InvalidIndex, the largest one, marks a name.  What  *)
(* the code does in place is here the root that results.                   *)
(***************************************************************************)
EXTENDS JsonWriter

LOCAL INSTANCE SequencesExt

InvalidIndex == 2^W32 - 1
Token(name, index) == [name |-> name, index |-> index]
NameToken(name) == Token(name, InvalidIndex)
IndexToken(index) == Token(u32toa(10, index), index)
Pointer(tokens) == [tokens |-> tokens, code |-> "None", offset |-> 0]
BadPointer(code, offset) == [tokens |-> <<>>, code |-> code, offset |-> offset]
IsValid(p) == p.code = "None"

\* Variant of NeedPercentEncode for PointersFaithful: the percent sign itself is left.
NeedPercentEncodeLess(c) ==
    ~(IsDigit(c) \/ c \in 65..90 \/ c \in 97..122
      \/ c \in {Char("-"), Char("."), Char("_"), Char("~"), Char("%")})

NeedPercentEncode(c) ==
    ~(IsDigit(c) \/ c \in 65..90 \/ c \in 97..122 \/ c \in {Char("-"), Char("."), Char("_"), Char("~")})

\* PercentDecodeStream: one triplet, and the UTF-8 character that the triplets from i make.
Triplet(source, i) ==
    LET hex == At(source, i) = Char("%") /\ IsHex(At(source, i + 1)) /\ IsHex(At(source, i + 2))
    IN [ok |-> hex,
        byte |-> IF hex THEN 16 * HexValue(At(source, i + 1)) + HexValue(At(source, i + 2)) ELSE 0]
PercentBytes(source, i, length) ==
    LET bytes == [k \in 1..length |-> Triplet(source, i + 3 * (k - 1)).byte]
    IN [bytes |-> bytes,
        ok |-> Validate(bytes, 0).ok /\ \A k \in 0..length - 1 : Triplet(source, i + 3 * k).ok]
PercentDecode(source, i) ==
    PercentBytes(source, i, Validate(<<Triplet(source, i).byte>>, 0).length)

\* The characters of a token from i on; isNumber as long as all of them are digits.
RECURSIVE TokenFrom(_, _, _, _, _)
BadToken(name, code, offset) == [name |-> name, isNumber |-> FALSE, at |-> offset, code |-> code]
\* With this character of the name, which ends before next: ~0 is ~ and ~1 is a slash.
Unescaped(source, next, uriFragment, name, isNumber, c) ==
    LET escaped == At(source, next)
    IN IF c # Char("~")
       THEN TokenFrom(source, next, uriFragment, Append(name, c), isNumber /\ IsDigit(c))
       ELSE IF escaped \in {Char("0"), Char("1")}
       THEN TokenFrom(source, next + 1, uriFragment,
                      Append(name, IF escaped = Char("0") THEN Char("~") ELSE Char("/")), FALSE)
       ELSE BadToken(name, "InvalidEscape", next)
\* With what the triplets from i on stand for.
PercentDecoded(source, i, name, isNumber, decoded) ==
    IF ~decoded.ok THEN BadToken(name, "InvalidPercentEncoding", i)
    ELSE IF Len(decoded.bytes) > 1
    THEN TokenFrom(source, i + 3 * Len(decoded.bytes), TRUE, name \o decoded.bytes, FALSE)
    ELSE Unescaped(source, i + 3, TRUE, name, isNumber, decoded.bytes[1])
TokenFrom(source, i, uriFragment, name, isNumber) ==
    LET c == At(source, i)
    IN IF i >= Len(source) \/ c = Char("/")
       THEN [name |-> name, isNumber |-> isNumber, at |-> i, code |-> "None"]
       ELSE IF uriFragment /\ c = Char("%")
       THEN PercentDecoded(source, i, name, isNumber, PercentDecode(source, i))
       ELSE IF uriFragment /\ NeedPercentEncode(c)
       THEN BadToken(name, "CharacterMustPercentEncode", i)
       ELSE Unescaped(source, i + 1, uriFragment, name, isNumber, c)

\* The index that a name of digits spells: a sum that gets smaller has overflowed.
IndexOf(name) ==
    LET grow(n, c) ==
            LET m == (n.index * 10 + (c - 48)) % 2^W32
            IN IF ~n.ok \/ m < n.index THEN [n EXCEPT !.ok = FALSE] ELSE [n EXCEPT !.index = m]
        n == FoldLeft(grow, [ok |-> TRUE, index |-> 0], name)
    IN IF n.ok THEN n.index ELSE InvalidIndex
MakeToken(name, isNumber) ==
    IF isNumber /\ name # <<>> /\ ~(Len(name) > 1 /\ name[1] = 48)
    THEN Token(name, IndexOf(name)) ELSE NameToken(name)

RECURSIVE TokensFrom(_, _, _, _)
AfterToken(source, uriFragment, tokens, token) ==
    IF token.code # "None" THEN BadPointer(token.code, token.at)
    ELSE TokensFrom(source, token.at, uriFragment,
                    Append(tokens, MakeToken(token.name, token.isNumber)))
TokensFrom(source, i, uriFragment, tokens) ==
    IF i >= Len(source) THEN Pointer(tokens)
    ELSE AfterToken(source, uriFragment, tokens, TokenFrom(source, i + 1, uriFragment, <<>>, TRUE))
ParsePointer(source) ==
    LET uriFragment == At(source, 0) = Char("#")
        i == IF uriFragment THEN 1 ELSE 0
    IN IF i # Len(source) /\ At(source, i) # Char("/")
       THEN BadPointer("TokenMustBeginWithSolidus", i)
       ELSE TokensFrom(source, i, uriFragment, <<>>)

\* Stringify; it fails in a URI fragment on bytes that are no character.
PercentEncode(bytes) ==
    FlattenSeq([k \in 1..Len(bytes) |->
                   <<Char("%"), HexDigit(bytes[k] \div 16), HexDigit(bytes[k] % 16)>>])
RECURSIVE StringifyName(_, _, _)
StringifyName(name, j, uriFragment) ==
    LET c == At(name, j)
        seen == Validate(name, j)
        rest(n) == StringifyName(name, j + n, uriFragment)
        put(text, n) == [ok |-> rest(n).ok, text |-> text \o rest(n).text]
    IN IF j >= Len(name) THEN [ok |-> TRUE, text |-> <<>>]
       ELSE IF c = Char("~") THEN put(Text("~0"), 1)
       ELSE IF c = Char("/") THEN put(Text("~1"), 1)
       ELSE IF ~uriFragment \/ ~NeedPercentEncode(c) THEN put(<<c>>, 1)
       ELSE IF ~seen.ok THEN [ok |-> FALSE, text |-> <<>>]
       ELSE put(PercentEncode(SubSeq(name, j + 1, j + seen.length)), seen.length)
PointerText(names, uriFragment) ==
    [ok |-> \A k \in DOMAIN names : names[k].ok,
     text |-> (IF uriFragment THEN Text("#") ELSE <<>>)
              \o FlattenSeq([k \in DOMAIN names |-> Text("/") \o names[k].text])]
StringifyPointer(p, uriFragment) ==
    PointerText([k \in 1..Len(p.tokens) |-> StringifyName(p.tokens[k].name, 0, uriFragment)], uriFragment)

-------------------------------------------------------------------------------
SamePointer(p, q) == IsValid(p) /\ IsValid(q) /\ p.tokens = q.tokens
AppendToken(p, token) == Pointer(Append(p.tokens, token))
AppendValue(p, v) == AppendToken(p, IF IsString(v) THEN NameToken(v.s) ELSE IndexToken(v.n))

\* The place of a token in a value, 0 when it has none.
PlaceOf(v, token) ==
    IF IsObject(v) THEN IF HasMember(v, token.name) THEN FindMember(v, token.name) ELSE 0
    ELSE IF IsArray(v) /\ token.index # InvalidIndex /\ token.index < Len(v.elements)
    THEN token.index + 1 ELSE 0
At0(v, place) == IF IsObject(v) THEN v.members[place].value ELSE v.elements[place]
With(v, place, value) ==
    IF IsObject(v) THEN [v EXCEPT !.members[place].value = value]
    ELSE [v EXCEPT !.elements[place] = value]

RECURSIVE Get(_, _)
Get(root, tokens) ==
    LET place == PlaceOf(root, Head(tokens))
        inner == Get(At0(root, place), Tail(tokens))
    IN IF tokens = <<>> THEN [found |-> TRUE, value |-> root, unresolved |-> 0]
       ELSE IF place = 0 THEN [found |-> FALSE, value |-> NullValue, unresolved |-> 0]
       ELSE [inner EXCEPT !.unresolved = @ + 1]

\* Create, and the value put where it leads: a parent of another type is replaced, an
\* array is filled with null up to the index, and "-" is the element after its last.
Nulls(n) == [k \in 1..n |-> NullValue]
RECURSIVE Set(_, _, _)
Set(root, tokens, value) ==
    LET token == Head(tokens)
        dash == IsArray(root) /\ token.name = Text("-")
        v == IF dash THEN root
             ELSE IF token.index = InvalidIndex
             THEN IF IsObject(root) THEN root ELSE ObjectValue(<<>>)
             ELSE IF IsArray(root) \/ IsObject(root) THEN root ELSE ArrayValue(<<>>)
        size == Len(v.elements)
        place == IF dash THEN size + 1 ELSE token.index + 1
        filled == IF place <= size THEN v
                  ELSE ArrayValue(v.elements \o Nulls(place - size))
        grown == IF HasMember(v, token.name) THEN v ELSE AddMember(v, token.name, NullValue)
        put(container, at) == With(container, at, Set(At0(container, at), Tail(tokens), value))
    IN IF tokens = <<>> THEN value
       ELSE IF IsArray(v) THEN put(filled, place)
       ELSE put(grown, FindMember(grown, token.name))
Create(root, tokens) ==
    [alreadyExist |-> Get(root, tokens).found,
     root |-> IF Get(root, tokens).found THEN root ELSE Set(root, tokens, NullValue)]
GetWithDefault(root, tokens, default) ==
    IF Create(root, tokens).alreadyExist THEN root ELSE Set(root, tokens, default)
Swap(root, tokens, value) ==
    [root |-> Set(root, tokens, value),
     value |-> IF Get(root, tokens).found THEN Get(Create(root, tokens).root, tokens).value
               ELSE NullValue]

RECURSIVE EraseAt(_, _)
EraseAt(root, tokens) ==
    LET place == PlaceOf(root, Head(tokens))
        inner == EraseAt(At0(root, place), Tail(tokens))
    IN IF tokens = <<>> \/ place = 0 THEN [erased |-> FALSE, root |-> root]
       ELSE IF Len(tokens) = 1
       THEN [erased |-> TRUE,
             root |-> IF IsObject(root) THEN EraseMember(root, place) ELSE Erase(root, place)]
       ELSE [erased |-> inner.erased, root |-> With(root, place, inner.root)]
===============================================================================
