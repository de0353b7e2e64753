--------------------------------- MODULE Data ---------------------------------
(***************************************************************************)
(* What the session's data goes through, one question at a time: JSON text *)
(* to values and back, pointers, the cache of scenes and its getters, the  *)
(* buffers of the string getters and the requests of the HTTP clients.     *)
(*                                                                         *)
(* A question says what it asks and of which input.  The questions of a    *)
(* topic are its successors; the cache is a state that replies and updates *)
(* change, with what they said about each control beside it, and under the *)
(* topic "body" it is the client that moves.                               *)
(***************************************************************************)
EXTENDS Controls, HttpClient

CONSTANTS
    TokenSet, TokenLists,       \* tokens, and texts to be edited
    Numerals, Fractions, Exponents, Codes,
    Values, Numbers,            \* values to be written, numbers for the digits in base 2
    PointerChars, PointerNames, Roots,
    Names,
    ScenesReplies, ControlUpdates

VARIABLE question

Ask(what, input) == [what |-> what, input |-> input]
Topics == {"parse", "edit", "integer", "double", "escape", "write", "digits", "pointer",
           "place", "copy", "body", "cache"}
Joined(tokens) == FlattenSeq(tokens)
UpTo(S, n) == UNION {[1..k -> S] : k \in 0..n}

\* The texts that one edit of a list of tokens makes.
Edits(list) ==
    {RemoveAt(list, i) : i \in 1..Len(list)}
    \cup {InsertAt(list, i, t) : i \in 1..Len(list) + 1, t \in TokenSet}
    \cup {ReplaceAt(list, i, t) : i \in 1..Len(list), t \in TokenSet}

Questions(topic) ==
    CASE topic = "parse" -> {Ask("parse", Joined(ts)) : ts \in UpTo(TokenSet, 3)}
      [] topic = "edit" -> UNION {{Ask("parse", Joined(ts)) : ts \in Edits(list)} : list \in TokenLists}
      [] topic = "integer" -> {Ask("integer", n) : n \in Numerals}
      [] topic = "double" -> {Ask("double", d) :
             d \in [neg : BOOLEAN, whole : {0, 1, 25, 340}, fraction : Fractions, exponent : Exponents]}
      [] topic = "escape" -> {Ask("escape", code) : code \in Codes}
      [] topic = "write" -> {Ask("write", v) : v \in Values}
      [] topic = "digits" -> {Ask("digits", n) : n \in Numbers}
      [] topic = "pointer" -> {Ask("pointer", s) : s \in UpTo(PointerChars, 4)}
      [] topic = "place" -> {Ask("place", [root |-> r, path |-> p, other |-> q]) :
                                 r \in Roots, p \in UpTo(PointerNames, 2), q \in UpTo(PointerNames, 2)}
      [] topic = "copy" -> {Ask("copy", s) : s \in Names}
      [] OTHER -> {Ask("cache", [session |-> Session(TRUE, FALSE), said |-> EmptyMap])}

\* What a list of controls says of each of them.
Said(controls) ==
    [id \in {StringIn(controls[k], kControlId) : k \in DOMAIN controls} |->
        controls[CHOOSE k \in DOMAIN controls : StringIn(controls[k], kControlId) = id]]
AllControls(doc) ==
    LET scenes == ArrayIn(MemberOf(doc, Text("result")), kScenes)
    IN FlattenSeq([i \in DOMAIN scenes |-> ArrayIn(scenes[i], kControls)])

Reply(doc) ==
    question' = Ask("cache", [session |-> CacheScenes(CacheGroups(question.input.session, doc), doc),
                              said |-> Said(AllControls(doc))])
Updated(control, updated) ==
    LET id == StringIn(control, kControlId)
    IN /\ updated.err = "OK"
       /\ question' = Ask("cache", [session |-> updated.session,
                                    said |-> [question.input.said EXCEPT ![id] = control]])
Update(control) == Updated(control, UpdateCachedControl(question.input.session, control))

Init == question \in {Ask("topic", t) : t \in Topics} /\ HttpInit
Next ==
    \/ /\ question.what = "topic" /\ question.input # "body"
       /\ question' \in Questions(question.input)
       /\ UNCHANGED httpVars
    \/ question.what = "cache" /\ UNCHANGED httpVars /\ \E doc \in ScenesReplies : Reply(doc)
    \/ question.what = "cache" /\ UNCHANGED httpVars /\ \E control \in ControlUpdates : Update(control)
    \/ question = Ask("topic", "body") /\ HttpNext /\ UNCHANGED question
Spec == Init /\ [][Next]_<<question, httpVars>>

-------------------------------------------------------------------------------
\* Readers at the end of a text, or at its first error.
Agree(text, recursive, iterative) ==
    /\ recursive.events = iterative.events
    /\ recursive.offset = iterative.offset
    /\ \/ recursive.code = iterative.code
       \/ /\ recursive.code = "ValueInvalid" /\ iterative.code = "DocumentEmpty"
          /\ Tokenize(Peek(SkipWhitespace(Reader(text)))) \notin {0, Char("\"")}

\* The iterative parser gives the handler the same events as the recursive one, and
\* finds the same error at the same place; only a document that begins with a closing
\* bracket, a comma or a colon is empty for one and an invalid value for the other
\* (GenericReader::Parse and IterativeParse). The library calls the recursive
\* one; the other is the reference it comes with.
ParsersAgree ==
    question.what = "parse" =>
        Agree(question.input, Parse(question.input), IterativeParse(question.input))

\* The types that hold an integer.
Narrow(n) ==
    Fits("int", n \in -(2^(W32 - 1))..2^(W32 - 1) - 1) \cup Fits("uint", n \in 0..2^W32 - 1)
    \cup Fits("int64", n \in -(2^(W64 - 1))..2^(W64 - 1) - 1) \cup Fits("uint64", n \in 0..2^W64 - 1)
Signed(neg, text) == IF neg THEN <<Char("-")>> \o text ELSE text
Hex4(code) == [k \in 1..4 |-> HexDigit((code \div 16^(4 - k)) % 16)]
Escaped(code) ==
    LET unit(c) == Text("\\u") \o Hex4(c)
    IN IF code < 65536 THEN unit(code)
       ELSE unit(55296 + (code - 65536) \div 1024) \o unit(56320 + ((code - 65536) % 1024))

IntegerText(n) == Signed(n < 0, Decimal(IF n < 0 THEN -n ELSE n))
DoubleText(d) ==
    Signed(d.neg, Decimal(d.whole)) \o Text(".") \o d.fraction \o Text("e") \o IntegerText(d.exponent)
Spelt(d) ==
    Normal(d.neg, FoldLeft(LAMBDA n, c : 10 * n + (c - 48), d.whole, d.fraction),
           d.exponent - Len(d.fraction))
MeansInteger(v, n) ==
    IF Narrow(n) # {} THEN v.flags = Narrow(n) /\ v.n = n
    ELSE v = DoubleValue(Normal(n < 0, IF n < 0 THEN -n ELSE n, 0))
MeansCharacter(v, seen, code) ==
    Validate(v.s, 0).ok /\ seen.ok /\ seen.code = code /\ seen.length = Len(v.s)
Means(topic, input, v) ==
    CASE topic = "integer" -> MeansInteger(v, input)
      [] topic = "double" -> v = DoubleValue(Spelt(input))
      [] OTHER -> MeansCharacter(v, Decode(v.s, 0), input)
TextOf(topic, input) ==
    CASE topic = "integer" -> IntegerText(input)
      [] topic = "double" -> DoubleText(input)
      [] OTHER -> Text("\"") \o Escaped(input) \o Text("\"")

\* An integer is read with its value, and as exactly those types that hold it, or else
\* as a double; decimal fractions and exponents mean what they say; and an escaped
\* character becomes one UTF-8 character that is decoded to it (ParseNumber, the flags
\* of GenericValue, ParseStringToStream, UTF8::Encode and Decode).
TextsRead ==
    question.what \in {"integer", "double", "escape"} =>
        Means(question.what, question.input,
              ParseStream(NullValue, TextOf(question.what, question.input)).value)

RECURSIVE Finite(_)
Finite(v) ==
    CASE IsObject(v) -> \A i \in DOMAIN v.members : Finite(v.members[i].value)
      [] IsArray(v) -> \A i \in DOMAIN v.elements : Finite(v.elements[i])
      [] OTHER -> Has(v, "double") => ~IsNanOrInf(v.d)
RECURSIVE InBase2(_)
InBase2(n) == IF n < 2 THEN <<48 + n>> ELSE Append(InBase2(n \div 2), 48 + (n % 2))

ReadBack(v, back) == back.code = "None" /\ back.value = v
Written(v, written) ==
    /\ written.buffer.safe /\ written.ok = Finite(v)
    /\ Finite(v) => ReadBack(v, ParseStream(NullValue, written.buffer.text))

\* What the writer makes of a value, the methods of the session among them, the parser
\* reads back as that value with its types, and the copy and the comparison agree; no
\* character is put outside of the space reserved for it.  A value with an infinite
\* number is given up (jsonStringify, Writer, itoa.h, dtoa.h, Document::Parse).
RoundTrip ==
    CASE question.what = "write" ->
           /\ Written(question.input, Stringify(question.input))
           /\ DeepCopy(question.input) = question.input /\ Equal(question.input, question.input)
      [] question.what = "digits" ->      \* ten digits at most, or twenty
           /\ question.input < 2^10 => u32toa(2, question.input) = InBase2(question.input)
           /\ u64toa(2, question.input) = InBase2(question.input)
      [] OTHER -> TRUE

Path(names) == [k \in DOMAIN names |-> MakeToken(names[k], names[k] # <<>> /\
                                         \A i \in DOMAIN names[k] : IsDigit(names[k][i]))]
Incomparable(p, q) == ~(IsPrefix(p, q) \/ IsPrefix(q, p))

SpelledAgain(p, text) == text.ok => SamePointer(ParsePointer(text.text), p)
PointerKept(source, p) ==
    IsValid(p) =>
        /\ FoldLeftDomain(LAMBDA n, k : n + Len(p.tokens[k].name) + 1, 0, p.tokens) <= Len(source)
        /\ \A uriFragment \in BOOLEAN : SpelledAgain(p, StringifyPointer(p, uriFragment))
        /\ StringifyPointer(p, FALSE).ok
PlaceKept(root, p, q, there, after, erased) ==
    LET v == BoolValue(TRUE)
    IN /\ Get(after, p).found /\ Get(after, p).value = v
       /\ there.found => Swap(root, p, v).value = there.value
       /\ there.found /\ Incomparable(p, q) => Get(after, q) = Get(root, q)
       /\ erased.erased <=> there.found /\ p # <<>>
       /\ erased.erased /\ IsObject(Get(root, SubSeq(p, 1, Len(p) - 1)).value) =>
             ~Get(erased.root, p).found
PlaceAt(root, p, q) ==
    PlaceKept(root, p, q, Get(root, p), Set(root, p, BoolValue(TRUE)), EraseAt(root, p))

\* A pointer that is valid has room for its names, and both of its texts stand for it
\* again; what is set at a path is found there, nothing else moves if the path was
\* there before, and what is erased is gone (pointer.h, by which every cached scene and
\* control is found).
PointersFaithful ==
    CASE question.what = "pointer" -> PointerKept(question.input, ParsePointer(question.input))
      [] question.what = "place" ->
           PlaceAt(question.input.root, Path(question.input.path), Path(question.input.other))
      [] OTHER -> TRUE

\* A session with one control, and s in the place of each of its names.
Named(s) ==
    UpdateControlPointers([Session(TRUE, FALSE) EXCEPT !.scenesRoot =
        Object1(kScenes, ArrayOf(Object2(kSceneId, StringValue(s),
            kControls, ArrayOf(ObjectValue(<<
                Member(s, StringValue(s)), Member(kControlId, StringValue(s)),
                Member(kMeta, Object1(s, Object1(kValue, StringValue(s))))>>)))))])

\* got: what a getter gives for each length of the buffer.
Lengths == 0..16
Filled(got, s) == got.err = "OK" /\ got.text = CString(s) /\ got.length > Len(got.text)
Whole(s, got) ==
    /\ got[0].err = "BUFFER_SIZE"
    /\ \A more \in 0..2 : Filled(got[got[0].length + more], s)
GettersWhole(s, session) ==
    /\ Whole(s, [n \in Lengths |-> ParticipantText(s, n)])
    /\ Whole(s, [n \in Lengths |-> GetPropertyString(session, s, kControlId, n)])
    /\ Whole(s, [n \in Lengths |-> GetMetaPropertyString(session, s, s, n)])
    /\ s # <<>> => /\ Whole(s, [n \in Lengths |-> GetPropertyData(session, s, 0, n)])
                   /\ Whole(s, [n \in Lengths |-> GetMetaPropertyData(session, s, 0, n)])

UserBody(s, level) ==
    LET fields == <<"id", "username", "experience", "sparks", "avatarUrl">>
        texts == ObjectValue([k \in DOMAIN fields |-> Member(Text(fields[k]), StringValue(s))])
        channel == AddMember(texts, Text("channel"), Object1(Text("online"), BoolValue(TRUE)))
    IN Stringify(AddMember(channel, Text("level"), level)).buffer.text
UserWhole(s, level, got) ==
    /\ got.err = "OK" /\ got.isBroadcasting
    /\ got.user = [f \in UserFields |->
          IF f \in {Text("username"), Text("avatarUrl")} THEN s
          ELSE IF f = Text("level") /\ level = IntValue(9) THEN 9 ELSE 0]
UserRead(s, level, body) ==
    /\ UserWhole(s, level, GetUser(Text("Bearer"), 0, body))
    /\ \A n \in 1..Len(body) - 1 : GetUser(Text("Bearer"), 0, SubSeq(body, 1, n)).err = "JSON_PARSE"
Refused(s) ==
    Object1(Text("error"), Object2(Text("code"), UintValue(4), Text("message"), StringValue(s)))

\* A getter that is called with no buffer, and then with one of the size it asked for,
\* or a larger one, gives the whole text (the string getters of controls, metadata and
\* participants, and get_scene_object_prop_data for names that are not empty); the
\* error of a transaction is reported whole (the reply handler of capture); and of a
\* user, what the answer says or zero, and nothing of a truncated answer (get_user).
CopiesWhole ==
    question.what = "copy" =>
        /\ GettersWhole(question.input, Named(question.input))
        /\ CaptureResult(Refused(question.input)) = [err |-> 4, message |-> question.input]
        /\ \A level \in {IntValue(-1), IntValue(9), StringValue(question.input)} :
              UserRead(question.input, level, UserBody(question.input, level))

\* got: what a getter gives for each type that it may be asked for.
Readable == {"int", "bool", "float", "string"}
Reads(got, type, v) ==
    IF type \in Readable THEN got[type].err = "OK" /\ got[type].value = v
    ELSE \A t \in Readable : got[t].err = "INVALID_PROPERTY_TYPE"
PropertyTold(session, id, member, data) ==
    /\ data.text = member.name
    /\ Reads([t \in Readable |-> GetProperty(session, id, member.name, t)], data.type, member.value)
MetaTold(session, id, member, data) ==
    /\ data.text = member.name
    /\ Reads([t \in Readable |-> GetMetaProperty(session, id, member.name, t)], data.type,
             MemberOf(member.value, kValue))
Told(session, id, members, meta) ==
    /\ GetPropertyCount(session, id).count = Len(members)
    /\ \A i \in DOMAIN members :
          PropertyTold(session, id, members[i], GetPropertyData(session, id, i - 1, 32))
    /\ meta # <<>> => GetMetaPropertyCount(session, id).count = Len(meta)
    /\ \A i \in DOMAIN meta :
          MetaTold(session, id, meta[i], GetMetaPropertyData(session, id, i - 1, 32))
MetaOf(control) == IF HasMember(control, kMeta) THEN MemberOf(control, kMeta).members ELSE <<>>
ListedTold(session, s, controls) ==
    \A k \in DOMAIN controls :
        LET id == controls[k].id
            control == question.input.said[id]
        IN /\ id \in DOMAIN session.controls
           /\ ControlSceneId(session, id) = s /\ session.controls[id].sceneId = s
           /\ Told(session, id, control.members, MetaOf(control))

\* Whatever replies and updates came, the getters tell of each listed control what was
\* said of it last: its path leads to it, both ways to its scene agree, its properties
\* are counted and named, and each is read as its type, those of its metadata as well
\* (cache_scenes, update_cached_control and the getters of interactive_control.cpp).
CacheKept ==
    question.what = "cache" =>
        \A s \in GetScenes(question.input.session) :
            ListedTold(question.input.session, s, SceneGetControls(question.input.session, s))
===============================================================================
