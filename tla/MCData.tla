-------------------------------- MODULE MCData --------------------------------
(* Data with small texts, values, pointers, projects and bodies, for TLC. *)
EXTENDS Data

\* Texts of JSON: a token, and lists of them that an edit turns into something else.
SomeTokens == {Text(t) : t \in {"[", "]", "{", "}", ",", ":", "\"a\"", "-1", "true", "1.e", " "}}
Words(strings) == [k \in DOMAIN strings |-> Text(strings[k])]
SomeLists == {
    Words(<<"[", "true", ",", "[", "]", ",", "{", "}", "]">>),
    Words(<<"{", "\"a\"", ":", "-1", ",", "\"b\"", ":", "{", "\"c\"", ":", "[", "null", "]", "}", "}">>),
    Words(<<"[", "[", "\"\\u00e9\"", ",", "\"\\ud83d\\ude00\"", "]", ",", "1e3", "]">>),
    Words(<<"{", "\"\\n\"", " ", ":", " ", "false", "}">>) }

\* Numbers at the limits of every width, and just beyond.
AroundPowers == UNION {{2^k - 1, 2^k, 2^k + 1} : k \in {0, 3, 4, 7, 8, 10, 12, 15, 16, 19, 20, 21, 30}}
SomeNumerals == {0} \cup AroundPowers \cup {-n : n \in AroundPowers} \cup {10^k : k \in 1..9}
                \cup {10^k - 1 : k \in 1..9}
SomeFractions == {Text(t) : t \in {"0", "5", "25", "050"}}
SomeExponents == {-9, -3, -1, 0, 1, 4}
SomeCodes == UNION {{n - 1, n} : n \in {1, 128, 1024, 2048, 4096, 55296, 57344, 65536, 66560, 1114112}}
             \ {55296, 57343, 1114112}

D(n, e) == DoubleValue(Double(FALSE, n, e))
Atoms ==
    {NullValue, BoolValue(TRUE), BoolValue(FALSE), StringValue(<<>>), StringValue(Text("a/~\"\\")),
     StringValue(<<8, 9, 10, 12, 13, 31, 127, 195, 169>>), ArrayValue(<<>>), ObjectValue(<<>>),
     IntValue(-128), UintValue(255), Int64Value(-129), Int64Value(-524288), Uint64Value(1048575),
     DoubleValue(Double(TRUE, 0, 0)), D(1, 0), D(5, -1), D(1234, 4), D(1234, -2), D(7, -3), D(7, 8),
     D(12, -7), D(99, 8)}
Nested(v) == {ArrayOf(v), Object1(Text("k"), v), ArrayValue(<<v, v>>), Object2(Text("k"), v, Text("k"), v),
              ArrayOf(ArrayOf(v)), Object1(<<>>, ArrayOf(Object1(Text("\""), v)))}

\* Controls with every type of property, in one scene of two and in one of eleven.
Ctl(id, members) ==
    ObjectValue(<<Member(kControlId, StringValue(Text(id))), Member(kKind, StringValue(Text("button")))>>
                \o members)
Meta(v) == Member(kMeta, Object2(Text("m"), Object1(kValue, v), Text("n"), Object1(kValue, D(5, -1))))
Variant1(id) == Ctl(id, <<Member(Text("text"), StringValue(Text("hi"))), Member(Text("cost"), IntValue(7)),
                          Member(Text("progress"), D(25, -2)), Meta(IntValue(-3))>>)
Variant2(id) == Ctl(id, <<Member(Text("disabled"), BoolValue(TRUE)), Meta(StringValue(Text("x"))),
                          Member(Text("position"), ArrayOf(Object1(Text("x"), IntValue(1)))),
                          Member(Text("note"), NullValue)>>)
SceneJson(id, controls) ==
    ObjectValue(<<Member(kSceneId, StringValue(Text(id))), Member(kControls, ArrayValue(controls)),
                  Member(kGroups, ArrayOf(Object1(kGroupId, StringValue(Text("g")))))>>)
ReplyJson(scenes) ==
    Object1(Text("result"), Object2(kScenes, ArrayValue(scenes),
        kGroups, ArrayOf(Object2(kGroupId, StringValue(Text("g")), kSceneId, StringValue(Text("s"))))))
Eleven == <<"0", "1", "2", "3", "4", "5", "6", "7", "8", "9", "a">>
SomeReplies == {
    ReplyJson(<<SceneJson("t", <<Variant1("b")>>), SceneJson("s", [k \in 1..11 |-> Ctl(Eleven[k], <<>>)])>>),
    ReplyJson(<<SceneJson("s", <<Variant2("1"), Variant1("a")>>), SceneJson("t", <<>>)>>) }
SomeUpdates == {Variant1("1"), Variant2("a"), Variant2("b")}

\* The methods that the functions of interactivity.h queue.
OneSession == CacheScenes(Session(TRUE, FALSE), CHOOSE doc \in SomeReplies : TRUE)
Methods ==
    LET method(name, params) == MethodJson(200, name, TRUE, 0, params)
        id == Text("a")
    IN {method("updateControls", SetPropertyParams(OneSession, id, Text("k"), v)) : v \in Atoms}
       \cup {method("updateControls", CooldownParams(OneSession, id, 100000)),
             method("createGroups", GroupParams(id, Text("default"))),
             method("capture", CaptureParams(Text("t-1"))),
             method("m", QueueMethodParams(Text("{\"a\":[1,\"\\u0001\"]}")).params)}
       \cup {method("setBandwidthThrottle", ThrottleParams(t, 255, 0)) :
               t \in {"input", "participant_join", "participant_leave", "global"}}
SomeValues == Atoms \cup UNION {Nested(v) : v \in Atoms} \cup Methods
SomeNumbers == 0..40 \cup UNION {{2^k - 1, 2^(k - 1), 2^(k - 1) + 5} : k \in 6..20}

SomePointerChars == {Char(c) : c \in {"/", "0", "1", "~", "a", "-", "#", "%", " "}}
SomePointerNames == {<<>>, Text("a"), Text("0"), Text("1"), Text("3"), Text("~")}
SomeRoots == {NullValue, IntValue(1), ArrayOf(ArrayOf(NullValue)),
              ArrayValue(<<IntValue(1), Object1(Text("a"), IntValue(2)), NullValue>>),
              Object2(Text("a"), ArrayValue(<<NullValue, IntValue(1)>>), Text("0"), IntValue(2)),
              Object2(Text("~"), Object2(Text("1"), IntValue(1), <<>>, IntValue(2)), Text("1"), NullValue)}

SomeNames == {<<>>, Text("a"), Text("name"), Text("a b c d"), <<195, 169>>}

\* Characters of one to four bytes, and texts of them.
SomeCharacters == {Encode(c) : c \in {97, 233, 8364, 128512}}
SomeBodies == {Joined(cs) : cs \in UpTo(SomeCharacters, 4)}
SomeSizes == 1..3
===============================================================================
