-------------------------------- MODULE Controls -------------------------------
(***************************************************************************)
(* The cache of scenes, controls and groups as the JSON document it is,    *)
(* with the paths kept beside it, the functions that read it, and the      *)
(* methods that the functions of interactivity.h queue.                    *)
(*                                                                         *)
(* SceneCache has the threads and the locks of this cache and takes a path *)
(* for a pair of indices; here one thread uses it, and a path is the text  *)
(* that update_control_pointers writes and rapidjson::Pointer parses.      *)
(* Names are code units.  A function returns its error, what it gives      *)
(* back, or both.                                                          *)
(***************************************************************************)
EXTENDS JsonPointer, Buffers

LOCAL INSTANCE SequencesExt

kScenes == Text("scenes")
kControls == Text("controls")
kGroups == Text("groups")
kSceneId == Text("sceneID")
kControlId == Text("controlID")
kGroupId == Text("groupID")
kKind == Text("kind")
kMeta == Text("meta")
kValue == Text("value")

EmptyMap == [x \in {} |-> x]
Emplace(map, key, value) ==
    [k \in DOMAIN map \cup {key} |-> IF k \in DOMAIN map THEN map[k] ELSE value]

Session(connected, shutdownRequested) ==
    [connected |-> connected, shutdownRequested |-> shutdownRequested,
     scenesRoot |-> ObjectValue(<<>>), scenes |-> EmptyMap, controls |-> EmptyMap,
     scenesByGroup |-> EmptyMap]

\* The elements of an array that an object may have.
ArrayIn(v, name) ==
    IF HasMember(v, name) /\ IsArray(MemberOf(v, name)) THEN MemberOf(v, name).elements ELSE <<>>
StringIn(v, name) == MemberOf(v, name).s

-------------------------------------------------------------------------------
\* The cache.

ScenePointer(i) == Text("/scenes/") \o Decimal(i - 1)

CacheControl(session, scene, i, j) ==
    [session EXCEPT !.controls =
        Emplace(@, StringIn(ArrayIn(scene, kControls)[j], kControlId),
                [sceneId |-> StringIn(scene, kSceneId),
                 cachePointer |-> ScenePointer(i) \o Text("/controls/") \o Decimal(j - 1)])]
CacheScene(session, scene, i) ==
    LET cache(s, j) == CacheControl(s, scene, i, j)
        cached == FoldLeftDomain(cache, session, ArrayIn(scene, kControls))
    IN [cached EXCEPT !.scenes = Emplace(@, StringIn(scene, kSceneId), ScenePointer(i))]

\* Variant of UpdateControlPointers for CacheKept: the second scene is called the first.
UpdateFirstPointers(session) ==
    LET scenes == ArrayIn(session.scenesRoot, kScenes)
        cache(s, i) == CacheScene(s, scenes[i], 1)
    IN FoldLeftDomain(cache, session, scenes)

\* update_control_pointers.
UpdateControlPointers(session) ==
    LET scenes == ArrayIn(session.scenesRoot, kScenes)
        cache(s, i) == CacheScene(s, scenes[i], i)
    IN FoldLeftDomain(cache, session, scenes)

\* The handlers of the replies to getScenes and getGroups.
CacheScenes(session, doc) ==
    LET scenes == MemberOf(MemberOf(doc, Text("result")), kScenes)
    IN IF session.shutdownRequested THEN session
       ELSE UpdateControlPointers(
                [session EXCEPT !.controls = EmptyMap, !.scenes = EmptyMap,
                    !.scenesRoot = AddMember(ObjectValue(<<>>), kScenes, DeepCopy(scenes))])
CacheGroups(session, doc) ==
    LET groups == ArrayIn(MemberOf(doc, Text("result")), kGroups)
        sceneOf(g) == IF HasMember(g, kSceneId) THEN StringIn(g, kSceneId) ELSE <<>>
        add(map, g) == Emplace(map, StringIn(g, kGroupId), sceneOf(g))
    IN [session EXCEPT !.scenesByGroup = FoldLeft(add, EmptyMap, groups)]

\* update_cached_control.
UpdateCachedControl(session, control) ==
    LET id == StringIn(control, kControlId)
    IN IF id \notin DOMAIN session.controls THEN [err |-> "OBJECT_NOT_FOUND", session |-> session]
       ELSE [err |-> "OK", session |-> [session EXCEPT !.scenesRoot =
                Swap(@, ParsePointer(session.controls[id].cachePointer).tokens, DeepCopy(control)).root]]

-------------------------------------------------------------------------------
\* Reading it.  What Pointer(path).Get finds:
Seek(session, path) == Get(session.scenesRoot, ParsePointer(path).tokens)

\* get_control_scene_id: the part of the path before "controls" is the scene's.
ControlSceneId(session, controlId) ==
    LET path == session.controls[controlId].cachePointer
        at(i) == SubSeq(path, i, i + Len(kControls) - 1) = kControls
        first == CHOOSE i \in DOMAIN path : at(i) /\ \A j \in 1..i - 1 : ~at(j)
        scene == SubSeq(path, 1, first - 2)
    IN StringIn(Seek(session, scene).value, kSceneId)

\* safe_get_value, by the type of the variable the value is for.
Is(v, type) ==
    CASE type \in {"int", "int64"} -> Has(v, type)
      [] type = "bool" -> IsBool(v)
      [] type = "float" -> IsFloat(v)
      [] OTHER -> IsString(v)
SafeGetValue(v, type) ==
    IF ~Is(v, type) THEN [err |-> "INVALID_PROPERTY_TYPE"]
    ELSE [err |-> "OK", value |-> IF type = "string" THEN StringValue(CString(v.s)) ELSE v]

\* interactive_control_get_property: the key is put into the path as it is.
ValueFound(found, type) ==
    IF ~found.found THEN [err |-> "PROPERTY_NOT_FOUND"] ELSE SafeGetValue(found.value, type)
GetProperty(session, controlId, key, type) ==
    IF ~session.connected THEN [err |-> "NOT_CONNECTED"]
    ELSE IF session.shutdownRequested THEN [err |-> "OK"]          \* with no value
    ELSE IF controlId \notin DOMAIN session.controls THEN [err |-> "OBJECT_NOT_FOUND"]
    ELSE ValueFound(Seek(session, session.controls[controlId].cachePointer \o Text("/") \o key), type)
GetMetaProperty(session, controlId, key, type) ==
    GetProperty(session, controlId, kMeta \o Text("/") \o key \o Text("/value"), type)

\* get_scene_object_prop_count and get_scene_object_prop_data.
CountFound(found) ==
    IF ~found.found THEN [err |-> "OBJECT_NOT_FOUND", count |-> 0]
    ELSE [err |-> "OK", count |-> Len(found.value.members)]
PropCount(session, path) == CountFound(Seek(session, path))
PropType(v) ==
    CASE IsString(v) -> "string" [] Has(v, "int") -> "int" [] IsBool(v) -> "bool"
      [] IsFloat(v) -> "float" [] IsArray(v) -> "array" [] IsObject(v) -> "object"
      [] OTHER -> "unknown"

DataFound(found, index, length) ==
    LET member == found.value.members[index + 1]
    IN IF ~found.found THEN [err |-> "OBJECT_NOT_FOUND", type |-> "unknown"]
       ELSE IF Len(found.value.members) <= index
       THEN [err |-> "PROPERTY_NOT_FOUND", type |-> "unknown"]
       ELSE IF length < Len(member.name)
       THEN [err |-> "BUFFER_SIZE", length |-> Len(member.name) + 1, type |-> "unknown"]
       ELSE [err |-> "OK", length |-> length, text |-> Terminated(member.name, length),
             type |-> PropType(member.value)]
PropData(session, path, index, length) == DataFound(Seek(session, path), index, length)

\* The state and the control that every function looks for first.
OfControl(session, controlId, what) ==
    IF ~session.connected THEN [err |-> "NOT_CONNECTED"]
    ELSE IF controlId \notin DOMAIN session.controls THEN [err |-> "OBJECT_NOT_FOUND"]
    ELSE what
ControlPath(session, controlId) == session.controls[controlId].cachePointer
MetaPath(session, controlId) == ControlPath(session, controlId) \o Text("/meta")

GetPropertyCount(session, controlId) ==
    OfControl(session, controlId, PropCount(session, ControlPath(session, controlId)))
GetMetaPropertyCount(session, controlId) ==
    OfControl(session, controlId, PropCount(session, MetaPath(session, controlId)))
GetPropertyData(session, controlId, index, length) ==
    OfControl(session, controlId, PropData(session, ControlPath(session, controlId), index, length))
\* Of metadata, the type of the first member of what the name stands for.
TypedBy(data, inner) == [data EXCEPT !.err = inner.err, !.type = inner.type]
MetaData(session, path, data) ==
    IF data.err # "OK" THEN data
    ELSE TypedBy(data, PropData(session, path \o Text("/") \o data.text, 0, Len(kValue) + 1))
GetMetaPropertyData(session, controlId, index, length) ==
    LET path == MetaPath(session, controlId)
    IN OfControl(session, controlId, MetaData(session, path, PropData(session, path, index, length)))

\* The string getters of the properties and of the metadata.
CopyOf(got, length) == IF got.err # "OK" THEN got ELSE Copied(got.value.s, length)
GetPropertyString(session, controlId, key, length) ==
    CopyOf(GetProperty(session, controlId, key, "string"), length)
GetMetaPropertyString(session, controlId, key, length) ==
    CopyOf(GetMetaProperty(session, controlId, key, "string"), length)

\* interactive_get_scenes, interactive_scene_get_controls, interactive_scene_get_groups.
GetScenes(session) == DOMAIN session.scenes
SceneOf(session, sceneId) == Seek(session, session.scenes[sceneId]).value
Listing(controls) ==
    [k \in DOMAIN controls |-> [id |-> StringIn(controls[k], kControlId),
                                kind |-> StringIn(controls[k], kKind)]]
SceneGetControls(session, sceneId) ==
    LET named(c) == IsObject(c) /\ HasMember(c, kControlId) /\ IsString(MemberOf(c, kControlId))
    IN Listing(SelectSeq(ArrayIn(SceneOf(session, sceneId), kControls), named))
GroupListing(groups, sceneId) ==
    [k \in DOMAIN groups |-> [id |-> StringIn(groups[k], kGroupId), scene |-> sceneId]]
SceneGetGroups(session, sceneId) ==
    GroupListing(ArrayIn(SceneOf(session, sceneId), kGroups), sceneId)
GetGroups(session) == {[id |-> g, scene |-> session.scenesByGroup[g]] : g \in DOMAIN session.scenesByGroup}

-------------------------------------------------------------------------------
\* Methods: create_method_json, and the parameters of each of its callers.
Object1(name, v) == ObjectValue(<<Member(name, v)>>)
Object2(name1, v1, name2, v2) == ObjectValue(<<Member(name1, v1), Member(name2, v2)>>)
ArrayOf(v) == ArrayValue(<<v>>)

MethodJson(packetId, method, discard, sequenceId, params) ==
    ObjectValue(<<Member(Text("id"), UintValue(packetId)),
                  Member(Text("method"), StringValue(Text(method))),
                  Member(Text("discard"), BoolValue(discard)),
                  Member(Text("seq"), IntValue(sequenceId)),
                  Member(Text("params"), params)>>)

\* interactive_control_set_property: the scene kept with the control's path.
SetPropertyParams(session, controlId, key, v) ==
    Object2(kSceneId, StringValue(session.controls[controlId].sceneId),
            kControls, ArrayOf(Object2(kControlId, StringValue(controlId), key, v)))
\* interactive_control_trigger_cooldown: the scene at its path.
CooldownParams(session, controlId, timestamp) ==
    ObjectValue(<<Member(kSceneId, StringValue(ControlSceneId(session, controlId))),
                  Member(Text("priority"), IntValue(1)),
                  Member(kControls, ArrayOf(Object2(kControlId, StringValue(controlId),
                                            Text("cooldown"), Int64Value(timestamp))))>>)
\* interactive_create_group and interactive_group_set_scene.
GroupParams(groupId, sceneId) ==
    Object1(kGroups, ArrayOf(Object2(kGroupId, StringValue(groupId), kSceneId, StringValue(sceneId))))
\* interactive_set_bandwidth_throttle.
ThrottleMethod(type) ==
    CASE type = "input" -> Text("giveInput")
      [] type = "participant_join" -> Text("onParticipantJoin")
      [] type = "participant_leave" -> Text("onParticipantLeave")
      [] OTHER -> Text("*")
ThrottleParams(type, maxBytes, bytesPerSecond) ==
    Object1(ThrottleMethod(type), Object2(Text("capacity"), UintValue(maxBytes),
                                          Text("drainRate"), UintValue(bytesPerSecond)))
\* interactive_capture_transaction, and what its reply handler reports.
CaptureParams(transactionId) == Object1(Text("transactionID"), StringValue(transactionId))
CaptureResult(reply) ==
    LET error == MemberOf(reply, Text("error"))
        given(name) == HasMember(reply, Text("error")) /\ IsObject(error) /\ HasMember(error, name)
    IN [err |-> IF given(Text("code")) THEN MemberOf(error, Text("code")).n ELSE 0,
        message |-> IF given(Text("message")) THEN CString(StringIn(error, Text("message"))) ELSE <<>>]
\* interactive_queue_method: the caller's JSON, parsed and copied.
ParamsParsed(parsed) ==
    IF parsed.code # "None" THEN [err |-> "JSON_PARSE"]
    ELSE [err |-> "OK", params |-> DeepCopy(parsed.value)]
QueueMethodParams(paramsJson) == ParamsParsed(ParseStream(NullValue, paramsJson))

-------------------------------------------------------------------------------
\* interactive_get_user: what is told of the user, whatever the status of the answer.
\* A field of another type than the one expected stays zero.
UserFields == {Text(n) : n \in {"id", "username", "level", "experience", "sparks", "avatarUrl"}}
UserTold(v, field) ==
    LET w == MemberOf(v, field)
    IN IF field \in {Text("username"), Text("avatarUrl")}
       THEN IF IsString(w) THEN CString(w.s) ELSE <<>>
       ELSE IF Has(w, "uint") THEN w.n ELSE 0
UserParsed(parsed) ==
    LET channel == Text("channel")
        online == Text("online")
        recognized(v) ==
            /\ \A f \in UserFields \cup {channel} : HasMember(v, f)
            /\ IsObject(MemberOf(v, channel)) /\ HasMember(MemberOf(v, channel), online)
    IN IF parsed.code # "None" THEN [err |-> "JSON_PARSE"]
       ELSE IF ~recognized(parsed.value) THEN [err |-> "UNRECOGNIZED_DATA_FORMAT"]
       ELSE [err |-> "OK", user |-> [f \in UserFields |-> UserTold(parsed.value, f)],
             isBroadcasting |->
                 MemberOf(MemberOf(parsed.value, channel), online) = BoolValue(TRUE)]
GetUser(authorization, httpErr, body) ==
    IF authorization = <<>> THEN [err |-> "AUTH"]
    ELSE IF httpErr # 0 THEN [err |-> "HTTP"]
    ELSE UserParsed(ParseStream(NullValue, body))
===============================================================================
