--------------------------- MODULE SceneCacheProofs ---------------------------
(***************************************************************************)
(* Proofs about the scene cache, for every set of ids and of projects.     *)
(*                                                                         *)
(* The paths of the maps stay right because the two maps are empty while   *)
(* the document has been replaced and not been looked through, and because *)
(* an update puts a control where one of the same id is.                   *)
(***************************************************************************)
EXTENDS SceneCache, SequenceTheorems, WellFoundedInduction, TLAPS

-------------------------------------------------------------------------------
\* Documents and places in them.

\* A set of indices that is not empty has a first one (update_control_pointers).
LEMMA LeastInSet ==
    ASSUME NEW S \in SUBSET Nat, S # {}
    PROVE  Least(S) \in S
<1>1. \E n \in S : \A m \in S : <<m, n>> \notin OpToRel(<, Nat)
    BY NatLessThanWellFounded, WFMin
<1>2. PICK n \in S : \A m \in S : <<m, n>> \notin OpToRel(<, Nat)
    BY <1>1
<1>3. \A m \in S : n <= m
    <2> SUFFICES ASSUME NEW m \in S PROVE n <= m
        OBVIOUS
    <2>1. m \in Nat /\ n \in Nat
        OBVIOUS
    <2>2. <<m, n>> \notin OpToRel(<, Nat)
        BY <1>2
    <2>3. ~ (m < n)
        BY <2>1, <2>2 DEF OpToRel
    <2> QED BY <2>1, <2>3
<1> QED BY <1>3 DEF Least

\* The scenes of a document are scenes, and their controls are controls.
LEMMA InDocument ==
    ASSUME NEW doc \in Document, NEW i \in DOMAIN doc
    PROVE  /\ i \in Nat
           /\ doc[i] \in Scene
           /\ doc[i].id \in SceneIds
           /\ doc[i].controls \in Seq(Control)
           /\ \A j \in DOMAIN doc[i].controls :
                 /\ j \in Nat
                 /\ doc[i].controls[j] \in Control
                 /\ doc[i].controls[j].id \in ControlIds
<1>1. i \in Nat /\ doc[i] \in Scene
    BY DEF Document
<1>2. doc[i].id \in SceneIds /\ doc[i].controls \in Seq(Control)
    BY <1>1 DEF Scene
<1>3. ASSUME NEW j \in DOMAIN doc[i].controls
      PROVE  j \in Nat /\ doc[i].controls[j] \in Control /\ doc[i].controls[j].id \in ControlIds
    <2>1. j \in 1..Len(doc[i].controls) /\ doc[i].controls[j] \in Control
        BY <1>2, <1>3
    <2> QED BY <2>1 DEF Control
<1> QED BY <1>1, <1>2, <1>3

\* New controls in a scene keep a document a document.
LEMMA NewControls ==
    ASSUME NEW doc \in Document, NEW i \in DOMAIN doc, NEW cs \in Seq(Control)
    PROVE  [doc EXCEPT ![i].controls = cs] \in Document
<1>1. [doc[i] EXCEPT !.controls = cs] \in Scene
    BY InDocument DEF Scene
<1>2. [doc EXCEPT ![i] = [doc[i] EXCEPT !.controls = cs]] \in Seq(Scene)
    BY <1>1 DEF Document
<1> QED BY <1>2 DEF Document

\* A document with one control replaced.
Put(doc, i, j, c) == [doc EXCEPT ![i].controls[j] = c]

\* What Swap does to a document (Pointer::Swap).
LEMMA SwappedDocument ==
    ASSUME NEW doc \in Document, NEW i \in DOMAIN doc,
           NEW j \in DOMAIN doc[i].controls, NEW c \in Control,
           NEW new, new = Put(doc, i, j, c)
    PROVE  /\ new \in Document
           /\ DOMAIN new = DOMAIN doc
           /\ \A k \in DOMAIN doc :
                 /\ new[k].id = doc[k].id
                 /\ DOMAIN new[k].controls = DOMAIN doc[k].controls
                 /\ \A l \in DOMAIN doc[k].controls :
                       new[k].controls[l] = IF k = i /\ l = j THEN c ELSE doc[k].controls[l]
<1> DEFINE cs == [doc[i].controls EXCEPT ![j] = c]
<1>1. cs \in Seq(Control)
    BY InDocument
<1>2. new = [doc EXCEPT ![i].controls = cs]
    BY DEF Put
<1>3. new \in Document
    <2> HIDE DEF cs
    <2>1. [doc EXCEPT ![i].controls = cs] \in Document
        BY <1>1, NewControls
    <2> QED BY <2>1, <1>2
<1>4. DOMAIN new = DOMAIN doc
    BY <1>2
<1>5. ASSUME NEW k \in DOMAIN doc, k # i
      PROVE  new[k] = doc[k]
    BY <1>5, <1>2
<1>6. new[i].id = doc[i].id /\ new[i].controls = cs
    BY <1>2, InDocument DEF Scene
<1>7. DOMAIN cs = DOMAIN doc[i].controls
    OBVIOUS
<1>8. \A l \in DOMAIN doc[i].controls : cs[l] = IF l = j THEN c ELSE doc[i].controls[l]
    BY InDocument
<1> HIDE DEF cs
<1> QED BY <1>3, <1>4, <1>5, <1>6, <1>7, <1>8

\* update_control_pointers: the entries of the new maps are right.
LEMMA NewMapsCorrect ==
    ASSUME NEW doc \in Document
    PROVE  /\ \A c \in Listed(doc) :
                 LET p == PointerTo(doc, c)
                 IN /\ p \in Pointer
                    /\ p.scene \in DOMAIN doc /\ p.sceneId = doc[p.scene].id
                    /\ p.index \in DOMAIN doc[p.scene].controls
                    /\ doc[p.scene].controls[p.index].id = c
           /\ \A s \in DOMAIN ScenesOf(doc) :
                 /\ ScenesOf(doc)[s] \in DOMAIN doc
                 /\ ScenesOf(doc)[s] \in Nat
                 /\ doc[ScenesOf(doc)[s]].id = s
<1>1. ASSUME NEW c \in Listed(doc)
      PROVE  LET p == PointerTo(doc, c)
             IN /\ p \in Pointer
                /\ p.scene \in DOMAIN doc /\ p.sceneId = doc[p.scene].id
                /\ p.index \in DOMAIN doc[p.scene].controls
                /\ doc[p.scene].controls[p.index].id = c
    <2> DEFINE i == Least(ScenesWith(doc, c))
               j == Least(Places(doc[i], c))
    <2>1. ScenesWith(doc, c) \in SUBSET Nat /\ ScenesWith(doc, c) # {}
        BY <1>1, InDocument DEF Listed, ScenesWith
    <2>2. i \in ScenesWith(doc, c)
        BY <2>1, LeastInSet
    <2> HIDE DEF i
    <2>3. i \in DOMAIN doc /\ Places(doc[i], c) # {}
        BY <2>2 DEF ScenesWith
    <2>4. Places(doc[i], c) \in SUBSET Nat
        BY <2>3, InDocument DEF Places
    <2>5. j \in Places(doc[i], c)
        BY <2>3, <2>4, LeastInSet
    <2> HIDE DEF j
    <2>6. j \in DOMAIN doc[i].controls /\ doc[i].controls[j].id = c
        BY <2>5 DEF Places
    <2>7. PointerTo(doc, c) = [sceneId |-> doc[i].id, scene |-> i, index |-> j]
        BY DEF PointerTo, i, j
    <2>8. i \in Nat /\ j \in Nat /\ doc[i].id \in SceneIds
        BY <2>3, <2>6, InDocument
    <2> QED BY <2>3, <2>6, <2>7, <2>8 DEF Pointer
<1>2. ASSUME NEW s \in DOMAIN ScenesOf(doc)
      PROVE  /\ ScenesOf(doc)[s] \in DOMAIN doc
             /\ ScenesOf(doc)[s] \in Nat
             /\ doc[ScenesOf(doc)[s]].id = s
    <2>1. s \in SceneIds /\ ScenesNamed(doc, s) # {}
        BY <1>2 DEF ScenesOf
    <2>2. ScenesNamed(doc, s) \in SUBSET Nat
        BY InDocument DEF ScenesNamed
    <2>3. Least(ScenesNamed(doc, s)) \in ScenesNamed(doc, s)
        BY <2>1, <2>2, LeastInSet
    <2>4. ScenesOf(doc)[s] = Least(ScenesNamed(doc, s))
        BY <2>1 DEF ScenesOf
    <2> QED BY <2>2, <2>3, <2>4 DEF ScenesNamed
<1> QED BY <1>1, <1>2

-------------------------------------------------------------------------------
\* The inductive invariant.

\* Between the critical sections of cache_scenes the maps are empty.
EmptyBetween == pc = "rebuild" => DOMAIN scenes = {} /\ DOMAIN controls = {}

\* At any other time every scene and every control of the document has an entry.
AllMapped ==
    pc # "rebuild" =>
        \A i \in DOMAIN scenesRoot :
            /\ scenesRoot[i].id \in DOMAIN scenes
            /\ \A j \in DOMAIN scenesRoot[i].controls :
                  scenesRoot[i].controls[j].id \in DOMAIN controls

CacheInv == TypeOK /\ PointersResolve /\ EmptyBetween /\ AllMapped

\* The invariant, as far as it is about the cache, in plain terms.
CachePart == PointersResolve /\ EmptyBetween /\ AllMapped

\* A step that leaves the cache alone, and interactive_run out of cache_scenes.
LEMMA CacheLeftAlone ==
    ASSUME CachePart, UNCHANGED cacheVars, pc' = "rebuild" <=> pc = "rebuild"
    PROVE  CachePart'
BY DEF CachePart, cacheVars, PointersResolve, EmptyBetween, AllMapped, GetPropertyFinds, Cached, Known,
       Resolves, ControlAt, ControlSceneId, GetScenes

\* Any number of numbered events is queued with the types they should have.
LEMMA PushTyped ==
    ASSUME incomingEvents \subseteq Event, processingQueue \subseteq Event, serial \in Nat,
           NEW what \in EventKinds, NEW doc \in Document, NEW cs \in Seq(Control),
           Push(what, doc, cs)
    PROVE  incomingEvents' \subseteq Event /\ processingQueue' \subseteq Event /\ serial' \in Nat
BY DEF Push, Event

LEMMA SpendTyped ==
    ASSUME budget \in [BudgetKinds -> Nat], NEW k \in BudgetKinds, Spend(k)
    PROVE  budget' \in [BudgetKinds -> Nat]
BY DEF Spend

LEMMA CacheInit ==
    Init => CacheInv
<1> SUFFICES ASSUME Init PROVE CacheInv
    OBVIOUS
<1>1. DOMAIN scenes = {} /\ DOMAIN controls = {} /\ DOMAIN scenesRoot = {} /\ pc = "idle"
    BY DEF Init, EmptyMap
<1>2. TypeOK
    <2>1. GetScenesCall \in Call
        BY DEF Call
    <2>2. scenesRoot \in Document /\ batch \in Seq(Control) /\ calls \in Seq(Call)
        BY <2>1 DEF Init, Document
    <2> QED BY <1>1, <2>2, CacheAssumption DEF Init, TypeOK, Cooldown
<1>3. CachePart
    BY <1>1 DEF CachePart, PointersResolve, EmptyBetween, AllMapped, GetScenes
<1> QED BY <1>2, <1>3 DEF CacheInv, CachePart

-------------------------------------------------------------------------------
\* The steps of the server.

LEMMA ServerStep ==
    ASSUME CacheInv,
           ChangeScenes \/ UpdateControls \/ GiveInput \/ AnswerGetScenes \/ ApplyUpdate
    PROVE  CacheInv'
<1>1. CachePart /\ TypeOK
    BY DEF CacheInv, CachePart
<1>2. UNCHANGED <<cacheVars, scenesCached, runVars, cooldown>>
    BY DEF ChangeScenes, UpdateControls, GiveInput, AnswerGetScenes, ApplyUpdate
<1>3. CachePart'
    BY <1>1, <1>2, CacheLeftAlone DEF runVars
<1>4. <<>> \in Document /\ <<>> \in Seq(Control)
    BY DEF Document
<1>5. CASE ChangeScenes
    <2>1. budget' \in [BudgetKinds -> Nat]
        BY <1>1, <1>5, SpendTyped DEF ChangeScenes, TypeOK, BudgetKinds
    <2>2. incomingEvents' \subseteq Event /\ processingQueue' \subseteq Event /\ serial' \in Nat
        BY <1>1, <1>4, <1>5, PushTyped DEF ChangeScenes, TypeOK, EventKinds
    <2>3. world' \in Document /\ calls' = calls
        BY <1>5, CacheAssumption DEF ChangeScenes
    <2> QED BY <1>1, <1>2, <1>3, <2>1, <2>2, <2>3 DEF CacheInv, CachePart, TypeOK, cacheVars, runVars
<1>6. CASE UpdateControls
    <2>1. budget' \in [BudgetKinds -> Nat]
        BY <1>1, <1>6, SpendTyped DEF UpdateControls, TypeOK, BudgetKinds
    <2>a. PICK i \in DOMAIN world, d \in Data : \E a, b \in DOMAIN world[i].controls :
            /\ world' = [world EXCEPT ![i].controls =
                  [j \in DOMAIN @ |-> IF j \in a..b THEN [@[j] EXCEPT !.data = d] ELSE @[j]]]
            /\ Push("onControlUpdate", <<>>, SubSeq(world'[i].controls, a, b))
        BY <1>6 DEF UpdateControls
    <2>2. PICK a \in DOMAIN world[i].controls, b \in DOMAIN world[i].controls :
            /\ world' = [world EXCEPT ![i].controls =
                  [j \in DOMAIN @ |-> IF j \in a..b THEN [@[j] EXCEPT !.data = d] ELSE @[j]]]
            /\ Push("onControlUpdate", <<>>, SubSeq(world'[i].controls, a, b))
        BY <2>a
    <2> DEFINE old == world[i].controls
               cs  == [j \in DOMAIN old |->
                        IF j \in a..b THEN [old[j] EXCEPT !.data = d] ELSE old[j]]
    <2>3. world \in Document
        BY <1>1 DEF TypeOK
    <2>4. old \in Seq(Control)
        BY <2>3, InDocument
    <2>5. cs \in Seq(Control)
        <3>1. ASSUME NEW j \in DOMAIN old
              PROVE  old[j] \in Control /\ [old[j] EXCEPT !.data = d] \in Control
            <4> HIDE DEF old
            <4>1. old[j] \in Control
                BY <2>4
            <4> QED BY <4>1 DEF Control
        <3>2. \A j \in DOMAIN old : cs[j] \in Control
            <4> HIDE DEF old
            <4> QED BY <3>1
        <3>3. DOMAIN old = 1..Len(old) /\ Len(old) \in Nat
            BY <2>4
        <3>4. cs \in [1..Len(old) -> Control]
            BY <3>2, <3>3
        <3> HIDE DEF cs, old
        <3> QED BY <3>3, <3>4
    <2>6. world' = [world EXCEPT ![i].controls = cs]
        BY <2>2
    <2>7. world'[i].controls = cs
        BY <2>3, <2>6, InDocument DEF Scene
    <2>8. world' \in Document
        <3> HIDE DEF cs
        <3>1. [world EXCEPT ![i].controls = cs] \in Document
            BY <2>3, <2>5, NewControls
        <3> QED BY <2>6, <3>1
    <2>9. SubSeq(cs, a, b) \in Seq(Control)
        <3>1. a \in 1..Len(old) /\ b \in 1..Len(old) /\ Len(old) \in Nat /\ DOMAIN cs = 1..Len(old)
            BY <2>4
        <3>2. \A j \in 1..Len(old) : cs[j] \in Control
            BY <2>5, <3>1
        <3> HIDE DEF cs, old
        <3>3. a \in Int /\ b \in Int /\ \A j \in a..b : cs[j] \in Control
            BY <3>1, <3>2
        <3> QED BY <3>3, SubSeqProperties
    <2>10. incomingEvents' \subseteq Event /\ processingQueue' \subseteq Event /\ serial' \in Nat
        <3> HIDE DEF cs
        <3>1. Push("onControlUpdate", <<>>, SubSeq(cs, a, b))
            BY <2>2, <2>7
        <3> QED BY <1>1, <1>4, <2>9, <3>1, PushTyped DEF TypeOK, EventKinds
    <2>11. calls' = calls
        BY <1>6 DEF UpdateControls
    <2> QED BY <1>1, <1>2, <1>3, <2>1, <2>8, <2>10, <2>11
            DEF CacheInv, CachePart, TypeOK, cacheVars, runVars
<1>7. CASE GiveInput
    <2>1. budget' \in [BudgetKinds -> Nat]
        BY <1>1, <1>7, SpendTyped DEF GiveInput, TypeOK, BudgetKinds
    <2>2. PICK i \in DOMAIN world : \E j \in DOMAIN world[i].controls :
              Push("giveInput", <<>>, <<world[i].controls[j]>>)
        BY <1>7 DEF GiveInput
    <2>3. PICK j \in DOMAIN world[i].controls : Push("giveInput", <<>>, <<world[i].controls[j]>>)
        BY <2>2
    <2>4. <<world[i].controls[j]>> \in Seq(Control)
        BY <1>1, InDocument DEF TypeOK
    <2>5. incomingEvents' \subseteq Event /\ processingQueue' \subseteq Event /\ serial' \in Nat
        BY <1>1, <1>4, <2>3, <2>4, PushTyped DEF TypeOK, EventKinds
    <2> QED BY <1>1, <1>2, <1>3, <1>7, <2>1, <2>5
            DEF GiveInput, CacheInv, CachePart, TypeOK, cacheVars, runVars
<1>8. CASE AnswerGetScenes
    <2>1. incomingEvents' \subseteq Event /\ processingQueue' \subseteq Event /\ serial' \in Nat
        BY <1>1, <1>4, <1>8, PushTyped DEF AnswerGetScenes, TypeOK, EventKinds
    <2>2. calls' \in Seq(Call)
        BY <1>1, <1>8 DEF AnswerGetScenes, TypeOK
    <2> QED BY <1>1, <1>2, <1>3, <1>8, <2>1, <2>2
            DEF AnswerGetScenes, CacheInv, CachePart, TypeOK, cacheVars, runVars
<1>9. CASE ApplyUpdate
    <2> DEFINE m == Head(calls)
    <2>1. calls' \in Seq(Call) /\ m \in Call /\ m.method = "updateControls"
        BY <1>1, <1>9 DEF ApplyUpdate, TypeOK
    <2>2. m.data \in Data
        BY <2>1 DEF Call, GetScenesCall
    <2> HIDE DEF m
    <2>3. CASE UNCHANGED <<world, queueVars>>
        BY <1>1, <1>2, <1>3, <1>9, <2>1, <2>3
           DEF ApplyUpdate, CacheInv, CachePart, TypeOK, cacheVars, runVars, queueVars
    <2>4. ASSUME NEW i \in DOMAIN world, NEW j \in DOMAIN world[i].controls,
                 world' = [world EXCEPT ![i].controls[j].data = m.data],
                 Push("onControlUpdate", <<>>, <<world'[i].controls[j]>>)
          PROVE  CacheInv'
        <3> DEFINE c == [world[i].controls[j] EXCEPT !.data = m.data]
        <3>1. c \in Control
            <4>1. world[i].controls[j] \in Control
                BY <1>1, InDocument DEF TypeOK
            <4> QED BY <2>2, <4>1 DEF Control
        <3>2. world' = Put(world, i, j, c)
            BY <2>4 DEF Put
        <3> HIDE DEF c
        <3>3. world' \in Document /\ world'[i].controls[j] = c
            <4>1. world \in Document
                BY <1>1 DEF TypeOK
            <4>2. /\ world' \in Document
                  /\ \A k \in DOMAIN world : \A l \in DOMAIN world[k].controls :
                       world'[k].controls[l] = IF k = i /\ l = j THEN c ELSE world[k].controls[l]
                BY <4>1, <3>1, <3>2, SwappedDocument
            <4> QED BY <4>2
        <3>4. <<world'[i].controls[j]>> \in Seq(Control)
            BY <3>1, <3>3
        <3>5. incomingEvents' \subseteq Event /\ processingQueue' \subseteq Event /\ serial' \in Nat
            BY <1>1, <1>4, <2>4, <3>4, PushTyped DEF TypeOK, EventKinds
        <3> QED BY <1>1, <1>2, <1>3, <1>9, <2>1, <3>3, <3>5
                DEF ApplyUpdate, CacheInv, CachePart, TypeOK, cacheVars, runVars
    <2> QED BY <1>9, <2>3, <2>4 DEF ApplyUpdate, ScenesNamed, Places, m
<1> QED BY <1>5, <1>6, <1>7, <1>8, <1>9

-------------------------------------------------------------------------------
\* The steps of interactive_run.

\* Those that leave the cache alone.
LEMMA QuietRun ==
    ASSUME CacheInv, Run \/ Return \/ ControlsDone \/ UpdateUnknownControl
    PROVE  CacheInv'
<1>1. CachePart /\ TypeOK
    BY DEF CacheInv, CachePart
<1>2. UNCHANGED <<world, calls, cacheVars, scenesCached, cooldown, serial, budget>>
    BY DEF Run, Return, ControlsDone, UpdateUnknownControl, Fail, queueVars
<1>3. pc # "rebuild" /\ pc' \in {"idle", "run"}
    BY DEF Run, Return, ControlsDone, UpdateUnknownControl, Fail
<1>4. CachePart'
    BY <1>1, <1>2, <1>3, CacheLeftAlone
<1>5. incomingEvents' \subseteq Event /\ processingQueue' \subseteq Event
    BY <1>1 DEF TypeOK, Run, Return, ControlsDone, UpdateUnknownControl, Fail, queueVars
<1>6. batch' \in Seq(Control)
    <2>1. batch' = batch \/ batch' = <<>>
        BY DEF Run, Return, ControlsDone, UpdateUnknownControl, Fail
    <2>2. batch \in Seq(Control) /\ <<>> \in Seq(Control)
        BY <1>1 DEF TypeOK
    <2> QED BY <2>1, <2>2
<1> QED BY <1>1, <1>2, <1>3, <1>4, <1>5, <1>6 DEF CacheInv, CachePart, TypeOK, cacheVars

LEMMA QuietHandler ==
    ASSUME CacheInv, NEW e \in processingQueue,
           \/ HandleSceneChanged(e) \/ HandleControlChanged(e)
           \/ HandleInput(e) \/ HandleUnknownInput(e)
    PROVE  CacheInv'
<1>1. CachePart /\ TypeOK /\ e \in Event
    BY DEF CacheInv, CachePart, TypeOK
<1>2. UNCHANGED <<world, incomingEvents, cacheVars, scenesCached, cooldown, serial, budget>>
    BY DEF Fail, HandleSceneChanged, HandleControlChanged, HandleInput, HandleUnknownInput, Handle
<1>3. pc # "rebuild" /\ pc' \in {"idle", "run", "update"}
    BY DEF Fail, HandleSceneChanged, HandleControlChanged, HandleInput, HandleUnknownInput, Handle,
           runVars
<1>4. CachePart'
    BY <1>1, <1>2, <1>3, CacheLeftAlone
<1>5. processingQueue' \subseteq Event
    BY <1>1 DEF TypeOK, Fail, HandleSceneChanged, HandleControlChanged, HandleInput,
           HandleUnknownInput, Handle
<1>6. batch' \in Seq(Control)
    <2>1. e.controls \in Seq(Control) /\ batch \in Seq(Control) /\ <<>> \in Seq(Control)
        BY <1>1 DEF Event, TypeOK
    <2>2. batch' = batch \/ batch' = <<>> \/ batch' = e.controls
        BY DEF Fail, HandleSceneChanged, HandleControlChanged, HandleInput, HandleUnknownInput, runVars
    <2> QED BY <2>1, <2>2
<1>7. calls' \in Seq(Call)
    <2>1. GetScenesCall \in Call
        BY DEF Call
    <2> QED BY <1>1, <2>1 DEF TypeOK, Fail, HandleSceneChanged, HandleControlChanged, HandleInput,
                HandleUnknownInput
<1> QED BY <1>1, <1>2, <1>3, <1>4, <1>5, <1>6, <1>7 DEF CacheInv, CachePart, TypeOK, cacheVars

\* The first critical section of cache_scenes empties the maps.
LEMMA ReplyStep ==
    ASSUME CacheInv, NEW e \in processingQueue, CacheScenesReply(e)
    PROVE  CacheInv'
<1>1. TypeOK /\ e \in Event
    BY DEF CacheInv, TypeOK
<1>2. /\ DOMAIN scenes' = {} /\ DOMAIN controls' = {} /\ pc' = "rebuild"
      /\ scenesRoot' = e.doc
    BY DEF CacheScenesReply, EmptyMap
<1>3. e.doc \in Document
    BY <1>1 DEF Event
<1>4. TypeOK'
    BY <1>1, <1>2, <1>3 DEF TypeOK, CacheScenesReply, Handle
<1> QED BY <1>2, <1>4 DEF CacheInv, PointersResolve, EmptyBetween, AllMapped, GetScenes

\* The second one fills them from the document.
LEMMA RebuildStep ==
    ASSUME CacheInv, UpdateControlPointers
    PROVE  CacheInv'
<1> DEFINE doc == scenesRoot
<1>1. TypeOK /\ doc \in Document /\ DOMAIN scenes = {} /\ DOMAIN controls = {}
    BY DEF CacheInv, TypeOK, EmptyBetween, UpdateControlPointers
<1>2. /\ controls' = [c \in Listed(doc) |-> PointerTo(doc, c)]
      /\ scenes' = ScenesOf(doc)
    <2>1. controls' = [c \in Listed(doc) |-> PointerTo(doc, c)]
        BY <1>1 DEF UpdateControlPointers, Emplace, ControlsOf
    <2>2. ScenesOf(doc) = [s \in DOMAIN ScenesOf(doc) |-> ScenesOf(doc)[s]]
        BY DEF ScenesOf
    <2>3. scenes' = [s \in DOMAIN ScenesOf(doc) |-> ScenesOf(doc)[s]]
        BY <1>1 DEF UpdateControlPointers, Emplace
    <2> QED BY <2>1, <2>2, <2>3
<1>3. scenesRoot' = doc /\ pc' = "run" /\ scenesCached' = TRUE
    BY DEF UpdateControlPointers
<1>4. Listed(doc) \subseteq ControlIds /\ DOMAIN ScenesOf(doc) \subseteq SceneIds
    BY DEF Listed, ScenesOf
<1>5. TypeOK'
    <2>1. DOMAIN scenes' \subseteq SceneIds /\ \A s \in DOMAIN scenes' : scenes'[s] \in Nat
        BY <1>1, <1>2, <1>4, NewMapsCorrect
    <2>2. DOMAIN controls' \subseteq ControlIds /\ \A c \in DOMAIN controls' : controls'[c] \in Pointer
        BY <1>1, <1>2, <1>4, NewMapsCorrect
    <2> QED BY <1>1, <1>3, <2>1, <2>2 DEF TypeOK, UpdateControlPointers, queueVars
<1>6. PointersResolve'
    <2>1. ASSUME NEW c \in DOMAIN controls'
          PROVE  /\ controls'[c].scene \in DOMAIN doc
                 /\ controls'[c].sceneId = doc[controls'[c].scene].id
                 /\ controls'[c].index \in DOMAIN doc[controls'[c].scene].controls
                 /\ doc[controls'[c].scene].controls[controls'[c].index].id = c
        BY <1>1, <1>2, NewMapsCorrect
    <2>2. \A s \in DOMAIN scenes' : scenes'[s] \in DOMAIN doc /\ doc[scenes'[s]].id = s
        BY <1>1, <1>2, NewMapsCorrect
    <2> HIDE DEF doc
    <2> QED BY <1>3, <2>1, <2>2
            DEF PointersResolve, GetPropertyFinds, Cached, Known, Resolves, ControlAt, ControlSceneId, GetScenes
<1>7. AllMapped'
    <2>1. ASSUME NEW i \in DOMAIN doc
          PROVE  /\ doc[i].id \in DOMAIN ScenesOf(doc)
                 /\ \A j \in DOMAIN doc[i].controls : doc[i].controls[j].id \in Listed(doc)
        <3> HIDE DEF doc
        <3>1. doc[i].id \in SceneIds /\ i \in ScenesNamed(doc, doc[i].id)
            BY <1>1, InDocument DEF ScenesNamed
        <3>2. ASSUME NEW j \in DOMAIN doc[i].controls
              PROVE  doc[i].controls[j].id \in Listed(doc)
            <4>1. doc[i].controls[j].id \in ControlIds
                BY <1>1, InDocument
            <4>2. i \in ScenesWith(doc, doc[i].controls[j].id)
                BY DEF ScenesWith, Places
            <4> QED BY <4>1, <4>2 DEF Listed
        <3> QED BY <3>1, <3>2 DEF ScenesOf
    <2>2. DOMAIN controls' = Listed(doc) /\ DOMAIN scenes' = DOMAIN ScenesOf(doc)
        BY <1>2
    <2> HIDE DEF doc
    <2> QED BY <1>3, <2>1, <2>2 DEF AllMapped
<1> QED BY <1>3, <1>5, <1>6, <1>7 DEF CacheInv, EmptyBetween

\* An update replaces a control by one with the same id.
LEMMA SwapKeepsIds ==
    ASSUME CacheInv, UpdateCachedControl
    PROVE  /\ scenesRoot' \in Document
           /\ DOMAIN scenesRoot' = DOMAIN scenesRoot
           /\ \A k \in DOMAIN scenesRoot :
                 /\ scenesRoot'[k].id = scenesRoot[k].id
                 /\ DOMAIN scenesRoot'[k].controls = DOMAIN scenesRoot[k].controls
                 /\ \A l \in DOMAIN scenesRoot[k].controls :
                       scenesRoot'[k].controls[l].id = scenesRoot[k].controls[l].id
<1> DEFINE c == Head(batch)
           p == controls[c.id]
<1>1. scenesRoot \in Document /\ c \in Control
    BY DEF CacheInv, TypeOK, UpdateCachedControl
<1>2. c.id \in DOMAIN controls
    BY DEF UpdateCachedControl, Known
<1> HIDE DEF c
<1>3. /\ p.scene \in DOMAIN scenesRoot
      /\ p.index \in DOMAIN scenesRoot[p.scene].controls
      /\ scenesRoot[p.scene].controls[p.index].id = c.id
    BY <1>2 DEF CacheInv, PointersResolve, GetPropertyFinds, Cached, Resolves, ControlAt
<1>4. scenesRoot' = Put(scenesRoot, p.scene, p.index, c)
    BY DEF UpdateCachedControl, Swap, Put, c
<1> HIDE DEF p
<1> QED BY <1>1, <1>3, <1>4, SwappedDocument

LEMMA UpdateStep ==
    ASSUME CacheInv, UpdateCachedControl
    PROVE  CacheInv'
<1>1. TypeOK /\ PointersResolve /\ AllMapped
    BY DEF CacheInv
<1>2. pc = "update" /\ UNCHANGED <<scenes, controls, pc>>
    BY DEF UpdateCachedControl
<1>3. TypeOK'
    <2>1. scenesRoot' \in Document
        BY SwapKeepsIds
    <2>2. batch' \in Seq(Control)
        BY <1>1 DEF UpdateCachedControl, TypeOK
    <2> QED BY <1>1, <1>2, <2>1, <2>2 DEF TypeOK, UpdateCachedControl, queueVars
<1>4. PointersResolve'
    BY <1>1, <1>2, SwapKeepsIds
       DEF PointersResolve, GetPropertyFinds, Cached, Known, Resolves, ControlAt, ControlSceneId, GetScenes
<1>5. AllMapped'
    BY <1>1, <1>2, SwapKeepsIds DEF AllMapped
<1> QED BY <1>2, <1>3, <1>4, <1>5 DEF CacheInv, EmptyBetween

-------------------------------------------------------------------------------
\* The steps of the other thread.

LEMMA ApplicationStep ==
    ASSUME CacheInv, SetProperty \/ CooldownLookup \/ CooldownQueue
    PROVE  CacheInv'
<1>1. CachePart /\ TypeOK
    BY DEF CacheInv, CachePart
<1>2. UNCHANGED <<world, queueVars, cacheVars, scenesCached, runVars>>
    BY DEF SetProperty, CooldownLookup, CooldownQueue
<1>3. CachePart'
    BY <1>1, <1>2, CacheLeftAlone DEF runVars
<1>4. \A c \in DOMAIN controls :
          c \in ControlIds /\ controls[c].sceneId \in SceneIds /\ ControlSceneId(c) \in SceneIds
    <2>1. ASSUME NEW c \in DOMAIN controls
          PROVE  c \in ControlIds /\ controls[c].sceneId \in SceneIds
        BY <1>1 DEF TypeOK, Pointer
    <2>2. \A c \in DOMAIN controls : ControlSceneId(c) = controls[c].sceneId
        BY <1>1 DEF CachePart, PointersResolve
    <2> QED BY <2>1, <2>2
<1>5. CASE SetProperty
    <2>1. budget' \in [BudgetKinds -> Nat]
        BY <1>1, <1>5, SpendTyped DEF SetProperty, TypeOK, BudgetKinds
    <2>2. PICK c \in DOMAIN controls, d \in Data :
              calls' = Append(calls, UpdateCall(controls[c].sceneId, c, d))
        BY <1>5 DEF SetProperty
    <2>3. UpdateCall(controls[c].sceneId, c, d) \in Call
        BY <1>4 DEF UpdateCall, Call
    <2>4. calls' \in Seq(Call)
        BY <1>1, <2>2, <2>3 DEF TypeOK
    <2> QED BY <1>1, <1>2, <1>3, <1>5, <2>1, <2>4
            DEF SetProperty, CacheInv, CachePart, TypeOK, queueVars, cacheVars, runVars
<1>6. CASE CooldownLookup
    <2>1. budget' \in [BudgetKinds -> Nat]
        BY <1>1, <1>6, SpendTyped DEF CooldownLookup, TypeOK, BudgetKinds
    <2>2. cooldown' \in Cooldown
        BY <1>4, <1>6 DEF CooldownLookup, Cooldown
    <2> QED BY <1>1, <1>2, <1>3, <1>6, <2>1, <2>2
            DEF CooldownLookup, CacheInv, CachePart, TypeOK, queueVars, cacheVars, runVars
<1>7. CASE CooldownQueue
    <2>1. cooldown \in [control : ControlIds, scene : SceneIds, active : {TRUE}]
        <3>1. cooldown.active /\ ~NoCooldown.active
            BY <1>7 DEF CooldownQueue, NoCooldown
        <3>2. cooldown # NoCooldown
            BY <3>1
        <3> QED BY <1>1, <3>2 DEF TypeOK, Cooldown
    <2>2. PICK d \in Data :
              calls' = Append(calls, UpdateCall(cooldown.scene, cooldown.control, d))
        BY <1>7 DEF CooldownQueue
    <2>3. UpdateCall(cooldown.scene, cooldown.control, d) \in Call
        BY <2>1 DEF UpdateCall, Call
    <2>4. calls' \in Seq(Call) /\ cooldown' \in Cooldown
        BY <1>1, <1>7, <2>2, <2>3 DEF TypeOK, CooldownQueue, Cooldown
    <2> QED BY <1>1, <1>2, <1>3, <1>7, <2>4
            DEF CooldownQueue, CacheInv, CachePart, TypeOK, queueVars, cacheVars, runVars
<1> QED BY <1>5, <1>6, <1>7

-------------------------------------------------------------------------------
\* The theorems.

LEMMA CacheStep ==
    ASSUME CacheInv, [Next]_vars
    PROVE  CacheInv'
<1>1. CASE UNCHANGED vars
    BY <1>1 DEF CacheInv, vars, queueVars, cacheVars, runVars, TypeOK, PointersResolve, EmptyBetween,
                AllMapped, GetPropertyFinds, Cached, Known, Resolves, ControlAt, ControlSceneId, GetScenes
<1>2. CASE ChangeScenes \/ UpdateControls \/ GiveInput \/ AnswerGetScenes \/ ApplyUpdate
    BY <1>2, ServerStep
<1>3. CASE Run \/ Return \/ ControlsDone \/ UpdateUnknownControl
    BY <1>3, QuietRun
<1>4. CASE HandleEvent
    BY <1>4, ReplyStep, QuietHandler DEF HandleEvent, Top
<1>5. CASE UpdateControlPointers
    BY <1>5, RebuildStep
<1>6. CASE UpdateCachedControl
    BY <1>6, UpdateStep
<1>7. CASE SetProperty \/ CooldownLookup \/ CooldownQueue
    BY <1>7, ApplicationStep
<1> QED BY <1>1, <1>2, <1>3, <1>4, <1>5, <1>6, <1>7 DEF Next

LEMMA CacheInvariant ==
    Spec => []CacheInv
<1>1. CacheInv /\ [Next]_vars => CacheInv'
    BY CacheStep
<1> QED BY <1>1, CacheInit, PTL DEF Spec

\* Every variable of the cache, its queues and its callers has its type.
THEOREM CacheTypeCorrect ==
    Spec => []TypeOK
<1>1. CacheInv => TypeOK
    BY DEF CacheInv
<1> QED BY <1>1, CacheInvariant, PTL

\* Whatever the projects and however updates, replies and readers interleave, a
\* path of the cache leads to what it is kept for (cache_scenes,
\* update_control_pointers, update_cached_control).
THEOREM PointersCorrect ==
    Spec => []PointersResolve
<1>1. CacheInv => PointersResolve
    BY DEF CacheInv
<1> QED BY <1>1, CacheInvariant, PTL

\* Outside cache_scenes, a control that is listed for a scene is found, and every
\* scene of the document is listed (interactive_scene_get_controls).
THEOREM ListingsCorrect ==
    Spec => []ListedControlsFound
<1>1. CacheInv => ListedControlsFound
    <2> SUFFICES ASSUME CacheInv, pc # "rebuild" PROVE ListedControlsFound
        BY DEF ListedControlsFound
    <2>1. \A s \in DOMAIN scenes : scenes[s] \in DOMAIN scenesRoot /\ scenesRoot[scenes[s]].id = s
        BY DEF CacheInv, PointersResolve, GetScenes
    <2>2. \A i \in DOMAIN scenesRoot : scenesRoot[i].id \in DOMAIN scenes
        BY DEF CacheInv, AllMapped
    <2>3. {scenesRoot[i].id : i \in DOMAIN scenesRoot} = GetScenes
        BY <2>1, <2>2 DEF GetScenes
    <2>4. ASSUME NEW s \in GetScenes, NEW c \in SceneControls(s)
          PROVE  GetPropertyFinds(c)
        <3>1. scenes[s] \in DOMAIN scenesRoot
            BY <2>1 DEF GetScenes
        <3>2. c \in DOMAIN controls
            BY <3>1 DEF SceneControls, CacheInv, AllMapped
        <3> QED BY <3>2 DEF CacheInv, PointersResolve
    <2> QED BY <2>3, <2>4 DEF ListedControlsFound
<1> QED BY <1>1, CacheInvariant, PTL

\* No update, and no batch of updates that fails, adds, removes or moves a control
\* (handle_control_changed, update_cached_control).
THEOREM ShapeKept ==
    Spec => UpdatesKeepShape
<1>1. CacheInv /\ [Next]_vars =>
          [pc = "update" => Shape(scenesRoot') = Shape(scenesRoot) /\ UNCHANGED <<scenes, controls>>]_vars
    <2> SUFFICES ASSUME CacheInv, Next, pc = "update"
                 PROVE  Shape(scenesRoot') = Shape(scenesRoot) /\ UNCHANGED <<scenes, controls>>
        OBVIOUS
    <2>1. CASE UpdateCachedControl
        <3>1. UNCHANGED <<scenes, controls>>
            BY <2>1 DEF UpdateCachedControl
        <3>2. Shape(scenesRoot') = Shape(scenesRoot)
            BY <2>1, SwapKeepsIds DEF Shape
        <3> QED BY <3>1, <3>2
    <2>2. CASE ~UpdateCachedControl
        <3>1. UNCHANGED cacheVars
            BY <2>2 DEF Next, HandleEvent, ChangeScenes, UpdateControls, GiveInput, AnswerGetScenes,
                   ApplyUpdate, Run, Return, UpdateControlPointers, UpdateUnknownControl, Fail,
                   ControlsDone, SetProperty, CooldownLookup, CooldownQueue, CacheScenesReply,
                   HandleSceneChanged, HandleControlChanged, HandleInput, HandleUnknownInput, Handle
        <3> QED BY <3>1 DEF cacheVars
    <2> QED BY <2>1, <2>2
<1> QED BY <1>1, CacheInvariant, PTL DEF Spec, UpdatesKeepShape

===============================================================================
