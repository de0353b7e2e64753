------------------------------ MODULE SceneCache ------------------------------
(***************************************************************************)
(* The cache of scenes and controls of one connected session: the JSON     *)
(* document scenesRoot and the maps scenes and controls, whose entries are *)
(* paths into it.  interactive_run fills and updates them; another thread  *)
(* of the application reads them and queues updates of controls.           *)
(*                                                                         *)
(* A document is the sequence of its scenes, a control its id and the one  *)
(* property that is looked at.  A JSON path /scenes/i/controls/j is the    *)
(* pair of its indices, from 1.  A critical section of scenesMutex is one  *)
(* action.  The session is not being closed, and its connection is kept.   *)
(***************************************************************************)
EXTENDS Naturals, Sequences, FiniteSets

CONSTANTS
    SceneIds, ControlIds, Data,
    Documents,     \* what the scenes of the project may be
    Budget         \* how often each thing of BudgetKinds may happen

Control  == [id : ControlIds, data : Data]
Scene    == [id : SceneIds, controls : Seq(Control)]
Document == Seq(Scene)

BudgetKinds == {"change", "update", "input", "set"}

ASSUME CacheAssumption ==
    /\ Documents \subseteq Document
    /\ Budget \in [BudgetKinds -> Nat]

VARIABLES
    world,                        \* the scenes as the server has them
    calls,                        \* methods on their way to the server
    incomingEvents,               \* under incomingMutex
    processingQueue,              \* local to interactive_run
    scenesRoot, scenes, controls, \* under scenesMutex
    scenesCached,
    pc, batch,                    \* interactive_run and the controls it has left
    cooldown,                     \* interactive_control_trigger_cooldown
    serial, budget

cacheVars == <<scenesRoot, scenes, controls>>
queueVars == <<incomingEvents, processingQueue, serial>>
runVars   == <<pc, batch>>
vars == <<world, calls, queueVars, cacheVars, scenesCached, runVars, cooldown, budget>>

\* An event has a number of its own, so that equal ones stay apart.
EventKinds == {"scenes", "updateScenes", "onControlUpdate", "giveInput"}
Event == [no : Nat, what : EventKinds, doc : Document, controls : Seq(Control)]

Push(what, doc, cs) ==
    /\ incomingEvents' = incomingEvents \union
          {[no |-> serial, what |-> what, doc |-> doc, controls |-> cs]}
    /\ serial' = serial + 1
    /\ UNCHANGED processingQueue

\* compare_event_priority: replies before methods, each in any order.
Top(q) == {e \in q : e.what = "scenes" \/ \A f \in q : f.what # "scenes"}

GetScenesCall == [method |-> "getScenes"]
UpdateCall(s, c, d) == [method |-> "updateControls", scene |-> s, control |-> c, data |-> d]
NoCooldown == [active |-> FALSE]

EmptyMap == [x \in {} |-> x]

Init ==
    /\ world \in Documents
    /\ calls = <<GetScenesCall>>
    /\ incomingEvents = {} /\ processingQueue = {} /\ serial = 0
    /\ scenesRoot = <<>> /\ scenes = EmptyMap /\ controls = EmptyMap
    /\ scenesCached = FALSE
    /\ pc = "idle" /\ batch = <<>>
    /\ cooldown = NoCooldown
    /\ budget = Budget

Spend(k) == budget[k] > 0 /\ budget' = [budget EXCEPT ![k] = @ - 1]

-------------------------------------------------------------------------------
\* Paths into a document and the maps of them.

Least(S) == CHOOSE n \in S : \A m \in S : n <= m

Places(scene, c) == {j \in DOMAIN scene.controls : scene.controls[j].id = c}
ScenesWith(doc, c) == {i \in DOMAIN doc : Places(doc[i], c) # {}}
Listed(doc) == {c \in ControlIds : ScenesWith(doc, c) # {}}
ScenesNamed(doc, s) == {i \in DOMAIN doc : doc[i].id = s}

\* The first place of a control: emplace ignores the later ones.
PointerTo(doc, c) ==
    LET i == Least(ScenesWith(doc, c))
    IN [sceneId |-> doc[i].id, scene |-> i, index |-> Least(Places(doc[i], c))]

ScenesOf(doc) ==
    [s \in {t \in SceneIds : ScenesNamed(doc, t) # {}} |-> Least(ScenesNamed(doc, s))]

\* Variant of ControlsOf for ListedControlsFound: it stops after the first scene.
ControlsOfFirst(doc) ==
    [c \in {b \in Listed(doc) : 1 \in ScenesWith(doc, b)} |-> PointerTo(doc, c)]

ControlsOf(doc) == [c \in Listed(doc) |-> PointerTo(doc, c)]

\* map::emplace, for every entry of new: what the map has already stays.
Emplace(map, new) ==
    [k \in DOMAIN map \union DOMAIN new |-> IF k \in DOMAIN map THEN map[k] ELSE new[k]]

\* What the getters find: nothing if the id is unknown, else what is at its path.
Known(c) == c \in DOMAIN controls
Resolves(p) ==
    p.scene \in DOMAIN scenesRoot /\ p.index \in DOMAIN scenesRoot[p.scene].controls
ControlAt(p) == scenesRoot[p.scene].controls[p.index]
Cached(c) == Known(c) /\ Resolves(controls[c])

\* interactive_control_get_property finds the control it is asked for.
GetPropertyFinds(c) == Cached(c) /\ ControlAt(controls[c]).id = c

\* get_control_scene_id, from the first half of the path.
ControlSceneId(c) == scenesRoot[controls[c].scene].id

\* interactive_get_scenes and interactive_scene_get_controls.
GetScenes == DOMAIN scenes
SceneControls(s) ==
    {scenesRoot[scenes[s]].controls[j].id : j \in DOMAIN scenesRoot[scenes[s]].controls}

-------------------------------------------------------------------------------
\* The server.

\* The scenes are replaced, and the client is told so.
ChangeScenes ==
    /\ Spend("change")
    /\ \E doc \in Documents \ {world} : world' = doc
    /\ Push("updateScenes", <<>>, <<>>)
    /\ UNCHANGED <<calls, cacheVars, scenesCached, runVars, cooldown>>

\* Neighbouring controls of a scene get new data, in one method.
UpdateControls ==
    /\ Spend("update")
    /\ \E i \in DOMAIN world, d \in Data :
          \E a, b \in DOMAIN world[i].controls :
              /\ a <= b
              /\ world' = [world EXCEPT ![i].controls =
                    [j \in DOMAIN @ |-> IF j \in a..b THEN [@[j] EXCEPT !.data = d] ELSE @[j]]]
              /\ Push("onControlUpdate", <<>>, SubSeq(world'[i].controls, a, b))
    /\ UNCHANGED <<calls, cacheVars, scenesCached, runVars, cooldown>>

\* A participant uses a control.
GiveInput ==
    /\ Spend("input")
    /\ \E i \in DOMAIN world : \E j \in DOMAIN world[i].controls :
          Push("giveInput", <<>>, <<world[i].controls[j]>>)
    /\ UNCHANGED <<world, calls, cacheVars, scenesCached, runVars, cooldown>>

\* The reply to getScenes.
AnswerGetScenes ==
    /\ calls # <<>> /\ Head(calls).method = "getScenes"
    /\ calls' = Tail(calls)
    /\ Push("scenes", world, <<>>)
    /\ UNCHANGED <<world, cacheVars, scenesCached, runVars, cooldown, budget>>

\* The client's update is applied, and echoed, if its scene has the control.
ApplyUpdate ==
    /\ calls # <<>> /\ Head(calls).method = "updateControls"
    /\ calls' = Tail(calls)
    /\ LET m == Head(calls)
           at == {i \in ScenesNamed(world, m.scene) : Places(world[i], m.control) # {}}
       IN IF at = {}
             THEN UNCHANGED <<world, queueVars>>
             ELSE \E i \in at : \E j \in Places(world[i], m.control) :
                     /\ world' = [world EXCEPT ![i].controls[j].data = m.data]
                     /\ Push("onControlUpdate", <<>>, <<world'[i].controls[j]>>)
    /\ UNCHANGED <<cacheVars, scenesCached, runVars, cooldown, budget>>

-------------------------------------------------------------------------------
\* interactive_run.

\* It takes some events of the highest priority out of the queue.
Run ==
    /\ pc = "idle"
    /\ \E taken \in SUBSET incomingEvents :
          /\ taken # {}
          /\ \A e \in taken, f \in incomingEvents \ taken :
                f.what = "scenes" => e.what = "scenes"
          /\ processingQueue' = taken
          /\ incomingEvents' = incomingEvents \ taken
    /\ pc' = "run"
    /\ UNCHANGED <<world, calls, cacheVars, scenesCached, batch, cooldown, serial, budget>>

Return ==
    /\ pc = "run" /\ processingQueue = {}
    /\ pc' = "idle"
    /\ UNCHANGED <<world, calls, queueVars, cacheVars, scenesCached, batch, cooldown, budget>>

Handle(e, what) ==
    /\ pc = "run"
    /\ e.what = what
    /\ processingQueue' = processingQueue \ {e}
    /\ UNCHANGED <<world, incomingEvents, serial, cooldown, budget>>

\* A handler fails: interactive_run returns and its local queue is gone.
Fail ==
    /\ processingQueue' = {}
    /\ pc' = "idle" /\ batch' = <<>>
    /\ UNCHANGED <<world, calls, incomingEvents, serial, cacheVars, scenesCached, cooldown, budget>>

\* Variant of CacheScenesReply for PointersResolve: the old paths are kept.
CacheScenesReplyOnTop(e) ==
    /\ Handle(e, "scenes")
    /\ scenesRoot' = e.doc
    /\ pc' = "rebuild"
    /\ UNCHANGED <<scenes, controls, calls, scenesCached, batch>>

\* The reply handler of cache_scenes, its first critical section.
CacheScenesReply(e) ==
    /\ Handle(e, "scenes")
    /\ controls' = EmptyMap /\ scenes' = EmptyMap
    /\ scenesRoot' = e.doc
    /\ pc' = "rebuild"
    /\ UNCHANGED <<calls, scenesCached, batch>>

\* Its second one, in update_control_pointers.
UpdateControlPointers ==
    /\ pc = "rebuild"
    /\ controls' = Emplace(controls, ControlsOf(scenesRoot))
    /\ scenes' = Emplace(scenes, ScenesOf(scenesRoot))
    /\ scenesCached' = TRUE
    /\ pc' = "run"
    /\ UNCHANGED <<world, calls, queueVars, scenesRoot, batch, cooldown, budget>>

\* handle_scene_changed asks for the scenes again.
HandleSceneChanged(e) ==
    /\ Handle(e, "updateScenes")
    /\ calls' = Append(calls, GetScenesCall)
    /\ UNCHANGED <<cacheVars, scenesCached, runVars>>

\* handle_control_changed, up to its loop.
HandleControlChanged(e) ==
    /\ Handle(e, "onControlUpdate")
    /\ batch' = e.controls
    /\ pc' = "update"
    /\ UNCHANGED <<calls, cacheVars, scenesCached>>

\* Variant of Swap for UpdatesKeepShape: the control is added, not replaced.
SwapByAppending(p, c) ==
    scenesRoot' = [scenesRoot EXCEPT ![p.scene].controls = Append(@, c)]

\* Variant of Swap for TypeOK: only the parsed id is stored.
SwapIdOnly(p, c) ==
    scenesRoot' = [scenesRoot EXCEPT ![p.scene].controls[p.index] = [id |-> c.id]]

\* rapidjson's Pointer::Swap with the new control.
Swap(p, c) ==
    scenesRoot' = [scenesRoot EXCEPT ![p.scene].controls[p.index] = c]

\* update_cached_control for the next control of the method, and its callback.
UpdateCachedControl ==
    /\ pc = "update" /\ batch # <<>>
    /\ Known(Head(batch).id)
    /\ Swap(controls[Head(batch).id], Head(batch))
    /\ batch' = Tail(batch)
    /\ UNCHANGED <<world, calls, queueVars, scenes, controls, scenesCached, pc, cooldown, budget>>

\* It is not in the cache: MIXER_ERROR_OBJECT_NOT_FOUND.
UpdateUnknownControl ==
    /\ pc = "update" /\ batch # <<>>
    /\ ~Known(Head(batch).id)
    /\ Fail

ControlsDone ==
    /\ pc = "update" /\ batch = <<>>
    /\ pc' = "run"
    /\ UNCHANGED <<world, calls, queueVars, cacheVars, scenesCached, batch, cooldown, budget>>

\* handle_input for a control of the cache: onInput, with its kind from there.
HandleInput(e) ==
    /\ Handle(e, "giveInput")
    /\ Cached(e.controls[1].id)
    /\ UNCHANGED <<calls, cacheVars, scenesCached, runVars>>

\* "Input received for unknown control." or "Failed to find control in cached json".
HandleUnknownInput(e) ==
    /\ pc = "run" /\ e.what = "giveInput"
    /\ ~Cached(e.controls[1].id)
    /\ Fail

-------------------------------------------------------------------------------
\* Another thread of the application; it may not call before it is connected.

\* interactive_control_set_property: lookup and queueing under the shared lock.
SetProperty ==
    /\ scenesCached
    /\ Spend("set")
    /\ \E c \in DOMAIN controls, d \in Data :
          calls' = Append(calls, UpdateCall(controls[c].sceneId, c, d))
    /\ UNCHANGED <<world, queueVars, cacheVars, scenesCached, runVars, cooldown>>

\* interactive_control_trigger_cooldown: the scene, under the shared lock.
CooldownLookup ==
    /\ scenesCached /\ ~cooldown.active
    /\ Spend("set")
    /\ \E c \in DOMAIN controls :
          cooldown' = [control |-> c, scene |-> ControlSceneId(c), active |-> TRUE]
    /\ UNCHANGED <<world, calls, queueVars, cacheVars, scenesCached, runVars>>

\* And the method, without it.
CooldownQueue ==
    /\ cooldown.active
    /\ \E d \in Data : calls' = Append(calls, UpdateCall(cooldown.scene, cooldown.control, d))
    /\ cooldown' = NoCooldown
    /\ UNCHANGED <<world, queueVars, cacheVars, scenesCached, runVars, budget>>

-------------------------------------------------------------------------------
HandleEvent ==
    \E e \in Top(processingQueue) :
        \/ CacheScenesReply(e)
        \/ HandleSceneChanged(e)
        \/ HandleControlChanged(e)
        \/ HandleInput(e)
        \/ HandleUnknownInput(e)

Next ==
    \/ ChangeScenes \/ UpdateControls \/ GiveInput \/ AnswerGetScenes \/ ApplyUpdate
    \/ Run \/ HandleEvent \/ Return
    \/ UpdateControlPointers
    \/ UpdateCachedControl \/ UpdateUnknownControl \/ ControlsDone
    \/ SetProperty \/ CooldownLookup \/ CooldownQueue

Spec == Init /\ [][Next]_vars

-------------------------------------------------------------------------------
Pointer == [sceneId : SceneIds, scene : Nat, index : Nat]
Call == {GetScenesCall} \union
    [method : {"updateControls"}, scene : SceneIds, control : ControlIds, data : Data]
Cooldown == {NoCooldown} \union [control : ControlIds, scene : SceneIds, active : {TRUE}]

TypeOK ==
    /\ world \in Document /\ scenesRoot \in Document
    /\ calls \in Seq(Call) /\ cooldown \in Cooldown
    /\ DOMAIN scenes \subseteq SceneIds /\ \A s \in DOMAIN scenes : scenes[s] \in Nat
    /\ DOMAIN controls \subseteq ControlIds /\ \A c \in DOMAIN controls : controls[c] \in Pointer
    /\ incomingEvents \subseteq Event /\ processingQueue \subseteq Event /\ serial \in Nat
    /\ scenesCached \in BOOLEAN
    /\ pc \in {"idle", "run", "rebuild", "update"} /\ batch \in Seq(Control)
    /\ budget \in [BudgetKinds -> Nat]

\* Every path of the maps leads into the current document, to the scene or the
\* control it is kept for, and both ways to a control's scene agree; so "Internal
\* failure: Failed to find control" cannot happen in handle_input, no getter reads
\* another control, and an update names the scene the control is in
\* (cache_scenes, update_control_pointers, update_cached_control).
PointersResolve ==
    /\ \A c \in DOMAIN controls :
          GetPropertyFinds(c) /\ ControlSceneId(c) = controls[c].sceneId
    /\ \A s \in GetScenes : scenes[s] \in DOMAIN scenesRoot /\ scenesRoot[scenes[s]].id = s

\* Except between the two critical sections of cache_scenes, a control listed for
\* a scene by interactive_scene_get_controls is found by the getters, and every
\* cached scene is listed by interactive_get_scenes.
ListedControlsFound ==
    pc # "rebuild" =>
        /\ {scenesRoot[i].id : i \in DOMAIN scenesRoot} = GetScenes
        /\ \A s \in GetScenes : \A c \in SceneControls(s) : GetPropertyFinds(c)

\* Which controls a scene has, and where.
Shape(doc) ==
    [i \in DOMAIN doc |->
        [id |-> doc[i].id, controls |-> [j \in DOMAIN doc[i].controls |-> doc[i].controls[j].id]]]

\* handle_control_changed replaces controls in their places: no update, and no
\* batch that fails half way, adds, removes or moves one (update_cached_control).
UpdatesKeepShape ==
    [][pc = "update" => Shape(scenesRoot') = Shape(scenesRoot) /\ UNCHANGED <<scenes, controls>>]_vars
===============================================================================
