----------------------------- MODULE Participants -----------------------------
(***************************************************************************)
(* The participants of one session: the map participants, filled by the    *)
(* methods onParticipantJoin, onParticipantLeave and onParticipantUpdate,  *)
(* read by the application and by its callbacks, over connections that may *)
(* be lost.  Of a participant only its id and its group are kept.          *)
(*                                                                         *)
(* Every change of a participant on the server has a number, and so has    *)
(* the method that announces it: what a client with perfect knowledge      *)
(* would know is what the method with the newest number says.  The server  *)
(* is external; it announces the participants who are there when a         *)
(* connection begins, and nothing of what happened before.                 *)
(***************************************************************************)
EXTENDS Naturals, FiniteSets

CONSTANTS Ids, Groups,
          Budget      \* how often each thing of BudgetKinds may happen

BudgetKinds == {"change", "input", "lose"}   \* interactive_participant_set_group is a change

ASSUME BudgetAssumption == Budget \in [BudgetKinds -> Nat]

VARIABLES
    world,             \* group of each participant, as the server has it
    newest,            \* number of the newest change of each participant
    serial,            \* the next number
    up,                \* is there a connection?
    calls,             \* updateParticipants methods on their way to the server
    incomingEvents,    \* under incomingMutex
    processingQueue,   \* local to interactive_run
    batch,             \* the method handle_participants_change is looping over
    participants,      \* the map
    applied,           \* number of the method last applied to each participant
    state, budget

serverVars == <<world, newest, up, calls>>
cacheVars  == <<participants, applied, state>>
vars == <<world, newest, serial, up, calls, incomingEvents, processingQueue, batch,
          participants, applied, state, budget>>

Methods == {"onParticipantJoin", "onParticipantLeave", "onParticipantUpdate"}
Person == [id : Ids, group : Groups]
MethodEvent == [what : Methods, no : Nat, who : SUBSET Person]
InputEvent == [what : {"giveInput"}, no : Nat, by : Ids, after : Nat, known : BOOLEAN]
StateEvent == [what : {"connecting", "connected"}, no : Nat]
Event == MethodEvent \union InputEvent \union StateEvent

Idle == [what |-> "onParticipantJoin", no |-> 0, who |-> {}]
EmptyMap == [x \in {} |-> x]
Put(map, k, v) == [x \in DOMAIN map \union {k} |-> IF x = k THEN v ELSE map[x]]
Erase(map, k) == [x \in DOMAIN map \ {k} |-> map[x]]
Spend(k) == budget[k] > 0 /\ budget' = [budget EXCEPT ![k] = @ - 1]

Init ==
    /\ world = EmptyMap /\ participants = EmptyMap
    /\ newest = [p \in Ids |-> 0] /\ applied = [p \in Ids |-> 0]
    /\ serial = 1 /\ up = TRUE /\ calls = {}
    /\ incomingEvents = {} /\ processingQueue = {} /\ batch = Idle
    /\ state = "connected"
    /\ budget = Budget

-------------------------------------------------------------------------------
(* The server and the connection. *)

\* A change of participant p; with a connection, the client is told.
Change(p, g, what, after) ==
    /\ world' = after
    /\ newest' = [newest EXCEPT ![p] = serial]
    /\ serial' = serial + 1
    /\ incomingEvents' = incomingEvents \union
          IF up THEN {[what |-> what, no |-> serial, who |-> {[id |-> p, group |-> g]}]} ELSE {}
    /\ UNCHANGED <<up, processingQueue, batch, cacheVars>>

Join ==
    /\ Spend("change")
    /\ \E p \in Ids \ DOMAIN world, g \in Groups :
          Change(p, g, "onParticipantJoin", Put(world, p, g))
    /\ UNCHANGED calls

Leave ==
    /\ Spend("change")
    /\ \E p \in DOMAIN world :
          Change(p, world[p], "onParticipantLeave", Erase(world, p))
    /\ UNCHANGED calls

Regroup ==
    /\ Spend("change")
    /\ \E p \in DOMAIN world : \E g \in Groups \ {world[p]} :
          Change(p, g, "onParticipantUpdate", Put(world, p, g))
    /\ UNCHANGED calls

\* updateParticipants for a participant who is not there changes nothing.
ApplySetGroup ==
    /\ up
    /\ \E c \in calls :
          /\ calls' = calls \ {c}
          /\ IF c.id \in DOMAIN world
                THEN Change(c.id, c.group, "onParticipantUpdate", Put(world, c.id, c.group))
                ELSE UNCHANGED <<world, newest, serial, up, incomingEvents, processingQueue,
                                 batch, cacheVars>>
    /\ UNCHANGED budget

\* A participant uses a control, which may be unknown to the client.
GiveInput ==
    /\ up
    /\ Spend("input")
    /\ \E p \in DOMAIN world, known \in BOOLEAN :
          incomingEvents' = incomingEvents \union
              {[what |-> "giveInput", no |-> serial, by |-> p, after |-> newest[p], known |-> known]}
    /\ serial' = serial + 1
    /\ UNCHANGED <<serverVars, processingQueue, batch, cacheVars>>

\* The connection is lost: pending methods are cleared, what was received stays.
LoseConnection ==
    /\ up
    /\ Spend("lose")
    /\ up' = FALSE /\ calls' = {}
    /\ incomingEvents' = incomingEvents \union {[what |-> "connecting", no |-> serial]}
    /\ serial' = serial + 1
    /\ UNCHANGED <<world, newest, processingQueue, batch, cacheVars>>

\* The next one, up to the end of its bootstrap.
Reconnect ==
    /\ ~up
    /\ up' = TRUE
    /\ newest' = [p \in Ids |-> IF p \in DOMAIN world THEN serial ELSE newest[p]]
    /\ incomingEvents' = incomingEvents \union
          {[what |-> "connected", no |-> serial],
           [what |-> "onParticipantJoin", no |-> serial,
            who |-> {[id |-> p, group |-> world[p]] : p \in DOMAIN world}]}
    /\ serial' = serial + 1
    /\ UNCHANGED <<world, calls, processingQueue, batch, cacheVars, budget>>

-------------------------------------------------------------------------------
(* interactive_run. *)

First(e) == e.what \in {"connecting", "connected"}     \* state changes go before methods
Top(q) == {e \in q : First(e) \/ \A f \in q : ~First(f)}

TakeEvents ==
    /\ processingQueue = {} /\ batch.who = {}
    /\ \E taken \in SUBSET incomingEvents :
          /\ taken # {}
          /\ \A e \in taken, f \in incomingEvents \ taken : First(f) => First(e)
          /\ processingQueue' = taken
          /\ incomingEvents' = incomingEvents \ taken
    /\ UNCHANGED <<serverVars, serial, batch, cacheVars, budget>>

HandleStateChange(e) ==
    /\ First(e)
    /\ state' = e.what
    /\ processingQueue' = processingQueue \ {e}
    /\ UNCHANGED <<batch, participants, applied>>

\* handle_participants_change, up to its loop.
HandleParticipantsChange(e) ==
    /\ e.what \in Methods
    /\ batch' = e
    /\ processingQueue' = processingQueue \ {e}
    /\ UNCHANGED cacheVars

\* handle_input: for an unknown control it fails, and interactive_run with it.
HandleInput(e) ==
    /\ e.what = "giveInput"
    /\ processingQueue' = IF e.known THEN processingQueue \ {e} ELSE {}
    /\ UNCHANGED <<batch, cacheVars>>

HandleEvent ==
    /\ batch.who = {}
    /\ \E e \in Top(processingQueue) :
          \/ HandleStateChange(e)
          \/ HandleParticipantsChange(e)
          \/ HandleInput(e)
    /\ UNCHANGED <<serverVars, serial, incomingEvents, budget>>

\* Variant of Cache for ParticipantsTrue: the entry that is there is kept.
CacheNew(map, what, person) ==
    IF what = "onParticipantLeave" THEN Erase(map, person.id)
    ELSE IF person.id \in DOMAIN map THEN map ELSE Put(map, person.id, person.group)

\* Variant of Cache for TypeOK: the whole participant is kept as its group.
CacheWhole(map, what, person) ==
    IF what = "onParticipantLeave" THEN Erase(map, person.id) ELSE Put(map, person.id, person)

\* Variant of Cache for InputsFindTheirParticipant: an update does not add.
CacheJoined(map, what, person) ==
    IF what = "onParticipantJoin" THEN Put(map, person.id, person.group) ELSE Erase(map, person.id)

\* The switch on the action; a participant who joins or changes is replaced.
Cache(map, what, person) ==
    IF what = "onParticipantLeave" THEN Erase(map, person.id)
    ELSE Put(map, person.id, person.group)

\* The next participant of the method, and its callback.
ApplyNext ==
    /\ \E person \in batch.who :
          /\ participants' = Cache(participants, batch.what, person)
          /\ applied' = [applied EXCEPT ![person.id] = batch.no]
          /\ batch' = [batch EXCEPT !.who = @ \ {person}]
    /\ UNCHANGED <<serverVars, serial, incomingEvents, processingQueue, state, budget>>

\* interactive_participant_set_group, by the application or by a callback.  It
\* does not ask whether the participant is known.
SetGroup ==
    /\ state = "connected"
    /\ Spend("change")
    /\ up       \* otherwise the method is cleared with the others
    /\ \E p \in Ids, g \in Groups : calls' = calls \union {[id |-> p, group |-> g]}
    /\ UNCHANGED <<world, newest, serial, up, incomingEvents, processingQueue, batch, cacheVars>>

Next ==
    \/ Join \/ Leave \/ Regroup \/ ApplySetGroup \/ GiveInput
    \/ LoseConnection \/ Reconnect
    \/ TakeEvents \/ HandleEvent \/ ApplyNext
    \/ SetGroup

Spec == Init /\ [][Next]_vars

-------------------------------------------------------------------------------
(* The getters, and the properties. *)

\* interactive_get_participants.
GetParticipants == IF state = "connected" THEN DOMAIN participants ELSE {}

\* interactive_participant_get_group and the other getters.
GetGroup(p) ==
    IF state # "connected" THEN [err |-> "NOT_CONNECTED"]
    ELSE IF p \notin DOMAIN participants THEN [err |-> "OBJECT_NOT_FOUND"]
    ELSE [err |-> "OK", group |-> participants[p]]

\* The types of the variables: the map keeps a group for each participant it knows,
\* and the queues hold methods, inputs and state changes (handle_participants_change,
\* interactive_run).
TypeOK ==
    /\ DOMAIN world \subseteq Ids /\ \A p \in DOMAIN world : world[p] \in Groups
    /\ DOMAIN participants \subseteq Ids
    /\ \A p \in DOMAIN participants : participants[p] \in Groups
    /\ newest \in [Ids -> Nat] /\ applied \in [Ids -> Nat] /\ serial \in Nat
    /\ up \in BOOLEAN /\ calls \subseteq Person
    /\ incomingEvents \subseteq Event /\ processingQueue \subseteq Event
    /\ batch \in MethodEvent
    /\ state \in {"connecting", "connected"}
    /\ budget \in [BudgetKinds -> Nat]

\* The map is right about every participant whose newest method was the last one
\* applied: whatever the application did, it is wrong only about participants
\* whose methods overtook each other in the heap, were dropped with the rest of a
\* queue behind a failed input, or had no method at all because the participant
\* left while there was no connection (handle_participants_change).
ParticipantsTrue ==
    \A p \in Ids : applied[p] = newest[p] =>
        /\ p \in DOMAIN participants <=> p \in DOMAIN world
        /\ p \in DOMAIN world => participants[p] = world[p]

\* A callback for an input finds the participant it names, if the last method
\* applied to it is the one that the server sent last before the input
\* (handle_input, interactive_participant_get_group).
InputsFindTheirParticipant ==
    \A e \in incomingEvents \union processingQueue :
        e.what = "giveInput" /\ applied[e.by] = e.after /\ state = "connected" =>
            e.by \in GetParticipants /\ GetGroup(e.by).err = "OK"
===============================================================================
