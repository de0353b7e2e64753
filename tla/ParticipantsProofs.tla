-------------------------- MODULE ParticipantsProofs --------------------------
(***************************************************************************)
(* TypeOK, ParticipantsTrue and InputsFindTheirParticipant, for every set  *)
(* of participants and groups and however often anything happens.          *)
(*                                                                         *)
(* The two properties speak of the map; that they are kept rests on what   *)
(* is still on its way to it.  A method whose number is the newest of a    *)
(* participant says of it what the server knows (PendingTrue), so that     *)
(* applying it makes the map right; and no method that is still to come,   *)
(* and has the number an input was sent after, takes the participant of    *)
(* the input away (InputsSafe).  Both need that numbers are used once:     *)
(* everything that has one is below serial (NumbersBelow).                 *)
(***************************************************************************)
EXTENDS Participants, TLAPS

Queued == incomingEvents \union processingQueue

NumbersBelow ==
    /\ \A p \in Ids : newest[p] < serial /\ applied[p] < serial
    /\ \A e \in Queued \union {batch} : e.no < serial
    /\ \A e \in Queued : e.what = "giveInput" => e.after < serial

\* What a method says of person x is what the server knows.
SaysTrue(what, x) ==
    IF what = "onParticipantLeave" THEN x.id \notin DOMAIN world
    ELSE x.id \in DOMAIN world /\ world[x.id] = x.group
TrueMethod(m) == \A x \in m.who : m.no = newest[x.id] => SaysTrue(m.what, x)
PendingTrue ==
    /\ \A e \in Queued : e.what \in Methods => TrueMethod(e)
    /\ TrueMethod(batch)

\* Method m does not take the participant of input e away.
Spares(m, e) ==
    \A x \in m.who : x.id = e.by /\ m.no = e.after => m.what # "onParticipantLeave"
InputsSafe ==
    \A e \in Queued : e.what = "giveInput" =>
        /\ \A m \in Queued : m.what \in Methods => Spares(m, e)
        /\ Spares(batch, e)
        /\ applied[e.by] = e.after => e.by \in DOMAIN participants

ParticipantsInv == TypeOK /\ NumbersBelow /\ PendingTrue /\ ParticipantsTrue /\ InputsSafe

-------------------------------------------------------------------------------
(* Types. *)

\* What an event is told from what it says.
LEMMA EventKinds ==
    ASSUME NEW e \in Event
    PROVE  /\ e.no \in Nat
           /\ e.what \in Methods => e \in MethodEvent
           /\ e.what = "giveInput" => e.by \in Ids /\ e.after \in Nat
           /\ First(e) <=> e \in StateEvent
           /\ First(e) => e.what \notin Methods /\ e.what # "giveInput"
BY DEF Event, MethodEvent, InputEvent, StateEvent, Methods, First

\* The participants that a method speaks of.
LEMMA MethodPersons ==
    ASSUME NEW m \in MethodEvent
    PROVE  /\ m.no \in Nat /\ m.what \in Methods
           /\ \A x \in m.who : x \in Person /\ x.id \in Ids /\ x.group \in Groups
BY DEF MethodEvent, Person

\* What is spent was there.
LEMMA SpendTyped ==
    ASSUME TypeOK, NEW k \in BudgetKinds, Spend(k)
    PROVE  budget' \in [BudgetKinds -> Nat]
BY DEF TypeOK, Spend

\* The types of what a change of one participant assigns.
LEMMA ChangeTyped ==
    ASSUME TypeOK, NEW p \in Ids, NEW g \in Groups, NEW what \in Methods, NEW after,
           DOMAIN after \subseteq Ids, \A x \in DOMAIN after : after[x] \in Groups,
           Change(p, g, what, after), calls' \subseteq Person, budget' \in [BudgetKinds -> Nat]
    PROVE  TypeOK'
<1>1. incomingEvents' \subseteq Event
  <2>1. [what |-> what, no |-> serial, who |-> {[id |-> p, group |-> g]}] \in MethodEvent
    BY DEF TypeOK, MethodEvent, Person
  <2> QED
    BY <2>1 DEF TypeOK, Change, Event
<1>2. newest' \in [Ids -> Nat] /\ serial' \in Nat /\ world' = after
  BY DEF TypeOK, Change
<1>3. UNCHANGED <<up, processingQueue, batch, participants, applied, state>>
  BY DEF Change, cacheVars
<1> QED
  BY <1>1, <1>2, <1>3 DEF TypeOK

\* TypeOK is kept by the server and the connection.
LEMMA ServerTyped ==
    ASSUME TypeOK, Join \/ Leave \/ Regroup \/ ApplySetGroup \/ GiveInput
                   \/ LoseConnection \/ Reconnect
    PROVE  TypeOK'
<1>1. CASE Join
  <2>1. PICK p \in Ids, g \in Groups : Change(p, g, "onParticipantJoin", Put(world, p, g))
    BY <1>1 DEF Join
  <2>2. budget' \in [BudgetKinds -> Nat] /\ calls' \subseteq Person
    BY <1>1, SpendTyped DEF Join, TypeOK, BudgetKinds
  <2>3. /\ DOMAIN Put(world, p, g) \subseteq Ids
        /\ \A x \in DOMAIN Put(world, p, g) : Put(world, p, g)[x] \in Groups
    BY DEF TypeOK, Put, Erase
  <2> QED
    BY <2>1, <2>2, <2>3, ChangeTyped DEF TypeOK, Methods
<1>2. CASE Leave
  <2>1. PICK p \in DOMAIN world :
           Change(p, world[p], "onParticipantLeave", Erase(world, p))
    BY <1>2 DEF Leave
  <2>2. budget' \in [BudgetKinds -> Nat] /\ calls' \subseteq Person
    BY <1>2, SpendTyped DEF Leave, TypeOK, BudgetKinds
  <2>3. /\ DOMAIN Erase(world, p) \subseteq Ids
        /\ \A x \in DOMAIN Erase(world, p) : Erase(world, p)[x] \in Groups
    BY DEF TypeOK, Put, Erase
  <2> QED
    BY <2>1, <2>2, <2>3, ChangeTyped DEF TypeOK, Methods
<1>3. CASE Regroup
  <2>1. PICK p \in DOMAIN world, g \in Groups :
           Change(p, g, "onParticipantUpdate", Put(world, p, g))
    BY <1>3 DEF Regroup
  <2>2. budget' \in [BudgetKinds -> Nat] /\ calls' \subseteq Person
    BY <1>3, SpendTyped DEF Regroup, TypeOK, BudgetKinds
  <2>3. /\ DOMAIN Put(world, p, g) \subseteq Ids
        /\ \A x \in DOMAIN Put(world, p, g) : Put(world, p, g)[x] \in Groups
    BY DEF TypeOK, Put, Erase
  <2> QED
    BY <2>1, <2>2, <2>3, ChangeTyped DEF TypeOK, Methods
<1>4. CASE ApplySetGroup
  <2>1. PICK c \in calls :
           /\ calls' = calls \ {c}
           /\ \/ /\ c.id \in DOMAIN world
                 /\ Change(c.id, c.group, "onParticipantUpdate", Put(world, c.id, c.group))
              \/ UNCHANGED <<world, newest, serial, up, incomingEvents, processingQueue,
                             batch, cacheVars>>
    BY <1>4 DEF ApplySetGroup
  <2>2. c.id \in Ids /\ c.group \in Groups /\ calls' \subseteq Person
        /\ budget' \in [BudgetKinds -> Nat]
    BY <1>4, <2>1 DEF TypeOK, Person, ApplySetGroup
  <2>3. CASE /\ c.id \in DOMAIN world
             /\ Change(c.id, c.group, "onParticipantUpdate", Put(world, c.id, c.group))
    <3>1. /\ DOMAIN Put(world, c.id, c.group) \subseteq Ids
          /\ \A x \in DOMAIN Put(world, c.id, c.group) : Put(world, c.id, c.group)[x] \in Groups
      BY <2>2 DEF TypeOK, Put
    <3> QED
      BY <2>2, <2>3, <3>1, ChangeTyped DEF Methods
  <2>4. CASE UNCHANGED <<world, newest, serial, up, incomingEvents, processingQueue,
                         batch, cacheVars>>
    BY <2>2, <2>4 DEF TypeOK, cacheVars
  <2> QED
    BY <2>1, <2>3, <2>4
<1>5. CASE GiveInput
  <2>1. PICK p \in DOMAIN world, known \in BOOLEAN :
           incomingEvents' = incomingEvents \union
              {[what |-> "giveInput", no |-> serial, by |-> p, after |-> newest[p], known |-> known]}
    BY <1>5 DEF GiveInput
  <2>2. [what |-> "giveInput", no |-> serial, by |-> p, after |-> newest[p], known |-> known]
           \in InputEvent
    BY DEF TypeOK, InputEvent
  <2>3. incomingEvents' \subseteq Event
    BY <2>1, <2>2 DEF TypeOK, Event
  <2>4. budget' \in [BudgetKinds -> Nat]
    BY <1>5, SpendTyped DEF GiveInput, BudgetKinds
  <2> QED
    BY <1>5, <2>3, <2>4 DEF GiveInput, TypeOK, serverVars, cacheVars
<1>6. CASE LoseConnection
  <2>1. [what |-> "connecting", no |-> serial] \in StateEvent
    BY DEF TypeOK, StateEvent
  <2>2. incomingEvents' \subseteq Event
    BY <1>6, <2>1 DEF LoseConnection, TypeOK, Event
  <2>3. budget' \in [BudgetKinds -> Nat]
    BY <1>6, SpendTyped DEF LoseConnection, BudgetKinds
  <2>4. calls' \subseteq Person /\ serial' \in Nat
    BY <1>6 DEF LoseConnection, TypeOK
  <2>6. up' \in BOOLEAN
    BY <1>6, Zenon DEF LoseConnection
  <2>5. UNCHANGED <<world, newest, processingQueue, batch, participants, applied, state>>
    BY <1>6 DEF LoseConnection, cacheVars
  <2> QED
    BY <2>2, <2>3, <2>4, <2>5, <2>6 DEF TypeOK
<1>7. CASE Reconnect
  <2>1. [what |-> "connected", no |-> serial] \in StateEvent
    BY DEF TypeOK, StateEvent
  <2>2. [what |-> "onParticipantJoin", no |-> serial,
         who |-> {[id |-> p, group |-> world[p]] : p \in DOMAIN world}] \in MethodEvent
    BY DEF TypeOK, MethodEvent, Person, Methods
  <2>3. incomingEvents' \subseteq Event
    BY <1>7, <2>1, <2>2 DEF Reconnect, TypeOK, Event
  <2> QED
    BY <1>7, <2>3 DEF Reconnect, TypeOK, cacheVars
<1> QED
  BY <1>1, <1>2, <1>3, <1>4, <1>5, <1>6, <1>7

\* TypeOK is kept by interactive_run and by the application.
LEMMA ClientTyped ==
    ASSUME TypeOK, TakeEvents \/ HandleEvent \/ ApplyNext \/ SetGroup
    PROVE  TypeOK'
<1>1. CASE TakeEvents
  BY <1>1 DEF TakeEvents, TypeOK, serverVars, cacheVars
<1>2. CASE HandleEvent
  <2>1. PICK e \in Top(processingQueue) :
           HandleStateChange(e) \/ HandleParticipantsChange(e) \/ HandleInput(e)
    BY <1>2 DEF HandleEvent
  <2>2. e \in Event
    BY DEF Top, TypeOK
  <2>3. UNCHANGED <<world, newest, up, calls, serial, incomingEvents, budget>>
    BY <1>2 DEF HandleEvent, serverVars
  <2>4. CASE HandleStateChange(e)
    BY <2>3, <2>4 DEF HandleStateChange, TypeOK, First
  <2>5. CASE HandleParticipantsChange(e)
    BY <2>2, <2>3, <2>5, EventKinds DEF HandleParticipantsChange, TypeOK, cacheVars
  <2>6. CASE HandleInput(e)
    BY <2>3, <2>6 DEF HandleInput, TypeOK, cacheVars
  <2> QED
    BY <2>1, <2>4, <2>5, <2>6
<1>3. CASE ApplyNext
  <2>1. PICK x \in batch.who :
           /\ participants' = Cache(participants, batch.what, x)
           /\ applied' = [applied EXCEPT ![x.id] = batch.no]
           /\ batch' = [batch EXCEPT !.who = @ \ {x}]
    BY <1>3 DEF ApplyNext
  <2>2. x.id \in Ids /\ x.group \in Groups /\ batch.no \in Nat
    BY MethodPersons DEF TypeOK
  <2>3. batch' \in MethodEvent /\ applied' \in [Ids -> Nat]
    BY <2>1, <2>2 DEF TypeOK, MethodEvent
  <2>4. /\ DOMAIN participants' \subseteq Ids
        /\ \A p \in DOMAIN participants' : participants'[p] \in Groups
    BY <2>1, <2>2 DEF Cache, TypeOK, Put, Erase
  <2> QED
    BY <1>3, <2>3, <2>4 DEF ApplyNext, TypeOK, serverVars
<1>4. CASE SetGroup
  <2>1. budget' \in [BudgetKinds -> Nat]
    BY <1>4, SpendTyped DEF SetGroup, BudgetKinds
  <2>2. calls' \subseteq Person
    BY <1>4 DEF SetGroup, TypeOK, Person
  <2> QED
    BY <1>4, <2>1, <2>2 DEF SetGroup, TypeOK, cacheVars
<1> QED
  BY <1>1, <1>2, <1>3, <1>4

\* TypeOK is kept by every step.
LEMMA TypeStep == TypeOK /\ [Next]_vars => TypeOK'
<1> SUFFICES ASSUME TypeOK, [Next]_vars PROVE TypeOK'
  OBVIOUS
<1>1. CASE UNCHANGED vars
  BY <1>1 DEF vars, TypeOK
<1> QED
  BY <1>1, ServerTyped, ClientTyped DEF Next

-------------------------------------------------------------------------------
(* The invariant.  Steps that leave the map and the server alone move events *)
(* to interactive_run, or drop them, and add state changes at most.          *)

\* The invariant holds initially.
LEMMA ParticipantsInit == Init => ParticipantsInv
<1> SUFFICES ASSUME Init PROVE ParticipantsInv
  OBVIOUS
<1> USE DEF Init, Queued
<1>1. TypeOK
  BY BudgetAssumption DEF TypeOK, EmptyMap, Idle, MethodEvent, Methods
<1>2. NumbersBelow
  BY DEF NumbersBelow, Idle
<1>3. PendingTrue /\ InputsSafe
  BY DEF PendingTrue, InputsSafe, TrueMethod, Idle
<1>4. ParticipantsTrue
  BY DEF ParticipantsTrue, EmptyMap
<1> QED
  BY <1>1, <1>2, <1>3, <1>4 DEF ParticipantsInv

\* The invariant is kept by a step that changes neither the map nor the server.
LEMMA QuietStep ==
    ASSUME ParticipantsInv, TypeOK', serial <= serial',
           UNCHANGED <<world, newest, participants, applied>>,
           \A e \in Queued' : e \in Queued \/ (First(e) /\ e.no < serial'),
           batch' = batch \/ (batch' \in Queued /\ batch'.what \in Methods)
    PROVE  ParticipantsInv'
<1> USE DEF ParticipantsInv
<1>1. /\ Queued \subseteq Event /\ Queued' \subseteq Event
      /\ serial \in Nat /\ serial' \in Nat
      /\ newest \in [Ids -> Nat] /\ applied \in [Ids -> Nat]
  BY DEF TypeOK, Queued
<1>2. \A e \in Queued' : e.what \in Methods \/ e.what = "giveInput" => e \in Queued
  BY <1>1, EventKinds
<1>3. batch.no \in Nat
  BY MethodPersons DEF TypeOK
<1>4. NumbersBelow'
  <2>1. \A p \in Ids : newest'[p] < serial' /\ applied'[p] < serial'
    BY <1>1 DEF NumbersBelow
  <2>2. \A e \in Queued' : e.no < serial'
    BY <1>1, EventKinds DEF NumbersBelow
  <2>3. batch'.no < serial'
    BY <1>1, <1>3, EventKinds DEF NumbersBelow
  <2>4. \A e \in Queued' : e.what = "giveInput" => e.after < serial'
    BY <1>1, <1>2, EventKinds DEF NumbersBelow
  <2> QED
    BY <2>1, <2>2, <2>3, <2>4 DEF NumbersBelow
<1>5. PendingTrue'
  BY <1>2 DEF PendingTrue, TrueMethod, SaysTrue
<1>6. ParticipantsTrue'
  BY DEF ParticipantsTrue
<1>7. InputsSafe'
  BY <1>2 DEF InputsSafe
<1> QED
  BY <1>4, <1>5, <1>6, <1>7

\* The invariant is kept by a change on the server, told or not: what was said of
\* the participant before is no longer its newest.
LEMMA ChangeStep ==
    ASSUME ParticipantsInv, TypeOK',
           NEW p \in Ids, NEW g \in Groups, NEW what \in Methods, NEW after,
           Change(p, g, what, after),
           \A q \in Ids \ {p} : /\ q \in DOMAIN after <=> q \in DOMAIN world
                                /\ q \in DOMAIN world => after[q] = world[q],
           IF what = "onParticipantLeave" THEN p \notin DOMAIN after
           ELSE p \in DOMAIN after /\ after[p] = g
    PROVE  ParticipantsInv'
<1> USE DEF ParticipantsInv
<1> DEFINE m == [what |-> what, no |-> serial, who |-> {[id |-> p, group |-> g]}]
<1>1. /\ world' = after /\ serial' = serial + 1
      /\ newest' = [newest EXCEPT ![p] = serial]
      /\ UNCHANGED <<processingQueue, batch, participants, applied>>
      /\ \A e \in Queued' : e \in Queued \/ e = m
  BY DEF Change, Queued, cacheVars
<1>2. /\ serial \in Nat /\ newest \in [Ids -> Nat] /\ applied \in [Ids -> Nat]
      /\ Queued \subseteq Event /\ batch \in MethodEvent
  BY DEF TypeOK, Queued
<1>3. /\ \A e \in Queued : e.no \in Nat /\ e.no < serial
      /\ batch.no \in Nat /\ batch.no < serial
      /\ \A e \in Queued : e.what = "giveInput" => e.after \in Nat /\ e.after < serial
  BY <1>2, EventKinds, MethodPersons DEF NumbersBelow
<1>4. m.what \in Methods /\ m.no = serial /\ m.what # "giveInput"
  BY DEF Methods
<1>5. NumbersBelow'
  <2>1. \A q \in Ids : newest'[q] < serial' /\ applied'[q] < serial'
    BY <1>1, <1>2 DEF NumbersBelow
  <2> QED
    BY <1>1, <1>2, <1>3, <1>4, <2>1 DEF NumbersBelow
<1>6. ASSUME NEW e \in MethodEvent, e.no < serial, TrueMethod(e) PROVE TrueMethod(e)'
  <2> SUFFICES ASSUME NEW x \in e.who, e.no = newest'[x.id] PROVE SaysTrue(e.what, x)'
    BY DEF TrueMethod
  <2>1. x.id \in Ids /\ x.id # p
    BY <1>1, <1>2, <1>6, MethodPersons
  <2>2. SaysTrue(e.what, x)
    BY <1>1, <1>2, <1>6, <2>1 DEF TrueMethod
  <2>3. /\ x.id \in DOMAIN world' <=> x.id \in DOMAIN world
        /\ x.id \in DOMAIN world => world'[x.id] = world[x.id]
    BY <1>1, <2>1
  <2> QED
    BY <2>2, <2>3 DEF SaysTrue
<1>7. ASSUME NEW e, e = m PROVE TrueMethod(e)'
  BY <1>1, <1>7 DEF TrueMethod, SaysTrue
<1>8. PendingTrue'
  <2>1. \A e \in Queued : e.what \in Methods => TrueMethod(e)'
    BY <1>2, <1>3, <1>6, EventKinds DEF PendingTrue
  <2>2. TrueMethod(batch)'
    BY <1>1, <1>2, <1>3, <1>6 DEF PendingTrue
  <2> QED
    BY <1>1, <1>7, <2>1, <2>2 DEF PendingTrue
<1>9. ParticipantsTrue'
  <2> SUFFICES ASSUME NEW q \in Ids, applied'[q] = newest'[q]
               PROVE  /\ q \in DOMAIN participants' <=> q \in DOMAIN world'
                      /\ q \in DOMAIN world' => participants'[q] = world'[q]
    BY DEF ParticipantsTrue
  <2>1. q # p
    BY <1>1, <1>2 DEF NumbersBelow
  <2>2. /\ q \in DOMAIN world' <=> q \in DOMAIN world
        /\ q \in DOMAIN world => world'[q] = world[q]
    BY <1>1, <2>1
  <2> QED
    BY <1>1, <1>2, <2>1, <2>2 DEF ParticipantsTrue
<1>10. InputsSafe'
  BY <1>1, <1>3, <1>4 DEF InputsSafe, Spares
<1> QED
  BY <1>5, <1>8, <1>9, <1>10

\* The invariant is kept by an input: its participant is there.
LEMMA InputStep ==
    ASSUME ParticipantsInv, TypeOK', GiveInput
    PROVE  ParticipantsInv'
<1> USE DEF ParticipantsInv
<1>1. PICK p \in DOMAIN world, known \in BOOLEAN :
         incomingEvents' = incomingEvents \union
            {[what |-> "giveInput", no |-> serial, by |-> p, after |-> newest[p], known |-> known]}
  BY DEF GiveInput
<1> DEFINE i == [what |-> "giveInput", no |-> serial, by |-> p, after |-> newest[p], known |-> known]
<1>2. /\ serial' = serial + 1
      /\ UNCHANGED <<world, newest, processingQueue, batch, participants, applied>>
      /\ Queued' = Queued \union {i}
  BY <1>1 DEF GiveInput, serverVars, cacheVars, Queued
<1>3. /\ serial \in Nat /\ newest \in [Ids -> Nat] /\ applied \in [Ids -> Nat]
      /\ Queued \subseteq Event /\ batch \in MethodEvent /\ p \in Ids
  BY DEF TypeOK, Queued
<1>4. i.what \notin Methods /\ i.no = serial /\ i.after = newest[p] /\ i.by = p
  BY DEF Methods
<1>5. NumbersBelow'
  <2>1. /\ \A e \in Queued : e.no \in Nat /\ e.no < serial
        /\ batch.no \in Nat /\ batch.no < serial
        /\ \A e \in Queued : e.what = "giveInput" => e.after \in Nat /\ e.after < serial
    BY <1>3, EventKinds, MethodPersons DEF NumbersBelow
  <2>2. \A q \in Ids : newest'[q] < serial' /\ applied'[q] < serial'
    BY <1>2, <1>3 DEF NumbersBelow
  <2> QED
    BY <1>2, <1>3, <1>4, <2>1, <2>2 DEF NumbersBelow
<1>6. PendingTrue' /\ ParticipantsTrue'
  BY <1>2, <1>4 DEF PendingTrue, TrueMethod, SaysTrue, ParticipantsTrue
<1>7. InputsSafe'
  <2>1. ASSUME NEW m, TrueMethod(m) PROVE Spares(m, i)
    BY <1>4, <2>1 DEF TrueMethod, SaysTrue, Spares
  <2>2. applied[p] = newest[p] => p \in DOMAIN participants
    BY <1>3 DEF ParticipantsTrue
  <2> QED
    BY <1>2, <1>4, <2>1, <2>2 DEF InputsSafe, PendingTrue
<1> QED
  BY <1>5, <1>6, <1>7

\* The invariant is kept by a new connection: everyone is announced again.
LEMMA ReconnectStep ==
    ASSUME ParticipantsInv, TypeOK', Reconnect
    PROVE  ParticipantsInv'
<1> USE DEF ParticipantsInv
<1> DEFINE c == [what |-> "connected", no |-> serial]
           m == [what |-> "onParticipantJoin", no |-> serial,
                 who |-> {[id |-> p, group |-> world[p]] : p \in DOMAIN world}]
<1>1. /\ serial' = serial + 1
      /\ newest' = [p \in Ids |-> IF p \in DOMAIN world THEN serial ELSE newest[p]]
      /\ UNCHANGED <<world, processingQueue, batch, participants, applied>>
      /\ Queued' = Queued \union {c, m}
  BY DEF Reconnect, cacheVars, Queued
<1>2. /\ serial \in Nat /\ newest \in [Ids -> Nat] /\ applied \in [Ids -> Nat]
      /\ Queued \subseteq Event /\ batch \in MethodEvent
  BY DEF TypeOK, Queued
<1>3. /\ \A e \in Queued : e.no \in Nat /\ e.no < serial
      /\ batch.no \in Nat /\ batch.no < serial
      /\ \A e \in Queued : e.what = "giveInput" => e.after \in Nat /\ e.after < serial
  BY <1>2, EventKinds, MethodPersons DEF NumbersBelow
<1>4. /\ c.what \notin Methods /\ c.what # "giveInput" /\ c.no = serial
      /\ m.what # "giveInput" /\ m.no = serial /\ m.what # "onParticipantLeave"
  BY DEF Methods
<1>5. NumbersBelow'
  <2>1. \A q \in Ids : newest'[q] < serial' /\ applied'[q] < serial'
    BY <1>1, <1>2 DEF NumbersBelow
  <2> QED
    BY <1>1, <1>2, <1>3, <1>4, <2>1 DEF NumbersBelow
<1>6. ASSUME NEW e \in MethodEvent, e.no < serial, TrueMethod(e) PROVE TrueMethod(e)'
  <2> SUFFICES ASSUME NEW x \in e.who, e.no = newest'[x.id] PROVE SaysTrue(e.what, x)'
    BY DEF TrueMethod
  <2>1. x.id \in Ids /\ e.no = newest[x.id]
    BY <1>1, <1>2, <1>6, MethodPersons
  <2> QED
    BY <1>1, <1>6, <2>1 DEF TrueMethod, SaysTrue
<1>7. ASSUME NEW e, e = m PROVE TrueMethod(e)'
  BY <1>1, <1>7 DEF TrueMethod, SaysTrue
<1>8. PendingTrue'
  <2>1. \A e \in Queued : e.what \in Methods => TrueMethod(e)'
    BY <1>2, <1>3, <1>6, EventKinds DEF PendingTrue
  <2>2. TrueMethod(batch)'
    BY <1>1, <1>2, <1>3, <1>6 DEF PendingTrue
  <2> QED
    BY <1>1, <1>4, <1>7, <2>1, <2>2 DEF PendingTrue
<1>9. ParticipantsTrue'
  BY <1>1, <1>2 DEF ParticipantsTrue, NumbersBelow
<1>10. InputsSafe'
  BY <1>1, <1>3, <1>4 DEF InputsSafe, Spares
<1> QED
  BY <1>5, <1>8, <1>9, <1>10

\* The invariant is kept when a method is applied to the next participant: if it is
\* the newest of that participant, the map becomes right.
LEMMA ApplyStep ==
    ASSUME ParticipantsInv, TypeOK', ApplyNext
    PROVE  ParticipantsInv'
<1> USE DEF ParticipantsInv
<1>1. PICK x \in batch.who :
         /\ participants' = Cache(participants, batch.what, x)
         /\ applied' = [applied EXCEPT ![x.id] = batch.no]
         /\ batch' = [batch EXCEPT !.who = @ \ {x}]
  BY DEF ApplyNext
<1>2. UNCHANGED <<world, newest, serial, incomingEvents, processingQueue, Queued>>
  BY DEF ApplyNext, serverVars, Queued
<1>3. /\ serial \in Nat /\ newest \in [Ids -> Nat] /\ applied \in [Ids -> Nat]
      /\ Queued \subseteq Event /\ batch \in MethodEvent
      /\ x.id \in Ids /\ batch.no \in Nat /\ batch.what \in Methods
  BY MethodPersons DEF TypeOK, Queued
<1>4. batch'.what = batch.what /\ batch'.no = batch.no /\ batch'.who = batch.who \ {x}
  BY <1>1, <1>3 DEF MethodEvent
<1>5. /\ x.id \in DOMAIN participants' <=> batch.what # "onParticipantLeave"
      /\ batch.what # "onParticipantLeave" => participants'[x.id] = x.group
      /\ \A q \in Ids \ {x.id} : /\ q \in DOMAIN participants' <=> q \in DOMAIN participants
                                 /\ q \in DOMAIN participants => participants'[q] = participants[q]
  BY <1>1 DEF Cache, Put, Erase
<1>6. NumbersBelow'
  BY <1>1, <1>2, <1>3, <1>4 DEF NumbersBelow
<1>7. PendingTrue'
  BY <1>2, <1>4 DEF PendingTrue, TrueMethod, SaysTrue
<1>8. ParticipantsTrue'
  <2>1. batch.no = newest[x.id] => SaysTrue(batch.what, x)
    BY DEF PendingTrue, TrueMethod
  <2> SUFFICES ASSUME NEW q \in Ids, applied'[q] = newest[q]
               PROVE  /\ q \in DOMAIN participants' <=> q \in DOMAIN world
                      /\ q \in DOMAIN world => participants'[q] = world[q]
    BY <1>2 DEF ParticipantsTrue
  <2>2. CASE q = x.id
    BY <1>1, <1>3, <1>5, <2>1, <2>2 DEF SaysTrue
  <2>3. CASE q # x.id
    <3>1. /\ q \in DOMAIN participants' <=> q \in DOMAIN participants
          /\ q \in DOMAIN participants => participants'[q] = participants[q]
      BY <1>5, <2>3
    <3> QED
      BY <1>1, <1>3, <2>3, <3>1 DEF ParticipantsTrue
  <2> QED
    BY <2>2, <2>3
<1>9. InputsSafe'
  <2> SUFFICES ASSUME NEW e \in Queued, e.what = "giveInput"
               PROVE  /\ \A m \in Queued : m.what \in Methods => Spares(m, e)
                      /\ Spares(batch', e)
                      /\ applied'[e.by] = e.after => e.by \in DOMAIN participants'
    BY <1>2 DEF InputsSafe
  <2>1. Spares(batch, e) /\ e.by \in Ids
    BY <1>3, EventKinds DEF InputsSafe
  <2>2. Spares(batch', e)
    BY <1>4, <2>1 DEF Spares
  <2>3. applied'[e.by] = e.after => e.by \in DOMAIN participants'
    <3>1. CASE e.by = x.id
      BY <1>1, <1>3, <1>5, <2>1, <3>1 DEF Spares
    <3>2. CASE e.by # x.id
      <4>1. e.by \in DOMAIN participants' <=> e.by \in DOMAIN participants
        BY <1>5, <2>1, <3>2
      <4> QED
        BY <1>1, <1>3, <2>1, <3>2, <4>1 DEF InputsSafe
    <3> QED
      BY <3>1, <3>2
  <2> QED
    BY <2>2, <2>3 DEF InputsSafe
<1> QED
  BY <1>6, <1>7, <1>8, <1>9

\* The invariant is kept by the changes on the server.
LEMMA ServerStep ==
    ASSUME ParticipantsInv, TypeOK', Join \/ Leave \/ Regroup \/ ApplySetGroup
    PROVE  ParticipantsInv'
<1> USE DEF Methods
<1>1. /\ DOMAIN world \subseteq Ids /\ \A p \in DOMAIN world : world[p] \in Groups
      /\ calls \subseteq Person /\ serial \in Nat
  BY DEF ParticipantsInv, TypeOK
<1>2. ASSUME NEW p \in Ids, NEW g \in Groups,
             NEW what \in {"onParticipantJoin", "onParticipantUpdate"},
             Change(p, g, what, Put(world, p, g))
      PROVE  ParticipantsInv'
  <2>1. what \in Methods /\ what # "onParticipantLeave"
    OBVIOUS
  <2>2. /\ p \in DOMAIN Put(world, p, g) /\ Put(world, p, g)[p] = g
        /\ \A q \in Ids \ {p} :
              /\ q \in DOMAIN Put(world, p, g) <=> q \in DOMAIN world
              /\ q \in DOMAIN world => Put(world, p, g)[q] = world[q]
    BY DEF Put
  <2> QED
    BY <1>2, <2>1, <2>2, ChangeStep
<1>3. CASE Join
  BY <1>2, <1>3 DEF Join
<1>4. CASE Leave
  <2>1. PICK p \in DOMAIN world : Change(p, world[p], "onParticipantLeave", Erase(world, p))
    BY <1>4 DEF Leave
  <2>2. p \in Ids /\ world[p] \in Groups
    BY <1>1
  <2>3. /\ p \notin DOMAIN Erase(world, p)
        /\ \A q \in Ids \ {p} :
              /\ q \in DOMAIN Erase(world, p) <=> q \in DOMAIN world
              /\ q \in DOMAIN world => Erase(world, p)[q] = world[q]
    BY DEF Erase
  <2> QED
    BY <2>1, <2>2, <2>3, ChangeStep
<1>5. CASE Regroup
  BY <1>1, <1>2, <1>5 DEF Regroup
<1>6. CASE ApplySetGroup
  <2>1. PICK c \in calls :
           \/ Change(c.id, c.group, "onParticipantUpdate", Put(world, c.id, c.group))
           \/ UNCHANGED <<world, newest, serial, up, incomingEvents, processingQueue,
                          batch, cacheVars>>
    BY <1>6 DEF ApplySetGroup
  <2>2. c.id \in Ids /\ c.group \in Groups
    BY <1>1 DEF Person
  <2>3. CASE Change(c.id, c.group, "onParticipantUpdate", Put(world, c.id, c.group))
    BY <1>2, <2>2, <2>3
  <2>4. CASE UNCHANGED <<world, newest, serial, up, incomingEvents, processingQueue,
                         batch, cacheVars>>
    BY <1>1, <2>4, QuietStep DEF Queued, cacheVars
  <2> QED
    BY <2>1, <2>3, <2>4
<1> QED
  BY <1>3, <1>4, <1>5, <1>6

\* The invariant is kept by the steps that only move events.
LEMMA MovingStep ==
    ASSUME ParticipantsInv, TypeOK',
           LoseConnection \/ TakeEvents \/ HandleEvent \/ SetGroup \/ UNCHANGED vars
    PROVE  ParticipantsInv'
<1>1. serial \in Nat
  BY DEF ParticipantsInv, TypeOK
<1>2. CASE LoseConnection
  <2>1. \A e \in Queued' : e \in Queued \/ (First(e) /\ e.no < serial')
    BY <1>1, <1>2 DEF LoseConnection, Queued, First
  <2> QED
    BY <1>1, <1>2, <2>1, QuietStep DEF LoseConnection, cacheVars
<1>3. CASE TakeEvents
  <2>1. Queued' \subseteq Queued
    BY <1>3 DEF TakeEvents, Queued
  <2> QED
    BY <1>1, <1>3, <2>1, QuietStep DEF TakeEvents, serverVars, cacheVars
<1>4. CASE HandleEvent
  <2>1. PICK e \in Top(processingQueue) :
           HandleStateChange(e) \/ HandleParticipantsChange(e) \/ HandleInput(e)
    BY <1>4 DEF HandleEvent
  <2>2. UNCHANGED <<world, newest, serial, incomingEvents, participants, applied>>
    BY <1>4, <2>1 DEF HandleEvent, HandleStateChange, HandleParticipantsChange, HandleInput,
                      serverVars, cacheVars
  <2>3. Queued' \subseteq Queued /\ e \in Queued
    BY <2>1, <2>2 DEF HandleStateChange, HandleParticipantsChange, HandleInput, Queued, Top
  <2>4. batch' = batch \/ (batch' \in Queued /\ batch'.what \in Methods)
    BY <2>1, <2>3 DEF HandleStateChange, HandleParticipantsChange, HandleInput
  <2> QED
    BY <1>1, <2>2, <2>3, <2>4, QuietStep
<1>5. CASE SetGroup
  BY <1>1, <1>5, QuietStep DEF SetGroup, Queued, cacheVars
<1>6. CASE UNCHANGED vars
  BY <1>1, <1>6, QuietStep DEF vars, Queued
<1> QED
  BY <1>2, <1>3, <1>4, <1>5, <1>6

\* The invariant is kept by every step.
LEMMA ParticipantsNext == ParticipantsInv /\ [Next]_vars => ParticipantsInv'
<1> SUFFICES ASSUME ParticipantsInv, [Next]_vars PROVE ParticipantsInv'
  OBVIOUS
<1>1. TypeOK'
  BY TypeStep DEF ParticipantsInv
<1> QED
  BY <1>1, ServerStep, InputStep, ReconnectStep, ApplyStep, MovingStep DEF Next

\* The invariant holds in every reachable state.
LEMMA ParticipantsInvariant == Spec => []ParticipantsInv
BY ParticipantsInit, ParticipantsNext, PTL DEF Spec

\* In every reachable state the map keeps a group for each participant it knows,
\* and the queues hold methods, inputs and state changes
\* (handle_participants_change, interactive_run).
THEOREM ParticipantsTypeCorrect == Spec => []TypeOK
<1>1. ParticipantsInv => TypeOK
  BY DEF ParticipantsInv
<1> QED
  BY <1>1, ParticipantsInvariant, PTL

\* In every reachable state the map is right about every participant whose newest
\* method was the last one applied, however many participants there are, however
\* often they change and connections are lost, and in whatever order methods are
\* taken out of the heap (handle_participants_change).
THEOREM MapCorrect == Spec => []ParticipantsTrue
<1>1. ParticipantsInv => ParticipantsTrue
  BY DEF ParticipantsInv
<1> QED
  BY <1>1, ParticipantsInvariant, PTL

\* In every reachable state an input that is still to be handled finds the
\* participant it names, if the method the server sent last before it is the one
\* that was applied last (handle_input, interactive_participant_get_group).
THEOREM InputsCorrect == Spec => []InputsFindTheirParticipant
<1>1. ParticipantsInv => InputsFindTheirParticipant
  BY DEF ParticipantsInv, InputsSafe, Queued, InputsFindTheirParticipant,
         GetParticipants, GetGroup
<1> QED
  BY <1>1, ParticipantsInvariant, PTL
===============================================================================
