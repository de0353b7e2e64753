# Verification of the interactive-cpp session

`src/source` is a client library for an interactive streaming service. A game
opens a *session*, which keeps a websocket to the service, queues JSON-RPC
methods, and hands replies and events to callbacks when the game calls
`interactive_run`. This directory holds a TLA+ model of it, the TLC runs that
check the model and the TLAPS proofs about it. `PROJECT.json` maps each
definition to the lines it models and lists the runs, mutants, findings, hazards
and theorems.

## 1. Inventory

| Part | Source (under `src/source`) | State it keeps | Operations |
|---|---|---|---|
| Caller's thread | `internal/interactive_session.cpp` | `state`, the local `processingQueue` of `interactive_run`, caches, handlers | open, connect, run, queue_method, set_ready, close; one handler per server method |
| Bootstrap handshake | `interactive_session.cpp:11-205`, `interactive_scene.cpp:41`, `interactive_group.cpp:9` | `serverTimeOffsetCalculated`, `scenesCached`, `groupsCached`, `getTimeSent` | `queue_method`, `bootstrap`, the reply handlers of `getTime`, `getScenes`, `getGroups` |
| Outgoing thread | `interactive_session_internal.cpp:250` | `outgoingEvents` (under `outgoingMutex`), its own `processingEvents` | take or wait, send, retry |
| Incoming thread | `interactive_session_internal.cpp:32-247` | host list, retry frequency, `wsOpen` | fetch hosts, open, receive, reset, next host |
| Event queue | `internal/interactive_event.*` | `incomingEvents` (under `incomingMutex`), `replyHandlersById` | push, pop by priority |
| Scene, group and control cache | `interactive_scene.cpp`, `interactive_group.cpp`, `interactive_control.cpp` | JSON documents and maps of pointers into them | cache, update, lookup, typed reads |
| Participants | `interactive_participant.cpp` | participants by id | join, leave, update, enumerate |
| Authorization | `interactive_auth.cpp` | none (tokens belong to the caller) | short code, polling, token, staleness, refresh |
| Websockets | `win_websocket.cpp` (desktop), `winapp_websocket.cpp` (UWP, Xbox) | handles and their locks, a semaphore | open, read, send, close |
| HTTP | `win_http_client.cpp`, `winapp_http_client.cpp` | the desktop's connections by host | make_request |
| JSON | `internal/rapidjson`, `internal/json.h`, `jsonStringify` of `common.cpp` | values, the stacks of parser and writer | parse, write, copy, compare, pointers |
| Glue | `win_dll`, `win_http_api`, `common`, `debugging` | none of the protocol | |

**How the parts interact.** A session has three threads. The *caller's thread*
calls the API. The *incoming thread* runs `ws->open`, which blocks for as long as
the websocket is open and calls `handle_ws_open`, `handle_ws_message` and
`handle_ws_close` from its receive loop. The *outgoing thread* waits on a
condition variable for methods and sends them. They share two queues with a
mutex each, and a number of plain variables with none: `state`, the three
bootstrap flags, `wsOpen`, `shutdownRequested`, `getTimeSent`. Replies meet
their handlers through `replyHandlersById`; a handler marked
`handleImmediately` (the one of `getTime`) runs on the incoming thread, which
then goes on to `bootstrap` there.

**What is hard.** `bootstrap` and `queue_method` run on two threads at once. A
lost connection is noticed on the incoming thread, which resets flags the
caller's thread is reading, while replies of the lost connection are still
queued for it. The outgoing thread holds methods that the reset cannot reach.
A handler that fails drops the rest of its batch. Shutdown is a flag, a closed
handle and a notification, seen by two threads at different moments. The desktop
websocket is opened, written and closed by three threads around one lock; the UWP
one adds threads of the system, a semaphore and a condition variable waited on
without a predicate. The scene cache keeps paths into a document that is replaced
in one critical section and looked through in the next. The participants are
kept by methods that may overtake each other. A token changes hands over requests
whose errors are not all looked at. Text goes through fixed buffers, chunks and
integer widths, each with an edge. The `hazards` of
`PROJECT.json` list all of this, each at its line.

**What makes each part correct.**

- *Methods*: an id is in one place at a time; the handler of a method on its way
  is registered; the methods of a thread arrive in its order; the outgoing
  thread does not sleep while there is one to send; answers are not lost.
- *Reconnection*: the caller learns of the reset before the next hello; a
  connected session is bootstrapped, or has a reset in progress or before it, but for
  an `onReady` handled too late; a connection that follows an error starts from reset
  state; once connections stop breaking the session is connected for good.
- *Shutdown*: closing ends both threads.
- *Batches*: a failing handler loses nothing but server methods.
- *Scene cache, controls*: each path leads into the current document to what it is
  kept for; what is listed is found; an update replaces controls in place; the
  getters stay within buffers.
- *Websockets*: messages are delivered whole, once and in order; `send` and `receive`
  use a handle of a completed upgrade; open is released once, and by its own
  connection; a lost or closed connection ends it.
- *Participants*: the map says of everyone what the newest method said, unless that
  method was overtaken, dropped or never sent.
- *Authorization*: a function says what happened at the service; a token called
  fresh is still taken.
- *JSON*: the recursive parser, which the library calls, reads as the iterative one that rapidjson
  brings with it and nothing calls; numbers keep their value and the types that
  hold it; what is written is read back; a pointer leads to what it names.
- *HTTP*: under UWP a body comes through the conversions as it would in one piece, however it is
  cut, multi-byte characters included; on the desktop it is what the reads gave; a
  request that fails leaves the response alone.

## 2. Modules

| Module | Models |
|---|---|
| `SessionState` | the variables of a session and of the server behind it; packets, events, priority order |
| `Bootstrap` | `queue_method` (three steps: id, handler, queue), `update_server_time_offset`, `bootstrap`, on the thread given as parameter |
| `OutgoingThread` | `run_outgoing_thread` |
| `IncomingThread` | `get_interactive_hosts`, `run_incoming_thread`, the websocket callbacks, and the server's side of the connection |
| `CallerThread` | `interactive_connect`, `interactive_run` with a handler per event, `interactive_queue_method`, `interactive_set_ready`, `interactive_close_session` |
| `Session` | the composition, its fairness and its properties |
| `MethodCalls` | the abstract specification: ids that are queued, sent, answered and handled |
| `Websocket` | the abstract specification of both websockets: an open that connects and returns, and messages given in the order they come |
| `DesktopWebsocket` | `ws_client` of `win_websocket.cpp`: `open`, `send` and `close` on three threads, for one websocket object that is opened several times |
| `UwpWebsocket` | `winapp_websocket`: `open`, the continuation of `ConnectAsync`, the two handlers of the socket and `close`, under the loop of `run_incoming_thread` |
| `SceneCache` | the scene and control cache of one connected session, the events that change it, and a second thread of the application that uses it |
| `Participants` | the participant map under joins, leaves, updates, inputs, `interactive_participant_set_group`, lost connections |
| `Authorization` | the `interactive_auth` functions over both HTTP clients, against a service with a clock |
| `Encodings` | UTF-8, surrogates, characters as code units |
| `JsonValue` | `GenericValue`: types and number flags, members, equality, copies |
| `JsonReader` | `GenericReader`: the recursive and the iterative parser with their events, and `ParseStream` |
| `JsonWriter` | `Writer` on its growing buffer, digits of integers and doubles, `jsonStringify` |
| `JsonPointer` | `GenericPointer`: parsing, both texts, get, create, set, swap, erase |
| `Buffers` | the getters' buffers; the stream of a body and the chunks in which UWP reads it |
| `Controls` | the cache on these pointers: caching, lookup, counts, names, typed getters, the JSON of methods, `interactive_get_user` |
| `HttpClient` | both `make_request`s, one request after another: the calls in their order, each of which can fail, the request body, the answer in pieces of the system or in chunks of `Buffers`, its conversions |
| `Data` | questions about the seven modules before `HttpClient`, and `HttpClient` beside them; their properties |
| `MCSession`, `MCSceneCache`, `MCParticipants`, `MCData` | budgets, small projects, texts and values for TLC |
| `SessionProofs`, `DeliveryProofs`, `DesktopWebsocketProofs`, `UwpWebsocketProofs`, `SceneCacheProofs`, `ParticipantsProofs`, `AuthorizationProofs`, `DataProofs` | theorems and proofs |

The first seven make up one specification. `DesktopWebsocket`, `UwpWebsocket`,
`SceneCache`, `Participants` and `Authorization` stand beside it, each with the
environment its code sees, so that their interleavings do not multiply with the
session's. `Encodings`, `JsonValue`, `JsonReader`, `JsonWriter`, `JsonPointer` and
`Controls` extend one another in this order, and `Buffers` extends `Encodings` for `Controls` and
`HttpClient`; they are operators, and `Data` asks about them, but for `HttpClient`, which has variables and
actions of its own. `Encodings`, `Buffers` and `HttpClient` declare nothing
recursive, so that `DataProofs` can speak of them.

**Correspondence.** Each thread has a label in `pc`, and an action is the code
between two points where another thread can see or change something: a critical
section, an access to an unlocked variable, a call of the websocket.
Several accesses that no other thread can tell apart are one action. `job[t]`
is the method thread `t` is inside `queue_method` with. Under its lock
`queue_method` appends and notifies, so both are one action (`QueueMethod`); that
it registers the handler first, under another lock, is an action before it
(`RegisterHandler`); that `update_server_time_offset` takes the time of the request
only afterwards is one behind it (`StampTime`).

The label `idle` with a non-empty `processingQueue` is the caller inside
`interactive_run` between two events. A call of the API there is one made by the
callback of the event just handled.

**Data.** A method is its id, its kind and the thread that queued it. An event has
its type, what it says, and the number of the connection it came from, a ghost
by which the properties tell connections apart. The scenes and groups are the
number of the connection they were fetched on, and `getTimeSent` is one more
than the id of the request it was taken for. `incomingEvents` is a set: its order
is by priority, and `std::priority_queue` leaves events of equal priority in
no order anyone may rely on. `hosts` counts the hosts from `hostItr` to the end.

**The environment.** The server accepts up to `MaxConns` connections, says hello
first, and answers methods in the order it receives them; it may send methods
of its own. A connection may break at any moment, with messages under way in
both directions; the last one, `conn = MaxConns`, does not break, which bounds
the state and stands for "connections stop breaking" in the liveness
properties. Unforced failures and calls are bounded by `Budget`.

**Decisions.**

- The websocket of `Session` is the desktop client (`win_websocket.cpp`), whose
  callbacks run on the thread that called `open`.
- Assertions do not stop the program, as in a release build.
- Plain shared variables are read with their latest value. The races are
  undefined behaviour in C++; the model shows what goes wrong without any help
  from the memory model.
- Sleeping and waiting are steps without effect and left out; the busy wait for
  `wsOpen` (`interactive_session_internal.cpp:323`) is modelled as waiting.
- `queue_request`, the source of http events, has no caller, so the outgoing
  queue holds methods only.
- `interactive_close_session` is not called from a callback, and nothing is
  called after it. The test of `shutdownRequested` in `handle_hello` is true only
  then and is left out.
- Packet ids are natural numbers. The code's are 32 bits wide; a wrap needs 2^32
  methods in one session.

**Desktop websocket.** `m_openMutex` is held from `OpenLock` to `Connected` or
`HandshakeFails`, with the requests of the handshake in between. A handle is the
number of its open. The server numbers its text messages and the buffers
(fragments) they come in, and `delivered` keeps what `onMessage` was given. `send` is
a test of two flags, a poll, and a lock, each a step. A buffer with a zero byte
in it, which `operator<<` would cut off there, is not among the inputs.

**UWP websocket.** A critical section of `m_socketEventMutex` is one action, the
semaphore its count, and `wait` without predicate the labels `sleeping` and `woken`.
After a spurious wakeup with nothing queued `front()` of an empty queue is taken,
which is undefined (`winapp_websocket.cpp:203`): the label `undefined` ends the behaviour.

**Scene cache.** A document is the sequence of its scenes, a JSON path the pair of
its indices, a critical section of `scenesMutex` one action. `Emplace` keeps an
entry that is there, as `map::emplace` does: with an id in two scenes the first
one counts. The server applies and echoes updates and may replace the scenes at
any moment. `trigger_cooldown` is two actions, since it gives up the lock between
looking up the scene and using its id.

**Participants.** Of a participant the id and the group are kept. The server is external: it
changes participants, and numbers each change and the method that announces it;
`newest` is the number of the last change of each participant and `applied` that of the method
`handle_participants_change` applied last. At a new connection the server announces who is
there; nothing says who left in between, and the code does not empty the map. The queue is a
set with state changes before methods, as in the session. A method with several participants is
applied one at a time (`ApplyNext`), since the callback after each may use the map.

**Authorization.** The application makes one call at a time, and `call.at` is the request it is
in. `now` is the clock of both sides: an answer takes up to `MaxDelay`, and the token is
stamped when the answer arrives. `http_response` has no initial value, so that a response holds any
status until an answer is put into it. The desktop client returns an error for each
request that fails; the UWP one returns `S_OK` for a request that ended in `OnError`. Whether the
caller's buffer is large enough is a choice.

**Data.** A state is one question: of a topic and its input, or the cache after some replies and
updates; under the topic `body` it is a state of `HttpClient`. Texts are sequences of code units, so that escapes, surrogates and cut characters are
what they are in the code. Widths and buffers are constants: 8 and 20 bits stand for 32 and
64, and the rooms that the writer reserves for a number are those of these widths. TLC's
integers bound them. A double is an exact decimal of a few digits where the code has a binary
fraction; its shortest digits, which Grisu2 searches, are then the decimal's own. `BufferSize`
4 stands for the desktop's 1024 and `ChunkSize` 5 for UWP's 4093. The modules of JSON
use `RECURSIVE` operators, as the code is recursive, and nothing is proved in them.

**HTTP.** `Calls` lists the functions of the system that each `make_request` calls; each of them succeeds
(`CallSucceeds`) or makes it return an error (`CallFails`). `connected` is the entry of the host in
`m_sessionsByHostname`. `upload` is the `HttpRequestStream` of UWP, of which the system reads pieces of any size in
`Sizes`; `download` is the stream of the answer, and `str` what was read of it: the bytes of `responseStream` on
the desktop, the 16-bit units of `ss` under UWP. The answer to a request has the body of the request, so that one constant,
`Bodies`, serves both; neither client looks at one while it handles the other. A read of the
desktop gives from one byte to a full buffer. `HttpAssumption` says that bodies are UTF-8 without
zero bytes, which is what the library sends, and the answers of the service, which are JSON.

## 3. Runs

Deadlock is not checked: a session that is connected and has nothing to do stops,
so does a closed one, and so do the websockets and the cache when their
environment has nothing left to send.

| Run | Bounds | Shows |
|---|---|---|
| `Delivery` | 2 connections, up to 2 hosts, one failed connect, one failed send, one reply to `getTime` without a time, one call (`method`, `ready` or `notReady`) | types; `OnePlace`, `HandlerRegistered`, `ThreadOrder`, `NoSleepOnWork`; the session implements `MethodCalls` |
| `Reconnect` | 2 connections, lost or ended by a close frame, batches of 1 or 8, a caller that asks for ready, one method pushed by the server, of four kinds, two of which fail, one reply to `getTime` without a time | `ResetBeforeHello`, `ConnectedMeansBootstrapped`, `ResetBeforeOpen`, `OnlyMethodsDropped` |
| `Close` | 2 connections, clean close frames, closing at any moment; fair | `EventuallyConnected`, `ClosesUnlessMissed`, `CloseEndsIncoming` |
| `DesktopWebsocket` | 2 opens, 4 buffers on each connection, 2 sends, one close at any moment; fair | types; `SendOnUpgraded`, `AbortMeansFailed`, `CloseEndsOpen`; the client implements `Websocket` |
| `UwpWebsocket` | 2 opens, 3 messages, spurious wakeups, closing at any moment; fair | types; `ReleasedOnce`, `AsleepMeansIdle`, `LostEndsOpen`; the client implements `Websocket` |
| `SceneCache` | 2 scenes, 2 controls, 2 values, two projects, one each of: scenes replaced, controls updated, input, a call of the second thread | types; `PointersResolve`, `ListedControlsFound`, `UpdatesKeepShape` |
| `Participants` | 2 participants, 2 groups, 3 changes, one input, which may fail, one lost connection | types; `ParticipantsTrue`, `InputsFindTheirParticipant` |
| `Authorization` | tokens that live 4 seconds, answers that take up to 1, 7 seconds, 3 tokens, either client | types; `VerdictsTrue`, `FreshTokenWorks` |
| `Data` | 21,400 questions (below); HTTP bodies of up to four characters, of one to four bytes each, both clients, any number of requests | `ParsersAgree`, `TextsRead`, `RoundTrip`, `PointersFaithful`, `CopiesWhole`, `CacheKept`, `BodyWhole` |

*Why the bounds are enough.* Two connections are the smallest number with a reset, and
with replies of a lost connection still queued when the next one is bootstrapped; that
nothing new comes of a third is what `SessionProofs` proves for the safety properties. The first connection carries
at least three methods, so that the outgoing thread's two queues, the connection and the
incoming queue are all non-empty together. `maxEventsToProcess` of 1 gives the most
interleavings between the caller and the other threads, 8 takes as much as the
code ever takes from a queue of the lengths that occur. Two hosts are the
smallest list in which the position can be in the middle. For the websockets two
opens are the smallest number in which something is left from an earlier
connection; four buffers make two messages of two fragments each, or one with a
binary buffer on either side. The two projects of `MCSceneCache` have an empty scene, a scene
that moves, a control that disappears, one that moves to another index, and one id in two scenes.
In `Participants` three changes of two participants make every pair of methods overtake each
other with a third one before, between or after them; participants and groups are symmetric. In
`Authorization` seven seconds let a token go stale, be refreshed and go stale again. `Data` asks of
every text of up to three tokens and every edit of four documents; of the integers around each
power of two at which a type ends, and around powers of ten; of fractions and exponents, of
characters at the limits of their UTF-8 lengths; of every kind of value, alone, nested and in
the methods the library queues; of pointers of up to four characters, and of pairs of
places in six documents; of names longer and shorter than their buffers; of the cache
after replies and updates in any order, with scenes of up to eleven controls, so that an index has two digits; and
of all requests with 341 bodies of up to sixteen bytes, so that a chunk of five ends before, in and behind a character
of every length, and a body has up to four of them. A client that is done can begin again with the same body, which
is the smallest thing in which something could be left from the request before.

*Fairness.* `Fairness` is weak fairness of each thread's steps as a whole: the
operating system runs threads that can run, the service answers, `ws->open`
returns when the connection is gone, and the caller connects and keeps calling
`interactive_run`, as `interactivity.h` asks ("at least once per frame"). Nothing is
assumed of failures, pushes, spurious wakeups, calls or closing. Weak fairness suffices:
a thread that waits for another is woken into a state of its own. The fairness of
the websockets is of the same kind: threads that can run do, a handshake or an
attempt to connect ends, and a socket of the system that is closed says so. A
thread that is in `receive` is not assumed to get anything.

### Where the code departs from what it says

Each is a run that expects a violation, and a finding of `PROJECT.json` with the
quotation.

| Run | What happens |
|---|---|
| `MissedWakeup` | The outgoing thread tests `shutdownRequested` before it locks; if `interactive_close_session` sets it and notifies in between, the thread waits for ever and the join never returns. |
| `AuthExchange` | `interactive_auth_wait_short_code` does not look at the result of the request that exchanges the code. When it fails, the response is still the 200 of the last poll, and its `code` is stamped and returned as token data with `MIXER_OK`. |
| `StaleCaches` | A reply of the lost connection, handled after the reset, sets its flag again: the session is connected with scenes and groups of different connections. |

More was seen while modelling. The models contain all of it, and no property of a
run forbids it; where a change of a run shows it, the change is given.

- When the server sends a close frame `ws->open` returns 0, and the thread opens the
  next connection without resetting anything (`interactive_session_internal.cpp:195`), with
  the old websocket still taken to be open; `ResetBeforeOpen` says so in its last line.
- A reply to `getTime` without a time is an error of its handler that nobody looks at
  (`interactive_session.cpp:121`, `ReceiveTimeError`): the bootstrap ends there and nothing begins it again
  on this connection. `EventuallyConnected` would fail, so `Close` has no such reply.
- When a reply of the lost connection has set its flag (`StaleCaches`), a second
  `getTime` is outstanding whose reply can complete a bootstrap on the incoming thread and call
  the state handler there, although `interactivity.h` says that it is called by the caller's
  thread: `StateHandlerOnCallerThread` fails in `StaleCaches.cfg`.
- `winapp_websocket::close` does nothing unless the socket is connected; a session closed while
  it connects waits in the join for as long as the new connection lasts:
  `CloseTerminates` of `UwpWebsocket` fails in `UwpWebsocket.cfg`.
- The reply handler of a capture is lost with its connection, so that its callback is never called
  (`interactive_session.cpp:852`).
- A failing method handler returns from `interactive_run` and drops the rest of the
  batch (`interactive_session.cpp:704`). The hello of a new connection may be in it,
  and then nothing starts the bootstrap again: `EventuallyConnected` fails as soon as
  the server may push a method whose handler fails, so `Close` has no pushes.
- When a reply of the lost connection has set its flag again (`StaleCaches`) there
  are two bootstraps, and the second finds the session connected, against the
  assertion in `bootstrap`.
- The reply to `getTime` can be handled before `getTimeSent` is written.
- The reset clears the shared queue; a method the outgoing thread has taken out of
  it is sent on the next connection.
- `interactive_run` reads the size of the queue again after each pop
  (`interactive_session.cpp:647`), so that it takes at most half of it, rounded up
  (`Taken`).
- After a failed send the `break` leaves the `switch` and not the loop the comment
  names (`interactive_session_internal.cpp:347`): the send is retried at once and
  without the sleep (`SendFails`).
- An `onReady` of the lost connection, handled after the reset, makes an
  unbootstrapped session ready (`interactive_session.cpp:379`). This is `ReadyTooEarly`, the one
  step by which `ConnectedMeansBootstrapped` lets such a state be entered: without the
  exception the property fails in `Reconnect`.
- Desktop websocket: `m_open` stays set after a lost connection, `m_opening` after a
  failed handshake. A `send` that polls for `m_opening` misses a handshake that
  begins and ends between two polls, and goes on polling although the connection
  is open. The session is not exposed to either, because it sends only with `wsOpen`.
- UWP websocket: if `Closed` is raised before the continuation of `ConnectAsync` has run, the
  continuation marks a dead socket as connected and `open` waits for ever;
  `LostEndsOpen` therefore speaks of losses after `m_connected`. Messages left over
  from a lost connection are delivered on the next one. `open` returns 0 after a lost
  connection, so that the session does not reset (as after a close frame).
  `AsleepMeansIdle` is about the interval between open's test and its wait, and says nothing of
  a close that the continuation overwrites.
- Scene cache: a reader between the two critical sections of `cache_scenes` finds
  nothing. Replies and updates of equal priority leave the heap in no particular order, so an
  older document may be cached last. The first control that is not in the cache ends
  the update of its method and the batch of `interactive_run`. `trigger_cooldown` may
  name a scene that is gone. `onControlCreate` and `onControlDelete` are not registered
  (`interactive_session.cpp:471`), although `interactivity.h:504` documents them.

- Participants: the map is not emptied when a connection is lost, so that those who left meanwhile
  stay in it. Joins, updates and inputs of equal priority overtake each other, so that a participant who
  left may be put back, and an input may come before its join.
- Authorization: an exchange uses the code up, and the token is gone when the buffer turns out
  too small (`interactive_auth.cpp:191`).
- Desktop HTTP: a read that fills its buffer leaves no room for the terminator that
  `operator<<` looks for (`win_http_client.cpp:160`; the label `undefined`). A read that fails in the middle of
  a body ends the loop like the end of the body, and `make_request` returns 0 with the part that was read
  (`DesktopEnds`; `AnswerWhole` asks for what the reads gave). UWP HTTP: a request that
  ends in `OnError`, or whose body cannot be read, can return `S_OK` with no response.
  `wstring_to_utf8` takes the two halves of a surrogate pair for two characters (`common.cpp:20`,
  `codecvt_utf8<wchar_t>` with a `wchar_t` of 16 bits), so that under UWP a character of four bytes
  comes back as six bytes that are not UTF-8; `AnswerWhole` asks that shorter characters come back as they were.
- Getters: `interactive_control_get_property_data` and its like for metadata compare the buffer's length
  with that of the name without its terminator (`interactive_control.cpp:90`): a buffer of exactly
  that length gets a name that lacks its last character, and a longer one is filled from
  behind the name (`GetPropertyData`). `CopiesWhole` asks for the text up to its
  terminator, with the length that the getter asked for or more.
- rapidjson: the writer gives up an infinite number, and `jsonStringify` returns the text so far.
  A document that begins with a closing bracket, a comma or a colon is an empty document for the iterative
  parser and an invalid value for the recursive one. The test for overflow of an array index
  in a pointer (`pointer.h:904`) compares the new number with the old one, which does not notice every wrap.
- `cache_new_control` and `delete_cached_control` are never dispatched.

## 4. Proofs

TLAPS proves, for every value of the constants, from the assumption each module
makes on its constants alone (`ConstantsAssumption`, `DesktopAssumption`, `UwpAssumption`,
`CacheAssumption`, `BudgetAssumption`, `LifetimeAssumption`, `ChunkAssumption`, `HttpAssumption`). They say what
the constants are, and two things of the environment: an answer of the service takes less than half the life of
a token, since the other half is the margin of `interactive_auth_is_token_stale`, and the bodies
of requests and answers are UTF-8 without zero bytes.

| Theorem | Module | States |
|---|---|---|
| `TypeCorrect` | `SessionProofs` | `Spec => []TypeOK` |
| `DeliveryCorrect` | `DeliveryProofs` | `Spec => []OnePlace` |
| `HandlersCorrect` | `DeliveryProofs` | `Spec => []HandlerRegistered` |
| `MethodsRefined` | `DeliveryProofs` | `Spec => ImplementsMethodCalls` |
| `OrderCorrect` | `DeliveryProofs` | `Spec => []ThreadOrder` |
| `WakeupCorrect` | `DeliveryProofs` | `Spec => []NoSleepOnWork` |
| `ResetFirst` | `SessionProofs` | `Spec => []ResetBeforeHello` |
| `ConnectedIsBootstrapped` | `SessionProofs` | `Spec => ConnectedMeansBootstrapped` |
| `OpensReset` | `SessionProofs` | `Spec => []ResetBeforeOpen` |
| `DropsMethodsOnly` | `SessionProofs` | `Spec => OnlyMethodsDropped` |
| `DesktopTypeCorrect` | `DesktopWebsocketProofs` | `Spec => []TypeOK` |
| `MessagesCorrect` | `DesktopWebsocketProofs` | `Spec => []MessagesWhole` |
| `HandlesUpgraded` | `DesktopWebsocketProofs` | `Spec => []SendOnUpgraded` |
| `AbortsJustified` | `DesktopWebsocketProofs` | `Spec => []AbortMeansFailed` |
| `DesktopImplementsWebsocket` | `DesktopWebsocketProofs` | `Spec => ImplementsWebsocket` |
| `UwpTypeCorrect` | `UwpWebsocketProofs` | `Spec => []TypeOK` |
| `OpenReleasedOnce` | `UwpWebsocketProofs` | `Spec => []ReleasedOnce` |
| `NoMissedEvent` | `UwpWebsocketProofs` | `Spec => []AsleepMeansIdle` |
| `MessagesInOrder` | `UwpWebsocketProofs` | `Spec => []InOrder` |
| `UwpImplementsWebsocket` | `UwpWebsocketProofs` | `Spec => ImplementsWebsocket` |
| `CacheTypeCorrect` | `SceneCacheProofs` | `Spec => []TypeOK` |
| `PointersCorrect` | `SceneCacheProofs` | `Spec => []PointersResolve` |
| `ListingsCorrect` | `SceneCacheProofs` | `Spec => []ListedControlsFound` |
| `ShapeKept` | `SceneCacheProofs` | `Spec => UpdatesKeepShape` |
| `ParticipantsTypeCorrect` | `ParticipantsProofs` | `Spec => []TypeOK` |
| `MapCorrect` | `ParticipantsProofs` | `Spec => []ParticipantsTrue` |
| `InputsCorrect` | `ParticipantsProofs` | `Spec => []InputsFindTheirParticipant` |
| `AuthTypeCorrect` | `AuthorizationProofs` | `Spec => []TypeOK` |
| `VerdictsCorrect` | `AuthorizationProofs` | `Spec => []VerdictsTrue` |
| `FreshTokensWork` | `AuthorizationProofs` | `Spec => []FreshTokenWorks` |
| `EncodedIsDecoded` | `DataProofs` | `Decode` reads every character that `Encode` wrote, with its length |
| `DecodedIsEncoded` | `DataProofs` | what `Decode` takes is a character in the bytes that `Encode` gives it |
| `ChunkIsWhole` | `DataProofs` | a chunk goes from the beginning of a character to that of another or to the end, with all the bytes between, and fits |
| `TextsAreTexts` | `DataProofs` | the bytes of characters are what `ChunkIsWhole` asks of a body |
| `GettersAreWhole` | `DataProofs` | a getter called with the length it told gives the whole string |
| `BodiesArriveWhole` | `DataProofs` | `HttpSpec => []BodyWhole` |

*Types.* `TypeOK` is not inductive. `TypeInv` adds that there is a host between
choosing one and `++hostItr`, that the outgoing thread sends only when it holds
a method, that a thread inside `queue_method` holds a packet, and that the two
threads do not exist before `interactive_connect`. There is one step per action,
first for the labels, then the variables, then these four.

*Delivery.* The forty-one actions touch a method on its way in few ways: it is created,
registered, queued, swapped, sent, received, or its reply is handled, or else
nothing happens to it. `DeliveryStep` is the disjunction of these, `DeliverySteps`
proves that every step of the session is one, and the induction is over
`DeliveryStep`. `DeliveryInv` adds to `OnePlace` and `HandlerRegistered` that every id
in use is below `packetId`, that a handler has one kind, that the method of a thread in
`queue_method` is nowhere else and its handler is registered by the time it is
queued, and that no reply is in both the shared and the local event queue. It is
needed in full: receiving a reply keeps `OnePlace` only if the handler found is
the one of that method.

*Refinement.* The mapping takes the ids of the two outgoing queues and of `job` to
`queued`, those on the connection to `sent`, and those of pending replies to
`answered`. Each delivery step maps to a step of `MethodCalls` or a stutter, from
`DeliveryInv`: without it an id that is both queued and sent would refute `Answer`.

*Order and waiting.* `OrderInv` adds to `DeliveryInv` that the method a thread is
queueing is younger than every one it has queued (`JobLast`) and that the outgoing
thread has an empty queue of its own whenever it looks at the shared one
(`WaitInv`), so that a swap never moves older methods behind newer ones.

*Reset.* The second part of `SessionProofs` adds three invariants to the types. `ConnInv` says
what is known of the connection at each label of the incoming thread: from the reset to the next
open there is none and the clock is to be asked for, and after an open that returned 0 the websocket
is still taken to be open. `HelloInv` says that no event is of a later connection than the
current one, and that a state change still in the shared queue is of no earlier connection than
the methods already taken out of it: a hello then finds the resets before it in its own queue, where they
go first. `BootInv` says that a thread inside `bootstrap` has seen the flags of the checks behind it
(`Passed`), the caller's thread unless the reset is going on or announced, and that no other state change
is ever announced. `ConnectedMeansBootstrapped` is then a property of steps (`Founded`): the end of a bootstrap has
seen the flags, a flag is only reset while the reset is going on, and the caller is told of it by the last step of the
reset; what is left is `handle_ready`, which sets the state without asking. `EventSteps` is the lemma
behind `HelloInv` and `OnlyMethodsDropped`: a step adds events of the current connection, or moves events
from one queue to the other, or handles one of `Top`.

*Desktop websocket.* `HandshakeInv` says that the lock is held exactly during a
handshake, that the handle is kept before the lock is given up, and what the flags
that outlive an open still mean: `m_open` that some handle was kept, `m_opening` that a
handshake is under way or has failed. A send that is past its poll is then either
behind the lock or has one of the two. `MessageInv` ties the server's position to
the local `message` and to what was delivered, which makes `MessagesWhole` inductive.

*UWP websocket.* `ReleasedOnce` and `AsleepMeansIdle` are inductive together with the
fact that a connecting socket has no continuation yet. Each open leaves the semaphore
as it found it, since only its own continuation releases it and it does not
return before.

*An abstract websocket.* `Websocket` has the state of the open that the thread is in, the messages that
wait, by number, and those that were given. The desktop client maps its labels to `opening` between
lock and `Connected` and to `open` in the receive loop; none of its messages waits, and `Numbers` turns
what `onMessage` was given into numbers, 0 for one with a missing, doubled or foreign buffer, which no
step of `Websocket` can give. Its proof is `MessagesWhole` before and after a step. Under UWP the
queue `m_messages` waits, also from one connection to the next. That a message arrives only while an open is there
for it is not in the socket's hands: it needs `LinkInv`, that the open of a socket that is up finds no error and,
once the continuation has run, `m_connected`, so that it does not return before the socket is gone. `InOrder`
then gives the number of the next message. The runs check the
refinement in place of `MessagesWhole` and `InOrder`, which it contains: what breaks one of them gives a
number that `Websocket` would not.

*Scene cache.* Between the two critical sections of `cache_scenes` both maps are empty,
so that no path leads into a document it was not made from. `Emplace` on empty maps gives each id
the path of its first place (`LeastInSet`), and `Swap` writes, at the path of an
id, a control of the same id, so that ids never move; the second fact is also what
`ShapeKept` says.

*Participants.* That the map is right is kept by what is still on its way to it. `PendingTrue`
says that a method whose number is the newest of a participant says of it what the server knows, so that
applying it makes the map right, and an older one makes `applied` differ from `newest`;
`InputsSafe` that no method still to come, with the number an input was sent after, takes the participant
of the input away. Both need that numbers are used once (`NumbersBelow`). Losing a connection
changes neither map nor queues, and what leaves meanwhile raises `newest`, which is why the
properties survive it.

*Authorization.* `AnswerTrue` and `ResponseTrue` follow a token from its issue to its stamp: an answer on
its way is at most `MaxDelay` old, and what is about to be stamped was issued at most `MaxDelay` ago, so
that `granted_at` is at most `MaxDelay` after the issue (`Stamped`). `FreshTokenWorks` follows from
that with `LifetimeAssumption`. The token data is then either a stamped token or something without one
(`TokenTrue`): a lost answer leaves a body without `access_token` to be stamped, which is the
case that `VerdictsTrue` excepts and the finding of `AuthExchange` is about.

*Texts and buffers.* A character is cut into six bits by dividing by 64 again and again (`Quotient`,
`Nested`); `Shape2`, `Shape3` and `Shape4` name the bits of each byte, with the bounds that tell the shortest forms
of characters from overlong forms and from halves of pairs. `RangeOf` and `BytesOf` give the class of a byte and
the bytes of a class, and from there each theorem is a case for each number of bytes. `ChunkIsWhole` asks of a
body only that a character begins at 0 and that each is followed by another or by the end
(`IsText`). The last byte of a chunk that begins a character exists because the first byte does
(`LastLeadFound`, by `Largest` from the well-foundedness of the natural numbers), and what the
chunk lacks of that character is in the body, since the next one begins after it.

*Requests.* `BodyWhole` is inductive with three facts (`HttpInv`): what the system has taken of the request body
is its beginning, up to the stream's position (`Uploaded`); until the answer is read nothing was taken of it, and the
response is the caller's (`Answered`); and while it is read, `str` is what comes of the bytes before the position of
its stream, as they are on the desktop, and through `Wide` under UWP, where the position is between two characters
(`Downloaded`). A turn of the loop keeps the last one because
a chunk of a UTF-8 body is UTF-8 again (`PieceIsUtf8`), its bytes decode as they do in the body (`PieceDecodes`), and
so its wide text joins on to that of the bytes before it (`WideJoins`); where the chunk ends is
`ChunkIsWhole`. That shorter characters come back as they were (`BodyKept`) goes from one character to the
next, by the first place where it would fail. `FlattenSeq` of the community modules chooses a
function that is given by an equation on itself: `FlatteningExists` shows that there is one, `FlatteningExtends` that it
does not depend on what comes later, and `FlattenConcat` and `FlattenOne` follow.

*Only model-checked*: the liveness properties `EventuallyConnected`,
`ClosesUnlessMissed`, `CloseEndsIncoming`, `CloseEndsOpen` and `LostEndsOpen` (liveness and
`ENABLED` are out of the prover's reach); and the properties of `Data` other than `BodyWhole`. Those are about
recursive operators (the parsers, the writer, pointers, the cache of nested values), and what these compute for every
input is an induction over data, out of reach as well. What `DataProofs` proves of two of them are
parts without the recursion: of `TextsRead` the single character, and of `CopiesWhole` the buffers of the getters.
`BodiesArriveWhole` is about `HttpSpec`, whose actions are those of `Data` under the topic `body`.

## 5. Plan

In this order, each with its runs and then its proofs.

1. *Done*: the session with its resets, the two websockets, the scene cache, participants,
   authorization, JSON with the getters, the bodies of HTTP answers (sections 2 to 4), and a theorem for
   every safety property but six of `Data`.
2. *Done*: an abstract websocket, which `DesktopWebsocket` and `UwpWebsocket` are proved to implement. The
   incoming thread of `Session` has its own view of it, in which messages are packets and are not numbered.
3. The connection of `Participants` and `SceneCache` with `Session`: both see a connection that is lost
   as one step, where the session takes several.

## 6. Not modelled

- Of rapidjson: `schema.h`, `internal/regex.h` and `prettywriter.h`, which nothing includes or
  instantiates; UTF-16, UTF-32 and `AutoUTF`, in-situ parsing, comments and full precision
  (`strtod.h`, `biginteger.h`), which no flag asks for; the SIMD variants, which compute the same;
  allocators; Grisu2's search for the shortest digits and the rounding of binary
  fractions (`diyfp.h`, `ieee754.h`), since doubles are exact decimals here.
- Of the HTTP clients and websockets: certificates, headers, proxies, timeouts and error texts of the
  system's libraries; `read` and the C interface of the websockets, which the session does not call. A `read`
  receives from the same connection as `open`: under UWP it waits on the same condition variable and pops
  `m_messages` (`winapp_websocket.cpp:238`), on the desktop it calls `receive` with the same handle. The `send` of the
  UWP one, which reads `m_connected` and writes to the socket, and changes nothing that `open` looks at.
- Of the session: handler and context setters, which store a pointer; http events, which have no source.
- Of the cache: `cache_new_control` and `delete_cached_control`, which no event reaches.
- Dynamic loading of `winhttp.dll`, and debug output; `utf8_to_wstring`, which is given URIs and headers.

`PROJECT.json` gives the reason part by part.
