-------------------------------- MODULE Session --------------------------------
(***************************************************************************)
(* One interactive session: the caller's thread, the incoming thread and   *)
(* the outgoing thread over the state of SessionState, with the server and *)
(* the network as the environment.                                         *)
(***************************************************************************)
EXTENDS CallerThread, IncomingThread, OutgoingThread

Init ==
    /\ state = "disconnected"
    /\ serverTimeOffsetCalculated = FALSE
    /\ scenesCached = FALSE /\ groupsCached = FALSE
    /\ wsOpen = FALSE
    /\ scenesFrom = 0 /\ groupsFrom = 0 /\ getTimeSent = 0
    /\ packetId = 0 /\ replyHandlersById = {}
    /\ outgoingEvents = <<>> /\ processingEvents = <<>>
    /\ incomingEvents = {} /\ processingQueue = {}
    /\ hosts = 0 /\ connectionRetryFrequency = DefaultRetryFrequency
    /\ openError = FALSE
    /\ conn = 0 /\ up = FALSE /\ helloDue = FALSE /\ serverReady = FALSE
    /\ wire = <<>>
    /\ shutdownRequested = FALSE /\ wsClosed = FALSE
    /\ pc = [t \in Threads |-> IF t = "app" THEN "start" ELSE "none"]
    /\ job = [t \in Callers |-> NoPacket]
    /\ budget = Budget

\* What the network, the server and the caller may do but need not.
Environment ==
    \/ Break
    \/ ReceivePush
    \/ ReceiveTimeError
    \/ SpuriousWakeup
    \/ CallMethod
    \/ SetReady
    \/ RequestShutdown

Next ==
    \/ InteractiveConnect
    \/ RunStep
    \/ CloseStep
    \/ IncomingStep
    \/ OutgoingStep
    \/ Environment

Spec == Init /\ [][Next]_vars

\* The operating system runs every thread that can run, the server answers, and
\* the caller connects and keeps calling interactive_run ("at least once per
\* frame").
Fairness ==
    /\ WF_vars(InteractiveConnect)
    /\ WF_vars(RunStep)
    /\ WF_vars(CloseStep)
    /\ WF_vars(IncomingStep)
    /\ WF_vars(OutgoingStep)

FairSpec == Spec /\ Fairness

-------------------------------------------------------------------------------
\* The labels of each thread.
AppLabels == {"start", "idle", "bootstrap", "scenes", "groups", "complete",
              "register", "enqueue", "stamp", "closeSocket", "notify", "join", "closed"}
WsLabels  == {"none", "top", "connect", "recv", "bootstrap", "scenes", "groups",
              "complete", "register", "enqueue", "stamp", "returned", "clear",
              "resetTime", "resetGroups", "resetScenes", "announce", "next", "exit"}
OutLabels == {"none", "top", "check", "waiting", "woken", "send", "sending", "exit"}

\* Each thread is at one of its own labels.
ControlOK ==
    /\ DOMAIN pc = Threads
    /\ pc["app"] \in AppLabels /\ pc["ws"] \in WsLabels /\ pc["out"] \in OutLabels

\* The types of the variables, for run_incoming_thread, run_outgoing_thread and
\* interactive_run; the retry frequency stays a power of two up to its maximum.
TypeOK ==
    /\ state \in States
    /\ serverTimeOffsetCalculated \in BOOLEAN
    /\ scenesCached \in BOOLEAN /\ groupsCached \in BOOLEAN
    /\ wsOpen \in BOOLEAN /\ shutdownRequested \in BOOLEAN /\ wsClosed \in BOOLEAN
    /\ scenesFrom \in Nat /\ groupsFrom \in Nat /\ getTimeSent \in Nat /\ conn \in Nat
    /\ packetId \in Nat
    /\ replyHandlersById \subseteq [id : Nat, kind : Kinds]
    /\ incomingEvents \subseteq Event /\ processingQueue \subseteq Event
    /\ outgoingEvents \in Seq(Packet) /\ processingEvents \in Seq(Packet)
    /\ wire \in Seq(Packet)
    /\ hosts \in 0..MaxHosts
    /\ connectionRetryFrequency \in {1, 2, 4, 8}
    /\ openError \in BOOLEAN /\ up \in BOOLEAN /\ helloDue \in BOOLEAN
    /\ serverReady \in BOOLEAN
    /\ ControlOK
    /\ job \in [Callers -> Packet \union {NoPacket}]
    /\ budget \in [BudgetKinds -> Nat]

-------------------------------------------------------------------------------
\* Where the packet ids are: being queued, queued, and answered.
Queueing == {t \in Callers : pc[t] \in {"register", "enqueue"}}
Replies  == {e \in incomingEvents \union processingQueue : e.type = "rpc_reply"}

Distinct(s) == \A i, j \in DOMAIN s : s[i].id = s[j].id => i = j
Lacks(s, n) == \A i \in DOMAIN s : s[i].id # n
Apart(s, r) == \A i \in DOMAIN r : Lacks(s, r[i].id)

\* A packet id is in one place at a time and once there: being queued, queued
\* for sending, awaiting its answer, or answered and waiting for interactive_run.
\* So no method is sent twice and no reply handled twice, whichever thread queues,
\* swaps, retries or clears the queue at the same time (queue_method,
\* run_outgoing_thread, handle_ws_message).
OnePlace ==
    /\ Distinct(wire) /\ Distinct(processingEvents) /\ Distinct(outgoingEvents)
    /\ Apart(wire, processingEvents) /\ Apart(wire, outgoingEvents)
    /\ Apart(processingEvents, outgoingEvents)
    /\ \A t \in Queueing :
          /\ Lacks(wire, job[t].id)
          /\ Lacks(processingEvents, job[t].id)
          /\ Lacks(outgoingEvents, job[t].id)
          /\ \A u \in Queueing : job[u].id = job[t].id => u = t
    /\ \A e \in Replies :
          /\ Lacks(wire, e.id)
          /\ Lacks(processingEvents, e.id)
          /\ Lacks(outgoingEvents, e.id)
          /\ \A t \in Queueing : job[t].id # e.id
          /\ \A f \in Replies : e.id = f.id => e = f

Registered(s) ==
    \A i \in DOMAIN s :
        Replied(s[i]) => [id |-> s[i].id, kind |-> s[i].kind] \in replyHandlersById

\* When the server's reply to a method arrives, its handler is registered: the
\* handler is put into replyHandlersById before the outgoing thread can see the
\* method (queue_method), and only its own reply takes it out (handle_ws_message).
HandlerRegistered ==
    Registered(wire) /\ Registered(processingEvents) /\ Registered(outgoingEvents)

Increasing(s) ==
    \A i, j \in DOMAIN s : i < j /\ s[i].by = s[j].by => s[i].id < s[j].id
Before(s, r) ==
    \A i \in DOMAIN s, j \in DOMAIN r : s[i].by = r[j].by => s[i].id < r[j].id

\* The methods of one thread reach the server in the order the thread queued
\* them, across swaps of the queue and failed sends (run_outgoing_thread).
ThreadOrder ==
    /\ Increasing(wire) /\ Increasing(processingEvents) /\ Increasing(outgoingEvents)
    /\ Before(wire, processingEvents) /\ Before(wire, outgoingEvents)
    /\ Before(processingEvents, outgoingEvents)

\* The outgoing thread never sleeps on a non-empty queue: the queue is tested
\* and waited for under the lock that queue_method holds when it notifies.
NoSleepOnWork ==
    pc["out"] = "waiting" => outgoingEvents = <<>>

Pending(type) == {e \in incomingEvents \union processingQueue : e.type = type}

\* The hello of a connection is not handled before the caller has been told that
\* the previous connection is gone: while a reset is announced, interactive_run
\* cannot be at a hello (run_incoming_thread, compare_event_priority).
ResetBeforeHello ==
    \A e \in Top(processingQueue) :
        e.type = "rpc_method" /\ e.what = "hello" =>
            \A f \in Pending("state_change") : f.conn >= e.conn

\* A session that says it is connected while a flag of bootstrap is down, no lost
\* connection is being reset and no state change is before the caller.
Resetting == pc["ws"] \in {"clear", "resetTime", "resetGroups", "resetScenes", "announce"}
Unfounded ==
    /\ state \in {"connected", "ready"}
    /\ ~(serverTimeOffsetCalculated /\ scenesCached /\ groupsCached)
    /\ ~Resetting
    /\ Pending("state_change") = {}

\* interactive_run handles onReady in a session that is not connected (any more):
\* handle_ready sets the state without asking.
ReadyTooEarly ==
    /\ state \notin {"connected", "ready"}
    /\ \E e \in Top(processingQueue) :
          e \notin processingQueue' /\ e.type = "rpc_method" /\ e.what \in {"ready", "notReady"}

\* A session that says it is connected has been bootstrapped, or its caller is yet
\* to be told of the reset: nothing but an onReady that comes too late breaks it,
\* neither a bootstrap on either thread whose flags are reset one by one behind it
\* nor a reply of the lost connection (bootstrap, run_incoming_thread,
\* interactive_run).
ConnectedMeansBootstrapped ==
    [][Unfounded' => Unfounded \/ ReadyTooEarly]_vars

\* Only methods are lost when a handler fails and interactive_run returns: errors,
\* state changes and replies leave the local queue one by one, each handled.
OnlyMethodsDropped ==
    [][LET left == processingQueue \ processingQueue'
       IN  Cardinality(left) <= 1 \/ \A e \in left : e.type = "rpc_method"]_vars

\* What a connection finds when it is opened: a session that is reset, if it is the
\* first or if ws->open returned an error before, whether the websocket had been
\* open or not; after an open that returned 0, as it does for a close frame, a
\* session that still takes the old websocket to be open (run_incoming_thread).
ResetBeforeOpen ==
    pc["ws"] = "connect" =>
        IF conn = 0 \/ openError THEN ~wsOpen /\ ~serverTimeOffsetCalculated
                                 ELSE wsOpen

-------------------------------------------------------------------------------
Ids(s) == {s[i].id : i \in DOMAIN s}

\* The session as the caller of queue_method sees it: queueing, sending, answers
\* and lost methods, without threads, locks and connections.
Methods == INSTANCE MethodCalls WITH
    next     <- packetId,
    queued   <- Ids(processingEvents) \union Ids(outgoingEvents)
                   \union {job[t].id : t \in Queueing},
    sent     <- Ids(wire),
    answered <- {e.id : e \in Replies}

\* Every step of the three threads is a step of MethodCalls: a method is answered
\* only after it was sent, its handler runs once, and an answer that has arrived
\* is not lost to a later disconnect (queue_method, run_outgoing_thread,
\* handle_ws_message, interactive_run).
ImplementsMethodCalls == Methods!Spec

-------------------------------------------------------------------------------
\* Once connections stop breaking, the session is bootstrapped, connected
\* and stays so: every reset is followed by a hello that starts the bootstrap
\* again, whatever replies of earlier connections come in between (bootstrap,
\* run_incoming_thread).
EventuallyConnected ==
    \/ <>shutdownRequested
    \/ <>[](/\ state \in {"connected", "ready"}
            /\ serverTimeOffsetCalculated /\ scenesCached /\ groupsCached)

\* interactive_close_session returns, unless it notified the outgoing thread
\* in the moment between the thread's test of shutdownRequested and its wait.
ClosesUnlessMissed ==
    (pc["app"] = "join" /\ pc["out"] \notin {"check", "waiting"}) ~> pc["app"] = "closed"

\* Closing the session ends the incoming thread wherever it is (ws->close).
CloseEndsIncoming == shutdownRequested ~> pc["ws"] = "exit"

-------------------------------------------------------------------------------
\* What the documentation and the comments say and the code does not keep.

\* The state changed handler "is called by your own thread": bootstrap does not
\* complete on the incoming thread.
StateHandlerOnCallerThread == pc["ws"] # "complete"

\* "When the websocket closes, interactive state is fully reset": a session
\* becomes connected with the scenes and groups of one connection.
FreshCaches ==
    [][state = "connecting" /\ state' = "connected" => scenesFrom = groupsFrom]_vars

\* interactive_close_session waits for both threads "to terminate".
CloseTerminates == shutdownRequested ~> pc["app"] = "closed"
===============================================================================
