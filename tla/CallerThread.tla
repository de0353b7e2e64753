----------------------------- MODULE CallerThread -----------------------------
(***************************************************************************)
(* The application's thread: interactive_connect, interactive_run, the     *)
(* calls that queue methods, and interactive_close_session.                *)
(*                                                                         *)
(* A step at label "idle" with a non-empty processingQueue is inside       *)
(* interactive_run, between two events.  The API may be called there too:  *)
(* that is a call made by a callback of the event just handled.            *)
(***************************************************************************)
EXTENDS Bootstrap

\* interactive_connect: the state and its callback, then the two threads.
InteractiveConnect ==
    /\ pc["app"] = "start"
    /\ state = "disconnected"
    /\ state' = "connecting"
    /\ pc' = [pc EXCEPT !["app"] = "idle", !["ws"] = "top", !["out"] = "top"]
    /\ UNCHANGED <<flagVars, wsOpen, cacheVars, callVars, outVars, inVars, hostVars,
                   netVars, closeVars, job, budget>>

\* How many events the copying loop of interactive_run takes: its bound is read
\* again after each pop, so that at most half of the queue, rounded up, is taken.
Taken(max) == Smaller(max, (Cardinality(incomingEvents) + 1) \div 2)

\* interactive_run, the critical section that fills the local queue.
TakeEvents ==
    /\ pc["app"] = "idle"
    /\ processingQueue = {} /\ incomingEvents # {}
    /\ \E max \in MaxEvents : \E s \in TopSets(incomingEvents, Taken(max)) :
          /\ processingQueue' = s
          /\ incomingEvents' = incomingEvents \ s
    /\ UNCHANGED <<state, flagVars, wsOpen, cacheVars, callVars, outVars, hostVars,
                   netVars, closeVars, pc, job, budget>>

-------------------------------------------------------------------------------
\* interactive_run, one event of the local queue.  onError is a callback only.
HandleError(e) ==
    /\ e.type = "error"
    /\ processingQueue' = processingQueue \ {e}
    /\ UNCHANGED <<state, flagVars, cacheVars, packetId, pc, job>>

HandleStateChange(e) ==
    /\ e.type = "state_change"
    /\ processingQueue' = processingQueue \ {e}
    /\ state' = e.what
    /\ UNCHANGED <<flagVars, cacheVars, packetId, pc, job>>

\* The reply handler of getScenes replaces the cached scenes; the first time it
\* goes on to bootstrap.
CacheScenes(e) ==
    /\ e.type = "rpc_reply" /\ e.what = "getScenes"
    /\ processingQueue' = processingQueue \ {e}
    /\ scenesFrom' = e.conn
    /\ scenesCached' = TRUE
    /\ IF scenesCached THEN UNCHANGED pc ELSE Goto("app", "bootstrap")
    /\ UNCHANGED <<state, serverTimeOffsetCalculated, groupsCached, groupsFrom,
                   getTimeSent, packetId, job>>

\* The reply handler of getGroups, likewise.
CacheGroups(e) ==
    /\ e.type = "rpc_reply" /\ e.what = "getGroups"
    /\ processingQueue' = processingQueue \ {e}
    /\ groupsFrom' = e.conn
    /\ groupsCached' = TRUE
    /\ IF groupsCached THEN UNCHANGED pc ELSE Goto("app", "bootstrap")
    /\ UNCHANGED <<state, serverTimeOffsetCalculated, scenesCached, scenesFrom,
                   getTimeSent, packetId, job>>

\* The reply handler of a method the caller queued is a callback only.
CallReplyHandler(e) ==
    /\ e.type = "rpc_reply" /\ e.what = "method"
    /\ processingQueue' = processingQueue \ {e}
    /\ UNCHANGED <<state, flagVars, cacheVars, packetId, pc, job>>

\* route_method, to the handlers that change the session.
HandleHello(e) ==
    /\ e.type = "rpc_method" /\ e.what = "hello"
    /\ processingQueue' = processingQueue \ {e}
    /\ Goto("app", "bootstrap")
    /\ UNCHANGED <<state, flagVars, cacheVars, packetId, job>>

HandleReady(e) ==
    /\ e.type = "rpc_method" /\ e.what \in {"ready", "notReady"}
    /\ processingQueue' = processingQueue \ {e}
    /\ state' = IF e.what = "ready" THEN "ready" ELSE "connected"
    /\ UNCHANGED <<flagVars, cacheVars, packetId, pc, job>>

HandleGroupChanged(e) ==
    /\ e.type = "rpc_method" /\ e.what = "onGroupUpdate"
    /\ processingQueue' = processingQueue \ {e}
    /\ CreateMethod("app", "getGroups")
    /\ UNCHANGED <<state, flagVars, cacheVars>>

HandleSceneChanged(e) ==
    /\ e.type = "rpc_method" /\ e.what = "updateScenes"
    /\ processingQueue' = processingQueue \ {e}
    /\ CreateMethod("app", "getScenes")
    /\ UNCHANGED <<state, flagVars, cacheVars>>

\* handle_input and handle_control_changed return an error for a control that is
\* not cached, interactive_run returns it, and the rest of its local queue is gone.
HandleUnknownInput(e) ==
    /\ e.type = "rpc_method" /\ e.what \in {"badInput", "badUpdate"}
    /\ processingQueue' = {}
    /\ UNCHANGED <<state, flagVars, cacheVars, packetId, pc, job>>

HandleEvent ==
    /\ pc["app"] = "idle"
    /\ \E e \in Top(processingQueue) :
          \/ HandleError(e)
          \/ HandleStateChange(e)
          \/ CacheScenes(e)
          \/ CacheGroups(e)
          \/ CallReplyHandler(e)
          \/ HandleHello(e)
          \/ HandleReady(e)
          \/ HandleGroupChanged(e)
          \/ HandleSceneChanged(e)
          \/ HandleUnknownInput(e)
    /\ UNCHANGED <<wsOpen, replyHandlersById, outVars, incomingEvents, hostVars,
                   netVars, closeVars, budget>>

-------------------------------------------------------------------------------
\* interactive_queue_method with a reply handler: refused before the session is
\* connected.
CallMethod ==
    /\ pc["app"] = "idle"
    /\ state \in {"connected", "ready"}
    /\ "method" \in Calls
    /\ Spend("call")
    /\ CreateMethod("app", "method")
    /\ UNCHANGED <<state, flagVars, wsOpen, cacheVars, replyHandlersById, outVars,
                   inVars, hostVars, netVars, closeVars>>

\* interactive_set_ready, likewise.
SetReady ==
    /\ pc["app"] = "idle"
    /\ state \in {"connected", "ready"}
    /\ Spend("call")
    /\ \E kind \in Calls \ {"method"} : CreateMethod("app", kind)
    /\ UNCHANGED <<state, flagVars, wsOpen, cacheVars, replyHandlersById, outVars,
                   inVars, hostVars, netVars, closeVars>>

\* interactive_close_session, which must not be called from a callback.
RequestShutdown ==
    /\ MayClose
    /\ pc["app"] = "idle" /\ processingQueue = {}
    /\ shutdownRequested' = TRUE
    /\ Goto("app", "closeSocket")
    /\ UNCHANGED <<state, flagVars, wsOpen, cacheVars, callVars, outVars, inVars,
                   hostVars, netVars, wsClosed, job, budget>>

\* Variant of CloseSocket for CloseEndsIncoming: the websocket stays open.
CloseSocketSkipped ==
    /\ pc["app"] = "closeSocket"
    /\ Goto("app", "notify")
    /\ UNCHANGED <<state, flagVars, wsOpen, cacheVars, callVars, outVars, inVars,
                   hostVars, netVars, closeVars, job, budget>>

CloseSocket ==
    /\ pc["app"] = "closeSocket"
    /\ wsClosed' = TRUE
    /\ up' = FALSE
    /\ Goto("app", "notify")
    /\ UNCHANGED <<state, flagVars, wsOpen, cacheVars, callVars, outVars, inVars,
                   hostVars, conn, helloDue, serverReady, wire, shutdownRequested, job, budget>>

\* outgoingCV.notify_all under outgoingMutex.
NotifyOutgoing ==
    /\ pc["app"] = "notify"
    /\ pc' = [pc EXCEPT !["app"] = "join",
                        !["out"] = IF @ = "waiting" THEN "woken" ELSE @]
    /\ UNCHANGED <<state, flagVars, wsOpen, cacheVars, callVars, outVars, inVars,
                   hostVars, netVars, closeVars, job, budget>>

\* Both joins return; the session is deleted.
JoinThreads ==
    /\ pc["app"] = "join"
    /\ pc["ws"] = "exit" /\ pc["out"] = "exit"
    /\ Goto("app", "closed")
    /\ UNCHANGED <<state, flagVars, wsOpen, cacheVars, callVars, outVars, inVars,
                   hostVars, netVars, closeVars, job, budget>>

\* What the caller does as long as it keeps calling interactive_run.
RunStep ==
    \/ TakeEvents
    \/ HandleEvent
    \/ BootstrapStep("app")

CloseStep ==
    \/ CloseSocket
    \/ NotifyOutgoing
    \/ JoinThreads
===============================================================================
