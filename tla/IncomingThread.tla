---------------------------- MODULE IncomingThread ----------------------------
(***************************************************************************)
(* run_incoming_thread and the callbacks ws->open makes on it: it gets the *)
(* list of hosts, opens a websocket to each in turn, receives messages for *)
(* as long as the websocket is open, and resets the session when it is     *)
(* lost.  Sleeping is a step without effect and is left out.               *)
(***************************************************************************)
EXTENDS Bootstrap

DefaultRetryFrequency == 1
MaxRetryFrequency == 8

\* The head of the loop, with get_interactive_hosts when the list is used up.
\* The request may fail (no event) or answer with another status than 200.
GetHosts ==
    /\ pc["ws"] = "top"
    /\ \/ /\ shutdownRequested
          /\ Goto("ws", "exit")
          /\ UNCHANGED <<hosts, incomingEvents, budget>>
       \/ /\ ~shutdownRequested /\ hosts > 0
          /\ Goto("ws", "connect")
          /\ UNCHANGED <<hosts, incomingEvents, budget>>
       \/ /\ ~shutdownRequested /\ hosts = 0
          /\ hosts' \in 1..MaxHosts
          /\ Goto("ws", "connect")
          /\ UNCHANGED <<incomingEvents, budget>>
       \/ /\ ~shutdownRequested /\ hosts = 0
          /\ Spend("connectFail")
          /\ incomingEvents' \in {incomingEvents,
                 incomingEvents \union {ErrorEvent("NO_HOST", budget["connectFail"])}}
          /\ UNCHANGED <<hosts, pc>>
    /\ UNCHANGED <<state, flagVars, wsOpen, cacheVars, callVars, outVars,
                   processingQueue, connectionRetryFrequency, openError, netVars,
                   closeVars, job>>

\* ws->open connects; handle_ws_open runs and the server says hello.
OpenSucceeds ==
    /\ pc["ws"] = "connect"
    /\ conn < MaxConns
    /\ conn' = conn + 1
    /\ up' = TRUE
    /\ helloDue' = TRUE
    /\ serverReady' = FALSE
    /\ wsOpen' = TRUE
    /\ Goto("ws", "recv")
    /\ UNCHANGED <<state, flagVars, cacheVars, callVars, outVars, inVars, hostVars,
                   wire, closeVars, job, budget>>

\* ws->open returns an error without having connected.
OpenFails ==
    /\ pc["ws"] = "connect"
    /\ Spend("connectFail")
    /\ openError' = TRUE
    /\ Goto("ws", "returned")
    /\ UNCHANGED <<state, flagVars, wsOpen, cacheVars, callVars, outVars, inVars,
                   hosts, connectionRetryFrequency, netVars, closeVars, job>>

\* The connection breaks.  What the server sent before may still be received.
Break ==
    /\ up /\ conn < MaxConns
    /\ up' = FALSE
    /\ UNCHANGED <<state, flagVars, wsOpen, cacheVars, callVars, outVars, inVars,
                   hostVars, conn, helloDue, serverReady, wire, closeVars, pc, job, budget>>

-------------------------------------------------------------------------------
\* handle_ws_message: a message is dropped after shutdown, a method is queued
\* for interactive_run.
ReceiveHello ==
    /\ pc["ws"] = "recv"
    /\ helloDue
    /\ helloDue' = FALSE
    /\ incomingEvents' = IF shutdownRequested THEN incomingEvents
                         ELSE incomingEvents \union {MethodEvent("hello", 0)}
    /\ UNCHANGED <<state, flagVars, wsOpen, cacheVars, callVars, outVars,
                   processingQueue, hostVars, conn, up, serverReady, wire, closeVars, pc, job, budget>>

\* A method the server sends on its own; input is given only while it has been
\* told that the session is ready.
ReceivePush ==
    /\ pc["ws"] = "recv"
    /\ up /\ ~helloDue
    /\ Spend("push")
    /\ \E m \in Pushes :
          /\ m = "badInput" => serverReady
          /\ incomingEvents' = IF shutdownRequested THEN incomingEvents
                               ELSE incomingEvents \union {MethodEvent(m, budget["push"])}
    /\ UNCHANGED <<state, flagVars, wsOpen, cacheVars, callVars, outVars,
                   processingQueue, hostVars, netVars, closeVars, pc, job>>

\* The server answers ready with the method onReady.
ReceiveReady ==
    /\ pc["ws"] = "recv"
    /\ ~helloDue /\ wire # <<>> /\ ~Replied(Head(wire))
    /\ wire' = Tail(wire)
    /\ incomingEvents' = IF shutdownRequested THEN incomingEvents
                         ELSE incomingEvents \union {MethodEvent(Head(wire).kind, Head(wire).id)}
    /\ UNCHANGED <<state, flagVars, wsOpen, cacheVars, callVars, outVars,
                   processingQueue, hostVars, conn, up, helloDue, serverReady, closeVars, pc, job,
                   budget>>

\* handle_ws_message, a reply: its handler leaves replyHandlersById; the one of
\* getTime runs here and goes on to bootstrap, the others run in interactive_run.
ReceiveReply ==
    /\ pc["ws"] = "recv"
    /\ ~helloDue /\ wire # <<>> /\ Replied(Head(wire))
    /\ wire' = Tail(wire)
    /\ LET found == IF shutdownRequested THEN {}
                    ELSE {h \in replyHandlersById : h.id = Head(wire).id}
           now   == {h \in found : h.kind = "getTime"}
       IN  /\ replyHandlersById' = replyHandlersById \ found
           /\ incomingEvents' = incomingEvents \union {ReplyEvent(h) : h \in found \ now}
           /\ serverTimeOffsetCalculated' = (serverTimeOffsetCalculated \/ now # {})
           /\ IF now # {} THEN Goto("ws", "bootstrap") ELSE UNCHANGED pc
    /\ UNCHANGED <<state, scenesCached, groupsCached, wsOpen, cacheVars, packetId,
                   outVars, processingQueue, hostVars, conn, up, helloDue, serverReady, closeVars,
                   job, budget>>

\* A reply to getTime without a time: its handler returns an error that nobody
\* looks at, and the bootstrap ends there.
ReceiveTimeError ==
    /\ pc["ws"] = "recv"
    /\ ~helloDue /\ wire # <<>> /\ Head(wire).kind = "getTime"
    /\ ~shutdownRequested
    /\ Spend("timeError")
    /\ wire' = Tail(wire)
    /\ replyHandlersById' = {h \in replyHandlersById : h.id # Head(wire).id}
    /\ UNCHANGED <<state, flagVars, wsOpen, cacheVars, packetId, outVars, inVars,
                   hostVars, conn, up, helloDue, serverReady, closeVars, pc, job>>

\* ws->open returns: with an error when the connection broke, with 0 when the
\* server sent a close frame or the websocket was closed on this side.
OpenReturns ==
    /\ pc["ws"] = "recv"
    /\ \/ ~up /\ ~wsClosed /\ openError' = TRUE
       \/ CleanClose /\ up /\ conn < MaxConns /\ openError' = FALSE
       \/ wsClosed /\ openError' = FALSE
    /\ up' = FALSE
    /\ helloDue' = FALSE
    /\ serverReady' = FALSE
    /\ wire' = <<>>
    /\ Goto("ws", "returned")
    /\ UNCHANGED <<state, flagVars, wsOpen, cacheVars, callVars, outVars, inVars,
                   hosts, connectionRetryFrequency, conn, closeVars, job, budget>>

-------------------------------------------------------------------------------
\* What run_incoming_thread does with the result of ws->open.
AfterOpen ==
    /\ pc["ws"] = "returned"
    /\ \/ /\ shutdownRequested
          /\ Goto("ws", "exit")
          /\ UNCHANGED <<incomingEvents, wsOpen, connectionRetryFrequency>>
       \/ /\ ~shutdownRequested /\ ~openError
          /\ Goto("ws", "next")
          /\ UNCHANGED <<incomingEvents, wsOpen, connectionRetryFrequency>>
       \/ /\ ~shutdownRequested /\ openError /\ ~wsOpen
          /\ incomingEvents' = incomingEvents \union
                 {ErrorEvent("WS_CONNECT_FAILED", budget["connectFail"])}
          /\ Goto("ws", "next")
          /\ UNCHANGED <<wsOpen, connectionRetryFrequency>>
       \/ /\ ~shutdownRequested /\ openError /\ wsOpen
          /\ wsOpen' = FALSE
          /\ connectionRetryFrequency' = DefaultRetryFrequency
          /\ incomingEvents' = incomingEvents \union {ErrorEvent("WS_CLOSED", 0)}
          /\ Goto("ws", "clear")
    /\ UNCHANGED <<state, flagVars, cacheVars, callVars, outVars, processingQueue,
                   hosts, openError, netVars, closeVars, job, budget>>

\* Variant of ClearMethods for HandlerRegistered: the reply handlers go too, while
\* the outgoing thread still holds methods it has taken.
ClearMethodsAndHandlers ==
    /\ pc["ws"] = "clear"
    /\ outgoingEvents' = <<>>
    /\ replyHandlersById' = {}
    /\ Goto("ws", "resetTime")
    /\ UNCHANGED <<state, flagVars, wsOpen, cacheVars, packetId, processingEvents,
                   inVars, hostVars, netVars, closeVars, job, budget>>

\* The reset after a lost connection: the queued methods, the three flags one
\* by one, and the state change, which interactive_run applies.
ClearMethods ==
    /\ pc["ws"] = "clear"
    /\ outgoingEvents' = <<>>
    /\ Goto("ws", "resetTime")
    /\ UNCHANGED <<state, flagVars, wsOpen, cacheVars, callVars, processingEvents,
                   inVars, hostVars, netVars, closeVars, job, budget>>

\* Variant of ResetFlags for ResetBeforeOpen: the clock is not asked for again.
ResetCachesOnly ==
    /\ pc["ws"] = "resetTime"
    /\ groupsCached' = FALSE /\ scenesCached' = FALSE
    /\ Goto("ws", "announce")
    /\ UNCHANGED <<state, serverTimeOffsetCalculated, wsOpen, cacheVars, callVars,
                   outVars, inVars, hostVars, netVars, closeVars, job, budget>>

\* The flags bootstrap reads.
ResetFlags ==
    /\ \/ /\ pc["ws"] = "resetTime"
          /\ serverTimeOffsetCalculated' = FALSE
          /\ Goto("ws", "resetGroups")
          /\ UNCHANGED <<groupsCached, scenesCached>>
       \/ /\ pc["ws"] = "resetGroups"
          /\ groupsCached' = FALSE
          /\ Goto("ws", "resetScenes")
          /\ UNCHANGED <<serverTimeOffsetCalculated, scenesCached>>
       \/ /\ pc["ws"] = "resetScenes"
          /\ scenesCached' = FALSE
          /\ Goto("ws", "announce")
          /\ UNCHANGED <<serverTimeOffsetCalculated, groupsCached>>
    /\ UNCHANGED <<state, wsOpen, cacheVars, callVars, outVars, inVars, hostVars,
                   netVars, closeVars, job, budget>>

\* Variant of AnnounceReset for ConnectedMeansBootstrapped: no state change.
ResetSilently ==
    /\ pc["ws"] = "announce"
    /\ Goto("ws", "next")
    /\ UNCHANGED <<state, flagVars, wsOpen, cacheVars, callVars, outVars, inVars,
                   hostVars, netVars, closeVars, job, budget>>

AnnounceReset ==
    /\ pc["ws"] = "announce"
    /\ incomingEvents' = incomingEvents \union {StateChangeEvent("connecting")}
    /\ Goto("ws", "next")
    /\ UNCHANGED <<state, flagVars, wsOpen, cacheVars, callVars, outVars,
                   processingQueue, hostVars, netVars, closeVars, job, budget>>

\* Variant of NextHost for TypeOK: a host that could not be reached is skipped
\* twice, past the end of the list.
NextHostTwice ==
    /\ pc["ws"] = "next"
    /\ hosts' = IF wsOpen THEN hosts - 1 ELSE hosts - 2
    /\ UNCHANGED connectionRetryFrequency
    /\ Goto("ws", "top")
    /\ UNCHANGED <<state, flagVars, wsOpen, cacheVars, callVars, outVars, inVars,
                   openError, netVars, closeVars, job, budget>>

\* ++hostItr; after the last host the list is dropped and, once the thread has
\* slept, the retry frequency doubles up to its maximum.
NextHost ==
    /\ pc["ws"] = "next"
    /\ hosts' = hosts - 1
    /\ connectionRetryFrequency' =
          IF hosts = 1 THEN Smaller(MaxRetryFrequency, 2 * connectionRetryFrequency)
                       ELSE connectionRetryFrequency
    /\ Goto("ws", "top")
    /\ UNCHANGED <<state, flagVars, wsOpen, cacheVars, callVars, outVars, inVars,
                   openError, netVars, closeVars, job, budget>>

IncomingStep ==
    \/ GetHosts
    \/ OpenSucceeds
    \/ OpenFails
    \/ ReceiveHello
    \/ ReceiveReady
    \/ ReceiveReply
    \/ OpenReturns
    \/ AfterOpen
    \/ ClearMethods
    \/ ResetFlags
    \/ AnnounceReset
    \/ NextHost
    \/ BootstrapStep("ws")
===============================================================================
