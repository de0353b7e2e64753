------------------------------- MODULE Bootstrap -------------------------------
(***************************************************************************)
(* queue_method and bootstrap, which run on whichever thread calls them:   *)
(* on the caller's thread from interactive_run and from the API, and on    *)
(* the incoming thread from the reply to getTime, whose handler is marked  *)
(* handleImmediately.                                                      *)
(***************************************************************************)
EXTENDS SessionState

\* Where a thread continues after queue_method or bootstrap returns.
Return(t) == IF t = "app" THEN "idle" ELSE "recv"

\* create_method_json: take a packet id.  A method with a reply handler is
\* registered before it is queued.
CreateMethod(t, kind) ==
    LET p == [id |-> packetId, kind |-> kind, by |-> t]
    IN  /\ packetId' = packetId + 1
        /\ job' = [job EXCEPT ![t] = p]
        /\ Goto(t, IF Replied(p) THEN "register" ELSE "enqueue")

\* queue_method, first critical section (incomingMutex).
RegisterHandler(t) ==
    /\ pc[t] = "register"
    /\ replyHandlersById' = replyHandlersById \union {[id |-> job[t].id, kind |-> job[t].kind]}
    /\ Goto(t, "enqueue")
    /\ UNCHANGED <<state, flagVars, wsOpen, cacheVars, packetId, outVars, inVars,
                   hostVars, netVars, closeVars, job, budget>>

\* Variant of QueueMethod for NoSleepOnWork and EventuallyConnected: no notify_one.
QueueMethodSilently(t) ==
    /\ pc[t] = "enqueue"
    /\ outgoingEvents' = Append(outgoingEvents, job[t])
    /\ job' = [job EXCEPT ![t] = IF @.kind = "getTime" THEN @ ELSE NoPacket]
    /\ Goto(t, IF job[t].kind = "getTime" THEN "stamp" ELSE Return(t))
    /\ UNCHANGED <<state, flagVars, wsOpen, cacheVars, callVars, processingEvents,
                   inVars, hostVars, netVars, closeVars, budget>>

\* queue_method, second critical section (outgoingMutex), with its notify_one.
QueueMethod(t) ==
    /\ pc[t] = "enqueue"
    /\ outgoingEvents' = Append(outgoingEvents, job[t])
    /\ job' = [job EXCEPT ![t] = IF @.kind = "getTime" THEN @ ELSE NoPacket]
    /\ pc' = [pc EXCEPT ![t] = IF job[t].kind = "getTime" THEN "stamp" ELSE Return(t),
                        !["out"] = IF @ = "waiting" THEN "woken" ELSE @]
    /\ UNCHANGED <<state, flagVars, wsOpen, cacheVars, callVars, processingEvents,
                   inVars, hostVars, netVars, closeVars, budget>>

\* update_server_time_offset takes the time the request was sent once the
\* request is queued.
StampTime(t) ==
    /\ pc[t] = "stamp"
    /\ getTimeSent' = job[t].id + 1
    /\ job' = [job EXCEPT ![t] = NoPacket]
    /\ Goto(t, Return(t))
    /\ UNCHANGED <<state, flagVars, wsOpen, scenesFrom, groupsFrom, callVars, outVars,
                   inVars, hostVars, netVars, closeVars, budget>>

-------------------------------------------------------------------------------
\* bootstrap reads the flags one after the other: the other thread may write
\* one between two reads.
CheckTime(t) ==
    /\ pc[t] = "bootstrap"
    /\ IF serverTimeOffsetCalculated
          THEN Goto(t, "scenes") /\ UNCHANGED <<packetId, job>>
          ELSE CreateMethod(t, "getTime")
    /\ UNCHANGED <<state, flagVars, wsOpen, cacheVars, replyHandlersById, outVars,
                   inVars, hostVars, netVars, closeVars, budget>>

CheckScenes(t) ==
    /\ pc[t] = "scenes"
    /\ IF scenesCached
          THEN Goto(t, "groups") /\ UNCHANGED <<packetId, job>>
          ELSE CreateMethod(t, "getScenes")
    /\ UNCHANGED <<state, flagVars, wsOpen, cacheVars, replyHandlersById, outVars,
                   inVars, hostVars, netVars, closeVars, budget>>

CheckGroups(t) ==
    /\ pc[t] = "groups"
    /\ IF groupsCached
          THEN Goto(t, "complete") /\ UNCHANGED <<packetId, job>>
          ELSE CreateMethod(t, "getGroups")
    /\ UNCHANGED <<state, flagVars, wsOpen, cacheVars, replyHandlersById, outVars,
                   inVars, hostVars, netVars, closeVars, budget>>

\* Bootstrapping complete: state, onStateChanged, and the ready message if the
\* session was connected with setReady.
Complete(t) ==
    /\ pc[t] = "complete"
    /\ state' = "connected"
    /\ IF IsReady
          THEN CreateMethod(t, "ready")
          ELSE Goto(t, Return(t)) /\ UNCHANGED <<packetId, job>>
    /\ UNCHANGED <<flagVars, wsOpen, cacheVars, replyHandlersById, outVars, inVars,
                   hostVars, netVars, closeVars, budget>>

BootstrapStep(t) ==
    \/ CheckTime(t)
    \/ CheckScenes(t)
    \/ CheckGroups(t)
    \/ Complete(t)
    \/ RegisterHandler(t)
    \/ QueueMethod(t)
    \/ StampTime(t)
===============================================================================
