---------------------------- MODULE OutgoingThread ----------------------------
(***************************************************************************)
(* run_outgoing_thread: waits on outgoingCV for queued methods, swaps them *)
(* into its own processingEvents and sends them over the websocket.        *)
(*                                                                         *)
(* The queue holds rpc_method events only: queue_request, which would add  *)
(* http requests, is called from nowhere.  Reading wsOpen = FALSE the loop *)
(* starts again at once; it is modelled as waiting for wsOpen.             *)
(***************************************************************************)
EXTENDS SessionState

\* The outer loop: shutdown, the sleep before a retry, or the lock.
OutgoingLoop ==
    /\ pc["out"] = "top"
    /\ Goto("out", IF shutdownRequested THEN "exit"
                   ELSE IF processingEvents = <<>> THEN "check" ELSE "send")
    /\ UNCHANGED <<state, flagVars, wsOpen, cacheVars, callVars, outVars, inVars,
                   hostVars, netVars, closeVars, job, budget>>

\* Variant of TakeOrWait for ImplementsMethodCalls: the queue is copied, not swapped.
TakeOrWaitByCopy ==
    /\ pc["out"] = "check"
    /\ IF outgoingEvents = <<>>
          THEN Goto("out", "waiting") /\ UNCHANGED processingEvents
          ELSE processingEvents' = outgoingEvents /\ Goto("out", "send")
    /\ UNCHANGED <<state, flagVars, wsOpen, cacheVars, callVars, outgoingEvents, inVars,
                   hostVars, netVars, closeVars, job, budget>>

\* Under outgoingMutex: wait if there is nothing to send, else take it all.
TakeOrWait ==
    /\ pc["out"] = "check"
    /\ IF outgoingEvents = <<>>
          THEN Goto("out", "waiting") /\ UNCHANGED outVars
          ELSE /\ processingEvents' = outgoingEvents
               /\ outgoingEvents' = processingEvents
               /\ Goto("out", "send")
    /\ UNCHANGED <<state, flagVars, wsOpen, cacheVars, callVars, inVars, hostVars,
                   netVars, closeVars, job, budget>>

\* condition_variable::wait may return without a notification.
SpuriousWakeup ==
    /\ pc["out"] = "waiting"
    /\ Goto("out", "woken")
    /\ UNCHANGED <<state, flagVars, wsOpen, cacheVars, callVars, outVars, inVars,
                   hostVars, netVars, closeVars, job, budget>>

\* Back from the wait, under outgoingMutex again.
Woken ==
    /\ pc["out"] = "woken"
    /\ IF shutdownRequested
          THEN Goto("out", "exit") /\ UNCHANGED outVars
          ELSE /\ processingEvents' = outgoingEvents
               /\ outgoingEvents' = processingEvents
               /\ Goto("out", "send")
    /\ UNCHANGED <<state, flagVars, wsOpen, cacheVars, callVars, inVars, hostVars,
                   netVars, closeVars, job, budget>>

\* Variant of NextMethod for ClosesUnlessMissed: shutdownRequested is not read.
NextMethodUntilEmpty ==
    /\ pc["out"] = "send"
    /\ \/ processingEvents = <<>> /\ Goto("out", "top")
       \/ processingEvents # <<>> /\ wsOpen /\ Goto("out", "sending")
    /\ UNCHANGED <<state, flagVars, wsOpen, cacheVars, callVars, outVars, inVars,
                   hostVars, netVars, closeVars, job, budget>>

\* The condition that ends the inner loop.
NothingToSend == processingEvents = <<>> \/ shutdownRequested

\* The inner loop, up to the call of ws->send.
NextMethod ==
    /\ pc["out"] = "send"
    /\ \/ /\ NothingToSend
          /\ Goto("out", "top")
       \/ /\ ~NothingToSend
          /\ wsOpen
          /\ Goto("out", "sending")
    /\ UNCHANGED <<state, flagVars, wsOpen, cacheVars, callVars, outVars, inVars,
                   hostVars, netVars, closeVars, job, budget>>

\* Variant of SendMethod for OnePlace: the method is sent but not popped.
SendMethodAgain ==
    /\ pc["out"] = "sending"
    /\ ~wsClosed /\ up
    /\ wire' = Append(wire, Head(processingEvents))
    /\ Goto("out", "send")
    /\ UNCHANGED <<state, flagVars, wsOpen, cacheVars, callVars, outVars, inVars,
                   hostVars, conn, up, helloDue, serverReady, closeVars, job, budget>>

\* ws->send succeeds.  The server answers in the order of the methods; what is
\* sent on a connection that is already broken is lost.
SendMethod ==
    /\ pc["out"] = "sending"
    /\ ~wsClosed
    /\ processingEvents' = Tail(processingEvents)
    /\ IF up
          THEN LET p == Head(processingEvents) IN
               /\ wire' = Append(wire, p)
               /\ serverReady' = IF Replied(p) THEN serverReady ELSE p.kind = "ready"
          ELSE UNCHANGED <<wire, serverReady>>
    /\ Goto("out", "send")
    /\ UNCHANGED <<state, flagVars, wsOpen, cacheVars, callVars, outgoingEvents,
                   inVars, hostVars, conn, up, helloDue, closeVars, job, budget>>

\* Variant of SendFails for ThreadOrder: the method to retry goes to the back.
SendFailsToBack ==
    /\ pc["out"] = "sending"
    /\ ~wsClosed /\ ~up /\ Spend("sendFail")
    /\ processingEvents' = Append(Tail(processingEvents), Head(processingEvents))
    /\ Goto("out", "send")
    /\ UNCHANGED <<state, flagVars, wsOpen, cacheVars, callVars, outgoingEvents, inVars,
                   hostVars, netVars, closeVars, job>>

\* ws->send fails: an error event, and the method stays in front.  After close
\* it fails without touching the network.
SendFails ==
    /\ pc["out"] = "sending"
    /\ \/ ~wsClosed /\ ~up /\ Spend("sendFail")
       \/ wsClosed /\ UNCHANGED budget
    /\ incomingEvents' = incomingEvents \union {ErrorEvent("WS_SEND_FAILED", budget["sendFail"])}
    /\ Goto("out", "send")
    /\ UNCHANGED <<state, flagVars, wsOpen, cacheVars, callVars, outVars,
                   processingQueue, hostVars, netVars, closeVars, job>>

OutgoingStep ==
    \/ OutgoingLoop
    \/ TakeOrWait
    \/ Woken
    \/ NextMethod
    \/ SendMethod
    \/ SendFails
===============================================================================
