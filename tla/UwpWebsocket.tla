----------------------------- MODULE UwpWebsocket -----------------------------
(***************************************************************************)
(* The websocket of UWP and Xbox, winapp_websocket: open runs on the       *)
(* incoming thread of the session and blocks until the socket is closed;   *)
(* the continuation of ConnectAsync and the handlers of MessageReceived    *)
(* and Closed run on threads of the system; close is called by the thread  *)
(* that closes the session.                                                *)
(*                                                                         *)
(* A critical section of m_socketEventMutex is one action.  A message is   *)
(* its number in the order of arrival.  Assumed of the system: a socket    *)
(* raises MessageReceived only once it is connected and Closed last, and   *)
(* the continuation may run after either.                                  *)
(***************************************************************************)
EXTENDS Integers, Sequences

CONSTANTS
    MaxOpens,         \* how many times run_incoming_thread calls open
    MaxMessages,      \* how many messages arrive over all connections
    SpuriousWakeups   \* may the condition variable wake without notification?

ASSUME UwpAssumption ==
    MaxOpens \in Nat /\ MaxMessages \in Nat /\ SpuriousWakeups \in BOOLEAN

VARIABLES
    m_connected, m_messages,  \* under m_socketEventMutex
    m_openSemaphore,          \* its count
    result,                   \* local to open, written by the continuation
    pc,                       \* where the incoming thread is
    link,                     \* the socket of the current open
    connectTask,              \* how ConnectAsync ended, until the continuation ran
    shutdownRequested,
    closer,                   \* where interactive_close_session is
    opens, arrived, delivered \* ghosts: opens so far, messages in and out

eventVars == <<m_connected, m_messages>>
openVars  == <<m_openSemaphore, result, connectTask>>
closeVars == <<shutdownRequested, closer>>
ghostVars == <<arrived, delivered>>
vars == <<eventVars, openVars, pc, link, closeVars, opens, ghostVars>>

Init ==
    /\ m_connected = FALSE /\ m_messages = <<>>
    /\ m_openSemaphore = 0 /\ result = 0 /\ connectTask = "none"
    /\ pc = "idle" /\ link = "none"
    /\ shutdownRequested = FALSE /\ closer = "none"
    /\ opens = 0 /\ arrived = <<>> /\ delivered = <<>>

\* condition_variable::notify_one with one thread that may be waiting.
NotifyOne == pc' = IF pc = "sleeping" THEN "woken" ELSE pc

-------------------------------------------------------------------------------
\* The incoming thread.

\* The loop of run_incoming_thread around open.
Again ==
    /\ pc = "returned"
    /\ pc' = "idle"
    /\ UNCHANGED <<eventVars, openVars, link, closeVars, opens, ghostVars>>

Exit ==
    /\ pc \in {"idle", "returned"}
    /\ shutdownRequested
    /\ pc' = "exit"
    /\ UNCHANGED <<eventVars, openVars, link, closeVars, opens, ghostVars>>

\* open, up to the wait: a new socket with its handlers, and ConnectAsync.
Open ==
    /\ pc = "idle"
    /\ ~shutdownRequested
    /\ opens < MaxOpens
    /\ opens' = opens + 1
    /\ result' = 0
    /\ link' = "connecting"
    /\ pc' = "waiting"
    /\ UNCHANGED <<eventVars, m_openSemaphore, connectTask, closeVars, ghostVars>>

\* Variant of SemaphoreWait for TypeOK: it counts down without waiting.
SemaphoreTake ==
    /\ pc = "waiting"
    /\ m_openSemaphore' = m_openSemaphore - 1
    /\ pc' = "opened"
    /\ UNCHANGED <<eventVars, result, connectTask, link, closeVars, opens, ghostVars>>

\* m_openSemaphore.wait()
SemaphoreWait ==
    /\ pc = "waiting"
    /\ m_openSemaphore > 0
    /\ m_openSemaphore' = m_openSemaphore - 1
    /\ pc' = "opened"
    /\ UNCHANGED <<eventVars, result, connectTask, link, closeVars, opens, ghostVars>>

\* Without the lock: did the connection succeed?
CheckOpened ==
    /\ pc = "opened"
    /\ pc' = IF result # 0 \/ ~m_connected THEN "returned" ELSE "loop"
    /\ UNCHANGED <<eventVars, openVars, link, closeVars, opens, ghostVars>>

\* Variant of Deliver for ImplementsWebsocket: the newest message first.
DeliverNewest ==
    /\ delivered' = Append(delivered, m_messages[Len(m_messages)])
    /\ m_messages' = SubSeq(m_messages, 1, Len(m_messages) - 1)
    /\ pc' = "loop"

\* front, pop and onMessage.
Deliver ==
    /\ delivered' = Append(delivered, Head(m_messages))
    /\ m_messages' = Tail(m_messages)
    /\ pc' = "loop"

\* The message loop, from its lock to the callback or to the wait.
MessageLoop ==
    /\ pc = "loop"
    /\ \/ ~m_connected /\ pc' = "returned" /\ UNCHANGED <<m_messages, delivered>>
       \/ m_connected /\ m_messages = <<>> /\ pc' = "sleeping"
             /\ UNCHANGED <<m_messages, delivered>>
       \/ m_connected /\ m_messages # <<>> /\ Deliver
    /\ UNCHANGED <<m_connected, openVars, link, closeVars, opens, arrived>>

\* wait may return without a notification.
SpuriousWakeup ==
    /\ SpuriousWakeups
    /\ pc = "sleeping"
    /\ pc' = "woken"
    /\ UNCHANGED <<eventVars, openVars, link, closeVars, opens, ghostVars>>

\* Back from the wait with the lock: closed, or take the front, there or not.
Woken ==
    /\ pc = "woken"
    /\ \/ ~m_connected /\ pc' = "returned" /\ UNCHANGED <<m_messages, delivered>>
       \/ m_connected /\ m_messages # <<>> /\ Deliver
       \/ m_connected /\ m_messages = <<>> /\ pc' = "undefined"
             /\ UNCHANGED <<m_messages, delivered>>
    /\ UNCHANGED <<m_connected, openVars, link, closeVars, opens, arrived>>

-------------------------------------------------------------------------------
\* The system's threads and the network.

\* ConnectAsync ends, one way or the other.
ConnectEnds ==
    /\ link = "connecting"
    /\ \/ link' = "open" /\ connectTask' = "connected"
       \/ link' = "none" /\ connectTask' = "failed"
    /\ UNCHANGED <<eventVars, m_openSemaphore, result, pc, closeVars, opens, ghostVars>>

\* The continuation of ConnectAsync, under the lock.
Continuation ==
    /\ connectTask # "none"
    /\ \/ connectTask = "connected" /\ m_connected' = TRUE /\ UNCHANGED result
       \/ connectTask = "failed" /\ result' = 1 /\ UNCHANGED m_connected
    /\ connectTask' = "none"
    /\ m_openSemaphore' = m_openSemaphore + 1
    /\ UNCHANGED <<m_messages, pc, link, closeVars, opens, ghostVars>>

\* Variant of on_message for AsleepMeansIdle: without notify_one.
on_message_silent ==
    /\ link = "open" /\ Len(arrived) < MaxMessages
    /\ arrived' = Append(arrived, Len(arrived) + 1)
    /\ m_messages' = Append(m_messages, Len(arrived) + 1)
    /\ UNCHANGED <<m_connected, openVars, pc, link, closeVars, opens, delivered>>

on_message ==
    /\ link = "open" /\ Len(arrived) < MaxMessages
    /\ arrived' = Append(arrived, Len(arrived) + 1)
    /\ m_messages' = Append(m_messages, Len(arrived) + 1)
    /\ NotifyOne
    /\ UNCHANGED <<m_connected, openVars, link, closeVars, opens, delivered>>

\* The server or the network ends the connection.
Lose ==
    /\ link = "open"
    /\ link' = "lost"
    /\ UNCHANGED <<eventVars, openVars, pc, closeVars, opens, ghostVars>>

\* Variant of on_close for ReleasedOnce: it releases a waiting open as well.
on_close_release ==
    /\ link = "lost" /\ link' = "none"
    /\ m_connected' = FALSE
    /\ m_openSemaphore' = m_openSemaphore + 1
    /\ NotifyOne
    /\ UNCHANGED <<m_messages, result, connectTask, closeVars, opens, ghostVars>>

\* Variant of on_close for LostEndsOpen: without notify_one.
on_close_silent ==
    /\ link = "lost" /\ link' = "none"
    /\ m_connected' = FALSE
    /\ UNCHANGED <<m_messages, openVars, pc, closeVars, opens, ghostVars>>

on_close ==
    /\ link = "lost" /\ link' = "none"
    /\ m_connected' = FALSE
    /\ NotifyOne
    /\ UNCHANGED <<m_messages, openVars, closeVars, opens, ghostVars>>

-------------------------------------------------------------------------------
\* interactive_close_session: the flag, then close, then the join.

RequestShutdown ==
    /\ closer = "none"
    /\ shutdownRequested' = TRUE
    /\ closer' = "close"
    /\ UNCHANGED <<eventVars, openVars, pc, link, opens, ghostVars>>

\* close does nothing unless m_connected.
Close ==
    /\ closer = "close"
    /\ closer' = "join"
    /\ link' = IF m_connected /\ link = "open" THEN "lost" ELSE link
    /\ UNCHANGED <<eventVars, openVars, pc, shutdownRequested, opens, ghostVars>>

-------------------------------------------------------------------------------
IncomingStep ==
    Again \/ Exit \/ Open \/ SemaphoreWait \/ CheckOpened \/ MessageLoop \/ Woken

Next ==
    \/ IncomingStep
    \/ SpuriousWakeup
    \/ ConnectEnds
    \/ Continuation
    \/ on_message
    \/ Lose
    \/ on_close
    \/ RequestShutdown
    \/ Close

Spec == Init /\ [][Next]_vars

\* Threads that can run do, an attempt to connect ends, and a socket that is
\* closed says so.  Nobody has to send, to disconnect or to close the session.
Fairness ==
    /\ WF_vars(IncomingStep)
    /\ WF_vars(ConnectEnds)
    /\ WF_vars(Continuation)
    /\ WF_vars(on_close)
    /\ WF_vars(Close)

FairSpec == Spec /\ Fairness

-------------------------------------------------------------------------------
TypeOK ==
    /\ m_connected \in BOOLEAN /\ m_messages \in Seq(Nat)
    /\ m_openSemaphore \in Nat /\ result \in {0, 1}
    /\ connectTask \in {"none", "connected", "failed"}
    /\ pc \in {"idle", "waiting", "opened", "loop", "sleeping", "woken", "returned",
               "exit", "undefined"}
    /\ link \in {"none", "connecting", "open", "lost"}
    /\ shutdownRequested \in BOOLEAN /\ closer \in {"none", "close", "join"}
    /\ opens \in Nat /\ arrived \in Seq(Nat) /\ delivered \in Seq(Nat)

\* Each open waits for its own continuation and for nothing else: the semaphore
\* is empty unless open is waiting for it, and a continuation that is still to
\* run finds the frame of open, whose result it writes by reference, alive (open).
ReleasedOnce ==
    /\ link = "connecting" \/ connectTask # "none" => pc = "waiting" /\ m_openSemaphore = 0
    /\ pc # "waiting" => m_openSemaphore = 0
    /\ m_openSemaphore <= 1

\* open sleeps only while it is connected with no message to deliver: whatever
\* arrives between its test and its wait, or closes the socket, wakes it (open,
\* on_message, on_close).
AsleepMeansIdle ==
    pc = "sleeping" => m_connected /\ m_messages = <<>>

\* The thread that calls open, and the messages on their way to it.
Interface == INSTANCE Websocket WITH
    phase <- CASE pc \in {"waiting", "opened"} -> "opening"
               [] pc \in {"loop", "sleeping", "woken", "undefined"} -> "open"
               [] OTHER -> "closed",
    inbox <- m_messages,
    given <- delivered

\* Every step of the four threads is a step of Websocket: onMessage sees the messages in
\* the order of their arrival, each once, also across connections, only inside an open
\* that has connected, and no message arrives outside of one (on_message, open).
ImplementsWebsocket == Interface!Spec

\* What is delivered and what waits is what arrived, in that order.
InOrder == delivered \o m_messages = arrived

\* A connection that is lost after its open has learned of it ends that open,
\* unless a spurious wakeup came first (on_close, open).
LostEndsOpen ==
    link = "lost" /\ m_connected ~> pc \in {"returned", "undefined"}

\* "Wait for both threads to terminate": closing the session ends open.
CloseTerminates == shutdownRequested ~> pc = "exit"
===============================================================================
