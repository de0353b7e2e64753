--------------------------- MODULE DesktopWebsocket ---------------------------
(***************************************************************************)
(* The websocket of desktop Windows, ws_client: open runs on the incoming  *)
(* thread of the session and receives until the connection ends; send and  *)
(* close are called by two other threads, at any moment, as the interface  *)
(* of websocket.h allows.                                                  *)
(*                                                                         *)
(* A handle of WinHTTP is the number of its open, 0 for none.  The server  *)
(* numbers its text messages and their buffers, so that one can tell what  *)
(* onMessage is given.                                                     *)
(***************************************************************************)
EXTENDS Naturals, Sequences

CONSTANTS
    MaxOpens,    \* how many times run_incoming_thread calls open
    MaxBuffers,  \* how many buffers the server sends on a connection
    MaxSends     \* how many times send is called

ASSUME DesktopAssumption ==
    MaxOpens \in Nat /\ MaxBuffers \in Nat /\ MaxSends \in Nat

VARIABLES
    m_open, m_opening, m_closed,
    m_openMutex,         \* TRUE while open holds it
    m_websocketHandle,
    pc,                  \* where open is, or how it ended
    message,             \* local to open: the buffers of the message so far
    delivered,           \* ghost: what onMessage was given on this connection
    link, handle,        \* the connection under the current open, and its handle
    nextBuffer,          \* what the server sends next
    buffers,             \* how many it has sent on this connection
    sendPc, sends,
    closer,              \* where close is
    handshakeFailed      \* ghost: has an open failed?

flagVars   == <<m_open, m_opening, m_closed>>
handleVars == <<m_openMutex, m_websocketHandle>>
readVars   == <<message, delivered>>
linkVars   == <<link, handle, nextBuffer, buffers>>
sendVars   == <<sendPc, sends>>
vars == <<flagVars, handleVars, pc, readVars, linkVars, sendVars, closer, handshakeFailed>>

FirstBuffer == [msg |-> 1, part |-> 1]

Init ==
    /\ m_open = FALSE /\ m_opening = FALSE /\ m_closed = FALSE
    /\ m_openMutex = FALSE /\ m_websocketHandle = 0
    /\ pc = "idle" /\ message = <<>> /\ delivered = <<>>
    /\ link = "none" /\ handle = 0 /\ nextBuffer = FirstBuffer /\ buffers = 0
    /\ sendPc = "idle" /\ sends = 0
    /\ closer = "idle"
    /\ handshakeFailed = FALSE

-------------------------------------------------------------------------------
\* open.

\* Variant of OpenLock for AbortMeansFailed: without m_openMutex.
OpenUnlocked ==
    /\ pc = "idle"
    /\ handle < MaxOpens
    /\ m_opening' = TRUE
    /\ handle' = handle + 1 /\ link' = "connecting"
    /\ nextBuffer' = FirstBuffer /\ buffers' = 0
    /\ message' = <<>> /\ delivered' = <<>>
    /\ pc' = "handshake"
    /\ UNCHANGED <<m_open, m_closed, handleVars, sendVars, closer, handshakeFailed>>

\* Variant of OpenLock for ImplementsWebsocket: message outlives the connection.
OpenKeepingMessage ==
    /\ pc = "idle"
    /\ handle < MaxOpens
    /\ m_openMutex' = TRUE
    /\ m_opening' = TRUE
    /\ handle' = handle + 1 /\ link' = "connecting"
    /\ nextBuffer' = FirstBuffer /\ buffers' = 0
    /\ delivered' = <<>>
    /\ pc' = "handshake"
    /\ UNCHANGED <<m_open, m_closed, m_websocketHandle, message, sendVars, closer, handshakeFailed>>

\* Under m_openMutex, up to the requests of the handshake; message is new.
OpenLock ==
    /\ pc = "idle"
    /\ handle < MaxOpens
    /\ m_openMutex' = TRUE
    /\ m_opening' = TRUE
    /\ handle' = handle + 1 /\ link' = "connecting"
    /\ nextBuffer' = FirstBuffer /\ buffers' = 0
    /\ message' = <<>> /\ delivered' = <<>>
    /\ pc' = "handshake"
    /\ UNCHANGED <<m_open, m_closed, m_websocketHandle, sendVars, closer, handshakeFailed>>

\* One of the early returns: m_opening stays set.
HandshakeFails ==
    /\ pc = "handshake"
    /\ m_openMutex' = FALSE
    /\ link' = "none"
    /\ pc' = "failed"
    /\ handshakeFailed' = TRUE
    /\ UNCHANGED <<flagVars, m_websocketHandle, readVars, handle, nextBuffer, buffers,
                   sendVars, closer>>

\* Variant of Upgraded for SendOnUpgraded: the handle stays in its local variable.
UpgradedLocally ==
    /\ pc = "handshake"
    /\ link' = "up"
    /\ m_opening' = FALSE
    /\ pc' = "upgraded"
    /\ UNCHANGED <<m_open, m_closed, handleVars, readVars, handle, nextBuffer, buffers,
                   sendVars, closer, handshakeFailed>>

\* The upgrade succeeds: the handle is kept, m_opening reset.
Upgraded ==
    /\ pc = "handshake"
    /\ link' = "up"
    /\ m_websocketHandle' = handle
    /\ m_opening' = FALSE
    /\ pc' = "upgraded"
    /\ UNCHANGED <<m_open, m_closed, m_openMutex, readVars, handle, nextBuffer, buffers,
                   sendVars, closer, handshakeFailed>>

\* m_open is set, onConnect called and the lock given up.
Connected ==
    /\ pc = "upgraded"
    /\ m_open' = TRUE
    /\ m_openMutex' = FALSE
    /\ pc' = "loop"
    /\ UNCHANGED <<m_opening, m_closed, m_websocketHandle, readVars, linkVars, sendVars,
                   closer, handshakeFailed>>

\* while (!m_closed)
Loop ==
    /\ pc = "loop"
    /\ pc' = IF m_closed THEN "ended" ELSE "receive"
    /\ UNCHANGED <<flagVars, handleVars, readVars, linkVars, sendVars, closer, handshakeFailed>>

Receive ==
    /\ pc = "receive"
    /\ UNCHANGED <<flagVars, handleVars, sendVars, closer, handshakeFailed>>

\* Variant of Extended for TypeOK: a buffer is kept without its text.
ExtendedByPart == Append(message, [part |-> nextBuffer.part])

\* message << buffer
Extended == Append(message, nextBuffer)

\* A buffer with text, the last one of its message or a fragment.
ReceiveText ==
    /\ Receive
    /\ link = "up" /\ buffers < MaxBuffers
    /\ buffers' = buffers + 1
    /\ \/ /\ message' = <<>> /\ delivered' = Append(delivered, Extended)
          /\ nextBuffer' = [msg |-> nextBuffer.msg + 1, part |-> 1]
       \/ /\ message' = Extended /\ UNCHANGED delivered
          /\ nextBuffer' = [nextBuffer EXCEPT !.part = @ + 1]
    /\ pc' = "loop"
    /\ UNCHANGED <<link, handle>>

\* A binary buffer is skipped; the server sends none between two fragments.
ReceiveBinary ==
    /\ Receive
    /\ link = "up" /\ buffers < MaxBuffers /\ nextBuffer.part = 1
    /\ buffers' = buffers + 1
    /\ pc' = "loop"
    /\ UNCHANGED <<readVars, link, handle, nextBuffer>>

\* The server's close frame, or close on this side: onClose, and open returns 0.
ReceiveClose ==
    /\ Receive
    /\ link = "closed" \/ (link = "up" /\ handle < MaxOpens)
    /\ link' = "none"
    /\ pc' = "ended"
    /\ UNCHANGED <<readVars, handle, nextBuffer, buffers>>

\* The connection broke: open returns the error.
ReceiveError ==
    /\ Receive
    /\ link = "down"
    /\ link' = "none"
    /\ pc' = "failed"
    /\ UNCHANGED <<readVars, handle, nextBuffer, buffers>>

\* run_incoming_thread goes on to its next open.
Again ==
    /\ pc \in {"ended", "failed"}
    /\ handle < MaxOpens
    /\ pc' = "idle"
    /\ UNCHANGED <<flagVars, handleVars, readVars, linkVars, sendVars, closer, handshakeFailed>>

-------------------------------------------------------------------------------
\* The network; the last connection does not break.
Break ==
    /\ link = "up" /\ pc \in {"upgraded", "loop", "receive"}
    /\ handle < MaxOpens
    /\ link' = "down"
    /\ UNCHANGED <<flagVars, handleVars, pc, readVars, handle, nextBuffer, buffers, sendVars,
                   closer, handshakeFailed>>

-------------------------------------------------------------------------------
\* send.

SendStep == UNCHANGED <<flagVars, handleVars, pc, readVars, linkVars, closer, handshakeFailed>>

\* Its tests of m_closed and m_open.
Send ==
    /\ sendPc = "idle" /\ sends < MaxSends
    /\ sends' = sends + 1
    /\ sendPc' = IF m_closed THEN "idle" ELSE IF m_open THEN "sending" ELSE "polling"
    /\ SendStep

\* It polls for an open to begin.
SendPoll ==
    /\ sendPc = "polling"
    /\ m_opening
    /\ sendPc' = "locking"
    /\ UNCHANGED sends
    /\ SendStep

\* Under m_openMutex: E_ABORT unless the open succeeded.
SendLock ==
    /\ sendPc = "locking"
    /\ ~m_openMutex
    /\ sendPc' = IF m_open THEN "sending" ELSE "idle"
    /\ UNCHANGED sends
    /\ SendStep

\* WinHttpWebSocketSend, with or without success.
SendOnHandle ==
    /\ sendPc = "sending"
    /\ sendPc' = "idle"
    /\ UNCHANGED sends
    /\ SendStep

-------------------------------------------------------------------------------
\* close, which is called once.

CloseStep == UNCHANGED <<m_open, m_opening, handleVars, pc, readVars, handle, nextBuffer, buffers,
                         sendVars, handshakeFailed>>

\* Variant of CloseFlag for CloseEndsOpen: nothing unless it is open.
CloseFlagIfOpen ==
    /\ closer = "idle"
    /\ m_closed' = m_open
    /\ closer' = "flagged"
    /\ UNCHANGED link
    /\ CloseStep

CloseFlag ==
    /\ closer = "idle"
    /\ m_closed' = TRUE
    /\ closer' = "flagged"
    /\ UNCHANGED link
    /\ CloseStep

\* WinHttpWebSocketClose with the handle there is: receive is cancelled.
CloseHandle ==
    /\ closer = "flagged"
    /\ UNCHANGED m_closed
    /\ link' = IF m_websocketHandle = handle /\ link = "up" THEN "closed" ELSE link
    /\ closer' = "done"
    /\ CloseStep

-------------------------------------------------------------------------------
OpenStep ==
    \/ OpenLock \/ HandshakeFails \/ Upgraded \/ Connected
    \/ Loop \/ ReceiveText \/ ReceiveBinary \/ ReceiveClose \/ ReceiveError \/ Again

Next ==
    \/ OpenStep
    \/ Break
    \/ Send \/ SendPoll \/ SendLock \/ SendOnHandle
    \/ CloseFlag \/ CloseHandle

Spec == Init /\ [][Next]_vars

\* Threads that can run do, and a handshake ends.  Nobody has to send or to close.
Fairness == WF_vars(OpenStep) /\ WF_vars(CloseHandle)

FairSpec == Spec /\ Fairness

-------------------------------------------------------------------------------
Buffer == [msg : Nat, part : Nat]

TypeOK ==
    /\ m_open \in BOOLEAN /\ m_opening \in BOOLEAN /\ m_closed \in BOOLEAN
    /\ m_openMutex \in BOOLEAN /\ m_websocketHandle \in 0..MaxOpens
    /\ pc \in {"idle", "handshake", "upgraded", "loop", "receive", "ended", "failed"}
    /\ message \in Seq(Buffer) /\ delivered \in Seq(Seq(Buffer))
    /\ link \in {"none", "connecting", "up", "down", "closed"} /\ handle \in 0..MaxOpens
    /\ nextBuffer \in Buffer /\ buffers \in Nat
    /\ sendPc \in {"idle", "polling", "locking", "sending"} /\ sends \in Nat
    /\ closer \in {"idle", "flagged", "done"}
    /\ handshakeFailed \in BOOLEAN

\* onMessage is given the text messages of the connection whole, each once and in
\* order, whatever binary ones come between, and nothing that is left from an
\* earlier connection (open).
MessagesWhole ==
    \A i \in DOMAIN delivered :
        /\ delivered[i] # <<>>
        /\ \A j \in DOMAIN delivered[i] : delivered[i][j] = [msg |-> i, part |-> j]

\* The numbers of the messages that onMessage was given, 0 for one that is not whole.
Whole(m) == m # <<>> /\ \A j \in DOMAIN m : m[j] = [msg |-> m[1].msg, part |-> j]
Numbers(ms) == [i \in DOMAIN ms |-> IF Whole(ms[i]) THEN ms[i][1].msg ELSE 0]

\* The thread that calls open; no message waits.
Interface == INSTANCE Websocket WITH
    phase <- CASE pc \in {"handshake", "upgraded"} -> "opening"
               [] pc \in {"loop", "receive"} -> "open"
               [] OTHER -> "closed",
    inbox <- <<>>,
    given <- Numbers(delivered)

\* Every step of open, send and close is a step of Websocket: the text messages of a
\* connection are given to onMessage whole, each once and in order, inside the open that
\* has made that connection (open).
ImplementsWebsocket == Interface!Spec

\* WinHTTP is called with a handle of a completed upgrade: receive with the one of
\* its own connection, send with whichever was kept last (open, send).
SendOnUpgraded ==
    /\ sendPc = "sending" => m_websocketHandle # 0
    /\ pc = "receive" => m_websocketHandle = handle

\* A send that has waited for an open to begin is not aborted before that open
\* has come to its end: without m_open there was a handshake that failed (send).
AbortMeansFailed ==
    sendPc = "locking" /\ ~m_openMutex => m_open \/ handshakeFailed

\* Closing ends open at whatever point it is, and every later one (close, open).
CloseEndsOpen == closer = "flagged" ~> [](pc # "receive")
===============================================================================
