------------------------ MODULE DesktopWebsocketProofs ------------------------
(***************************************************************************)
(* Proofs about the desktop websocket, for any number of opens, buffers    *)
(* and sends.                                                              *)
(***************************************************************************)
EXTENDS DesktopWebsocket, TLAPS

USE DesktopAssumption DEF DesktopAssumption

\* m_openMutex is held exactly during a handshake, the handle is kept by its end,
\* and m_opening is set when there is one or the last one failed.
HandshakeInv ==
    /\ m_openMutex <=> pc \in {"handshake", "upgraded"}
    /\ m_opening => m_openMutex \/ handshakeFailed
    /\ pc = "upgraded" => m_websocketHandle = handle /\ handle # 0 /\ ~m_opening
    /\ pc = "handshake" => handle # 0
    /\ m_open => m_websocketHandle # 0
    /\ pc \in {"loop", "receive"} => m_websocketHandle = handle
    /\ sendPc = "sending" => m_open
    /\ sendPc = "locking" => m_openMutex \/ m_open \/ handshakeFailed

\* The server is where open is in its message.
MessageInv ==
    /\ nextBuffer = [msg |-> Len(delivered) + 1, part |-> Len(message) + 1]
    /\ \A j \in DOMAIN message : message[j] = [msg |-> Len(delivered) + 1, part |-> j]

DesktopInv == TypeOK /\ HandshakeInv /\ MessageInv /\ MessagesWhole

LEMMA DesktopInit ==
    Init => DesktopInv
<1> SUFFICES ASSUME Init PROVE DesktopInv
    OBVIOUS
<1>1. TypeOK
    <2>1. FirstBuffer \in Buffer
        BY DEF FirstBuffer, Buffer
    <2>2. <<>> \in Seq(Buffer) /\ <<>> \in Seq(Seq(Buffer))
        OBVIOUS
    <2>3. nextBuffer \in Buffer /\ message \in Seq(Buffer) /\ delivered \in Seq(Seq(Buffer))
        <3>1. nextBuffer = FirstBuffer /\ message = <<>> /\ delivered = <<>>
            BY DEF Init
        <3> QED BY <2>1, <2>2, <3>1
    <2>4. /\ m_open \in BOOLEAN /\ m_opening \in BOOLEAN /\ m_closed \in BOOLEAN
          /\ m_openMutex \in BOOLEAN /\ handshakeFailed \in BOOLEAN
        BY Zenon DEF Init
    <2>5. /\ m_websocketHandle \in 0..MaxOpens /\ handle \in 0..MaxOpens
          /\ buffers \in Nat /\ sends \in Nat
        BY SMT DEF Init
    <2>6. pc = "idle" /\ link = "none" /\ sendPc = "idle" /\ closer = "idle"
        BY DEF Init
    <2> QED BY <2>3, <2>4, <2>5, <2>6 DEF TypeOK
<1>2. HandshakeInv
    BY DEF Init, HandshakeInv
<1>3. MessageInv /\ MessagesWhole
    BY DEF Init, MessageInv, MessagesWhole, FirstBuffer
<1> QED BY <1>1, <1>2, <1>3 DEF DesktopInv

-------------------------------------------------------------------------------
\* The steps of open.

LEMMA OpenTyped ==
    ASSUME TypeOK, OpenStep
    PROVE  TypeOK'
<1>1. CASE OpenLock
    <2>1. FirstBuffer \in Buffer
        BY DEF FirstBuffer, Buffer
    <2> QED BY <1>1, <2>1 DEF OpenLock, TypeOK, handleVars, sendVars
<1>2. CASE HandshakeFails
    BY <1>2 DEF HandshakeFails, TypeOK, flagVars, readVars, sendVars
<1>3. CASE Upgraded
    BY <1>3 DEF Upgraded, TypeOK, readVars, sendVars
<1>4. CASE Connected
    BY <1>4 DEF Connected, TypeOK, readVars, linkVars, sendVars
<1>5. CASE Loop
    BY <1>5 DEF Loop, TypeOK, flagVars, handleVars, readVars, linkVars, sendVars
<1>6. CASE ReceiveText
    <2>1. Extended \in Seq(Buffer)
        BY DEF Extended, TypeOK
    <2>2. message' \in Seq(Buffer) /\ delivered' \in Seq(Seq(Buffer))
        <3>1. CASE message' = <<>> /\ delivered' = Append(delivered, Extended)
            BY <2>1, <3>1 DEF TypeOK
        <3>2. CASE message' = Extended /\ UNCHANGED delivered
            BY <2>1, <3>2 DEF TypeOK
        <3> QED BY <1>6, <3>1, <3>2 DEF ReceiveText
    <2>3. nextBuffer' \in Buffer
        <3>1. nextBuffer.msg \in Nat /\ nextBuffer.part \in Nat
              /\ nextBuffer = [msg |-> nextBuffer.msg, part |-> nextBuffer.part]
            BY DEF TypeOK, Buffer
        <3>2. CASE nextBuffer' = [msg |-> nextBuffer.msg + 1, part |-> 1]
            BY <3>1, <3>2 DEF Buffer
        <3>3. CASE nextBuffer' = [nextBuffer EXCEPT !.part = @ + 1]
            <4>1. nextBuffer' = [msg |-> nextBuffer.msg, part |-> nextBuffer.part + 1]
                BY <3>1, <3>3
            <4> QED BY <3>1, <4>1 DEF Buffer
        <3> QED BY <1>6, <3>2, <3>3 DEF ReceiveText
    <2>4. buffers' \in Nat
        BY <1>6 DEF ReceiveText, TypeOK
    <2> QED BY <1>6, <2>2, <2>3, <2>4
            DEF ReceiveText, Receive, TypeOK, flagVars, handleVars, sendVars
<1>7. CASE ReceiveBinary
    BY <1>7 DEF ReceiveBinary, Receive, TypeOK, flagVars, handleVars, readVars, sendVars
<1>8. CASE ReceiveClose \/ ReceiveError
    BY <1>8 DEF ReceiveClose, ReceiveError, Receive, TypeOK, flagVars, handleVars, readVars, sendVars
<1>9. CASE Again
    BY <1>9 DEF Again, TypeOK, flagVars, handleVars, readVars, linkVars, sendVars
<1> QED BY <1>1, <1>2, <1>3, <1>4, <1>5, <1>6, <1>7, <1>8, <1>9 DEF OpenStep

LEMMA OpenHandshake ==
    ASSUME TypeOK, HandshakeInv, OpenStep
    PROVE  HandshakeInv'
<1>1. CASE OpenLock
    BY <1>1 DEF OpenLock, HandshakeInv, TypeOK, sendVars
<1>2. CASE HandshakeFails
    BY <1>2 DEF HandshakeFails, HandshakeInv, flagVars, sendVars
<1>3. CASE Upgraded
    BY <1>3 DEF Upgraded, HandshakeInv, sendVars
<1>4. CASE Connected
    BY <1>4 DEF Connected, HandshakeInv, linkVars, sendVars
<1>5. CASE Loop
    BY <1>5 DEF Loop, HandshakeInv, flagVars, handleVars, linkVars, sendVars
<1>6. CASE ReceiveText \/ ReceiveBinary \/ ReceiveClose \/ ReceiveError
    BY <1>6 DEF ReceiveText, ReceiveBinary, ReceiveClose, ReceiveError, Receive, HandshakeInv,
                flagVars, handleVars, sendVars
<1>7. CASE Again
    BY <1>7 DEF Again, HandshakeInv, flagVars, handleVars, linkVars, sendVars
<1> QED BY <1>1, <1>2, <1>3, <1>4, <1>5, <1>6, <1>7 DEF OpenStep

\* A buffer continues the message or completes it.
LEMMA OpenMessage ==
    ASSUME TypeOK, MessageInv, MessagesWhole, OpenStep
    PROVE  MessageInv' /\ MessagesWhole'
<1>1. CASE OpenLock
    BY <1>1 DEF OpenLock, MessageInv, MessagesWhole, FirstBuffer
<1>2. CASE ReceiveText
    <2> DEFINE n == Len(delivered) + 1
    <2>1. /\ message \in Seq(Buffer) /\ delivered \in Seq(Seq(Buffer))
          /\ n \in Nat /\ Len(message) \in Nat /\ Len(delivered) \in Nat
        BY DEF TypeOK
    <2>2. /\ Extended \in Seq(Buffer) /\ Len(Extended) = Len(message) + 1
          /\ \A j \in DOMAIN Extended : Extended[j] = [msg |-> n, part |-> j]
        <3>1. Extended = Append(message, [msg |-> n, part |-> Len(message) + 1])
            BY DEF Extended, MessageInv
        <3>2. \A j \in DOMAIN message : message[j] = [msg |-> n, part |-> j]
            BY DEF MessageInv
        <3>3. [msg |-> n, part |-> Len(message) + 1] \in Buffer
            BY <2>1 DEF Buffer
        <3> HIDE DEF n
        <3> QED BY <2>1, <3>1, <3>2, <3>3
    <2>3. CASE message' = <<>> /\ delivered' = Append(delivered, Extended)
                 /\ nextBuffer' = [msg |-> nextBuffer.msg + 1, part |-> 1]
        <3>1. Len(delivered') = n /\ DOMAIN delivered' = 1..n
              /\ delivered'[n] = Extended /\ \A i \in DOMAIN delivered : delivered'[i] = delivered[i]
            BY <2>1, <2>2, <2>3
        <3>2. MessageInv'
            BY <2>1, <2>3, <3>1 DEF MessageInv
        <3>3. Extended # <<>>
            BY <2>1, <2>2
        <3>4. MessagesWhole'
            <4> SUFFICES ASSUME NEW i \in DOMAIN delivered'
                         PROVE  /\ delivered'[i] # <<>>
                                /\ \A j \in DOMAIN delivered'[i] :
                                      delivered'[i][j] = [msg |-> i, part |-> j]
                BY DEF MessagesWhole
            <4>1. CASE i = n
                BY <2>2, <3>1, <3>3, <4>1
            <4>2. CASE i # n
                <5>1. i \in DOMAIN delivered
                    BY <2>1, <3>1, <4>2
                <5> QED BY <3>1, <5>1 DEF MessagesWhole
            <4> QED BY <4>1, <4>2
        <3> QED BY <3>2, <3>4
    <2>4. CASE message' = Extended /\ UNCHANGED delivered
                 /\ nextBuffer' = [nextBuffer EXCEPT !.part = @ + 1]
        <3>1. nextBuffer' = [msg |-> n, part |-> Len(message') + 1]
            BY <2>1, <2>2, <2>4 DEF MessageInv
        <3>2. \A j \in DOMAIN message' : message'[j] = [msg |-> n, part |-> j]
            BY <2>2, <2>4
        <3> QED BY <2>4, <3>1, <3>2 DEF MessageInv, MessagesWhole
    <2> QED BY <1>2, <2>3, <2>4 DEF ReceiveText
<1>3. CASE HandshakeFails \/ Upgraded \/ Connected \/ Loop \/ ReceiveBinary \/ ReceiveClose
             \/ ReceiveError \/ Again
    <2>1. UNCHANGED <<message, delivered, nextBuffer>>
        BY <1>3 DEF HandshakeFails, Upgraded, Connected, Loop, ReceiveBinary, ReceiveClose,
               ReceiveError, Again, readVars, linkVars
    <2> QED BY <2>1 DEF MessageInv, MessagesWhole
<1> QED BY <1>1, <1>2, <1>3 DEF OpenStep

-------------------------------------------------------------------------------
\* The other threads and the network touch neither messages nor handles.
LEMMA OtherStep ==
    ASSUME DesktopInv, Break \/ Send \/ SendPoll \/ SendLock \/ SendOnHandle \/ CloseFlag \/ CloseHandle
    PROVE  DesktopInv'
<1>1. TypeOK'
    <2> USE DEF DesktopInv, TypeOK
    <2>1. CASE Break
        BY <2>1 DEF Break, flagVars, handleVars, readVars, sendVars
    <2>2. CASE Send
        BY <2>2 DEF Send, SendStep, flagVars, handleVars, readVars, linkVars
    <2>3. CASE SendPoll \/ SendLock \/ SendOnHandle
        BY <2>3 DEF SendPoll, SendLock, SendOnHandle, SendStep, flagVars, handleVars, readVars, linkVars
    <2>4. CASE CloseFlag \/ CloseHandle
        BY <2>4 DEF CloseFlag, CloseHandle, CloseStep, handleVars, readVars, sendVars
    <2> QED BY <2>1, <2>2, <2>3, <2>4
<1>2. HandshakeInv'
    <2>1. CASE Break
        BY <2>1 DEF DesktopInv, HandshakeInv, Break, flagVars, handleVars, sendVars
    <2>2. CASE Send
        BY <2>2 DEF DesktopInv, HandshakeInv, Send, SendStep, flagVars, handleVars, linkVars
    <2>3. CASE SendPoll
        BY <2>3 DEF DesktopInv, HandshakeInv, SendPoll, SendStep, flagVars, handleVars, linkVars
    <2>4. CASE SendLock
        BY <2>4 DEF DesktopInv, HandshakeInv, SendLock, SendStep, flagVars, handleVars, linkVars
    <2>5. CASE SendOnHandle
        BY <2>5 DEF DesktopInv, HandshakeInv, SendOnHandle, SendStep, flagVars, handleVars, linkVars
    <2>6. CASE CloseFlag \/ CloseHandle
        BY <2>6 DEF DesktopInv, HandshakeInv, CloseFlag, CloseHandle, CloseStep, handleVars, sendVars
    <2> QED BY <2>1, <2>2, <2>3, <2>4, <2>5, <2>6
<1>3. UNCHANGED <<message, delivered, nextBuffer>>
    BY DEF Break, Send, SendPoll, SendLock, SendOnHandle, CloseFlag, CloseHandle,
           SendStep, CloseStep, readVars, linkVars
<1>4. MessageInv' /\ MessagesWhole'
    BY <1>3 DEF DesktopInv, MessageInv, MessagesWhole
<1> QED BY <1>1, <1>2, <1>4 DEF DesktopInv

LEMMA DesktopInvariant ==
    Spec => []DesktopInv
<1>1. DesktopInv /\ [Next]_vars => DesktopInv'
    <2> SUFFICES ASSUME DesktopInv, [Next]_vars PROVE DesktopInv'
        OBVIOUS
    <2>1. CASE OpenStep
        BY <2>1, OpenTyped, OpenHandshake, OpenMessage DEF DesktopInv
    <2>2. CASE Break \/ Send \/ SendPoll \/ SendLock \/ SendOnHandle \/ CloseFlag \/ CloseHandle
        BY <2>2, OtherStep
    <2>3. CASE UNCHANGED vars
        BY <2>3 DEF vars, flagVars, handleVars, readVars, linkVars, sendVars, DesktopInv, TypeOK,
               HandshakeInv, MessageInv, MessagesWhole
    <2> QED BY <2>1, <2>2, <2>3 DEF Next
<1> QED BY <1>1, DesktopInit, PTL DEF Spec

\* Every variable of the client has its type, the read position inside the buffer
\* included (ws_client).
THEOREM DesktopTypeCorrect ==
    Spec => []TypeOK
<1>1. DesktopInv => TypeOK
    BY DEF DesktopInv
<1> QED BY <1>1, DesktopInvariant, PTL

\* onMessage is given whole messages in order (ws_client::open).
THEOREM MessagesCorrect ==
    Spec => []MessagesWhole
<1>1. DesktopInv => MessagesWhole
    BY DEF DesktopInv
<1> QED BY <1>1, DesktopInvariant, PTL

\* WinHTTP is called with upgraded handles only (ws_client::open, send).
THEOREM HandlesUpgraded ==
    Spec => []SendOnUpgraded
<1>1. DesktopInv => SendOnUpgraded
    BY DEF DesktopInv, HandshakeInv, SendOnUpgraded
<1> QED BY <1>1, DesktopInvariant, PTL

\* A send is aborted after waiting only if a handshake failed (ws_client::send).
THEOREM AbortsJustified ==
    Spec => []AbortMeansFailed
<1>1. DesktopInv => AbortMeansFailed
    BY DEF DesktopInv, HandshakeInv, AbortMeansFailed
<1> QED BY <1>1, DesktopInvariant, PTL

-------------------------------------------------------------------------------
\* The client implements Websocket.

Phase ==
    CASE pc \in {"handshake", "upgraded"} -> "opening"
      [] pc \in {"loop", "receive"} -> "open"
      [] OTHER -> "closed"

UpTo(n) == [i \in 1..n |-> i]

LEMMA UpToNext ==
    ASSUME NEW n \in Nat
    PROVE  UpTo(n) \in Seq(Nat) /\ Len(UpTo(n)) = n /\ UpTo(n + 1) = Append(UpTo(n), n + 1)
    BY DEF UpTo

\* Whole messages in order are numbered from 1.
LEMMA NumberedFromOne ==
    ASSUME NEW d \in Seq(Seq(Buffer)),
           \A i \in DOMAIN d : d[i] # <<>> /\ \A j \in DOMAIN d[i] : d[i][j] = [msg |-> i, part |-> j]
    PROVE  Numbers(d) = UpTo(Len(d))
<1>1. ASSUME NEW i \in DOMAIN d
      PROVE  Whole(d[i]) /\ d[i][1].msg = i
    <2>1. d[i] \in Seq(Buffer) /\ d[i] # <<>>
        BY <1>1
    <2>2. 1 \in DOMAIN d[i]
        BY <2>1
    <2>3. \A j \in DOMAIN d[i] : d[i][j] = [msg |-> i, part |-> j]
        BY <1>1
    <2>4. d[i][1].msg = i
        BY <2>2, <2>3
    <2> QED BY <2>1, <2>3, <2>4 DEF Whole
<1>2. DOMAIN d = 1..Len(d)
    OBVIOUS
<1> QED BY <1>1, <1>2 DEF Numbers, UpTo

\* An open, a return and a message are steps of Websocket, the rest stutters.
InterfaceStep ==
    \/ Phase = "closed" /\ Phase' = "opening" /\ delivered' = <<>>
    \/ Phase = "opening" /\ Phase' = "open" /\ delivered' = delivered
    \/ Phase # "closed" /\ Phase' = "closed" /\ delivered' = delivered
    \/ Phase = "open" /\ Phase' = "open" /\ Len(delivered') = Len(delivered) + 1
    \/ UNCHANGED <<Phase, delivered>>

LEMMA InterfaceSteps ==
    ASSUME DesktopInv, [Next]_vars
    PROVE  InterfaceStep
<1> USE DEF InterfaceStep, Phase
<1>1. CASE OpenLock
    BY <1>1 DEF OpenLock
<1>2. CASE HandshakeFails \/ ReceiveClose \/ ReceiveError
    BY <1>2 DEF HandshakeFails, ReceiveClose, ReceiveError, Receive, readVars
<1>3. CASE Upgraded \/ Connected
    BY <1>3 DEF Upgraded, Connected, readVars
<1>4. CASE Loop
    BY <1>4 DEF Loop, readVars
<1>5. CASE ReceiveText
    <2>1. delivered \in Seq(Seq(Buffer)) /\ Extended \in Seq(Buffer)
        BY DEF DesktopInv, TypeOK, Extended
    <2>2. Phase = "open" /\ Phase' = "open"
        BY <1>5 DEF ReceiveText, Receive
    <2>3. Len(delivered') = Len(delivered) + 1 \/ delivered' = delivered
        BY <1>5, <2>1 DEF ReceiveText
    <2> HIDE DEF Phase
    <2> QED BY <2>2, <2>3
<1>6. CASE ReceiveBinary
    BY <1>6 DEF ReceiveBinary, Receive, readVars
<1>7. CASE Again
    BY <1>7 DEF Again, readVars
<1>8. CASE Break \/ Send \/ SendPoll \/ SendLock \/ SendOnHandle \/ CloseFlag \/ CloseHandle
    BY <1>8 DEF Break, Send, SendPoll, SendLock, SendOnHandle, CloseFlag, CloseHandle,
           SendStep, CloseStep, readVars
<1>9. CASE UNCHANGED vars
    BY <1>9 DEF vars, readVars
<1> QED BY <1>1, <1>2, <1>3, <1>4, <1>5, <1>6, <1>7, <1>8, <1>9 DEF Next, OpenStep

LEMMA InterfaceNext ==
    ASSUME DesktopInv, DesktopInv', [Next]_vars
    PROVE  [Interface!Next]_(Interface!wvars)
<1> DEFINE n == Len(delivered)
           given == Numbers(delivered)
<1>1. n \in Nat /\ n' \in Nat
    BY DEF DesktopInv, TypeOK
<1>2. given = UpTo(n) /\ given' = UpTo(n')
    <2>1. given = UpTo(n)
        BY NumberedFromOne DEF DesktopInv, TypeOK, MessagesWhole
    <2>2. given' = UpTo(n')
        BY NumberedFromOne DEF DesktopInv, TypeOK, MessagesWhole, Numbers, Whole
    <2> QED BY <2>1, <2>2
<1>3. delivered' = <<>> => given' = <<>>
    <2>1. UpTo(0) = <<>>
        BY DEF UpTo
    <2> QED BY <1>2, <2>1
<1>4. n' = n + 1 => given' = Append(given, Len(given) + 1)
    BY <1>1, <1>2, UpToNext
<1>5. delivered' = delivered => given' = given
    OBVIOUS
<1>6. InterfaceStep
    BY InterfaceSteps
<1> HIDE DEF n, given
<1> QED BY <1>3, <1>4, <1>5, <1>6
        DEF InterfaceStep, n, given, Phase, Interface!Next, Interface!wvars, Interface!Open,
            Interface!Connect, Interface!Return, Interface!Pass, Interface!Newest

\* The desktop client implements Websocket: whatever the server, the network and the
\* threads that send and close do, the messages of a connection reach onMessage whole,
\* each once and in order, inside its own open (ws_client::open).
THEOREM DesktopImplementsWebsocket ==
    Spec => ImplementsWebsocket
<1>1. Init => Interface!Init
    BY DEF Init, Interface!Init, Numbers
<1>2. DesktopInv /\ DesktopInv' /\ [Next]_vars => [Interface!Next]_(Interface!wvars)
    BY InterfaceNext
<1> QED BY <1>1, <1>2, DesktopInvariant, PTL DEF Spec, ImplementsWebsocket, Interface!Spec
===============================================================================
