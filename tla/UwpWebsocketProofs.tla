-------------------------- MODULE UwpWebsocketProofs --------------------------
(***************************************************************************)
(* ReleasedOnce, AsleepMeansIdle, InOrder and the refinement of Websocket, *)
(* for any number of opens and messages, with or without spurious wakeups. *)
(***************************************************************************)
EXTENDS UwpWebsocket, SequenceTheorems, TLAPS

USE DEF eventVars, openVars, closeVars, ghostVars

\* The continuation is scheduled only when ConnectAsync has ended.
UwpInv ==
    /\ TypeOK
    /\ ReleasedOnce
    /\ AsleepMeansIdle
    /\ link = "connecting" => connectTask = "none"

\* Moving the front of a queue behind what was taken before changes nothing.
LEMMA FrontMoved ==
    ASSUME NEW d \in Seq(Nat), NEW m \in Seq(Nat), m # <<>>
    PROVE  Append(d, Head(m)) \o Tail(m) = d \o m
<1>1. Head(m) \in Nat /\ Tail(m) \in Seq(Nat) /\ <<Head(m)>> \in Seq(Nat)
  OBVIOUS
<1>2. Append(d, Head(m)) = d \o <<Head(m)>>
  BY <1>1, AppendIsConcat
<1>3. (d \o <<Head(m)>>) \o Tail(m) = d \o (<<Head(m)>> \o Tail(m))
  BY <1>1, ConcatAssociative
<1>4. <<Head(m)>> \o Tail(m) = m
  OBVIOUS
<1> QED
  BY <1>2, <1>3, <1>4

\* Arriving is appending behind everything.
LEMMA BackAdded ==
    ASSUME NEW d \in Seq(Nat), NEW m \in Seq(Nat), NEW x \in Nat
    PROVE  d \o Append(m, x) = Append(d \o m, x)
  OBVIOUS

LEMMA UwpInit == Init => UwpInv
<1> SUFFICES ASSUME Init PROVE UwpInv
  OBVIOUS
<1>1. <<>> \in Seq(Nat)
  OBVIOUS
<1>2. TypeOK
  BY <1>1 DEF Init, TypeOK
<1>3. ReleasedOnce /\ AsleepMeansIdle
  BY DEF Init, ReleasedOnce, AsleepMeansIdle
<1> QED
  BY <1>2, <1>3 DEF Init, UwpInv

LEMMA UwpStep == UwpInv /\ [Next]_vars => UwpInv'
<1> SUFFICES ASSUME UwpInv, [Next]_vars PROVE UwpInv'
  OBVIOUS
<1> USE DEF UwpInv, TypeOK, ReleasedOnce, AsleepMeansIdle
<1>1. CASE Again
  BY <1>1 DEF Again
<1>2. CASE Exit
  BY <1>2 DEF Exit
<1>3. CASE Open
  BY <1>3 DEF Open
<1>4. CASE SemaphoreWait
  BY <1>4 DEF SemaphoreWait
<1>5. CASE CheckOpened
  BY <1>5 DEF CheckOpened
<1>a. ASSUME Deliver, m_messages # <<>>
      PROVE  m_messages' \in Seq(Nat) /\ delivered' \in Seq(Nat) /\ pc' = "loop"
  BY <1>a, HeadTailProperties, AppendProperties DEF Deliver
<1>6. CASE MessageLoop
  <2>1. m_messages' \in Seq(Nat) /\ delivered' \in Seq(Nat)
    BY <1>6, <1>a DEF MessageLoop
  <2>2. pc' \in {"loop", "sleeping", "returned"}
    BY <1>6, <1>a DEF MessageLoop
  <2>3. AsleepMeansIdle'
    BY <1>6, <1>a DEF MessageLoop
  <2>4. ReleasedOnce'
    BY <1>6, <2>2 DEF MessageLoop
  <2> QED
    BY <1>6, <2>1, <2>2, <2>3, <2>4 DEF MessageLoop
<1>7. CASE Woken
  <2>1. m_messages' \in Seq(Nat) /\ delivered' \in Seq(Nat)
    BY <1>7, <1>a DEF Woken
  <2>2. pc' \in {"loop", "undefined", "returned"}
    BY <1>7, <1>a DEF Woken
  <2>3. ReleasedOnce'
    BY <1>7, <2>2 DEF Woken
  <2> QED
    BY <1>7, <2>1, <2>2, <2>3 DEF Woken
<1>8. CASE SpuriousWakeup
  BY <1>8 DEF SpuriousWakeup
<1>9. CASE ConnectEnds
  BY <1>9 DEF ConnectEnds
<1>10. CASE Continuation
  <2>1. pc = "waiting" /\ m_openSemaphore = 0 /\ link # "connecting"
    BY <1>10 DEF Continuation
  <2>2. ReleasedOnce' /\ AsleepMeansIdle'
    BY <1>10, <2>1 DEF Continuation
  <2>3. TypeOK'
    <3>1. /\ m_openSemaphore' = 1 /\ connectTask' = "none"
          /\ UNCHANGED <<m_messages, pc, link, closeVars, opens, ghostVars>>
      BY <1>10, <2>1 DEF Continuation
    <3>2. m_connected' \in BOOLEAN /\ result' \in {0, 1}
      BY <1>10 DEF Continuation
    <3> QED
      BY <3>1, <3>2
  <2>4. link' # "connecting"
    BY <1>10, <2>1 DEF Continuation
  <2> HIDE DEF TypeOK, ReleasedOnce, AsleepMeansIdle
  <2> QED
    BY <2>2, <2>3, <2>4
<1>11. CASE on_message
  <2>1. m_messages' \in Seq(Nat) /\ arrived' \in Seq(Nat)
    BY <1>11, AppendProperties DEF on_message
  <2>2. pc' # "sleeping" /\ pc' \in {pc, "woken"} /\ (pc' = "waiting" <=> pc = "waiting")
    BY <1>11 DEF on_message, NotifyOne
  <2> QED
    BY <1>11, <2>1, <2>2 DEF on_message
<1>12. CASE Lose
  BY <1>12 DEF Lose
<1>13. CASE on_close
  BY <1>13 DEF on_close, NotifyOne
<1>14. CASE RequestShutdown
  BY <1>14 DEF RequestShutdown
<1>15. CASE Close
  BY <1>15 DEF Close
<1>16. CASE UNCHANGED vars
  BY <1>16 DEF vars
<1> QED
  BY <1>1, <1>2, <1>3, <1>4, <1>5, <1>6, <1>7, <1>8, <1>9, <1>10, <1>11, <1>12,
     <1>13, <1>14, <1>15, <1>16 DEF Next, IncomingStep

LEMMA UwpInvariant == Spec => []UwpInv
  BY UwpInit, UwpStep, PTL DEF Spec

\* Every variable of the client, and of the frames of open that ever existed, has
\* its type (ws_client).
THEOREM UwpTypeCorrect == Spec => []TypeOK
<1>1. UwpInv => TypeOK
  BY DEF UwpInv
<1> QED
  BY UwpInvariant, <1>1, PTL

\* Every open is released by its own continuation, once, and the continuation
\* never writes to a frame that has returned (open).
THEOREM OpenReleasedOnce == Spec => []ReleasedOnce
<1>1. UwpInv => ReleasedOnce
  BY DEF UwpInv
<1> QED
  BY UwpInvariant, <1>1, PTL

\* No message and no close is missed between the test of open and its wait; a close
\* that the continuation of ConnectAsync overwrites later lies outside of it.
THEOREM NoMissedEvent == Spec => []AsleepMeansIdle
<1>1. UwpInv => AsleepMeansIdle
  BY DEF UwpInv
<1> QED
  BY UwpInvariant, <1>1, PTL

LEMMA OrderStep == UwpInv /\ InOrder /\ [Next]_vars => InOrder'
<1> SUFFICES ASSUME UwpInv, InOrder, [Next]_vars PROVE InOrder'
  OBVIOUS
<1> USE DEF UwpInv, TypeOK, InOrder
<1>1. CASE UNCHANGED <<m_messages, ghostVars>>
  BY <1>1
<1>2. CASE m_messages # <<>> /\ Deliver /\ UNCHANGED arrived
  <2>1. m_messages \in Seq(Nat) /\ delivered \in Seq(Nat)
    OBVIOUS
  <2>2. Append(delivered, Head(m_messages)) \o Tail(m_messages) = arrived
    BY <1>2, <2>1, FrontMoved
  <2> QED
    BY <1>2, <2>2 DEF Deliver
<1>3. CASE on_message
  <2>1. m_messages \in Seq(Nat) /\ delivered \in Seq(Nat) /\ Len(arrived) + 1 \in Nat
    OBVIOUS
  <2>2. delivered \o Append(m_messages, Len(arrived) + 1) = Append(arrived, Len(arrived) + 1)
    BY <2>1, BackAdded
  <2> QED
    BY <1>3, <2>2 DEF on_message
<1>4. MessageLoop \/ Woken =>
         \/ UNCHANGED <<m_messages, ghostVars>>
         \/ m_messages # <<>> /\ Deliver /\ UNCHANGED arrived
  BY DEF MessageLoop, Woken
<1> QED
  BY <1>1, <1>2, <1>3, <1>4 DEF Next, IncomingStep, Again, Exit, Open, SemaphoreWait,
     CheckOpened, SpuriousWakeup, ConnectEnds, Continuation, Lose, on_close,
     RequestShutdown, Close, vars

\* onMessage sees every message once and in the order of arrival (on_message, open).
THEOREM MessagesInOrder == Spec => []InOrder
<1>1. Init => InOrder
  BY DEF Init, InOrder
<1> QED
  BY <1>1, UwpInvariant, OrderStep, PTL DEF Spec

-------------------------------------------------------------------------------
\* The client implements Websocket.

\* A socket that is up belongs to an open that has not returned and, once its
\* continuation has run, to one that will find itself connected.
LinkInv ==
    /\ link \in {"open", "lost"} => pc \notin {"idle", "returned", "exit"}
    /\ link \in {"open", "lost"} /\ connectTask = "none" => m_connected
    /\ link # "none" => result = 0
    /\ connectTask = "failed" => link = "none"

LEMMA LinkStep == UwpInv /\ LinkInv /\ [Next]_vars => LinkInv'
<1> SUFFICES ASSUME UwpInv, LinkInv, [Next]_vars PROVE LinkInv'
  OBVIOUS
<1> USE DEF LinkInv, UwpInv, ReleasedOnce
<1>1. CASE Again \/ Exit
  BY <1>1 DEF Again, Exit
<1>2. CASE Open
  BY <1>2 DEF Open
<1>3. CASE SemaphoreWait \/ CheckOpened
  BY <1>3 DEF SemaphoreWait, CheckOpened
<1>4. CASE MessageLoop \/ Woken \/ SpuriousWakeup
  BY <1>4 DEF MessageLoop, Woken, SpuriousWakeup, Deliver
<1>5. CASE ConnectEnds
  BY <1>5 DEF ConnectEnds
<1>6. CASE Continuation
  BY <1>6 DEF Continuation
<1>7. CASE on_message
  BY <1>7 DEF on_message, NotifyOne
<1>8. CASE on_close
  BY <1>8 DEF on_close, NotifyOne
<1>9. CASE Lose \/ RequestShutdown \/ Close
  BY <1>9 DEF Lose, RequestShutdown, Close
<1>10. CASE UNCHANGED vars
  BY <1>10 DEF vars
<1> QED
  BY <1>1, <1>2, <1>3, <1>4, <1>5, <1>6, <1>7, <1>8, <1>9, <1>10 DEF Next, IncomingStep

Phase ==
    CASE pc \in {"waiting", "opened"} -> "opening"
      [] pc \in {"loop", "sleeping", "woken", "undefined"} -> "open"
      [] OTHER -> "closed"

LEMMA InterfaceNext ==
    ASSUME UwpInv, LinkInv, InOrder, [Next]_vars
    PROVE  [Interface!Next]_(Interface!wvars)
<1> USE DEF Phase
<1> DEFINE queues == <<m_messages, delivered>>
<1>1. CASE Open
  <2>1. Phase = "closed" /\ Phase' = "opening" /\ UNCHANGED queues
    BY <1>1 DEF Open
  <2> QED
    BY <2>1 DEF Interface!Next, Interface!Open
<1>2. CASE CheckOpened
  <2>1. Phase = "opening" /\ Phase' \in {"open", "closed"} /\ UNCHANGED queues
    BY <1>2 DEF CheckOpened
  <2> QED
    BY <2>1 DEF Interface!Next, Interface!Connect, Interface!Return
<1>3. CASE MessageLoop \/ Woken
  <2>1. Phase = "open"
    BY <1>3 DEF MessageLoop, Woken
  <2>2. CASE UNCHANGED queues
    <3>1. Phase' \in {"open", "closed"}
      BY <1>3 DEF MessageLoop, Woken, Deliver
    <3> QED
      BY <2>1, <2>2, <3>1 DEF Interface!Next, Interface!Return, Interface!wvars
  <2>3. CASE m_messages # <<>> /\ Deliver
    BY <2>1, <2>3 DEF Deliver, Interface!Next, Interface!Give
  <2> QED
    BY <1>3, <2>2, <2>3 DEF MessageLoop, Woken
<1>4. CASE on_message
  <2>1. Phase # "closed" /\ Phase' = Phase
    BY <1>4 DEF on_message, NotifyOne, LinkInv, UwpInv, TypeOK
  <2>2. Len(arrived) = Len(delivered) + Len(m_messages)
    BY DEF InOrder, UwpInv, TypeOK
  <2>3. delivered' = delivered /\ m_messages' = Append(m_messages, Len(delivered) + Len(m_messages) + 1)
    BY <1>4, <2>2 DEF on_message
  <2> QED
    BY <2>1, <2>3 DEF Interface!Next, Interface!Arrive, Interface!Newest
<1>5. CASE UNCHANGED <<Phase, queues>>
  BY <1>5 DEF Interface!wvars
<1>6. Again \/ Exit \/ SemaphoreWait \/ SpuriousWakeup \/ ConnectEnds \/ Continuation \/ Lose
        \/ on_close \/ RequestShutdown \/ Close \/ UNCHANGED vars => UNCHANGED <<Phase, queues>>
  BY DEF Again, Exit, SemaphoreWait, SpuriousWakeup, ConnectEnds, Continuation, Lose, on_close,
     NotifyOne, RequestShutdown, Close, vars
<1> QED
  BY <1>1, <1>2, <1>3, <1>4, <1>5, <1>6 DEF Next, IncomingStep

\* The client implements Websocket: whatever the network, the server and the system's
\* threads do, onMessage sees the messages in order, each once, inside an open that has
\* connected, and none arrives when no open is there to take it (open, on_message).
THEOREM UwpImplementsWebsocket == Spec => ImplementsWebsocket
<1>1. Init => InOrder /\ LinkInv /\ Interface!Init
  BY DEF Init, InOrder, LinkInv, Interface!Init
<1>2. UwpInv /\ LinkInv /\ InOrder /\ [Next]_vars => [Interface!Next]_(Interface!wvars)
  BY InterfaceNext
<1> QED
  BY <1>1, <1>2, UwpInvariant, LinkStep, OrderStep, PTL
     DEF Spec, ImplementsWebsocket, Interface!Spec
===============================================================================
