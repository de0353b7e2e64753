----------------------------- MODULE SessionProofs -----------------------------
(***************************************************************************)
(* Types of Session and its resets, for every value of its constants.      *)
(*                                                                         *)
(* TypeOK is not inductive: a pop from the list of hosts, from the         *)
(* outgoing thread's queue and the end of queue_method need that there is  *)
(* something to take.  TypeInv adds that, and is proved one action at a    *)
(* time: the labels first, then the variables, then the additions.         *)
(*                                                                         *)
(* The second part is about the resets: ResetBeforeOpen, ResetBeforeHello, *)
(* OnlyMethodsDropped and ConnectedMeansBootstrapped.                      *)
(***************************************************************************)
EXTENDS Session, FiniteSetTheorems, TLAPS

\* Between choosing a host and ++hostItr there is a host.
HostChosen == pc["ws"] \notin {"none", "top", "exit"} => hosts > 0
\* The outgoing thread sends only when it has a method.
SendingMethod == pc["out"] = "sending" => processingEvents # <<>>
\* A thread inside queue_method holds a packet.
JobTaken == \A t \in Callers : pc[t] \in {"register", "enqueue", "stamp"} => job[t] \in Packet
\* The two threads are started by interactive_connect.
NotStarted == pc["app"] = "start" => pc["ws"] = "none" /\ pc["out"] = "none"

TypeInv == TypeOK /\ HostChosen /\ SendingMethod /\ JobTaken /\ NotStarted

MethodNames == {"hello", "ready", "notReady"} \union PushKinds
Handler == [id : Nat, kind : Kinds]

\* Appending an element of S to a sequence over S (std::queue::emplace).
LEMMA AppendType ==
    ASSUME NEW S, NEW s \in Seq(S), NEW x \in S
    PROVE  Append(s, x) \in Seq(S)
OBVIOUS

\* The events the threads put on the incoming queue are events.
LEMMA EventTypes ==
    ASSUME NEW n \in Nat, conn \in Nat
    PROVE  /\ \A c \in Codes : ErrorEvent(c, n) \in Event
           /\ \A s \in States : StateChangeEvent(s) \in Event
           /\ \A c \in MethodNames : MethodEvent(c, n) \in Event
           /\ \A h \in Handler : ReplyEvent(h) \in Event
BY DEF Event, ErrorEvent, StateChangeEvent, MethodEvent, ReplyEvent, Handler, MethodNames

\* The initial states, those of the session_internal constructor, satisfy TypeInv.
THEOREM TypeInit == Init => TypeInv
<1> SUFFICES ASSUME Init PROVE TypeInv
  OBVIOUS
<1>1. pc \in [Threads -> {"start", "none"}] /\ pc["app"] = "start" /\ pc["ws"] = "none" /\ pc["out"] = "none"
  BY DEF Init, Threads
<1>2. job \in [Callers -> {NoPacket}] /\ budget \in [BudgetKinds -> Nat]
  BY ConstantsAssumption DEF Init, ConstantsAssumption
<1>3. HostChosen /\ SendingMethod /\ JobTaken /\ NotStarted
  BY <1>1 DEF HostChosen, SendingMethod, JobTaken, NotStarted, Callers
<1>4. <<>> \in Seq(Packet)
  OBVIOUS
<1>5. hosts \in 0..MaxHosts
  BY ConstantsAssumption DEF Init, ConstantsAssumption
<1>6. TypeOK
  BY <1>1, <1>2, <1>4, <1>5 DEF Init, TypeOK, ControlOK, States, AppLabels, WsLabels, OutLabels, DefaultRetryFrequency
<1> QED
  BY <1>3, <1>6 DEF TypeInv

\* create_method_json gives the thread a packet and leaves the other thread alone.
LEMMA CreateMethodType ==
    ASSUME TypeInv, NEW t \in Callers, NEW kind \in Kinds, CreateMethod(t, kind)
    PROVE  /\ packetId' \in Nat
           /\ job' \in [Callers -> Packet \union {NoPacket}]
           /\ job'[t] \in Packet
           /\ \A u \in Callers \ {t} : job'[u] = job[u]
           /\ DOMAIN pc' = Threads
           /\ pc'[t] \in {"register", "enqueue"}
           /\ \A u \in Threads \ {t} : pc'[u] = pc[u]
<1>1. [id |-> packetId, kind |-> kind, by |-> t] \in Packet
  BY DEF TypeInv, TypeOK, Packet
<1> QED
  BY <1>1 DEF TypeInv, TypeOK, ControlOK, CreateMethod, Goto, Callers, Threads

USE DEF flagVars, cacheVars, callVars, outVars, inVars, hostVars, netVars, closeVars

\* Every step of run_outgoing_thread keeps TypeInv.
LEMMA OutgoingType ==
    TypeInv /\ (OutgoingStep \/ SpuriousWakeup) => TypeInv'
<1> SUFFICES ASSUME TypeInv, OutgoingStep \/ SpuriousWakeup PROVE TypeInv'
  OBVIOUS
<1> USE DEF TypeInv, TypeOK, Callers
<1>1. CASE OutgoingLoop
  <2>1. ControlOK'
    BY <1>1 DEF OutgoingLoop, ControlOK, Goto, Threads, AppLabels, WsLabels, OutLabels
  <2>2. TypeOK'
    BY <1>1, <2>1 DEF OutgoingLoop
  <2>3. HostChosen' /\ SendingMethod' /\ JobTaken' /\ NotStarted'
    BY <1>1 DEF OutgoingLoop, ControlOK, Goto, Threads, HostChosen, SendingMethod, JobTaken, NotStarted
  <2> QED
    BY <2>2, <2>3
<1>2. CASE TakeOrWait
  <2>1. ControlOK'
    BY <1>2 DEF TakeOrWait, ControlOK, Goto, Threads, AppLabels, WsLabels, OutLabels
  <2>2. TypeOK'
    BY <1>2, <2>1 DEF TakeOrWait
  <2>3. HostChosen' /\ SendingMethod' /\ JobTaken' /\ NotStarted'
    BY <1>2 DEF TakeOrWait, ControlOK, Goto, Threads, HostChosen, SendingMethod, JobTaken, NotStarted
  <2> QED
    BY <2>2, <2>3
<1>3. CASE Woken
  <2>1. ControlOK'
    BY <1>3 DEF Woken, ControlOK, Goto, Threads, AppLabels, WsLabels, OutLabels
  <2>2. TypeOK'
    BY <1>3, <2>1 DEF Woken
  <2>3. HostChosen' /\ SendingMethod' /\ JobTaken' /\ NotStarted'
    BY <1>3 DEF Woken, ControlOK, Goto, Threads, HostChosen, SendingMethod, JobTaken, NotStarted
  <2> QED
    BY <2>2, <2>3
<1>4. CASE NextMethod
  <2>1. ControlOK'
    BY <1>4 DEF NextMethod, ControlOK, Goto, Threads, AppLabels, WsLabels, OutLabels
  <2>2. TypeOK'
    BY <1>4, <2>1 DEF NextMethod
  <2>3. HostChosen' /\ SendingMethod' /\ JobTaken' /\ NotStarted'
    BY <1>4 DEF NextMethod, NothingToSend, ControlOK, Goto, Threads, HostChosen, SendingMethod, JobTaken, NotStarted
  <2> QED
    BY <2>2, <2>3
<1>5. CASE SendMethod
  <2>1. ControlOK'
    BY <1>5 DEF SendMethod, ControlOK, Goto, Threads, AppLabels, WsLabels, OutLabels
  <2>2. Head(processingEvents) \in Packet /\ Tail(processingEvents) \in Seq(Packet)
    BY <1>5 DEF SendMethod, SendingMethod
  <2>3. wire' = wire \/ wire' = Append(wire, Head(processingEvents))
    BY <1>5, Zenon DEF SendMethod
  <2>4. processingEvents' \in Seq(Packet)
    BY <1>5, <2>2 DEF SendMethod
  <2>5. wire' \in Seq(Packet)
    <3>1. wire \in Seq(Packet)
      OBVIOUS
    <3> HIDE DEF TypeInv, TypeOK
    <3>2. Append(wire, Head(processingEvents)) \in Seq(Packet)
      BY <2>2, <3>1, AppendType
    <3> QED
      BY <2>3, <3>1, <3>2
  <2>6. serverReady' \in BOOLEAN
    BY <1>5 DEF SendMethod
  <2>7. processingEvents' \in Seq(Packet) /\ wire' \in Seq(Packet) /\ serverReady' \in BOOLEAN
    BY <2>4, <2>6, <2>5
  <2>8. TypeOK'
    BY <1>5, <2>1, <2>7 DEF SendMethod
  <2>9. HostChosen' /\ SendingMethod' /\ JobTaken' /\ NotStarted'
    BY <1>5 DEF SendMethod, ControlOK, Goto, Threads, HostChosen, SendingMethod, JobTaken, NotStarted
  <2> QED
    BY <2>8, <2>9
<1>6. CASE SendFails
  <2>1. ControlOK'
    BY <1>6, EventTypes DEF SendFails, Codes, Spend, BudgetKinds, ControlOK, Goto, Threads, AppLabels, WsLabels, OutLabels
  <2>2. TypeOK'
    BY <1>6, EventTypes, <2>1 DEF SendFails, Codes, Spend, BudgetKinds
  <2>3. HostChosen' /\ SendingMethod' /\ JobTaken' /\ NotStarted'
    BY <1>6, EventTypes DEF SendFails, Codes, Spend, BudgetKinds, ControlOK, Goto, Threads, HostChosen, SendingMethod, JobTaken, NotStarted
  <2> QED
    BY <2>2, <2>3
<1>7. CASE SpuriousWakeup
  <2>1. ControlOK'
    BY <1>7 DEF SpuriousWakeup, ControlOK, Goto, Threads, AppLabels, WsLabels, OutLabels
  <2>2. TypeOK'
    BY <1>7, <2>1 DEF SpuriousWakeup
  <2>3. HostChosen' /\ SendingMethod' /\ JobTaken' /\ NotStarted'
    BY <1>7 DEF SpuriousWakeup, ControlOK, Goto, Threads, HostChosen, SendingMethod, JobTaken, NotStarted
  <2> QED
    BY <2>2, <2>3
<1> QED
  BY <1>1, <1>2, <1>3, <1>4, <1>5, <1>6, <1>7 DEF OutgoingStep

\* A thread inside bootstrap moves to a label of bootstrap, of queue_method, or to
\* where it was called.
LEMMA BootstrapMoves ==
    ASSUME TypeInv, NEW t \in Callers, DOMAIN pc' = Threads,
           pc'[t] \in {"scenes", "groups", "complete", "register", "enqueue", Return(t)},
           \A u \in Threads \ {t} : pc'[u] = pc[u]
    PROVE  ControlOK'
<1>1. pc'["out"] = pc["out"]
  BY DEF Callers, Threads
<1>2. CASE t = "app"
  BY <1>1, <1>2 DEF TypeInv, TypeOK, ControlOK, Threads, Return, AppLabels, WsLabels, OutLabels
<1>3. CASE t = "ws"
  BY <1>1, <1>3 DEF TypeInv, TypeOK, ControlOK, Threads, Return, AppLabels, WsLabels, OutLabels
<1> QED
  BY <1>2, <1>3 DEF Callers

\* Every step of bootstrap and queue_method, on either thread, keeps TypeInv.
LEMMA BootstrapType ==
    ASSUME TypeInv, NEW t \in Callers, BootstrapStep(t)
    PROVE  TypeInv'
<1> USE DEF TypeInv, TypeOK, Callers
<1>1. CASE CheckTime(t)
  <2>1. ControlOK'
    <3>1. CASE ~serverTimeOffsetCalculated
      BY <1>1, <3>1, CreateMethodType, BootstrapMoves DEF CheckTime, Kinds
    <3>2. CASE serverTimeOffsetCalculated
      BY <1>1, <3>2, BootstrapMoves DEF CheckTime, ControlOK, Goto, Threads
    <3> QED
      BY <3>1, <3>2
  <2>2. packetId' \in Nat /\ job' \in [Callers -> Packet \union {NoPacket}]
    BY <1>1, CreateMethodType DEF CheckTime, Kinds
  <2>3. TypeOK'
    BY <1>1, <2>1, <2>2 DEF CheckTime
  <2>4. HostChosen' /\ SendingMethod' /\ JobTaken' /\ NotStarted'
    BY <1>1, CreateMethodType DEF CheckTime, Kinds, Return, ControlOK, Goto, Threads, HostChosen, SendingMethod, JobTaken, NotStarted
  <2> QED
    BY <2>3, <2>4
<1>2. CASE CheckScenes(t)
  <2>1. ControlOK'
    <3>1. CASE ~scenesCached
      BY <1>2, <3>1, CreateMethodType, BootstrapMoves DEF CheckScenes, Kinds
    <3>2. CASE scenesCached
      BY <1>2, <3>2, BootstrapMoves DEF CheckScenes, ControlOK, Goto, Threads
    <3> QED
      BY <3>1, <3>2
  <2>2. packetId' \in Nat /\ job' \in [Callers -> Packet \union {NoPacket}]
    BY <1>2, CreateMethodType DEF CheckScenes, Kinds
  <2>3. TypeOK'
    BY <1>2, <2>1, <2>2 DEF CheckScenes
  <2>4. HostChosen' /\ SendingMethod' /\ JobTaken' /\ NotStarted'
    BY <1>2, CreateMethodType DEF CheckScenes, Kinds, Return, ControlOK, Goto, Threads, HostChosen, SendingMethod, JobTaken, NotStarted
  <2> QED
    BY <2>3, <2>4
<1>3. CASE CheckGroups(t)
  <2>1. ControlOK'
    <3>1. CASE ~groupsCached
      BY <1>3, <3>1, CreateMethodType, BootstrapMoves DEF CheckGroups, Kinds
    <3>2. CASE groupsCached
      BY <1>3, <3>2, BootstrapMoves DEF CheckGroups, ControlOK, Goto, Threads
    <3> QED
      BY <3>1, <3>2
  <2>2. packetId' \in Nat /\ job' \in [Callers -> Packet \union {NoPacket}]
    BY <1>3, CreateMethodType DEF CheckGroups, Kinds
  <2>3. TypeOK'
    BY <1>3, <2>1, <2>2 DEF CheckGroups
  <2>4. HostChosen' /\ SendingMethod' /\ JobTaken' /\ NotStarted'
    BY <1>3, CreateMethodType DEF CheckGroups, Kinds, Return, ControlOK, Goto, Threads, HostChosen, SendingMethod, JobTaken, NotStarted
  <2> QED
    BY <2>3, <2>4
<1>4. CASE Complete(t)
  <2>1. ControlOK'
    <3>1. CASE IsReady
      BY <1>4, <3>1, CreateMethodType, BootstrapMoves DEF Complete, Kinds
    <3>2. CASE ~IsReady
      BY <1>4, <3>2, BootstrapMoves DEF Complete, ControlOK, Goto, Threads, Return
    <3> QED
      BY <3>1, <3>2
  <2>2. packetId' \in Nat /\ job' \in [Callers -> Packet \union {NoPacket}]
    BY <1>4, CreateMethodType DEF Complete, Kinds
  <2>3. TypeOK'
    BY <1>4, <2>1, <2>2 DEF Complete, States
  <2>4. HostChosen' /\ SendingMethod' /\ JobTaken' /\ NotStarted'
    BY <1>4, CreateMethodType DEF Complete, Kinds, States, Return, ControlOK, Goto, Threads, HostChosen, SendingMethod, JobTaken, NotStarted
  <2> QED
    BY <2>3, <2>4
<1>5. CASE RegisterHandler(t)
  <2>1. ControlOK'
    BY <1>5 DEF RegisterHandler, Return, Packet, ControlOK, Goto, Threads, AppLabels, WsLabels, OutLabels
  <2>2. job[t] \in Packet
    BY <1>5 DEF RegisterHandler, JobTaken
  <2>3. replyHandlersById' \subseteq [id : Nat, kind : Kinds]
    BY <1>5, <2>2 DEF RegisterHandler, Packet
  <2>4. TypeOK'
    BY <1>5, <2>1, <2>3 DEF RegisterHandler, Return, Packet
  <2>5. HostChosen' /\ SendingMethod' /\ JobTaken' /\ NotStarted'
    BY <1>5 DEF RegisterHandler, Return, Packet, ControlOK, Goto, Threads, HostChosen, SendingMethod, JobTaken, NotStarted
  <2> QED
    BY <2>4, <2>5
<1>6. CASE QueueMethod(t)
  <2>1. ControlOK'
    BY <1>6 DEF QueueMethod, Return, Packet, ControlOK, Goto, Threads, AppLabels, WsLabels, OutLabels
  <2>2. job[t] \in Packet
    BY <1>6 DEF QueueMethod, JobTaken
  <2>3. outgoingEvents' \in Seq(Packet) /\ job' \in [Callers -> Packet \union {NoPacket}]
    BY <1>6, <2>2 DEF QueueMethod
  <2>4. TypeOK'
    BY <1>6, <2>1, <2>3 DEF QueueMethod, Return, Packet
  <2>5. HostChosen' /\ SendingMethod' /\ JobTaken' /\ NotStarted'
    BY <1>6 DEF QueueMethod, Return, Packet, ControlOK, Goto, Threads, HostChosen, SendingMethod, JobTaken, NotStarted
  <2> QED
    BY <2>4, <2>5
<1>7. CASE StampTime(t)
  <2>1. ControlOK'
    BY <1>7 DEF StampTime, Return, Packet, ControlOK, Goto, Threads, AppLabels, WsLabels, OutLabels
  <2>2. job[t] \in Packet
    BY <1>7 DEF StampTime, JobTaken
  <2>3. job[t].id \in Nat
    BY <2>2 DEF Packet
  <2>4. getTimeSent' \in Nat /\ job' \in [Callers -> Packet \union {NoPacket}]
    BY <1>7, <2>3 DEF StampTime
  <2>5. TypeOK'
    BY <1>7, <2>1, <2>4 DEF StampTime, Return, Packet
  <2>6. HostChosen' /\ SendingMethod' /\ JobTaken' /\ NotStarted'
    BY <1>7 DEF StampTime, Return, Packet, ControlOK, Goto, Threads, HostChosen, SendingMethod, JobTaken, NotStarted
  <2> QED
    BY <2>5, <2>6
<1> QED
  BY <1>1, <1>2, <1>3, <1>4, <1>5, <1>6, <1>7 DEF BootstrapStep

\* Every step of run_incoming_thread and of the websocket callbacks keeps TypeInv.
LEMMA IncomingType ==
    TypeInv /\ (IncomingStep \/ Break \/ ReceivePush \/ ReceiveTimeError) => TypeInv'
<1> SUFFICES ASSUME TypeInv, IncomingStep \/ Break \/ ReceivePush \/ ReceiveTimeError PROVE TypeInv'
  OBVIOUS
<1> USE DEF TypeInv, TypeOK, Callers
<1>1. CASE GetHosts
  <2>1. ControlOK'
    BY <1>1 DEF GetHosts, Spend, ControlOK, Goto, Threads, AppLabels, WsLabels, OutLabels
  <2>2. hosts' \in 0..MaxHosts /\ budget' \in [BudgetKinds -> Nat]
    <3>1. hosts' \in 0..MaxHosts
      BY <1>1, ConstantsAssumption DEF GetHosts, ConstantsAssumption
    <3>2. budget' \in [BudgetKinds -> Nat]
      BY <1>1 DEF GetHosts, Spend, BudgetKinds
    <3> QED
      BY <3>1, <3>2
  <2>3. ErrorEvent("NO_HOST", budget["connectFail"]) \in Event
    BY EventTypes DEF Codes, BudgetKinds
  <2>4. incomingEvents' \subseteq Event
    BY <1>1, <2>3 DEF GetHosts
  <2>5. TypeOK'
    BY <1>1, <2>1, <2>2, <2>4 DEF GetHosts
  <2>6. HostChosen' /\ SendingMethod' /\ JobTaken' /\ NotStarted'
    <3>1. HostChosen'
      BY <1>1, ConstantsAssumption DEF GetHosts, Spend, ConstantsAssumption, ControlOK, Goto, Threads, HostChosen
    <3>2. SendingMethod' /\ JobTaken' /\ NotStarted'
      BY <1>1 DEF GetHosts, Spend, ControlOK, Goto, Threads, SendingMethod, JobTaken, NotStarted
    <3> QED
      BY <3>1, <3>2
  <2> QED
    BY <2>5, <2>6
<1>2. CASE OpenSucceeds
  <2>1. ControlOK'
    BY <1>2 DEF OpenSucceeds, ControlOK, Goto, Threads, AppLabels, WsLabels, OutLabels
  <2>2. conn' \in Nat
    BY <1>2 DEF OpenSucceeds
  <2>3. TypeOK'
    BY <1>2, <2>1, <2>2 DEF OpenSucceeds
  <2>4. HostChosen' /\ SendingMethod' /\ JobTaken' /\ NotStarted'
    BY <1>2 DEF OpenSucceeds, ControlOK, Goto, Threads, HostChosen, SendingMethod, JobTaken, NotStarted
  <2> QED
    BY <2>3, <2>4
<1>3. CASE OpenFails
  <2>1. ControlOK'
    BY <1>3 DEF OpenFails, Spend, BudgetKinds, ControlOK, Goto, Threads, AppLabels, WsLabels, OutLabels
  <2>2. TypeOK'
    BY <1>3, <2>1 DEF OpenFails, Spend, BudgetKinds
  <2>3. HostChosen' /\ SendingMethod' /\ JobTaken' /\ NotStarted'
    BY <1>3 DEF OpenFails, Spend, BudgetKinds, ControlOK, Goto, Threads, HostChosen, SendingMethod, JobTaken, NotStarted
  <2> QED
    BY <2>2, <2>3
<1>4. CASE ReceiveHello
  <2>1. ControlOK'
    BY <1>4, EventTypes DEF ReceiveHello, MethodNames, ControlOK, Goto, Threads, AppLabels, WsLabels, OutLabels
  <2>2. MethodEvent("hello", 0) \in Event
    BY EventTypes DEF MethodNames
  <2>3. incomingEvents' \subseteq Event /\ helloDue' \in BOOLEAN
    BY <1>4, <2>2 DEF ReceiveHello
  <2>4. TypeOK'
    BY <1>4, <2>1, <2>3 DEF ReceiveHello
  <2>5. HostChosen' /\ SendingMethod' /\ JobTaken' /\ NotStarted'
    BY <1>4, EventTypes DEF ReceiveHello, MethodNames, ControlOK, Goto, Threads, HostChosen, SendingMethod, JobTaken, NotStarted
  <2> QED
    BY <2>4, <2>5
<1>5. CASE ReceiveReady
  <2>1. ControlOK'
    BY <1>5, EventTypes DEF ReceiveReady, MethodNames, Replied, ControlOK, Goto, Threads, AppLabels, WsLabels, OutLabels
  <2>2. Head(wire) \in Packet /\ Tail(wire) \in Seq(Packet)
    BY <1>5 DEF ReceiveReady
  <2>3. Head(wire).kind \in MethodNames /\ Head(wire).id \in Nat
    BY <1>5, <2>2 DEF ReceiveReady, MethodNames, Replied, Packet
  <2>4. wire' \in Seq(Packet) /\ incomingEvents' \subseteq Event
    BY <1>5, <2>2, <2>3, EventTypes DEF ReceiveReady
  <2>5. TypeOK'
    BY <1>5, <2>1, <2>4 DEF ReceiveReady, MethodNames, Replied
  <2>6. HostChosen' /\ SendingMethod' /\ JobTaken' /\ NotStarted'
    BY <1>5, EventTypes DEF ReceiveReady, MethodNames, Replied, ControlOK, Goto, Threads, HostChosen, SendingMethod, JobTaken, NotStarted
  <2> QED
    BY <2>5, <2>6
<1>6. CASE ReceiveReply
  <2>1. ControlOK'
    BY <1>6, EventTypes DEF ReceiveReply, Handler, ControlOK, Goto, Threads, AppLabels, WsLabels, OutLabels
  <2>2. TypeOK'
    BY <1>6, EventTypes, <2>1 DEF ReceiveReply, Handler
  <2>3. HostChosen' /\ SendingMethod' /\ JobTaken' /\ NotStarted'
    BY <1>6, EventTypes DEF ReceiveReply, Handler, ControlOK, Goto, Threads, HostChosen, SendingMethod, JobTaken, NotStarted
  <2> QED
    BY <2>2, <2>3
<1>7. CASE OpenReturns
  <2>1. ControlOK'
    BY <1>7 DEF OpenReturns, ControlOK, Goto, Threads, AppLabels, WsLabels, OutLabels
  <2>2. wire' \in Seq(Packet)
    BY <1>7 DEF OpenReturns
  <2>3. openError' \in BOOLEAN
    BY <1>7 DEF OpenReturns
  <2>4. wire' \in Seq(Packet) /\ openError' \in BOOLEAN
    BY <2>2, <2>3
  <2>5. TypeOK'
    BY <1>7, <2>1, <2>4 DEF OpenReturns
  <2>6. HostChosen' /\ SendingMethod' /\ JobTaken' /\ NotStarted'
    BY <1>7 DEF OpenReturns, ControlOK, Goto, Threads, HostChosen, SendingMethod, JobTaken, NotStarted
  <2> QED
    BY <2>5, <2>6
<1>8. CASE AfterOpen
  <2>1. ControlOK'
    BY <1>8, EventTypes DEF AfterOpen, Codes, DefaultRetryFrequency, BudgetKinds, ControlOK, Goto, Threads, AppLabels, WsLabels, OutLabels
  <2>2. incomingEvents' \subseteq Event /\ wsOpen' \in BOOLEAN /\ connectionRetryFrequency' \in {1, 2, 4, 8}
    BY <1>8, EventTypes DEF AfterOpen, Codes, DefaultRetryFrequency, BudgetKinds
  <2>3. TypeOK'
    BY <1>8, <2>1, <2>2 DEF AfterOpen, Codes, DefaultRetryFrequency, BudgetKinds
  <2>4. HostChosen' /\ SendingMethod' /\ JobTaken' /\ NotStarted'
    BY <1>8, EventTypes DEF AfterOpen, Codes, DefaultRetryFrequency, BudgetKinds, ControlOK, Goto, Threads, HostChosen, SendingMethod, JobTaken, NotStarted
  <2> QED
    BY <2>3, <2>4
<1>9. CASE ClearMethods
  <2>1. ControlOK'
    BY <1>9 DEF ClearMethods, ControlOK, Goto, Threads, AppLabels, WsLabels, OutLabels
  <2>2. TypeOK'
    BY <1>9, <2>1 DEF ClearMethods
  <2>3. HostChosen' /\ SendingMethod' /\ JobTaken' /\ NotStarted'
    BY <1>9 DEF ClearMethods, ControlOK, Goto, Threads, HostChosen, SendingMethod, JobTaken, NotStarted
  <2> QED
    BY <2>2, <2>3
<1>10. CASE ResetFlags
  <2>1. ControlOK'
    BY <1>10 DEF ResetFlags, ControlOK, Goto, Threads, AppLabels, WsLabels, OutLabels
  <2>2. serverTimeOffsetCalculated' \in BOOLEAN /\ scenesCached' \in BOOLEAN /\ groupsCached' \in BOOLEAN
    BY <1>10 DEF ResetFlags
  <2>3. TypeOK'
    BY <1>10, <2>1, <2>2 DEF ResetFlags
  <2>4. HostChosen' /\ SendingMethod' /\ JobTaken' /\ NotStarted'
    BY <1>10 DEF ResetFlags, ControlOK, Goto, Threads, HostChosen, SendingMethod, JobTaken, NotStarted
  <2> QED
    BY <2>3, <2>4
<1>11. CASE AnnounceReset
  <2>1. ControlOK'
    BY <1>11, EventTypes DEF AnnounceReset, States, ControlOK, Goto, Threads, AppLabels, WsLabels, OutLabels
  <2>2. StateChangeEvent("connecting") \in Event
    BY EventTypes DEF States
  <2>3. incomingEvents' \subseteq Event
    BY <1>11, <2>2 DEF AnnounceReset
  <2>4. TypeOK'
    BY <1>11, <2>1, <2>3 DEF AnnounceReset
  <2>5. HostChosen' /\ SendingMethod' /\ JobTaken' /\ NotStarted'
    BY <1>11, EventTypes DEF AnnounceReset, States, ControlOK, Goto, Threads, HostChosen, SendingMethod, JobTaken, NotStarted
  <2> QED
    BY <2>4, <2>5
<1>12. CASE NextHost
  <2>1. ControlOK'
    BY <1>12, ConstantsAssumption DEF NextHost, HostChosen, ConstantsAssumption, Smaller, MaxRetryFrequency, ControlOK, Goto, Threads, AppLabels, WsLabels, OutLabels
  <2>2. hosts' \in 0..MaxHosts /\ connectionRetryFrequency' \in {1, 2, 4, 8}
    BY <1>12, ConstantsAssumption DEF NextHost, HostChosen, ConstantsAssumption, Smaller, MaxRetryFrequency
  <2>3. TypeOK'
    BY <1>12, <2>1, <2>2 DEF NextHost, Smaller, MaxRetryFrequency
  <2>4. HostChosen' /\ SendingMethod' /\ JobTaken' /\ NotStarted'
    BY <1>12 DEF NextHost, Smaller, MaxRetryFrequency, ControlOK, Goto, Threads, HostChosen, SendingMethod, JobTaken, NotStarted
  <2> QED
    BY <2>3, <2>4
<1>13. CASE BootstrapStep("ws")
  BY <1>13, BootstrapType
<1>14. CASE Break
  <2>1. ControlOK'
    BY <1>14 DEF Break, ControlOK, Goto, Threads, AppLabels, WsLabels, OutLabels
  <2>2. up' \in BOOLEAN
    BY <1>14 DEF Break
  <2>3. TypeOK'
    BY <1>14, <2>1, <2>2 DEF Break
  <2>4. HostChosen' /\ SendingMethod' /\ JobTaken' /\ NotStarted'
    BY <1>14 DEF Break, ControlOK, Goto, Threads, HostChosen, SendingMethod, JobTaken, NotStarted
  <2> QED
    BY <2>3, <2>4
<1>15. CASE ReceivePush
  <2>1. ControlOK'
    BY <1>15, EventTypes, ConstantsAssumption DEF ReceivePush, MethodNames, Spend, BudgetKinds, ConstantsAssumption, ControlOK, Goto, Threads, AppLabels, WsLabels, OutLabels
  <2>2. budget["push"] \in Nat /\ budget' \in [BudgetKinds -> Nat]
    BY <1>15 DEF ReceivePush, Spend, BudgetKinds
  <2>3. Pushes \subseteq MethodNames
    BY ConstantsAssumption DEF MethodNames, ConstantsAssumption
  <2>4. incomingEvents' \subseteq Event /\ budget' \in [BudgetKinds -> Nat]
    BY <1>15, <2>2, <2>3, EventTypes DEF ReceivePush
  <2>5. TypeOK'
    BY <1>15, <2>1, <2>4 DEF ReceivePush, MethodNames, Spend, BudgetKinds, ConstantsAssumption
  <2>6. HostChosen' /\ SendingMethod' /\ JobTaken' /\ NotStarted'
    BY <1>15, EventTypes, ConstantsAssumption DEF ReceivePush, MethodNames, Spend, BudgetKinds, ConstantsAssumption, ControlOK, Goto, Threads, HostChosen, SendingMethod, JobTaken, NotStarted
  <2> QED
    BY <2>5, <2>6
<1>16. CASE ReceiveTimeError
  <2>1. Tail(wire) \in Seq(Packet) /\ budget' \in [BudgetKinds -> Nat]
    BY <1>16 DEF ReceiveTimeError, Spend, BudgetKinds
  <2>2. TypeOK'
    BY <1>16, <2>1 DEF ReceiveTimeError, ControlOK
  <2>3. HostChosen' /\ SendingMethod' /\ JobTaken' /\ NotStarted'
    BY <1>16 DEF ReceiveTimeError, HostChosen, SendingMethod, JobTaken, NotStarted
  <2> QED
    BY <2>2, <2>3
<1> QED
  BY <1>1, <1>2, <1>3, <1>4, <1>5, <1>6, <1>7, <1>8, <1>9, <1>10, <1>11, <1>12, <1>13, <1>14, <1>15, <1>16
     DEF IncomingStep

\* Handling one event in interactive_run keeps TypeInv.
LEMMA HandleEventType ==
    TypeInv /\ HandleEvent => TypeInv'
<1> SUFFICES ASSUME TypeInv, HandleEvent PROVE TypeInv'
  OBVIOUS
<1> USE DEF TypeInv, TypeOK, Callers
<1> DEFINE Rest == UNCHANGED <<wsOpen, replyHandlersById, outVars, incomingEvents, hostVars, netVars, closeVars, budget>>
<1>1. Rest /\ pc["app"] = "idle"
  BY DEF HandleEvent
<1> HIDE DEF Rest
<1>2. PICK e \in Event : \/ HandleError(e) \/ HandleStateChange(e) \/ CacheScenes(e) \/ CacheGroups(e)
                        \/ CallReplyHandler(e) \/ HandleHello(e) \/ HandleReady(e)
                        \/ HandleGroupChanged(e) \/ HandleSceneChanged(e) \/ HandleUnknownInput(e)
  BY DEF HandleEvent, Top
<1>3. CASE HandleError(e)
  <2>1. ControlOK'
    BY <1>1, <1>3 DEF HandleError, ControlOK, Goto, Threads, AppLabels
  <2>2. TypeOK'
    BY <1>1, <1>3, <2>1 DEF Rest, HandleError
  <2>3. HostChosen' /\ SendingMethod' /\ JobTaken' /\ NotStarted'
    BY <1>1, <1>3 DEF Rest, HandleError, ControlOK, Goto, Threads, HostChosen, SendingMethod, JobTaken, NotStarted
  <2> QED
    BY <2>2, <2>3
<1>4. CASE HandleStateChange(e)
  <2>1. ControlOK'
    BY <1>1, <1>4 DEF HandleStateChange, ControlOK, Goto, Threads, AppLabels
  <2>2. TypeOK'
    BY <1>1, <1>4, <2>1 DEF Rest, HandleStateChange, States, Event
  <2>3. HostChosen' /\ SendingMethod' /\ JobTaken' /\ NotStarted'
    BY <1>1, <1>4 DEF Rest, HandleStateChange, ControlOK, Goto, Threads, HostChosen, SendingMethod, JobTaken, NotStarted
  <2> QED
    BY <2>2, <2>3
<1>5. CASE CacheScenes(e)
  <2>1. ControlOK'
    BY <1>1, <1>5 DEF CacheScenes, ControlOK, Goto, Threads, AppLabels
  <2>2. TypeOK'
    BY <1>1, <1>5, <2>1 DEF Rest, CacheScenes, Event
  <2>3. HostChosen' /\ SendingMethod' /\ JobTaken' /\ NotStarted'
    BY <1>1, <1>5 DEF Rest, CacheScenes, ControlOK, Goto, Threads, HostChosen, SendingMethod, JobTaken, NotStarted
  <2> QED
    BY <2>2, <2>3
<1>6. CASE CacheGroups(e)
  <2>1. ControlOK'
    BY <1>1, <1>6 DEF CacheGroups, ControlOK, Goto, Threads, AppLabels
  <2>2. TypeOK'
    BY <1>1, <1>6, <2>1 DEF Rest, CacheGroups, Event
  <2>3. HostChosen' /\ SendingMethod' /\ JobTaken' /\ NotStarted'
    BY <1>1, <1>6 DEF Rest, CacheGroups, ControlOK, Goto, Threads, HostChosen, SendingMethod, JobTaken, NotStarted
  <2> QED
    BY <2>2, <2>3
<1>7. CASE CallReplyHandler(e)
  <2>1. ControlOK'
    BY <1>1, <1>7 DEF CallReplyHandler, ControlOK, Goto, Threads, AppLabels
  <2>2. TypeOK'
    BY <1>1, <1>7, <2>1 DEF Rest, CallReplyHandler
  <2>3. HostChosen' /\ SendingMethod' /\ JobTaken' /\ NotStarted'
    BY <1>1, <1>7 DEF Rest, CallReplyHandler, ControlOK, Goto, Threads, HostChosen, SendingMethod, JobTaken, NotStarted
  <2> QED
    BY <2>2, <2>3
<1>8. CASE HandleHello(e)
  <2>1. ControlOK'
    BY <1>1, <1>8 DEF HandleHello, ControlOK, Goto, Threads, AppLabels
  <2>2. TypeOK'
    BY <1>1, <1>8, <2>1 DEF Rest, HandleHello
  <2>3. HostChosen' /\ SendingMethod' /\ JobTaken' /\ NotStarted'
    BY <1>1, <1>8 DEF Rest, HandleHello, ControlOK, Goto, Threads, HostChosen, SendingMethod, JobTaken, NotStarted
  <2> QED
    BY <2>2, <2>3
<1>9. CASE HandleReady(e)
  <2>1. ControlOK'
    BY <1>1, <1>9 DEF HandleReady, ControlOK, Goto, Threads, AppLabels
  <2>2. TypeOK'
    BY <1>1, <1>9, <2>1 DEF Rest, HandleReady, States, Event
  <2>3. HostChosen' /\ SendingMethod' /\ JobTaken' /\ NotStarted'
    BY <1>1, <1>9 DEF Rest, HandleReady, ControlOK, Goto, Threads, HostChosen, SendingMethod, JobTaken, NotStarted
  <2> QED
    BY <2>2, <2>3
<1>10. CASE HandleGroupChanged(e)
  <2>1. ControlOK'
    BY <1>1, <1>10, CreateMethodType DEF HandleGroupChanged, ControlOK, Goto, Threads, AppLabels, Kinds
  <2>2. TypeOK'
    BY <1>1, <1>10, <2>1, CreateMethodType DEF Rest, HandleGroupChanged, Kinds
  <2>3. HostChosen' /\ SendingMethod' /\ JobTaken' /\ NotStarted'
    BY <1>1, <1>10, CreateMethodType DEF Rest, HandleGroupChanged, ControlOK, Goto, Threads, HostChosen, SendingMethod, JobTaken, NotStarted, Kinds
  <2> QED
    BY <2>2, <2>3
<1>11. CASE HandleSceneChanged(e)
  <2>1. ControlOK'
    BY <1>1, <1>11, CreateMethodType DEF HandleSceneChanged, ControlOK, Goto, Threads, AppLabels, Kinds
  <2>2. TypeOK'
    BY <1>1, <1>11, <2>1, CreateMethodType DEF Rest, HandleSceneChanged, Kinds
  <2>3. HostChosen' /\ SendingMethod' /\ JobTaken' /\ NotStarted'
    BY <1>1, <1>11, CreateMethodType DEF Rest, HandleSceneChanged, ControlOK, Goto, Threads, HostChosen, SendingMethod, JobTaken, NotStarted, Kinds
  <2> QED
    BY <2>2, <2>3
<1>12. CASE HandleUnknownInput(e)
  <2>1. ControlOK'
    BY <1>1, <1>12 DEF HandleUnknownInput, ControlOK, Goto, Threads, AppLabels
  <2>2. TypeOK'
    BY <1>1, <1>12, <2>1 DEF Rest, HandleUnknownInput
  <2>3. HostChosen' /\ SendingMethod' /\ JobTaken' /\ NotStarted'
    BY <1>1, <1>12 DEF Rest, HandleUnknownInput, ControlOK, Goto, Threads, HostChosen, SendingMethod, JobTaken, NotStarted
  <2> QED
    BY <2>2, <2>3
<1> QED
  BY <1>2, <1>3, <1>4, <1>5, <1>6, <1>7, <1>8, <1>9, <1>10, <1>11, <1>12

\* Every step of the caller's thread keeps TypeInv.
LEMMA CallerType ==
    TypeInv /\ (InteractiveConnect \/ RunStep \/ CloseStep \/ CallMethod \/ SetReady \/ RequestShutdown)
        => TypeInv'
<1> SUFFICES ASSUME TypeInv, InteractiveConnect \/ RunStep \/ CloseStep \/ CallMethod \/ SetReady \/ RequestShutdown
             PROVE  TypeInv'
  OBVIOUS
<1> USE DEF TypeInv, TypeOK, Callers
<1>1. CASE InteractiveConnect
  <2>1. ControlOK'
    BY <1>1 DEF InteractiveConnect, States, ControlOK, Goto, Threads, AppLabels, WsLabels, OutLabels
  <2>2. TypeOK'
    BY <1>1, <2>1 DEF InteractiveConnect, States
  <2>3. HostChosen' /\ SendingMethod' /\ JobTaken' /\ NotStarted'
    BY <1>1 DEF InteractiveConnect, States, ControlOK, Goto, Threads, HostChosen, SendingMethod, JobTaken, NotStarted
  <2> QED
    BY <2>2, <2>3
<1>2. CASE TakeEvents
  <2>1. ControlOK'
    BY <1>2 DEF TakeEvents, TopSets, ControlOK, Goto, Threads, AppLabels, WsLabels, OutLabels
  <2>2. TypeOK'
    BY <1>2, <2>1 DEF TakeEvents, TopSets
  <2>3. HostChosen' /\ SendingMethod' /\ JobTaken' /\ NotStarted'
    BY <1>2 DEF TakeEvents, TopSets, ControlOK, Goto, Threads, HostChosen, SendingMethod, JobTaken, NotStarted
  <2> QED
    BY <2>2, <2>3
<1>3. CASE HandleEvent
  BY <1>3, HandleEventType
<1>4. CASE BootstrapStep("app")
  BY <1>4, BootstrapType
<1>5. CASE CloseSocket
  <2>1. ControlOK'
    BY <1>5 DEF CloseSocket, ControlOK, Goto, Threads, AppLabels, WsLabels, OutLabels
  <2>2. up' \in BOOLEAN /\ wsClosed' \in BOOLEAN
    BY <1>5 DEF CloseSocket
  <2>3. TypeOK'
    BY <1>5, <2>1, <2>2 DEF CloseSocket
  <2>4. HostChosen' /\ SendingMethod' /\ JobTaken' /\ NotStarted'
    BY <1>5 DEF CloseSocket, ControlOK, Goto, Threads, HostChosen, SendingMethod, JobTaken, NotStarted
  <2> QED
    BY <2>3, <2>4
<1>6. CASE NotifyOutgoing
  <2>1. ControlOK'
    BY <1>6 DEF NotifyOutgoing, ControlOK, Goto, Threads, AppLabels, WsLabels, OutLabels
  <2>2. TypeOK'
    BY <1>6, <2>1 DEF NotifyOutgoing
  <2>3. HostChosen' /\ SendingMethod' /\ JobTaken' /\ NotStarted'
    BY <1>6 DEF NotifyOutgoing, ControlOK, Goto, Threads, HostChosen, SendingMethod, JobTaken, NotStarted
  <2> QED
    BY <2>2, <2>3
<1>7. CASE JoinThreads
  <2>1. ControlOK'
    BY <1>7 DEF JoinThreads, ControlOK, Goto, Threads, AppLabels, WsLabels, OutLabels
  <2>2. TypeOK'
    BY <1>7, <2>1 DEF JoinThreads
  <2>3. HostChosen' /\ SendingMethod' /\ JobTaken' /\ NotStarted'
    BY <1>7 DEF JoinThreads, ControlOK, Goto, Threads, HostChosen, SendingMethod, JobTaken, NotStarted
  <2> QED
    BY <2>2, <2>3
<1>8. CASE CallMethod
  <2>1. PICK kind \in Kinds : CreateMethod("app", kind)
    BY <1>8 DEF CallMethod, Kinds
  <2>2. budget' \in [BudgetKinds -> Nat]
    BY <1>8 DEF CallMethod, Spend, BudgetKinds
  <2>3. /\ packetId' \in Nat /\ job' \in [Callers -> Packet \union {NoPacket}]
        /\ job'["app"] \in Packet /\ job'["ws"] = job["ws"]
        /\ DOMAIN pc' = Threads /\ pc'["app"] \in {"register", "enqueue"}
        /\ pc'["ws"] = pc["ws"] /\ pc'["out"] = pc["out"]
    BY <2>1, CreateMethodType DEF Threads
  <2>4. ControlOK'
    BY <2>3 DEF ControlOK, Threads, AppLabels
  <2>5. TypeOK'
    BY <1>8, <2>2, <2>3, <2>4 DEF CallMethod
  <2>6. HostChosen' /\ SendingMethod' /\ JobTaken' /\ NotStarted'
    BY <1>8, <2>3 DEF CallMethod, HostChosen, SendingMethod, JobTaken, NotStarted
  <2> QED
    BY <2>5, <2>6
<1>9. CASE SetReady
  <2>1. PICK kind \in Kinds : CreateMethod("app", kind)
    BY <1>9, ConstantsAssumption DEF SetReady, Kinds, CallKinds, ConstantsAssumption
  <2>2. budget' \in [BudgetKinds -> Nat]
    BY <1>9 DEF SetReady, Spend, BudgetKinds
  <2>3. /\ packetId' \in Nat /\ job' \in [Callers -> Packet \union {NoPacket}]
        /\ job'["app"] \in Packet /\ job'["ws"] = job["ws"]
        /\ DOMAIN pc' = Threads /\ pc'["app"] \in {"register", "enqueue"}
        /\ pc'["ws"] = pc["ws"] /\ pc'["out"] = pc["out"]
    BY <2>1, CreateMethodType DEF Threads
  <2>4. ControlOK'
    BY <2>3 DEF ControlOK, Threads, AppLabels
  <2>5. TypeOK'
    BY <1>9, <2>2, <2>3, <2>4 DEF SetReady
  <2>6. HostChosen' /\ SendingMethod' /\ JobTaken' /\ NotStarted'
    BY <1>9, <2>3 DEF SetReady, HostChosen, SendingMethod, JobTaken, NotStarted
  <2> QED
    BY <2>5, <2>6
<1>10. CASE RequestShutdown
  <2>1. ControlOK'
    BY <1>10 DEF RequestShutdown, ControlOK, Goto, Threads, AppLabels, WsLabels, OutLabels
  <2>2. TypeOK'
    BY <1>10, <2>1 DEF RequestShutdown
  <2>3. HostChosen' /\ SendingMethod' /\ JobTaken' /\ NotStarted'
    BY <1>10 DEF RequestShutdown, ControlOK, Goto, Threads, HostChosen, SendingMethod, JobTaken, NotStarted
  <2> QED
    BY <2>2, <2>3
<1> QED
  BY <1>1, <1>2, <1>3, <1>4, <1>5, <1>6, <1>7, <1>8, <1>9, <1>10 DEF RunStep, CloseStep

\* TypeInv is inductive.
THEOREM TypeStep == TypeInv /\ [Next]_vars => TypeInv'
<1>1. ASSUME TypeInv, UNCHANGED vars PROVE TypeInv'
  BY <1>1 DEF vars, TypeInv, TypeOK, ControlOK, HostChosen, SendingMethod, JobTaken, NotStarted
<1> QED
  BY <1>1, CallerType, IncomingType, OutgoingType DEF Next, Environment

\* In every reachable state, for every bound, budget and configuration of the
\* session, TypeOK holds: in particular the retry frequency of run_incoming_thread
\* stays within 1, 2, 4, 8 and its host iterator within the list.
THEOREM TypeCorrect == Spec => []TypeOK
<1>1. TypeInv => TypeOK
  BY DEF TypeInv
<1> QED
  BY <1>1, TypeInit, TypeStep, PTL DEF Spec

-------------------------------------------------------------------------------
(* What a lost connection leaves behind: ResetBeforeOpen, ResetBeforeHello,      *)
(* OnlyMethodsDropped and ConnectedMeansBootstrapped.                            *)

USE DEF flagVars, cacheVars, callVars, outVars, inVars, hostVars, netVars, closeVars

\* The outgoing thread touches nothing but its own label and queues, and reports errors.
LEMMA OutgoingOnly ==
    ASSUME TypeInv, OutgoingStep \/ SpuriousWakeup
    PROVE  /\ pc'["app"] = pc["app"] /\ pc'["ws"] = pc["ws"]
           /\ UNCHANGED <<state, flagVars, wsOpen, closeVars, hostVars, conn, job, processingQueue>>
           /\ incomingEvents \subseteq incomingEvents'
           /\ \A e \in incomingEvents' \ incomingEvents : e.type = "error" /\ e.conn = conn
<1> USE DEF TypeInv, TypeOK, ControlOK, Threads, Goto
<1>1. CASE OutgoingLoop
  BY <1>1 DEF OutgoingLoop
<1>2. CASE TakeOrWait
  BY <1>2 DEF TakeOrWait
<1>3. CASE Woken
  BY <1>3 DEF Woken
<1>4. CASE NextMethod
  BY <1>4 DEF NextMethod
<1>5. CASE SendMethod
  BY <1>5 DEF SendMethod
<1>6. CASE SendFails
  BY <1>6 DEF SendFails, ErrorEvent
<1>7. CASE SpuriousWakeup
  BY <1>7 DEF SpuriousWakeup
<1> QED
  BY <1>1, <1>2, <1>3, <1>4, <1>5, <1>6, <1>7 DEF OutgoingStep

-------------------------------------------------------------------------------
\* What is known of the connection at each label of the incoming thread: when it
\* goes on after an error, and at its first host, everything is reset; after an
\* open that returned 0 the websocket is taken to be open.
Fresh == ~wsOpen /\ ~serverTimeOffsetCalculated
Inside == {"recv", "bootstrap", "scenes", "groups", "complete", "register", "enqueue", "stamp"}
ConnInv ==
    /\ pc["ws"] = "none" => conn = 0 /\ Fresh
    /\ pc["ws"] \in {"top", "connect", "next"} => IF conn = 0 \/ openError THEN Fresh ELSE wsOpen
    /\ pc["ws"] \in {"resetGroups", "resetScenes", "announce"} => openError /\ Fresh
    /\ pc["ws"] \in {"clear", "resetTime"} => openError /\ ~wsOpen
    /\ pc["ws"] \in Inside => wsOpen /\ conn > 0
    /\ pc["ws"] = "returned" =>
          /\ wsOpen \/ ~serverTimeOffsetCalculated
          /\ openError \/ (wsOpen /\ conn > 0)

\* ConnInv holds initially.
LEMMA ConnInit == Init => ConnInv
BY DEF Init, ConnInv, Fresh, Inside, Threads

\* bootstrap and queue_method on a thread move it inside bootstrap, or back.
LEMMA BootstrapOnly ==
    ASSUME TypeInv, NEW t \in Callers, BootstrapStep(t)
    PROVE  /\ pc[t] \in {"bootstrap", "scenes", "groups", "complete", "register", "enqueue", "stamp"}
           /\ pc'[t] \in {"scenes", "groups", "complete", "register", "enqueue", "stamp", Return(t)}
           /\ \A u \in Callers \ {t} : pc'[u] = pc[u]
           /\ UNCHANGED <<flagVars, wsOpen, closeVars, hostVars, conn, inVars>>
<1> USE DEF TypeInv, TypeOK, ControlOK, Threads, Callers, Goto, CreateMethod
<1>1. CASE CheckTime(t)
  BY <1>1 DEF CheckTime
<1>2. CASE CheckScenes(t)
  BY <1>2 DEF CheckScenes
<1>3. CASE CheckGroups(t)
  BY <1>3 DEF CheckGroups
<1>4. CASE Complete(t)
  BY <1>4 DEF Complete
<1>5. CASE RegisterHandler(t)
  BY <1>5 DEF RegisterHandler
<1>6. CASE QueueMethod(t)
  BY <1>6 DEF QueueMethod
<1>7. CASE StampTime(t)
  BY <1>7 DEF StampTime
<1> QED
  BY <1>1, <1>2, <1>3, <1>4, <1>5, <1>6, <1>7 DEF BootstrapStep

\* Handling an event leaves the incoming thread and the connection alone.
LEMMA HandleOnly ==
    ASSUME TypeInv, HandleEvent
    PROVE  /\ pc["app"] = "idle" /\ pc'["app"] \in {"idle", "bootstrap", "register", "enqueue"}
           /\ pc'["ws"] = pc["ws"]
           /\ UNCHANGED <<serverTimeOffsetCalculated, wsOpen, closeVars, hostVars, conn, incomingEvents>>
<1> USE DEF TypeInv, TypeOK, ControlOK, Threads, Callers, Goto, CreateMethod
<1> DEFINE After == /\ pc'["app"] \in {"idle", "bootstrap", "register", "enqueue"}
                    /\ pc'["ws"] = pc["ws"] /\ UNCHANGED serverTimeOffsetCalculated
<1>1. UNCHANGED <<wsOpen, closeVars, hostVars, conn, incomingEvents>> /\ pc["app"] = "idle"
  BY DEF HandleEvent
<1>2. PICK e : \/ HandleError(e) \/ HandleStateChange(e) \/ CacheScenes(e) \/ CacheGroups(e)
               \/ CallReplyHandler(e) \/ HandleHello(e) \/ HandleReady(e)
               \/ HandleGroupChanged(e) \/ HandleSceneChanged(e) \/ HandleUnknownInput(e)
  BY DEF HandleEvent
<1>3. CASE HandleError(e) \/ HandleStateChange(e) \/ CallReplyHandler(e) \/ HandleReady(e) \/ HandleUnknownInput(e)
  BY <1>1, <1>3 DEF HandleError, HandleStateChange, CallReplyHandler, HandleReady, HandleUnknownInput
<1>4. CASE CacheScenes(e)
  BY <1>1, <1>4 DEF CacheScenes
<1>5. CASE CacheGroups(e)
  BY <1>1, <1>5 DEF CacheGroups
<1>6. CASE HandleHello(e)
  BY <1>1, <1>6 DEF HandleHello
<1>7. CASE HandleGroupChanged(e)
  BY <1>1, <1>7 DEF HandleGroupChanged
<1>8. CASE HandleSceneChanged(e)
  BY <1>1, <1>8 DEF HandleSceneChanged
<1>9. After
  BY <1>2, <1>3, <1>4, <1>5, <1>6, <1>7, <1>8
<1> QED
  BY <1>1, <1>9

\* ConnInv is kept by the caller's thread.
LEMMA ConnCaller ==
    ASSUME TypeInv, ConnInv,
           InteractiveConnect \/ RunStep \/ CloseStep \/ CallMethod \/ SetReady \/ RequestShutdown
    PROVE  ConnInv'
<1>1. ASSUME pc'["ws"] = pc["ws"], UNCHANGED <<conn, wsOpen, serverTimeOffsetCalculated, openError>>
      PROVE  ConnInv'
  BY <1>1 DEF ConnInv, Fresh
<1> USE DEF TypeInv, TypeOK, ControlOK, Threads, Goto
<1>2. CASE InteractiveConnect
  <2>1. pc["ws"] = "none" /\ pc'["ws"] = "top"
    BY <1>2 DEF InteractiveConnect, NotStarted
  <2> QED
    BY <1>2, <2>1 DEF InteractiveConnect, ConnInv, Fresh, Inside
<1>3. CASE TakeEvents
  BY <1>1, <1>3 DEF TakeEvents
<1>4. CASE HandleEvent
  BY <1>1, <1>4, HandleOnly
<1>5. CASE BootstrapStep("app")
  BY <1>1, <1>5, BootstrapOnly DEF Callers
<1>6. CASE CallMethod \/ SetReady
  <2>1. pc'["ws"] = pc["ws"]
    BY <1>6 DEF CallMethod, SetReady, CreateMethod
  <2> QED
    BY <1>1, <1>6, <2>1 DEF CallMethod, SetReady
<1>7. CASE RequestShutdown \/ CloseStep
  <2>1. pc'["ws"] = pc["ws"]
    BY <1>7 DEF RequestShutdown, CloseStep, CloseSocket, NotifyOutgoing, JoinThreads
  <2> QED
    BY <1>1, <1>7, <2>1 DEF RequestShutdown, CloseStep, CloseSocket, NotifyOutgoing, JoinThreads
<1> QED
  BY <1>2, <1>3, <1>4, <1>5, <1>6, <1>7 DEF RunStep

\* ConnInv is kept by the incoming thread and its callbacks.
LEMMA ConnIncoming ==
    ASSUME TypeInv, ConnInv, IncomingStep \/ Break \/ ReceivePush \/ ReceiveTimeError
    PROVE  ConnInv'
<1> USE DEF TypeInv, TypeOK, ControlOK, Threads, Goto, Fresh, Inside
<1>1. CASE GetHosts
  BY <1>1 DEF GetHosts, ConnInv
<1>2. CASE OpenSucceeds
  BY <1>2 DEF OpenSucceeds, ConnInv
<1>3. CASE OpenFails
  BY <1>3 DEF OpenFails, ConnInv
<1>4. CASE ReceiveHello \/ ReceiveReady \/ Break \/ ReceivePush \/ ReceiveTimeError
  BY <1>4 DEF ReceiveHello, ReceiveReady, Break, ReceivePush, ReceiveTimeError, ConnInv
<1>5. CASE ReceiveReply
  <2>1. pc["ws"] = "recv" /\ pc'["ws"] \in {"recv", "bootstrap"} /\ UNCHANGED <<wsOpen, conn, openError>>
    BY <1>5 DEF ReceiveReply
  <2> QED
    BY <2>1 DEF ConnInv
<1>6. CASE OpenReturns
  BY <1>6 DEF OpenReturns, ConnInv
<1>7. CASE AfterOpen
  BY <1>7 DEF AfterOpen, ConnInv
<1>8. CASE ClearMethods
  BY <1>8 DEF ClearMethods, ConnInv
<1>9. CASE ResetFlags
  <2>1. CASE pc["ws"] = "resetTime"
    <3>1. pc'["ws"] = "resetGroups" /\ ~serverTimeOffsetCalculated'
      BY <1>9, <2>1 DEF ResetFlags
    <3> QED
      BY <1>9, <2>1, <3>1 DEF ResetFlags, ConnInv
  <2>2. CASE pc["ws"] = "resetGroups"
    <3>1. pc'["ws"] = "resetScenes" /\ UNCHANGED serverTimeOffsetCalculated
      BY <1>9, <2>2 DEF ResetFlags
    <3> QED
      BY <1>9, <2>2, <3>1 DEF ResetFlags, ConnInv
  <2>3. CASE pc["ws"] = "resetScenes"
    <3>1. pc'["ws"] = "announce" /\ UNCHANGED serverTimeOffsetCalculated
      BY <1>9, <2>3 DEF ResetFlags
    <3> QED
      BY <1>9, <2>3, <3>1 DEF ResetFlags, ConnInv
  <2> QED
    BY <1>9, <2>1, <2>2, <2>3 DEF ResetFlags
<1>10. CASE AnnounceReset
  BY <1>10 DEF AnnounceReset, ConnInv
<1>11. CASE NextHost
  BY <1>11 DEF NextHost, ConnInv
<1>12. CASE BootstrapStep("ws")
  <2>1. /\ pc["ws"] \in Inside /\ pc'["ws"] \in Inside
        /\ UNCHANGED <<flagVars, wsOpen, hostVars, conn>>
    BY <1>12, BootstrapOnly DEF Callers, Return
  <2> QED
    BY <2>1 DEF ConnInv
<1> QED
  BY <1>1, <1>2, <1>3, <1>4, <1>5, <1>6, <1>7, <1>8, <1>9, <1>10, <1>11, <1>12 DEF IncomingStep

\* ConnInv is inductive.
LEMMA ConnNext ==
    ASSUME TypeInv, ConnInv, [Next]_vars
    PROVE  ConnInv'
<1>1. CASE UNCHANGED vars
  BY <1>1 DEF vars, ConnInv, Fresh
<1>2. CASE OutgoingStep \/ SpuriousWakeup
  BY <1>2, OutgoingOnly DEF ConnInv, Fresh
<1> QED
  BY <1>1, <1>2, ConnCaller, ConnIncoming DEF Next, Environment

\* In every reachable state a connection after one that was lost with an error is
\* opened from reset state, however many there are, and one after an open that
\* returned 0 is not (run_incoming_thread).
THEOREM OpensReset == Spec => []ResetBeforeOpen
<1>1. ConnInv => ResetBeforeOpen
  BY DEF ConnInv, Fresh, ResetBeforeOpen
<1>2. TypeInv /\ ConnInv /\ [Next]_vars => (TypeInv /\ ConnInv)'
  BY TypeStep, ConnNext
<1> QED
  BY <1>1, <1>2, TypeInit, ConnInit, PTL DEF Spec

-------------------------------------------------------------------------------
\* Most steps only add to the incoming queue: events of the current connection,
\* and no state change but the one to "connecting".
Grows ==
    /\ processingQueue' = processingQueue
    /\ incomingEvents \subseteq incomingEvents'
    /\ \A e \in incomingEvents' \ incomingEvents :
          e.conn = conn /\ (e.type = "state_change" => e.what = "connecting")
    /\ conn' \in {conn, conn + 1}

\* interactive_run handles one event of its queue, or drops them all at a method.
LEMMA HandleQueue ==
    ASSUME TypeInv, HandleEvent
    PROVE  \E e \in Top(processingQueue) :
              \/ processingQueue' = processingQueue \ {e}
              \/ processingQueue' = {} /\ e.type = "rpc_method"
<1>1. PICK e \in Top(processingQueue) :
            \/ HandleError(e) \/ HandleStateChange(e) \/ CacheScenes(e) \/ CacheGroups(e)
            \/ CallReplyHandler(e) \/ HandleHello(e) \/ HandleReady(e)
            \/ HandleGroupChanged(e) \/ HandleSceneChanged(e) \/ HandleUnknownInput(e)
  BY DEF HandleEvent
<1> QED
  BY <1>1 DEF HandleError, HandleStateChange, CacheScenes, CacheGroups, CallReplyHandler,
     HandleHello, HandleReady, HandleGroupChanged, HandleSceneChanged, HandleUnknownInput

\* A step adds to the incoming queue, moves some of it to interactive_run, or
\* handles an event there.
LEMMA EventSteps ==
    ASSUME TypeInv, [Next]_vars
    PROVE  Grows \/ TakeEvents \/ HandleEvent
<1> USE DEF TypeInv, TypeOK
<1> DEFINE Same == UNCHANGED <<processingQueue, incomingEvents, conn>>
<1>1. Same => Grows
  BY DEF Grows
<1>2. CASE UNCHANGED vars
  BY <1>1, <1>2 DEF vars
<1>3. CASE InteractiveConnect \/ CloseStep \/ CallMethod \/ SetReady \/ RequestShutdown
  BY <1>1, <1>3 DEF InteractiveConnect, CloseStep, CloseSocket, NotifyOutgoing, JoinThreads, CallMethod,
     SetReady, RequestShutdown
<1>4. CASE BootstrapStep("app") \/ BootstrapStep("ws")
  BY <1>1, <1>4, BootstrapOnly DEF Callers
<1>5. CASE OutgoingStep \/ SpuriousWakeup
  BY <1>5, OutgoingOnly DEF Grows
<1>6. CASE IncomingStep \/ Break \/ ReceivePush \/ ReceiveTimeError
  <2>1. CASE OpenFails \/ OpenReturns \/ ClearMethods \/ ResetFlags \/ NextHost \/ Break \/ ReceiveTimeError
    BY <1>1, <2>1 DEF OpenFails, OpenReturns, ClearMethods, ResetFlags, NextHost, Break, ReceiveTimeError
  <2>2. CASE OpenSucceeds
    BY <2>2 DEF OpenSucceeds, Grows
  <2>3. CASE GetHosts
    BY <2>3 DEF GetHosts, Grows, ErrorEvent
  <2>4. CASE AfterOpen
    BY <2>4 DEF AfterOpen, Grows, ErrorEvent
  <2>5. CASE AnnounceReset
    BY <2>5 DEF AnnounceReset, Grows, StateChangeEvent
  <2>6. CASE ReceiveHello \/ ReceiveReady \/ ReceivePush
    BY <2>6 DEF ReceiveHello, ReceiveReady, ReceivePush, Grows, MethodEvent
  <2>7. CASE ReceiveReply
    BY <2>7 DEF ReceiveReply, Grows, ReplyEvent
  <2> QED
    BY <1>4, <1>6, <2>1, <2>2, <2>3, <2>4, <2>5, <2>6, <2>7 DEF IncomingStep
<1> QED
  BY <1>2, <1>3, <1>4, <1>5, <1>6 DEF Next, Environment, RunStep

\* What is known of a hello in the hands of interactive_run: no event is of a later
\* connection than the current one, and a reset still in the incoming queue is of
\* no earlier connection than the hello.
HelloInv ==
    /\ \A e \in incomingEvents \union processingQueue : e.conn <= conn
    /\ \A e \in processingQueue, f \in incomingEvents :
          e.type = "rpc_method" /\ f.type = "state_change" => e.conn <= f.conn

\* HelloInv is inductive.
LEMMA HelloNext ==
    ASSUME TypeInv, HelloInv, [Next]_vars
    PROVE  HelloInv'
<1> USE DEF HelloInv
<1>0. /\ conn \in Nat
      /\ incomingEvents \subseteq Event /\ processingQueue \subseteq Event
      /\ \A e \in Event : e.conn \in Nat
  BY DEF TypeInv, TypeOK, Event
<1>1. CASE Grows
  <2>1. ASSUME NEW e \in incomingEvents' \union processingQueue' PROVE e.conn <= conn /\ e.conn <= conn'
    BY <1>0, <1>1, <2>1 DEF Grows
  <2>2. ASSUME NEW e \in processingQueue', NEW f \in incomingEvents',
               e.type = "rpc_method", f.type = "state_change"
        PROVE  e.conn <= f.conn
    BY <1>1, <2>1, <2>2 DEF Grows
  <2> QED
    BY <2>1, <2>2
<1>2. CASE TakeEvents
  <2>1. /\ processingQueue' \subseteq incomingEvents /\ incomingEvents' = incomingEvents \ processingQueue'
        /\ conn' = conn
        /\ \A e \in processingQueue', f \in incomingEvents' : Rank[e.type] <= Rank[f.type]
    BY <1>2 DEF TakeEvents, TopSets
  <2> QED
    BY <2>1 DEF Rank
<1>3. CASE HandleEvent
  <2>1. processingQueue' \subseteq processingQueue
    BY <1>3, HandleQueue DEF Top
  <2> QED
    BY <1>3, <2>1, HandleOnly
<1> QED
  BY <1>1, <1>2, <1>3, EventSteps

\* In every reachable state the reset of a connection is handled before the hello
\* of the next one (compare_event_priority, interactive_run).
THEOREM ResetFirst == Spec => []ResetBeforeHello
<1>1. TypeInv /\ HelloInv => ResetBeforeHello
  <2> SUFFICES ASSUME TypeInv, HelloInv, NEW e \in Top(processingQueue),
                      e.type = "rpc_method", NEW f \in Pending("state_change")
               PROVE  f.conn >= e.conn
    BY DEF ResetBeforeHello
  <2>1. e \in Event /\ f \in Event /\ e.conn \in Nat /\ f.conn \in Nat
    BY DEF TypeInv, TypeOK, Top, Pending, Event
  <2>2. f \notin processingQueue
    BY DEF Top, Pending, Rank
  <2>3. e.conn <= f.conn
    BY <2>2 DEF HelloInv, Top, Pending
  <2> QED
    BY <2>1, <2>3
<1>2. Init => TypeInv /\ HelloInv
  BY TypeInit DEF Init, HelloInv
<1>3. TypeInv /\ HelloInv /\ [Next]_vars => (TypeInv /\ HelloInv)'
  BY TypeStep, HelloNext
<1> QED
  BY <1>1, <1>2, <1>3, PTL DEF Spec

\* In every execution an event other than a method leaves the local queue of
\* interactive_run only to be handled.
THEOREM DropsMethodsOnly == Spec => OnlyMethodsDropped
<1> DEFINE left == processingQueue \ processingQueue'
           A == Cardinality(left) <= 1 \/ \A e \in left : e.type = "rpc_method"
<1>1. ASSUME TypeInv, [Next]_vars PROVE A
  <2>1. CASE left = {}
    BY <2>1, FS_EmptySet
  <2>2. CASE Grows
    BY <2>1, <2>2 DEF Grows
  <2>3. CASE TakeEvents
    BY <2>1, <2>3 DEF TakeEvents
  <2>4. CASE HandleEvent
    <3>1. PICK e \in Top(processingQueue) :
              \/ processingQueue' = processingQueue \ {e}
              \/ processingQueue' = {} /\ e.type = "rpc_method"
      BY <1>1, <2>4, HandleQueue
    <3>2. CASE processingQueue' = processingQueue \ {e}
      <4>1. left = {e}
        BY <3>1, <3>2 DEF Top
      <4> QED
        BY <4>1, FS_Singleton
    <3>3. CASE e.type = "rpc_method"
      <4>1. ASSUME NEW f \in processingQueue PROVE f.type = "rpc_method"
        <5>1. Rank["rpc_method"] <= Rank[f.type] /\ f \in Event
          BY <1>1, <3>3 DEF Top, TypeInv, TypeOK
        <5> QED
          BY <5>1 DEF Event, Rank
      <4> QED
        BY <4>1
    <3> QED
      BY <3>1, <3>2, <3>3
  <2> QED
    BY <1>1, <2>2, <2>3, <2>4, EventSteps
<1>2. TypeInv /\ [Next]_vars => [A]_vars
  BY <1>1
<1>3. TypeInv /\ [Next]_vars => TypeInv'
  BY TypeStep
<1>4. [][A]_vars => OnlyMethodsDropped
  BY PTL DEF OnlyMethodsDropped
<1> QED
  BY <1>2, <1>3, <1>4, TypeInit, PTL DEF Spec

-------------------------------------------------------------------------------
\* A thread inside bootstrap has seen the flags of the checks behind it; the
\* caller's thread, unless the reset of a lost connection is going on or announced.
\* The incoming thread resets them itself, so what it has seen stays true.
Bootstrapped == serverTimeOffsetCalculated /\ scenesCached /\ groupsCached
Announced == Resetting \/ Pending("state_change") # {}
Passed(label) ==
    /\ label \in {"scenes", "groups", "complete"} => serverTimeOffsetCalculated
    /\ label \in {"groups", "complete"} => scenesCached
    /\ label = "complete" => groupsCached
OnlyResets == \A e \in Pending("state_change") : e.what = "connecting"
SeenInv ==
    /\ Passed(pc["app"]) \/ Announced
    /\ Passed(pc["ws"])
BootInv == OnlyResets /\ SeenInv

\* What a step must do for the session: keep what the threads have seen, and not
\* make it connected without its flags, but for an onReady that comes too late.
Founded == SeenInv' /\ (Unfounded' => Unfounded \/ ReadyTooEarly)

\* No state change but the one to "connecting" is ever announced.
LEMMA ResetsNext ==
    ASSUME TypeInv, OnlyResets, [Next]_vars
    PROVE  OnlyResets'
<1> USE DEF OnlyResets, Pending
<1>1. CASE Grows
  BY <1>1 DEF Grows
<1>2. CASE TakeEvents
  BY <1>2 DEF TakeEvents, TopSets
<1>3. CASE HandleEvent
  BY <1>3, HandleQueue, HandleOnly DEF Top
<1> QED
  BY <1>1, <1>2, <1>3, EventSteps

\* What keeps the rest of BootInv: flags that only rise, a state that stays, and an
\* announcement that is not taken back.
LEMMA BootKept ==
    ASSUME BootInv,
           serverTimeOffsetCalculated => serverTimeOffsetCalculated',
           scenesCached => scenesCached', groupsCached => groupsCached',
           state' = state \/ state' = "connecting",
           pc'["app"] = pc["app"] \/ pc'["app"] \notin {"scenes", "groups", "complete"},
           pc'["ws"] = pc["ws"] \/ pc'["ws"] \notin {"scenes", "groups", "complete"},
           Announced => Announced'
    PROVE  Founded
<1>1. SeenInv'
  BY DEF BootInv, SeenInv, Passed
<1>2. Unfounded' => Unfounded
  BY DEF Unfounded, Announced
<1> QED
  BY <1>1, <1>2 DEF Founded

\* The steps of bootstrap and queue_method are founded: Complete has passed every
\* check, or a reset is announced.
LEMMA BootBootstrap ==
    ASSUME TypeInv, BootInv, NEW t \in Callers, BootstrapStep(t)
    PROVE  Founded
<1> USE DEF TypeInv, TypeOK, ControlOK, Threads, Callers, Goto
<1>1. Announced' = Announced
  <2>1. Resetting' = Resetting
    BY BootstrapOnly DEF Resetting, Return
  <2> QED
    BY <2>1, BootstrapOnly DEF Announced, Pending
<1>2. UNCHANGED <<serverTimeOffsetCalculated, scenesCached, groupsCached>>
      /\ \A u \in Callers \ {t} : pc'[u] = pc[u]
  BY BootstrapOnly
<1>3. CASE pc'[t] \notin {"scenes", "groups", "complete"} /\ UNCHANGED state
  BY <1>1, <1>2, <1>3, BootKept
<1>4. CASE pc'[t] \in {"scenes", "groups", "complete"}
  <2>1. UNCHANGED state /\ (Passed(pc[t]) => Passed(pc[t])')
    <3>1. CASE CheckTime(t)
      BY <3>1, <1>4 DEF CheckTime, CreateMethod, Passed
    <3>2. CASE CheckScenes(t)
      BY <3>2, <1>4 DEF CheckScenes, CreateMethod, Passed
    <3>3. CASE CheckGroups(t)
      BY <3>3, <1>4 DEF CheckGroups, CreateMethod, Passed
    <3>4. CASE Complete(t)
      BY <3>4, <1>4 DEF Complete, CreateMethod, Return
    <3>5. CASE RegisterHandler(t) \/ QueueMethod(t) \/ StampTime(t)
      BY <3>5, <1>4 DEF RegisterHandler, QueueMethod, StampTime, Return
    <3> QED
      BY <3>1, <3>2, <3>3, <3>4, <3>5 DEF BootstrapStep
  <2>2. Unfounded' => Unfounded
    BY <1>1, <1>2, <2>1 DEF Unfounded, Announced
  <2>3. SeenInv'
    BY <1>1, <1>2, <2>1 DEF BootInv, SeenInv, Passed
  <2> QED
    BY <2>2, <2>3 DEF Founded
<1>5. CASE ~UNCHANGED state
  <2>1. Complete(t)
    BY <1>5 DEF BootstrapStep, CheckTime, CheckScenes, CheckGroups, RegisterHandler, QueueMethod, StampTime
  <2>2. pc[t] = "complete" /\ pc'[t] \in {"register", "enqueue", Return(t)}
    BY <2>1 DEF Complete, CreateMethod
  <2>3. Bootstrapped \/ Announced
    BY <2>2 DEF BootInv, SeenInv, Passed, Bootstrapped
  <2>4. ~Unfounded'
    BY <1>1, <1>2, <2>3 DEF Unfounded, Announced, Bootstrapped
  <2>5. SeenInv'
    BY <1>1, <1>2, <2>2 DEF BootInv, SeenInv, Passed, Return
  <2> QED
    BY <2>4, <2>5 DEF Founded
<1> QED
  BY <1>3, <1>4, <1>5

\* The steps of the incoming thread outside bootstrap, and of its callbacks, are
\* founded: it lowers a flag only between the loss it notices and its announcement.
LEMMA BootIncoming ==
    ASSUME TypeInv, BootInv, IncomingStep \/ Break \/ ReceivePush \/ ReceiveTimeError, ~BootstrapStep("ws")
    PROVE  Founded
<1> USE DEF TypeInv, TypeOK, ControlOK, Threads, Goto
<1> DEFINE Calm == /\ UNCHANGED <<state, processingQueue>> /\ pc'["app"] = pc["app"]
                   /\ incomingEvents \subseteq incomingEvents'
<1>1. Calm /\ ~Resetting => (Announced => Announced')
  BY DEF Announced, Pending
<1>2. CASE GetHosts \/ OpenSucceeds \/ OpenFails \/ AfterOpen \/ NextHost \/ OpenReturns
  <2>1. Calm /\ ~Resetting /\ UNCHANGED flagVars /\ pc'["ws"] \notin {"scenes", "groups", "complete"}
    <3>1. CASE GetHosts
      BY <3>1 DEF GetHosts, Resetting
    <3>2. CASE OpenSucceeds
      BY <3>2 DEF OpenSucceeds, Resetting
    <3>3. CASE OpenFails
      BY <3>3 DEF OpenFails, Resetting
    <3>4. CASE AfterOpen
      BY <3>4 DEF AfterOpen, Resetting
    <3>5. CASE NextHost
      BY <3>5 DEF NextHost, Resetting
    <3>6. CASE OpenReturns
      BY <3>6 DEF OpenReturns, Resetting
    <3> QED
      BY <1>2, <3>1, <3>2, <3>3, <3>4, <3>5, <3>6
  <2> QED
    BY <1>1, <2>1, BootKept
<1>3. CASE ReceiveHello \/ ReceiveReady \/ ReceivePush \/ ReceiveTimeError \/ Break
  <2>1. Calm /\ UNCHANGED <<pc, serverTimeOffsetCalculated, scenesCached, groupsCached>>
    BY <1>3 DEF ReceiveHello, ReceiveReady, ReceivePush, ReceiveTimeError, Break
  <2>2. Announced => Announced'
    BY <2>1 DEF Announced, Pending, Resetting
  <2> QED
    BY <2>1, <2>2, BootKept
<1>4. CASE ReceiveReply
  <2>1. /\ Calm /\ ~Resetting /\ pc'["ws"] \notin {"scenes", "groups", "complete"}
        /\ serverTimeOffsetCalculated => serverTimeOffsetCalculated'
        /\ UNCHANGED <<scenesCached, groupsCached>>
    BY <1>4 DEF ReceiveReply, Resetting
  <2> QED
    BY <1>1, <2>1, BootKept
<1>5. CASE ClearMethods \/ ResetFlags
  <2>1. pc'["ws"] \in {"resetTime", "resetGroups", "resetScenes", "announce"}
    BY <1>5 DEF ClearMethods, ResetFlags
  <2> QED
    BY <2>1 DEF Founded, Unfounded, SeenInv, Announced, Resetting, Passed
<1>6. CASE AnnounceReset
  <2>1. StateChangeEvent("connecting") \in incomingEvents' /\ pc'["ws"] = "next"
    BY <1>6 DEF AnnounceReset
  <2> QED
    <3>1. Pending("state_change")' # {}
      BY <2>1 DEF Pending, StateChangeEvent
    <3> QED
      BY <2>1, <3>1 DEF Founded, Unfounded, SeenInv, Announced, Passed
<1> QED
  BY <1>2, <1>3, <1>4, <1>5, <1>6 DEF IncomingStep

\* Handling an event in interactive_run is founded: a state change leads away from
\* connected, and only onReady leads there.
LEMMA BootHandle ==
    ASSUME TypeInv, BootInv, HandleEvent
    PROVE  Founded
<1>1. PICK e \in Top(processingQueue) :
            \/ HandleError(e) \/ HandleStateChange(e) \/ CacheScenes(e) \/ CacheGroups(e)
            \/ CallReplyHandler(e) \/ HandleHello(e) \/ HandleReady(e)
            \/ HandleGroupChanged(e) \/ HandleSceneChanged(e) \/ HandleUnknownInput(e)
  BY DEF HandleEvent
<1>2. e \in processingQueue /\ UNCHANGED <<incomingEvents, serverTimeOffsetCalculated>>
      /\ pc'["app"] \in {"idle", "bootstrap", "register", "enqueue"} /\ pc'["ws"] = pc["ws"]
  BY HandleOnly DEF Top
<1>3. Resetting' = Resetting
  BY <1>2 DEF Resetting
<1>4. CASE HandleStateChange(e)
  <2>1. state' = "connecting" /\ UNCHANGED flagVars
    BY <1>2, <1>4 DEF HandleStateChange, BootInv, OnlyResets, Pending
  <2> QED
    BY <1>2, <2>1 DEF Founded, Unfounded, BootInv, SeenInv, Passed
<1>5. CASE HandleReady(e)
  <2>1. /\ e.type = "rpc_method" /\ e.what \in {"ready", "notReady"} /\ e \notin processingQueue'
        /\ processingQueue' = processingQueue \ {e} /\ UNCHANGED flagVars
    BY <1>5 DEF HandleReady
  <2>2. Pending("state_change")' = Pending("state_change")
    BY <1>2, <2>1 DEF Pending
  <2>3. Announced' = Announced
    BY <1>3, <2>2 DEF Announced
  <2>4. SeenInv'
    BY <1>2, <2>1, <2>3 DEF BootInv, SeenInv, Passed
  <2>5. Unfounded' => Unfounded \/ ReadyTooEarly
    BY <1>1, <2>1, <2>3 DEF Unfounded, ReadyTooEarly, Announced
  <2> QED
    BY <2>4, <2>5 DEF Founded
<1>7. CASE HandleUnknownInput(e)
  <2>1. Pending("state_change")' = Pending("state_change")
    BY <1>2, <1>7 DEF HandleUnknownInput, Pending, Top, Rank
  <2> QED
    BY <1>2, <1>3, <1>7, <2>1, BootKept DEF HandleUnknownInput, Announced
<1>8. CASE HandleError(e) \/ CacheScenes(e) \/ CacheGroups(e) \/ CallReplyHandler(e)
           \/ HandleHello(e) \/ HandleGroupChanged(e) \/ HandleSceneChanged(e)
  <2>1. /\ e.type # "state_change" /\ processingQueue' = processingQueue \ {e}
        /\ scenesCached => scenesCached'
        /\ groupsCached => groupsCached'
        /\ state' = state
    BY <1>8 DEF HandleError, CacheScenes, CacheGroups, CallReplyHandler, HandleHello,
       HandleGroupChanged, HandleSceneChanged
  <2>2. Pending("state_change")' = Pending("state_change")
    BY <1>2, <2>1 DEF Pending
  <2>3. Announced' = Announced
    BY <1>3, <2>2 DEF Announced
  <2>4. serverTimeOffsetCalculated => serverTimeOffsetCalculated'
    BY <1>2
  <2>5. pc'["app"] \notin {"scenes", "groups", "complete"} /\ pc'["ws"] = pc["ws"]
    BY <1>2
  <2> QED
    BY <2>1, <2>3, <2>4, <2>5, BootKept
<1> QED
  BY <1>1, <1>4, <1>5, <1>7, <1>8

\* BootInv is inductive, and every step is founded.
LEMMA BootNext ==
    ASSUME TypeInv, BootInv, [Next]_vars
    PROVE  BootInv' /\ Founded
<1> USE DEF TypeInv, TypeOK, ControlOK, Threads
<1>1. OnlyResets'
  BY ResetsNext DEF BootInv
<1> SUFFICES Founded
  BY <1>1 DEF BootInv, Founded
<1>2. CASE UNCHANGED vars
  <2>1. Announced' = Announced
    BY <1>2 DEF vars, Announced, Resetting, Pending
  <2> QED
    BY <1>2, <2>1, BootKept DEF vars
<1>3. CASE OutgoingStep \/ SpuriousWakeup
  <2>1. Announced => Announced'
    BY <1>3, OutgoingOnly DEF Announced, Resetting, Pending
  <2> QED
    BY <1>3, <2>1, OutgoingOnly, BootKept
<1>4. CASE InteractiveConnect
  <2>1. state' = "connecting" /\ pc'["app"] = "idle" /\ pc'["ws"] = "top" /\ UNCHANGED flagVars
    BY <1>4 DEF InteractiveConnect
  <2> QED
    BY <2>1 DEF Founded, Unfounded, SeenInv, Passed
<1>5. CASE CloseStep \/ CallMethod \/ SetReady \/ RequestShutdown
  <2>1. /\ pc'["app"] \notin {"scenes", "groups", "complete"} /\ pc'["ws"] = pc["ws"]
        /\ UNCHANGED <<state, serverTimeOffsetCalculated, scenesCached, groupsCached, incomingEvents, processingQueue>>
    BY <1>5 DEF CloseStep, CloseSocket, NotifyOutgoing, JoinThreads, CallMethod, SetReady, RequestShutdown,
       CreateMethod, Goto
  <2>2. Announced => Announced'
    BY <2>1 DEF Announced, Resetting, Pending
  <2> QED
    BY <2>1, <2>2, BootKept
<1>6. CASE TakeEvents
  <2>1. /\ incomingEvents' \union processingQueue' = incomingEvents \union processingQueue
        /\ UNCHANGED <<state, serverTimeOffsetCalculated, scenesCached, groupsCached, pc>>
    BY <1>6 DEF TakeEvents, TopSets
  <2>2. Announced => Announced'
    BY <2>1 DEF Announced, Resetting, Pending
  <2> QED
    BY <2>1, <2>2, BootKept
<1>7. CASE BootstrapStep("app") \/ BootstrapStep("ws")
  BY <1>7, BootBootstrap DEF Callers
<1> QED
  BY <1>2, <1>3, <1>4, <1>5, <1>6, <1>7, BootHandle, BootIncoming DEF Next, Environment, RunStep

\* In every execution only an onReady handled while the session is not connected
\* makes it say that it is while a flag of bootstrap is down and no reset is before
\* its caller (bootstrap, run_incoming_thread, interactive_run).
THEOREM ConnectedIsBootstrapped == Spec => ConnectedMeansBootstrapped
<1> DEFINE A == Unfounded' => Unfounded \/ ReadyTooEarly
<1>1. Init => TypeInv /\ BootInv
  <2> SUFFICES ASSUME Init PROVE BootInv
    BY TypeInit
  <2>1. pc["app"] = "start" /\ pc["ws"] = "none"
    BY DEF Init, Threads
  <2> QED
    BY <2>1 DEF Init, BootInv, OnlyResets, Pending, SeenInv, Passed
<1>2. TypeInv /\ BootInv /\ [Next]_vars => (TypeInv /\ BootInv)'
  BY TypeStep, BootNext
<1>3. TypeInv /\ BootInv /\ [Next]_vars => [A]_vars
  BY BootNext DEF Founded
<1>4. [][A]_vars => ConnectedMeansBootstrapped
  BY PTL DEF ConnectedMeansBootstrapped
<1> QED
  BY <1>1, <1>2, <1>3, <1>4, PTL DEF Spec
================================================================================
