---------------------------- MODULE DeliveryProofs ----------------------------
(***************************************************************************)
(* What becomes of the methods, for every value of the constants: OnePlace *)
(* and HandlerRegistered, then ThreadOrder and NoSleepOnWork, and at last  *)
(* ImplementsMethodCalls.                                                  *)
(*                                                                         *)
(* The forty-one actions of Session touch the methods on their way in only *)
(* few ways.  DeliveryStep names these ways, DeliverySteps shows that      *)
(* every step of the session is one of them, and the induction is over     *)
(* DeliveryStep.  DeliveryInv adds to the two properties that ids are      *)
(* below packetId and that handlers, replies and methods being queued have *)
(* ids of their own.                                                       *)
(***************************************************************************)
EXTENDS SessionProofs

\* The queues of methods.
PSeq == Seq(Packet)
Below(s, n) == \A i \in DOMAIN s : s[i].id < n

\* The elements of a queue of methods are packets.
LEMMA PacketAt ==
    ASSUME NEW s \in PSeq, NEW i \in DOMAIN s
    PROVE  s[i] \in Packet /\ s[i].id \in Nat
<1>1. s[i] \in Packet
  BY DEF PSeq
<1> QED
  BY <1>1 DEF Packet

\* The positions of a queue of methods after a push at the end.
LEMMA AppendAt ==
    ASSUME NEW s \in PSeq, NEW p \in Packet
    PROVE  /\ Append(s, p) \in PSeq
           /\ DOMAIN Append(s, p) = 1..(Len(s) + 1)
           /\ DOMAIN s = 1..Len(s) /\ Len(s) \in Nat
           /\ Append(s, p)[Len(s) + 1] = p
           /\ \A i \in 1..Len(s) : Append(s, p)[i] = s[i]
BY DEF PSeq

\* The positions of a queue of methods after a pop from the front.
LEMMA TailAt ==
    ASSUME NEW s \in PSeq, s # <<>>
    PROVE  /\ Tail(s) \in PSeq
           /\ Head(s) = s[1] /\ Head(s) \in Packet
           /\ DOMAIN s = 1..Len(s) /\ Len(s) \in Nat /\ Len(s) > 0
           /\ DOMAIN Tail(s) = 1..(Len(s) - 1)
           /\ \A i \in 1..(Len(s) - 1) : Tail(s)[i] = s[i + 1]
BY DEF PSeq

\* Where an id can be after a push at the end.
LEMMA AppendLacks ==
    ASSUME NEW s \in PSeq, NEW p \in Packet
    PROVE  /\ \A n : Lacks(Append(s, p), n) <=> Lacks(s, n) /\ p.id # n
           /\ Distinct(s) /\ Lacks(s, p.id) => Distinct(Append(s, p))
           /\ \A r : Apart(r, Append(s, p)) <=> Apart(r, s) /\ Lacks(r, p.id)
<1>1. \A n : Lacks(Append(s, p), n) <=> Lacks(s, n) /\ p.id # n
  BY AppendAt DEF Lacks
<1>2. Distinct(s) /\ Lacks(s, p.id) => Distinct(Append(s, p))
  BY AppendAt DEF Lacks, Distinct
<1>3. \A r : Apart(r, Append(s, p)) <=> Apart(r, s) /\ Lacks(r, p.id)
  BY AppendAt DEF Apart
<1> QED
  BY <1>1, <1>2, <1>3

\* A push at the end keeps bounds on ids and registered handlers.
LEMMA AppendKeeps ==
    ASSUME NEW s \in PSeq, NEW p \in Packet
    PROVE  /\ \A n : Below(s, n) /\ p.id < n => Below(Append(s, p), n)
           /\ Registered(s) /\ (Replied(p) => [id |-> p.id, kind |-> p.kind] \in replyHandlersById)
                 => Registered(Append(s, p))
BY AppendAt DEF Below, Registered

\* AppendLacks for Apart with the longer queue in the first place.
LEMMA AppendApart ==
    ASSUME NEW s \in PSeq, NEW p \in Packet, NEW r \in PSeq
    PROVE  Apart(Append(s, p), r) <=> Apart(s, r) /\ Lacks(r, p.id)
<1>1. \A n : Lacks(Append(s, p), n) <=> Lacks(s, n) /\ p.id # n
  BY AppendLacks
<1> QED
  BY <1>1 DEF Apart, Lacks

\* Where an id can be after a pop from the front.
LEMMA TailLacks ==
    ASSUME NEW s \in PSeq, s # <<>>
    PROVE  /\ \A n : Lacks(s, n) <=> Lacks(Tail(s), n) /\ Head(s).id # n
           /\ Distinct(s) => Distinct(Tail(s)) /\ Lacks(Tail(s), Head(s).id)
           /\ \A r : Apart(r, s) <=> Apart(r, Tail(s)) /\ Lacks(r, Head(s).id)
<1>1. \A i \in DOMAIN s : i = 1 \/ (i - 1 \in DOMAIN Tail(s) /\ s[i] = Tail(s)[i - 1])
  <2> SUFFICES ASSUME NEW i \in DOMAIN s, i # 1
               PROVE  i - 1 \in DOMAIN Tail(s) /\ s[i] = Tail(s)[i - 1]
    OBVIOUS
  <2>1. i - 1 \in 1..(Len(s) - 1) /\ (i - 1) + 1 = i
    BY TailAt
  <2> QED
    BY <2>1, TailAt
<1>2. \A i \in DOMAIN Tail(s) : i + 1 \in DOMAIN s /\ Tail(s)[i] = s[i + 1] /\ i + 1 # 1
  BY TailAt
<1>3. 1 \in DOMAIN s /\ Head(s) = s[1]
  BY TailAt
<1>4. \A n : Lacks(s, n) <=> Lacks(Tail(s), n) /\ Head(s).id # n
  BY <1>1, <1>2, <1>3 DEF Lacks
<1>5. Distinct(s) => Distinct(Tail(s)) /\ Lacks(Tail(s), Head(s).id)
  BY <1>1, <1>2, <1>3, TailAt DEF Lacks, Distinct
<1>6. \A r : Apart(r, s) <=> Apart(r, Tail(s)) /\ Lacks(r, Head(s).id)
  BY <1>1, <1>2, <1>3 DEF Apart
<1> QED
  BY <1>4, <1>5, <1>6

\* Apart does not depend on the order of the two queues.
LEMMA ApartSymmetric ==
    ASSUME NEW s, NEW r
    PROVE  Apart(s, r) <=> Apart(r, s)
BY DEF Apart, Lacks

\* A push of a packet newer than the others of its thread keeps the order.
LEMMA AppendOrder ==
    ASSUME NEW s \in PSeq, NEW p \in Packet, NEW r \in PSeq,
           \A i \in DOMAIN s : s[i].by = p.by => s[i].id < p.id
    PROVE  /\ Increasing(s) => Increasing(Append(s, p))
           /\ Before(r, s) /\ (\A i \in DOMAIN r : r[i].by = p.by => r[i].id < p.id)
                 => Before(r, Append(s, p))
           /\ \A n, t : (\A i \in DOMAIN s : s[i].by = t => s[i].id < n) /\ (p.by = t => p.id < n)
                 => \A i \in DOMAIN Append(s, p) : Append(s, p)[i].by = t => Append(s, p)[i].id < n
<1>1. Increasing(s) => Increasing(Append(s, p))
  <2> SUFFICES ASSUME Increasing(s), NEW i \in DOMAIN Append(s, p), NEW j \in DOMAIN Append(s, p),
                      i < j, Append(s, p)[i].by = Append(s, p)[j].by
               PROVE  Append(s, p)[i].id < Append(s, p)[j].id
    BY DEF Increasing
  <2>1. i \in DOMAIN s /\ Append(s, p)[i] = s[i]
    BY AppendAt
  <2> QED
    BY <2>1, AppendAt DEF Increasing
<1>2. Before(r, s) /\ (\A i \in DOMAIN r : r[i].by = p.by => r[i].id < p.id)
         => Before(r, Append(s, p))
  BY AppendAt DEF Before
<1>3. \A n, t : (\A i \in DOMAIN s : s[i].by = t => s[i].id < n) /\ (p.by = t => p.id < n)
         => \A i \in DOMAIN Append(s, p) : Append(s, p)[i].by = t => Append(s, p)[i].id < n
  BY AppendAt
<1> QED
  BY <1>1, <1>2, <1>3

\* A pop from the front keeps the order.
LEMMA TailOrder ==
    ASSUME NEW s \in PSeq, s # <<>>
    PROVE  /\ Increasing(s) => Increasing(Tail(s))
           /\ Increasing(s) => \A i \in DOMAIN Tail(s) : Head(s).by = Tail(s)[i].by => Head(s).id < Tail(s)[i].id
           /\ \A r : Before(r, s) => Before(r, Tail(s))
           /\ \A r : Before(s, r) => Before(Tail(s), r)
<1>1. \A i \in DOMAIN Tail(s) : i + 1 \in DOMAIN s /\ Tail(s)[i] = s[i + 1] /\ i \in Nat /\ 1 < i + 1
  BY TailAt
<1>2. 1 \in DOMAIN s /\ Head(s) = s[1]
  BY TailAt
<1>3. Increasing(s) => Increasing(Tail(s))
  BY <1>1 DEF Increasing
<1>4. Increasing(s) => \A i \in DOMAIN Tail(s) : Head(s).by = Tail(s)[i].by => Head(s).id < Tail(s)[i].id
  BY <1>1, <1>2 DEF Increasing
<1>5. \A r : Before(r, s) => Before(r, Tail(s))
  BY <1>1 DEF Before
<1>6. \A r : Before(s, r) => Before(Tail(s), r)
  BY <1>1 DEF Before
<1> QED
  BY <1>3, <1>4, <1>5, <1>6
-------------------------------------------------------------------------------
\* A reply is not in the incoming queue and in the local queue of interactive_run.
QueuesApart == \A e \in incomingEvents \cap processingQueue : e.type # "rpc_reply"
\* A thread that is not inside queue_method; a step that does not queue; and the
\* variables a step leaves alone.
Idle(t) == pc[t] \notin {"register", "enqueue"}
SameJob(t) == \/ pc'[t] = pc[t] /\ job'[t] = job[t]
              \/ Idle(t) /\ Idle(t)'
\* What the outgoing thread knows when it looks at the shared queue.
WaitInv ==
    /\ NoSleepOnWork
    /\ pc["out"] \in {"check", "waiting", "woken"} => processingEvents = <<>>
SameQueues == UNCHANGED <<outgoingEvents, processingEvents, wire>> /\ (WaitInv => WaitInv')
SameCalls == UNCHANGED <<packetId, replyHandlersById>>
SameReplies == Replies' = Replies /\ (QueuesApart => QueuesApart')

Quiet == SameQueues /\ SameCalls /\ SameReplies /\ \A t \in Callers : SameJob(t)

\* create_method_json; the swap; and running the handler of a reply.
Created(t) ==
    /\ Idle(t)
    /\ packetId' = packetId + 1
    /\ job'[t].id = packetId /\ job'[t].by = t
    /\ pc'[t] = IF Replied(job'[t]) THEN "register" ELSE "enqueue"
    /\ \A u \in Callers \ {t} : SameJob(u)
    /\ SameQueues /\ SameReplies /\ UNCHANGED replyHandlersById

Swapped ==
    /\ pc["out"] \in {"check", "woken"} /\ pc'["out"] = "send"
    /\ processingEvents' = outgoingEvents /\ outgoingEvents' = processingEvents
    /\ UNCHANGED wire
    /\ SameCalls /\ SameReplies /\ \A t \in Callers : SameJob(t)

Handled(e) ==
    /\ Replies' = Replies \ {e} /\ (QueuesApart => QueuesApart')
    /\ SameQueues /\ SameCalls /\ \A t \in Callers : SameJob(t)

\* A reply leaves the connection: the handlers found for it are not registered any
\* more, those kept wait for interactive_run.
ReplyTaken(found, kept) ==
    /\ wire # <<>> /\ wire' = Tail(wire)
    /\ found \in {{}, {h \in replyHandlersById : h.id = Head(wire).id}}
    /\ kept \subseteq found
    /\ replyHandlersById' = replyHandlersById \ found
    /\ incomingEvents' = incomingEvents \union {ReplyEvent(h) : h \in kept}
    /\ UNCHANGED <<outgoingEvents, processingEvents, packetId, processingQueue, job>>
    /\ \A t \in Callers : pc'[t] = pc[t] \/ {pc[t], pc'[t]} \cap {"register", "enqueue"} = {}
    /\ (WaitInv => WaitInv')

\* What the steps of the session do to the methods on their way.
DeliveryStep ==
    \/ Quiet
    \/ \E t \in Callers : Created(t) \/ RegisterHandler(t) \/ QueueMethod(t)
    \/ Swapped
    \/ SendMethod \/ ReceiveReady \/ OpenReturns \/ ClearMethods
    \/ \E found, kept : ReplyTaken(found, kept)
    \/ \E e \in Replies : Handled(e)

\* Errors, state changes and server methods are not replies.
LEMMA NoReplies ==
    /\ \A c, n : ErrorEvent(c, n).type # "rpc_reply"
    /\ \A c : StateChangeEvent(c).type # "rpc_reply"
    /\ \A c, n : MethodEvent(c, n).type # "rpc_reply"
    /\ \A h : ReplyEvent(h).type = "rpc_reply" /\ ReplyEvent(h).id = h.id
BY DEF ErrorEvent, StateChangeEvent, MethodEvent, ReplyEvent

\* What create_method_json does to the ids and to where the thread is.
LEMMA CreatedJob ==
    ASSUME TypeInv, NEW t \in Callers, NEW kind \in Kinds, CreateMethod(t, kind)
    PROVE  /\ packetId' = packetId + 1
           /\ job'[t].id = packetId /\ job'[t].by = t
           /\ pc'[t] = IF Replied(job'[t]) THEN "register" ELSE "enqueue"
           /\ pc'["out"] = pc["out"]
           /\ \A u \in Callers \ {t} : pc'[u] = pc[u] /\ job'[u] = job[u]
<1>1. [id |-> packetId, kind |-> kind, by |-> t] \in Packet
  BY DEF TypeInv, TypeOK, Packet
<1> QED
  BY <1>1 DEF TypeInv, TypeOK, ControlOK, CreateMethod, Goto, Callers, Threads, Replied

USE DEF flagVars, cacheVars, callVars, outVars, inVars, hostVars, netVars, closeVars

\* bootstrap and queue_method take the delivery steps.
LEMMA BootstrapDelivery ==
    ASSUME TypeInv, NEW t \in Callers, BootstrapStep(t)
    PROVE  DeliveryStep
<1> USE DEF TypeInv, TypeOK, Return
<1>1. CASE CheckTime(t)
  BY <1>1, CreatedJob DEF CheckTime, Kinds, Replies, Quiet, Created, QueuesApart, WaitInv, NoSleepOnWork, SameQueues, SameCalls, SameReplies, SameJob, Idle, Callers, ControlOK, Goto, Threads, DeliveryStep
<1>2. CASE CheckScenes(t)
  BY <1>2, CreatedJob DEF CheckScenes, Kinds, Replies, Quiet, Created, QueuesApart, WaitInv, NoSleepOnWork, SameQueues, SameCalls, SameReplies, SameJob, Idle, Callers, ControlOK, Goto, Threads, DeliveryStep
<1>3. CASE CheckGroups(t)
  BY <1>3, CreatedJob DEF CheckGroups, Kinds, Replies, Quiet, Created, QueuesApart, WaitInv, NoSleepOnWork, SameQueues, SameCalls, SameReplies, SameJob, Idle, Callers, ControlOK, Goto, Threads, DeliveryStep
<1>4. CASE Complete(t)
  BY <1>4, CreatedJob DEF Complete, Kinds, Replies, Quiet, Created, QueuesApart, WaitInv, NoSleepOnWork, SameQueues, SameCalls, SameReplies, SameJob, Idle, Callers, ControlOK, Goto, Threads, DeliveryStep
<1>5. CASE RegisterHandler(t) \/ QueueMethod(t)
  BY <1>5 DEF DeliveryStep
<1>6. CASE StampTime(t)
  BY <1>6 DEF StampTime, Replies, Quiet, QueuesApart, WaitInv, NoSleepOnWork, SameQueues, SameCalls, SameReplies, SameJob, Idle, Callers, ControlOK, Goto, Threads, DeliveryStep
<1> QED
  BY <1>1, <1>2, <1>3, <1>4, <1>5, <1>6 DEF BootstrapStep

\* The outgoing thread takes the delivery steps.
LEMMA OutgoingDelivery ==
    TypeInv /\ (OutgoingStep \/ SpuriousWakeup) => DeliveryStep
<1> SUFFICES ASSUME TypeInv, OutgoingStep \/ SpuriousWakeup PROVE DeliveryStep
  OBVIOUS
<1> USE DEF TypeInv, TypeOK
<1>1. CASE OutgoingLoop
  BY <1>1 DEF OutgoingLoop, Replies, Quiet, QueuesApart, WaitInv, NoSleepOnWork, SameQueues, SameCalls, SameReplies, SameJob, Idle, Callers, ControlOK, Goto, Threads, DeliveryStep
<1>2. CASE TakeOrWait
  BY <1>2 DEF TakeOrWait, Replies, Quiet, Swapped, QueuesApart, WaitInv, NoSleepOnWork, SameQueues, SameCalls, SameReplies, SameJob, Idle, Callers, ControlOK, Goto, Threads, DeliveryStep
<1>3. CASE Woken
  BY <1>3 DEF Woken, Replies, Quiet, Swapped, QueuesApart, WaitInv, NoSleepOnWork, SameQueues, SameCalls, SameReplies, SameJob, Idle, Callers, ControlOK, Goto, Threads, DeliveryStep
<1>4. CASE NextMethod
  BY <1>4 DEF NextMethod, Replies, Quiet, QueuesApart, WaitInv, NoSleepOnWork, SameQueues, SameCalls, SameReplies, SameJob, Idle, Callers, ControlOK, Goto, Threads, DeliveryStep
<1>5. CASE SendMethod
  BY <1>5 DEF DeliveryStep
<1>6. CASE SendFails
  BY <1>6, NoReplies DEF SendFails, Replies, Quiet, QueuesApart, WaitInv, NoSleepOnWork, SameQueues, SameCalls, SameReplies, SameJob, Idle, Callers, ControlOK, Goto, Threads, DeliveryStep
<1>7. CASE SpuriousWakeup
  BY <1>7 DEF SpuriousWakeup, Replies, Quiet, QueuesApart, WaitInv, NoSleepOnWork, SameQueues, SameCalls, SameReplies, SameJob, Idle, Callers, ControlOK, Goto, Threads, DeliveryStep
<1> QED
  BY <1>1, <1>2, <1>3, <1>4, <1>5, <1>6, <1>7 DEF OutgoingStep

\* handle_ws_message takes a reply in this way, the one to getTime without a time
\* included.
LEMMA TakesReply ==
    ASSUME TypeInv, ReceiveReply \/ ReceiveTimeError
    PROVE  \E found, kept : ReplyTaken(found, kept)
<1> DEFINE all == {h \in replyHandlersById : h.id = Head(wire).id}
           found == IF shutdownRequested THEN {} ELSE all
           kept == found \ {h \in found : h.kind = "getTime"}
<1>1. CASE ReceiveReply
  <2>1. /\ wire # <<>> /\ wire' = Tail(wire) /\ found \in {{}, all} /\ kept \subseteq found
        /\ replyHandlersById' = replyHandlersById \ found
        /\ incomingEvents' = incomingEvents \union {ReplyEvent(h) : h \in kept}
    BY <1>1 DEF ReceiveReply
  <2>2. /\ UNCHANGED <<outgoingEvents, processingEvents, packetId, processingQueue, job>>
        /\ pc["ws"] = "recv" /\ pc' \in {pc, [pc EXCEPT !["ws"] = "bootstrap"]}
    BY <1>1 DEF ReceiveReply, Goto
  <2>4. /\ \A t \in Callers : pc'[t] = pc[t] \/ {pc[t], pc'[t]} \cap {"register", "enqueue"} = {}
        /\ pc'["out"] = pc["out"]
    BY <2>2 DEF TypeInv, TypeOK, ControlOK, Threads, Callers
  <2>3. ReplyTaken(found, kept)
    BY <2>1, <2>2, <2>4 DEF ReplyTaken, WaitInv, NoSleepOnWork
  <2> QED
    BY <2>3
<1>2. CASE ReceiveTimeError
  <2>1. replyHandlersById' = replyHandlersById \ all
    BY <1>2 DEF ReceiveTimeError
  <2>2. /\ wire # <<>> /\ wire' = Tail(wire)
        /\ UNCHANGED <<outgoingEvents, processingEvents, packetId, incomingEvents, processingQueue, pc, job>>
    BY <1>2 DEF ReceiveTimeError
  <2>3. incomingEvents' = incomingEvents \union {ReplyEvent(h) : h \in {}}
    BY <2>2
  <2>4. ReplyTaken(all, {})
    BY <2>1, <2>2, <2>3 DEF ReplyTaken, WaitInv, NoSleepOnWork
  <2> QED
    BY <2>4
<1> QED
  BY <1>1, <1>2

\* The incoming thread takes the delivery steps.
LEMMA IncomingDelivery ==
    TypeInv /\ (IncomingStep \/ Break \/ ReceivePush \/ ReceiveTimeError) => DeliveryStep
<1> SUFFICES ASSUME TypeInv, IncomingStep \/ Break \/ ReceivePush \/ ReceiveTimeError PROVE DeliveryStep
  OBVIOUS
<1> USE DEF TypeInv, TypeOK
<1>1. CASE GetHosts
  BY <1>1, NoReplies DEF GetHosts, Replies, Quiet, QueuesApart, WaitInv, NoSleepOnWork, SameQueues, SameCalls, SameReplies, SameJob, Idle, Callers, ControlOK, Goto, Threads, DeliveryStep
<1>2. CASE OpenSucceeds
  BY <1>2 DEF OpenSucceeds, Replies, Quiet, QueuesApart, WaitInv, NoSleepOnWork, SameQueues, SameCalls, SameReplies, SameJob, Idle, Callers, ControlOK, Goto, Threads, DeliveryStep
<1>3. CASE OpenFails
  BY <1>3 DEF OpenFails, Replies, Quiet, QueuesApart, WaitInv, NoSleepOnWork, SameQueues, SameCalls, SameReplies, SameJob, Idle, Callers, ControlOK, Goto, Threads, DeliveryStep
<1>4. CASE ReceiveHello
  BY <1>4, NoReplies DEF ReceiveHello, Replies, Quiet, QueuesApart, WaitInv, NoSleepOnWork, SameQueues, SameCalls, SameReplies, SameJob, Idle, Callers, ControlOK, Goto, Threads, DeliveryStep
<1>5. CASE ReceiveReady \/ OpenReturns \/ ClearMethods
  BY <1>5 DEF DeliveryStep
<1>6. CASE AfterOpen
  BY <1>6, NoReplies DEF AfterOpen, Replies, Quiet, QueuesApart, WaitInv, NoSleepOnWork, SameQueues, SameCalls, SameReplies, SameJob, Idle, Callers, ControlOK, Goto, Threads, DeliveryStep
<1>7. CASE ResetFlags
  BY <1>7 DEF ResetFlags, Replies, Quiet, QueuesApart, WaitInv, NoSleepOnWork, SameQueues, SameCalls, SameReplies, SameJob, Idle, Callers, ControlOK, Goto, Threads, DeliveryStep
<1>8. CASE AnnounceReset
  BY <1>8, NoReplies DEF AnnounceReset, Replies, Quiet, QueuesApart, WaitInv, NoSleepOnWork, SameQueues, SameCalls, SameReplies, SameJob, Idle, Callers, ControlOK, Goto, Threads, DeliveryStep
<1>9. CASE NextHost
  BY <1>9 DEF NextHost, Replies, Quiet, QueuesApart, WaitInv, NoSleepOnWork, SameQueues, SameCalls, SameReplies, SameJob, Idle, Callers, ControlOK, Goto, Threads, DeliveryStep
<1>10. CASE BootstrapStep("ws")
  BY <1>10, BootstrapDelivery DEF Callers
<1>11. CASE Break
  BY <1>11 DEF Break, Replies, Quiet, QueuesApart, WaitInv, NoSleepOnWork, SameQueues, SameCalls, SameReplies, SameJob, Idle, Callers, ControlOK, Goto, Threads, DeliveryStep
<1>12. CASE ReceivePush
  BY <1>12, NoReplies DEF ReceivePush, Replies, Quiet, QueuesApart, WaitInv, NoSleepOnWork, SameQueues, SameCalls, SameReplies, SameJob, Idle, Callers, ControlOK, Goto, Threads, DeliveryStep
<1>13. CASE ReceiveReply \/ ReceiveTimeError
  BY <1>13, TakesReply DEF DeliveryStep
<1> QED
  BY <1>1, <1>2, <1>3, <1>4, <1>5, <1>6, <1>7, <1>8, <1>9, <1>10, <1>11, <1>12, <1>13 DEF IncomingStep

\* A reply that interactive_run takes from its local queue is handled.
LEMMA ReplyHandled ==
    ASSUME TypeInv, QueuesApart, NEW e \in processingQueue, e.type = "rpc_reply",
           processingQueue' = processingQueue \ {e},
           UNCHANGED <<incomingEvents, outVars, wire, callVars, job>>,
           pc["app"] = "idle", pc'["app"] \in {"idle", "bootstrap"},
           pc'["ws"] = pc["ws"], pc'["out"] = pc["out"]
    PROVE  DeliveryStep
<1>1. e \in Replies /\ Replies' = Replies \ {e} /\ QueuesApart'
  BY DEF Replies, QueuesApart
<1>2. SameQueues /\ SameCalls
  BY DEF SameQueues, SameCalls, WaitInv, NoSleepOnWork
<1>3. \A t \in Callers : SameJob(t)
  BY DEF SameJob, Idle, Callers
<1> QED
  BY <1>1, <1>2, <1>3 DEF Handled, DeliveryStep

\* Handling an event takes the delivery steps: a failing method handler drops no
\* reply, since replies come before methods in the priority order.
LEMMA HandleEventDelivery ==
    TypeInv /\ QueuesApart /\ HandleEvent => DeliveryStep
<1> SUFFICES ASSUME TypeInv, QueuesApart, HandleEvent PROVE DeliveryStep
  OBVIOUS
<1> USE DEF TypeInv, TypeOK
<1>1. /\ UNCHANGED <<wsOpen, replyHandlersById, outVars, incomingEvents, hostVars, netVars, closeVars, budget>>
      /\ pc["app"] = "idle"
  BY DEF HandleEvent
<1>2. PICK e \in Top(processingQueue) :
            \/ HandleError(e) \/ HandleStateChange(e) \/ CacheScenes(e) \/ CacheGroups(e)
            \/ CallReplyHandler(e) \/ HandleHello(e) \/ HandleReady(e)
            \/ HandleGroupChanged(e) \/ HandleSceneChanged(e) \/ HandleUnknownInput(e)
  BY DEF HandleEvent
<1>3. e \in processingQueue /\ \A f \in processingQueue : Rank[e.type] <= Rank[f.type]
  BY DEF Top
<1>4. CASE HandleError(e)
  BY <1>4, <1>1, <1>3 DEF HandleError, Replies, Quiet, QueuesApart, WaitInv, NoSleepOnWork, SameQueues, SameCalls, SameReplies, SameJob, Idle, Callers, ControlOK, Goto, Threads, DeliveryStep
<1>5. CASE HandleStateChange(e)
  BY <1>5, <1>1, <1>3 DEF HandleStateChange, Replies, Quiet, QueuesApart, WaitInv, NoSleepOnWork, SameQueues, SameCalls, SameReplies, SameJob, Idle, Callers, ControlOK, Goto, Threads, DeliveryStep
<1>6. CASE CacheScenes(e)
  <2>1. pc'["app"] \in {"idle", "bootstrap"} /\ pc'["ws"] = pc["ws"] /\ pc'["out"] = pc["out"]
    BY <1>6, <1>1 DEF CacheScenes, Goto, ControlOK, Threads
  <2> QED
    BY <1>6, <1>1, <1>3, <2>1, ReplyHandled DEF CacheScenes
<1>7. CASE CacheGroups(e)
  <2>1. pc'["app"] \in {"idle", "bootstrap"} /\ pc'["ws"] = pc["ws"] /\ pc'["out"] = pc["out"]
    BY <1>7, <1>1 DEF CacheGroups, Goto, ControlOK, Threads
  <2> QED
    BY <1>7, <1>1, <1>3, <2>1, ReplyHandled DEF CacheGroups
<1>8. CASE CallReplyHandler(e)
  <2>1. pc'["app"] \in {"idle", "bootstrap"} /\ pc'["ws"] = pc["ws"] /\ pc'["out"] = pc["out"]
    BY <1>8, <1>1 DEF CallReplyHandler, Goto, ControlOK, Threads
  <2> QED
    BY <1>8, <1>1, <1>3, <2>1, ReplyHandled DEF CallReplyHandler
<1>9. CASE HandleHello(e)
  BY <1>9, <1>1, <1>3 DEF HandleHello, Replies, Quiet, QueuesApart, WaitInv, NoSleepOnWork, SameQueues, SameCalls, SameReplies, SameJob, Idle, Callers, ControlOK, Goto, Threads, DeliveryStep
<1>10. CASE HandleReady(e)
  BY <1>10, <1>1, <1>3 DEF HandleReady, Replies, Quiet, QueuesApart, WaitInv, NoSleepOnWork, SameQueues, SameCalls, SameReplies, SameJob, Idle, Callers, ControlOK, Goto, Threads, DeliveryStep
<1>11. CASE HandleGroupChanged(e)
  BY <1>11, <1>1, <1>3, CreatedJob DEF HandleGroupChanged, Replies, Kinds, Created, QueuesApart, WaitInv, NoSleepOnWork, SameQueues, SameCalls, SameReplies, SameJob, Idle, Callers, ControlOK, Goto, Threads, DeliveryStep
<1>12. CASE HandleSceneChanged(e)
  BY <1>12, <1>1, <1>3, CreatedJob DEF HandleSceneChanged, Replies, Kinds, Created, QueuesApart, WaitInv, NoSleepOnWork, SameQueues, SameCalls, SameReplies, SameJob, Idle, Callers, ControlOK, Goto, Threads, DeliveryStep
<1>13. CASE HandleUnknownInput(e)
  <2>1. \A f \in processingQueue : f.type # "rpc_reply"
    BY <1>13, <1>3 DEF HandleUnknownInput, Rank
  <2> QED
    BY <1>1, <1>13, <2>1 DEF HandleUnknownInput, Replies, Quiet, QueuesApart, WaitInv, NoSleepOnWork, SameQueues, SameCalls, SameReplies, SameJob, Idle, Callers, DeliveryStep
<1> QED
  BY <1>2, <1>4, <1>5, <1>6, <1>7, <1>8, <1>9, <1>10, <1>11, <1>12, <1>13

\* The caller's thread takes the delivery steps.
LEMMA CallerDelivery ==
    TypeInv /\ QueuesApart /\ (InteractiveConnect \/ RunStep \/ CloseStep \/ CallMethod \/ SetReady \/ RequestShutdown)
        => DeliveryStep
<1> SUFFICES ASSUME TypeInv, QueuesApart, InteractiveConnect \/ RunStep \/ CloseStep \/ CallMethod \/ SetReady \/ RequestShutdown
             PROVE  DeliveryStep
  OBVIOUS
<1> USE DEF TypeInv, TypeOK
<1>1. CASE InteractiveConnect
  BY <1>1 DEF InteractiveConnect, NotStarted, Replies, Quiet, QueuesApart, WaitInv, NoSleepOnWork, SameQueues, SameCalls, SameReplies, SameJob, Idle, Callers, ControlOK, Goto, Threads, DeliveryStep
<1>2. CASE TakeEvents
  BY <1>2 DEF TakeEvents, Replies, TopSets, Quiet, QueuesApart, WaitInv, NoSleepOnWork, SameQueues, SameCalls, SameReplies, SameJob, Idle, Callers, ControlOK, Goto, Threads, DeliveryStep
<1>3. CASE HandleEvent \/ BootstrapStep("app")
  BY <1>3, HandleEventDelivery, BootstrapDelivery DEF Callers
<1>4. CASE CloseSocket
  BY <1>4 DEF CloseSocket, Replies, Quiet, QueuesApart, WaitInv, NoSleepOnWork, SameQueues, SameCalls, SameReplies, SameJob, Idle, Callers, ControlOK, Goto, Threads, DeliveryStep
<1>5. CASE NotifyOutgoing
  BY <1>5 DEF NotifyOutgoing, Replies, Quiet, QueuesApart, WaitInv, NoSleepOnWork, SameQueues, SameCalls, SameReplies, SameJob, Idle, Callers, ControlOK, Goto, Threads, DeliveryStep
<1>6. CASE JoinThreads
  BY <1>6 DEF JoinThreads, Replies, Quiet, QueuesApart, WaitInv, NoSleepOnWork, SameQueues, SameCalls, SameReplies, SameJob, Idle, Callers, ControlOK, Goto, Threads, DeliveryStep
<1>7. CASE CallMethod
  BY <1>7, CreatedJob DEF CallMethod, Replies, Kinds, Created, QueuesApart, WaitInv, NoSleepOnWork, SameQueues, SameCalls, SameReplies, SameJob, Idle, Callers, ControlOK, Goto, Threads, DeliveryStep
<1>8. CASE SetReady
  BY <1>8, CreatedJob, ConstantsAssumption DEF SetReady, Replies, Kinds, CallKinds, ConstantsAssumption, Created, QueuesApart, WaitInv, NoSleepOnWork, SameQueues, SameCalls, SameReplies, SameJob, Idle, Callers, ControlOK, Goto, Threads, DeliveryStep
<1>9. CASE RequestShutdown
  BY <1>9 DEF RequestShutdown, Replies, Quiet, QueuesApart, WaitInv, NoSleepOnWork, SameQueues, SameCalls, SameReplies, SameJob, Idle, Callers, ControlOK, Goto, Threads, DeliveryStep
<1> QED
  BY <1>1, <1>2, <1>3, <1>4, <1>5, <1>6, <1>7, <1>8, <1>9 DEF RunStep, CloseStep

\* Every step of the session is one of the delivery steps.
LEMMA DeliverySteps == TypeInv /\ QueuesApart /\ [Next]_vars => DeliveryStep
<1>1. ASSUME UNCHANGED vars PROVE DeliveryStep
  BY <1>1 DEF vars, DeliveryStep, Quiet, SameQueues, SameCalls, SameReplies, SameJob, Replies, QueuesApart,
          WaitInv, NoSleepOnWork
<1> QED
  BY <1>1, CallerDelivery, IncomingDelivery, OutgoingDelivery DEF Next, Environment

-------------------------------------------------------------------------------
\* The parts of the inductive invariant.
IdsBelow ==
    /\ Below(wire, packetId) /\ Below(processingEvents, packetId) /\ Below(outgoingEvents, packetId)
    /\ \A t \in Queueing : job[t].id < packetId
    /\ \A e \in Replies : e.id < packetId
    /\ \A h \in replyHandlersById : h.id < packetId

HandlersApart ==
    /\ \A g, h \in replyHandlersById : g.id = h.id => g = h
    /\ \A e \in Replies, h \in replyHandlersById : e.id # h.id
    /\ \A t \in Callers : pc[t] = "register" => \A h \in replyHandlersById : h.id # job[t].id

JobRegistered ==
    \A t \in Callers :
        pc[t] = "enqueue" /\ Replied(job[t]) =>
            [id |-> job[t].id, kind |-> job[t].kind] \in replyHandlersById

SocketApart ==
    /\ Distinct(wire) /\ Distinct(processingEvents) /\ Distinct(outgoingEvents)
    /\ Apart(wire, processingEvents) /\ Apart(wire, outgoingEvents)
    /\ Apart(processingEvents, outgoingEvents)

Elsewhere(n) == Lacks(wire, n) /\ Lacks(processingEvents, n) /\ Lacks(outgoingEvents, n)

JobApart ==
    \A t \in Queueing :
        /\ Elsewhere(job[t].id)
        /\ \A u \in Queueing : job[u].id = job[t].id => u = t

ReplyApart ==
    \A e \in Replies :
        /\ Elsewhere(e.id)
        /\ \A t \in Queueing : job[t].id # e.id
        /\ \A f \in Replies : e.id = f.id => e = f

DeliveryInv ==
    /\ TypeInv /\ QueuesApart /\ IdsBelow /\ HandlersApart /\ JobRegistered
    /\ SocketApart /\ JobApart /\ ReplyApart /\ HandlerRegistered

\* The parts of DeliveryInv that make up OnePlace.
LEMMA OnePlaceParts == SocketApart /\ JobApart /\ ReplyApart <=> OnePlace
BY DEF SocketApart, JobApart, ReplyApart, Elsewhere, OnePlace

\* When no thread changes its job the ids being queued stay the same.
LEMMA SameJobs ==
    ASSUME \A t \in Callers : SameJob(t)
    PROVE  Queueing' = Queueing /\ \A t \in Queueing : job'[t] = job[t] /\ pc'[t] = pc[t]
BY DEF SameJob, Idle, Queueing

\* A step that leaves the methods alone keeps DeliveryInv.
LEMMA QuietDelivery == DeliveryInv /\ TypeInv' /\ Quiet => DeliveryInv'
<1> SUFFICES ASSUME DeliveryInv, TypeInv', Quiet PROVE DeliveryInv'
  OBVIOUS
<1>1. Queueing' = Queueing /\ \A t \in Queueing : job'[t] = job[t] /\ pc'[t] = pc[t]
  BY SameJobs DEF Quiet
<1>2. Replies' = Replies /\ QueuesApart'
  BY DEF Quiet, SameReplies, DeliveryInv
<1>3. UNCHANGED <<outgoingEvents, processingEvents, wire, packetId, replyHandlersById>>
  BY DEF Quiet, SameQueues, SameCalls
<1>4. IdsBelow'
  BY <1>1, <1>2, <1>3 DEF DeliveryInv, IdsBelow, Below
<1>5. HandlersApart' /\ JobRegistered' /\ HandlerRegistered'
  BY <1>1, <1>2, <1>3 DEF DeliveryInv, HandlersApart, JobRegistered, HandlerRegistered, Registered, Queueing
<1>6. SocketApart' /\ JobApart' /\ ReplyApart'
  BY <1>1, <1>2, <1>3 DEF DeliveryInv, SocketApart, JobApart, ReplyApart, Elsewhere, Apart, Distinct, Lacks
<1> QED
  BY <1>2, <1>4, <1>5, <1>6 DEF DeliveryInv

\* A new packet id, larger than every id in use, keeps DeliveryInv.
LEMMA CreatedDelivery ==
    ASSUME DeliveryInv, TypeInv', NEW t \in Callers, Created(t)
    PROVE  DeliveryInv'
<1>1. /\ Queueing' = Queueing \union {t} /\ t \notin Queueing
      /\ \A u \in Queueing : job'[u] = job[u] /\ pc'[u] = pc[u]
      /\ job'[t].id = packetId /\ packetId \in Nat /\ packetId' = packetId + 1
      /\ \A u \in Callers : u # t => (pc'[u] \in {"register", "enqueue"} => u \in Queueing)
      /\ pc'[t] = "enqueue" => ~Replied(job'[t])
  BY DEF Created, SameJob, Idle, Queueing, DeliveryInv, TypeInv, TypeOK
<1>2. Replies' = Replies /\ QueuesApart'
  BY DEF Created, SameReplies, DeliveryInv
<1>3. UNCHANGED <<outgoingEvents, processingEvents, wire, replyHandlersById>>
  BY DEF Created, SameQueues
<1>4. \A s \in PSeq : Below(s, packetId) => Lacks(s, packetId) /\ Below(s, packetId + 1)
  BY <1>1, PacketAt DEF Below, Lacks
<1>5. wire \in PSeq /\ processingEvents \in PSeq /\ outgoingEvents \in PSeq
  BY DEF DeliveryInv, TypeInv, TypeOK, PSeq
<1>6. \A u \in Queueing : job[u].id < packetId /\ job[u].id \in Nat
  BY DEF DeliveryInv, TypeInv, IdsBelow, JobTaken, Queueing, Packet
<1>7. \A e \in Replies : e.id < packetId /\ e.id \in Nat
  BY DEF DeliveryInv, TypeInv, TypeOK, IdsBelow, Replies, Event
<1>8. \A h \in replyHandlersById : h.id < packetId /\ h.id \in Nat
  BY DEF DeliveryInv, TypeInv, TypeOK, IdsBelow
<1>9. IdsBelow'
  BY <1>1, <1>2, <1>3, <1>4, <1>5, <1>6, <1>7, <1>8 DEF DeliveryInv, IdsBelow
<1>10. HandlersApart' /\ JobRegistered' /\ HandlerRegistered'
  <2>1. HandlersApart'
    BY <1>1, <1>2, <1>3, <1>8 DEF DeliveryInv, HandlersApart, Queueing
  <2>2. JobRegistered'
    BY <1>1, <1>3 DEF DeliveryInv, JobRegistered, Queueing
  <2>3. HandlerRegistered'
    BY <1>3 DEF DeliveryInv, HandlerRegistered, Registered
  <2> QED
    BY <2>1, <2>2, <2>3
<1>11. SocketApart'
  BY <1>3 DEF DeliveryInv, SocketApart, Apart, Distinct, Lacks
<1>12. Elsewhere(packetId) /\ \A n : Elsewhere(n)' <=> Elsewhere(n)
  BY <1>3, <1>4, <1>5 DEF DeliveryInv, IdsBelow, Elsewhere, Lacks
<1>13. JobApart'
  BY <1>1, <1>6, <1>12 DEF DeliveryInv, JobApart
<1>14. ReplyApart'
  BY <1>1, <1>2, <1>7, <1>12 DEF DeliveryInv, ReplyApart
<1> QED
  BY <1>2, <1>9, <1>10, <1>11, <1>13, <1>14 DEF DeliveryInv

\* Registering a reply handler keeps DeliveryInv.
LEMMA RegisterDelivery ==
    ASSUME DeliveryInv, TypeInv', NEW t \in Callers, RegisterHandler(t)
    PROVE  DeliveryInv'
<1>1. /\ Queueing' = Queueing /\ t \in Queueing /\ job' = job
      /\ pc'[t] = "enqueue" /\ pc[t] = "register"
      /\ \A u \in Callers : u # t => pc'[u] = pc[u]
  BY DEF RegisterHandler, Goto, Queueing, DeliveryInv, TypeInv, TypeOK, ControlOK, Threads, Callers
<1>2. Replies' = Replies /\ QueuesApart'
  BY DEF RegisterHandler, Replies, QueuesApart, DeliveryInv
<1>3. UNCHANGED <<outgoingEvents, processingEvents, wire, packetId>>
  BY DEF RegisterHandler
<1> DEFINE h == [id |-> job[t].id, kind |-> job[t].kind]
<1>4. replyHandlersById' = replyHandlersById \union {h} /\ h.id = job[t].id
  BY DEF RegisterHandler
<1> HIDE DEF h
<1>5. \A g \in replyHandlersById : g.id # h.id
  BY <1>1, <1>4 DEF DeliveryInv, HandlersApart
<1>6. \A e \in Replies : e.id # h.id
  BY <1>1, <1>4 DEF DeliveryInv, ReplyApart
<1>7. IdsBelow'
  BY <1>1, <1>2, <1>3, <1>4 DEF DeliveryInv, IdsBelow, Below
<1>8. HandlersApart'
  <2>1. \A u \in Callers : pc'[u] = "register" => u \in Queueing /\ u # t /\ pc[u] = "register"
    BY <1>1 DEF Queueing
  <2>2. \A u \in Callers : pc'[u] = "register" => job[u].id # h.id
    BY <1>1, <1>4, <2>1 DEF DeliveryInv, JobApart
  <2> QED
    BY <1>1, <1>2, <1>4, <1>5, <1>6, <2>1, <2>2 DEF DeliveryInv, HandlersApart
<1>9. JobRegistered'
  BY <1>1, <1>4 DEF DeliveryInv, JobRegistered, h
<1>10. HandlerRegistered'
  BY <1>3, <1>4 DEF DeliveryInv, HandlerRegistered, Registered
<1>11. SocketApart' /\ JobApart' /\ ReplyApart'
  BY <1>1, <1>2, <1>3 DEF DeliveryInv, SocketApart, JobApart, ReplyApart, Elsewhere, Apart, Distinct, Lacks
<1> QED
  BY <1>2, <1>7, <1>8, <1>9, <1>10, <1>11 DEF DeliveryInv

\* Moving a method onto outgoingEvents keeps DeliveryInv.
LEMMA QueueDelivery ==
    ASSUME DeliveryInv, TypeInv', NEW t \in Callers, QueueMethod(t)
    PROVE  DeliveryInv'
<1>1. /\ Queueing' = Queueing \ {t} /\ t \in Queueing /\ pc[t] = "enqueue"
      /\ \A u \in Callers : u # t => pc'[u] = pc[u] /\ job'[u] = job[u]
      /\ pc'[t] \notin {"register", "enqueue"}
  BY DEF QueueMethod, Return, Queueing, DeliveryInv, TypeInv, TypeOK, ControlOK, Threads, Callers
<1>2. Replies' = Replies /\ QueuesApart'
  BY DEF QueueMethod, Replies, QueuesApart, DeliveryInv
<1>3. UNCHANGED <<processingEvents, wire, packetId, replyHandlersById>>
  BY DEF QueueMethod
<1>4. wire \in PSeq /\ processingEvents \in PSeq /\ outgoingEvents \in PSeq /\ job[t] \in Packet
  BY <1>1 DEF DeliveryInv, TypeInv, TypeOK, PSeq, JobTaken
<1>5. outgoingEvents' = Append(outgoingEvents, job[t])
  BY DEF QueueMethod
<1>6. Elsewhere(job[t].id) /\ job[t].id < packetId
  BY <1>1 DEF DeliveryInv, JobApart, IdsBelow
<1>7. IdsBelow'
  <2>1. Below(outgoingEvents', packetId)
    BY <1>4, <1>5, <1>6, AppendAt DEF DeliveryInv, IdsBelow, Below
  <2> QED
    BY <1>1, <1>2, <1>3, <2>1 DEF DeliveryInv, IdsBelow, Queueing, Below
<1>8. HandlersApart' /\ JobRegistered'
  BY <1>1, <1>2, <1>3 DEF DeliveryInv, HandlersApart, JobRegistered
<1>9. HandlerRegistered'
  <2>1. Replied(job[t]) => [id |-> job[t].id, kind |-> job[t].kind] \in replyHandlersById
    BY <1>1 DEF DeliveryInv, JobRegistered
  <2>2. Registered(outgoingEvents)
    BY DEF DeliveryInv, HandlerRegistered
  <2>3. Registered(Append(outgoingEvents, job[t]))
    BY <1>4, <2>1, <2>2, AppendKeeps
  <2> QED
    BY <1>3, <1>5, <2>3 DEF DeliveryInv, HandlerRegistered, Registered
<1>10. SocketApart'
  <2>1. Distinct(outgoingEvents') /\ Apart(wire, outgoingEvents') /\ Apart(processingEvents, outgoingEvents')
    BY <1>4, <1>5, <1>6, AppendLacks DEF DeliveryInv, SocketApart, Elsewhere
  <2> QED
    BY <1>3, <2>1 DEF DeliveryInv, SocketApart
<1>11. \A n : Elsewhere(n)' <=> Elsewhere(n) /\ n # job[t].id
  BY <1>3, <1>4, <1>5, <1>6, AppendLacks DEF Elsewhere
<1>12. JobApart'
  BY <1>1, <1>11 DEF DeliveryInv, JobApart, Queueing
<1>13. ReplyApart'
  BY <1>1, <1>2, <1>11 DEF DeliveryInv, ReplyApart, Queueing
<1> QED
  BY <1>2, <1>7, <1>8, <1>9, <1>10, <1>12, <1>13 DEF DeliveryInv

\* Swapping outgoingEvents and processingEvents keeps DeliveryInv.
LEMMA SwapDelivery == DeliveryInv /\ TypeInv' /\ Swapped => DeliveryInv'
<1> SUFFICES ASSUME DeliveryInv, TypeInv', Swapped PROVE DeliveryInv'
  OBVIOUS
<1>1. Queueing' = Queueing /\ \A t \in Queueing : job'[t] = job[t] /\ pc'[t] = pc[t]
  BY SameJobs DEF Swapped
<1>2. Replies' = Replies /\ QueuesApart'
  BY DEF Swapped, SameReplies, DeliveryInv
<1>3. /\ processingEvents' = outgoingEvents /\ outgoingEvents' = processingEvents
      /\ UNCHANGED <<wire, packetId, replyHandlersById>>
  BY DEF Swapped, SameCalls
<1>4. IdsBelow'
  BY <1>1, <1>2, <1>3 DEF DeliveryInv, IdsBelow, Below
<1>5. HandlersApart' /\ JobRegistered' /\ HandlerRegistered'
  BY <1>1, <1>2, <1>3 DEF DeliveryInv, HandlersApart, JobRegistered, HandlerRegistered, Registered, Queueing
<1>6. SocketApart'
  BY <1>3, ApartSymmetric DEF DeliveryInv, SocketApart
<1>7. \A n : Elsewhere(n)' <=> Elsewhere(n)
  BY <1>3 DEF Elsewhere
<1>8. JobApart' /\ ReplyApart'
  BY <1>1, <1>2, <1>7 DEF DeliveryInv, JobApart, ReplyApart
<1> QED
  BY <1>2, <1>4, <1>5, <1>6, <1>8 DEF DeliveryInv

\* Sending the front of processingEvents keeps DeliveryInv.
LEMMA SendDelivery == DeliveryInv /\ TypeInv' /\ SendMethod => DeliveryInv'
<1> SUFFICES ASSUME DeliveryInv, TypeInv', SendMethod PROVE DeliveryInv'
  OBVIOUS
<1> DEFINE p == Head(processingEvents)
<1>1. Queueing' = Queueing /\ job' = job /\ \A t \in Callers : pc'[t] = pc[t]
  BY DEF SendMethod, Goto, Queueing, DeliveryInv, TypeInv, TypeOK, ControlOK, Threads, Callers
<1>2. Replies' = Replies /\ QueuesApart'
  BY DEF SendMethod, Replies, QueuesApart, DeliveryInv
<1>3. UNCHANGED <<outgoingEvents, packetId, replyHandlersById>>
  BY DEF SendMethod
<1>4. /\ wire \in PSeq /\ processingEvents \in PSeq /\ outgoingEvents \in PSeq
      /\ processingEvents # <<>> /\ p \in Packet /\ Tail(processingEvents) \in PSeq
  BY TailAt DEF SendMethod, DeliveryInv, TypeInv, TypeOK, PSeq, SendingMethod
<1>5. processingEvents' = Tail(processingEvents) /\ (wire' = wire \/ wire' = Append(wire, p))
  BY Zenon DEF SendMethod
<1>6. \A n : Lacks(processingEvents, n) <=> Lacks(processingEvents', n) /\ p.id # n
  BY <1>4, <1>5, TailLacks
<1> HIDE DEF p
<1>7. \A n : Lacks(wire, n) /\ p.id # n => Lacks(wire', n)
  <2>1. \A n : Lacks(Append(wire, p), n) <=> Lacks(wire, n) /\ p.id # n
    BY <1>4, AppendLacks
  <2>2. CASE wire' = wire
    BY <2>2
  <2>3. CASE wire' = Append(wire, p)
    BY <2>1, <2>3
  <2> QED
    BY <1>5, <2>2, <2>3
<1>8. \A n : Elsewhere(n) => Elsewhere(n)'
  BY <1>3, <1>6, <1>7 DEF Elsewhere
<1>9. IdsBelow'
  <2>1. p = processingEvents[1] /\ 1 \in DOMAIN processingEvents
    BY <1>4, TailAt DEF p
  <2>2. p.id < packetId
    BY <2>1 DEF DeliveryInv, IdsBelow, Below
  <2>3. Below(wire', packetId)
    <3>1. Below(wire, packetId)
      BY DEF DeliveryInv, IdsBelow
    <3>2. Below(Append(wire, p), packetId)
      BY <1>4, <2>2, <3>1, AppendKeeps
    <3> QED
      BY <1>5, <3>1, <3>2
  <2>4. Below(processingEvents', packetId)
    BY <1>4, <1>5, TailAt DEF DeliveryInv, IdsBelow, Below
  <2> QED
    BY <1>1, <1>2, <1>3, <2>3, <2>4 DEF DeliveryInv, IdsBelow, Below
<1>10. HandlersApart' /\ JobRegistered'
  BY <1>1, <1>2, <1>3 DEF DeliveryInv, HandlersApart, JobRegistered
<1>11. HandlerRegistered'
  <2>1. p = processingEvents[1] /\ 1 \in DOMAIN processingEvents
    BY <1>4, TailAt DEF p
  <2>2. Replied(p) => [id |-> p.id, kind |-> p.kind] \in replyHandlersById
    BY <2>1 DEF DeliveryInv, HandlerRegistered, Registered
  <2>3. Registered(wire)'
    <3>1. Registered(wire) /\ Registered(Append(wire, p))
      BY <1>4, <2>2, AppendKeeps DEF DeliveryInv, HandlerRegistered
    <3> QED
      BY <1>3, <1>5, <3>1 DEF Registered
  <2>4. Registered(processingEvents)'
    BY <1>3, <1>4, <1>5, TailAt DEF DeliveryInv, HandlerRegistered, Registered
  <2> QED
    BY <1>3, <2>3, <2>4 DEF DeliveryInv, HandlerRegistered, Registered
<1>12. SocketApart'
  <2>1. Distinct(processingEvents') /\ Lacks(processingEvents', p.id)
    BY <1>4, <1>5, TailLacks DEF DeliveryInv, SocketApart, p
  <2>2. Lacks(wire, p.id) /\ Apart(wire, processingEvents')
    BY <1>4, <1>5, TailLacks DEF DeliveryInv, SocketApart, p
  <2>3. Apart(outgoingEvents, processingEvents) /\ Apart(outgoingEvents, wire)
    BY ApartSymmetric DEF DeliveryInv, SocketApart
  <2>4. Lacks(outgoingEvents, p.id) /\ Apart(outgoingEvents, processingEvents')
    BY <1>4, <1>5, <2>3, TailLacks DEF p
  <2>5. Distinct(wire') /\ Apart(processingEvents', wire') /\ Apart(outgoingEvents, wire')
    <3>1. Distinct(wire) /\ Apart(processingEvents', wire)
      BY <2>2, ApartSymmetric DEF DeliveryInv, SocketApart
    <3>2. Distinct(Append(wire, p)) /\ Apart(processingEvents', Append(wire, p))
                                   /\ Apart(outgoingEvents, Append(wire, p))
      BY <1>4, <2>1, <2>2, <2>3, <2>4, <3>1, AppendLacks
    <3> QED
      BY <1>5, <2>3, <3>1, <3>2
  <2> QED
    BY <1>3, <2>1, <2>4, <2>5, ApartSymmetric DEF DeliveryInv, SocketApart
<1>13. JobApart'
  BY <1>1, <1>8 DEF DeliveryInv, JobApart
<1>14. ReplyApart'
  BY <1>1, <1>2, <1>8 DEF DeliveryInv, ReplyApart
<1> QED
  BY <1>2, <1>9, <1>10, <1>11, <1>12, <1>13, <1>14 DEF DeliveryInv

\* What holds of a queue of methods holds of a part of it.
LEMMA ShorterDelivery ==
    ASSUME NEW s \in PSeq, NEW r \in PSeq,
           \A i \in DOMAIN r : \E j \in DOMAIN s : r[i] = s[j]
    PROVE  /\ \A n : Below(s, n) => Below(r, n)
           /\ \A n : Lacks(s, n) => Lacks(r, n)
           /\ Registered(s) => Registered(r)
           /\ \A q : Apart(q, s) => Apart(q, r)
           /\ \A q : Apart(s, q) => Apart(r, q)
<1>1. \A n : Lacks(s, n) => Lacks(r, n)
  BY DEF Lacks
<1> QED
  BY <1>1 DEF Below, Registered, Apart

\* Receiving onReady keeps DeliveryInv.
LEMMA ReadyDelivery == DeliveryInv /\ TypeInv' /\ ReceiveReady => DeliveryInv'
<1> SUFFICES ASSUME DeliveryInv, TypeInv', ReceiveReady PROVE DeliveryInv'
  OBVIOUS
<1>1. Queueing' = Queueing /\ job' = job /\ pc' = pc
  BY DEF ReceiveReady, Queueing
<1>2. Replies' = Replies /\ QueuesApart'
  BY NoReplies DEF ReceiveReady, Replies, QueuesApart, DeliveryInv
<1>3. UNCHANGED <<outgoingEvents, processingEvents, packetId, replyHandlersById>>
  BY DEF ReceiveReady
<1>4. wire \in PSeq /\ wire # <<>> /\ wire' = Tail(wire)
  BY DEF ReceiveReady, DeliveryInv, TypeInv, TypeOK, PSeq
<1>5. wire' \in PSeq /\ \A i \in DOMAIN wire' : \E j \in DOMAIN wire : wire'[i] = wire[j]
  BY <1>4, TailAt
<1>6. /\ \A n : Below(wire, n) => Below(wire', n)
      /\ \A n : Lacks(wire, n) => Lacks(wire', n)
      /\ Registered(wire) => Registered(wire')
      /\ \A q : Apart(wire, q) => Apart(wire', q)
  BY <1>4, <1>5, ShorterDelivery
<1>7. IdsBelow'
  BY <1>1, <1>2, <1>3, <1>6 DEF DeliveryInv, IdsBelow, Below
<1>8. HandlersApart' /\ JobRegistered'
  BY <1>1, <1>2, <1>3 DEF DeliveryInv, HandlersApart, JobRegistered
<1>9. HandlerRegistered'
  BY <1>3, <1>6 DEF DeliveryInv, HandlerRegistered, Registered
<1>10. SocketApart'
  BY <1>3, <1>4, <1>6, TailLacks DEF DeliveryInv, SocketApart
<1>11. JobApart' /\ ReplyApart'
  BY <1>1, <1>2, <1>3, <1>6 DEF DeliveryInv, JobApart, ReplyApart, Elsewhere
<1> QED
  BY <1>2, <1>7, <1>8, <1>9, <1>10, <1>11 DEF DeliveryInv

\* Receiving a reply keeps DeliveryInv: the id moves from the connection to the
\* incoming queue and its handler leaves replyHandlersById in the same step.
LEMMA ReplyDelivery ==
    ASSUME DeliveryInv, TypeInv', NEW found, NEW kept, ReplyTaken(found, kept)
    PROVE  DeliveryInv'
<1> DEFINE p == Head(wire)
<1>1. /\ Queueing' = Queueing /\ job' = job
      /\ \A t \in Callers : pc'[t] = pc[t] \/ {pc[t], pc'[t]} \cap {"register", "enqueue"} = {}
  BY DEF ReplyTaken, Queueing
<1>2. UNCHANGED <<outgoingEvents, processingEvents, packetId, processingQueue>>
  BY DEF ReplyTaken
<1>3. /\ replyHandlersById' = replyHandlersById \ found
      /\ incomingEvents' = incomingEvents \union {ReplyEvent(h) : h \in kept}
      /\ wire' = Tail(wire) /\ wire # <<>>
      /\ found \in {{}, {h \in replyHandlersById : h.id = p.id}} /\ kept \subseteq found
  BY DEF ReplyTaken
<1>4. found \subseteq {h \in replyHandlersById : h.id = p.id}
  BY <1>3
<1>5. /\ wire \in PSeq /\ p \in Packet /\ wire' \in PSeq
      /\ p = wire[1] /\ 1 \in DOMAIN wire
      /\ \A i \in DOMAIN wire' : \E j \in DOMAIN wire : wire'[i] = wire[j]
  <2>1. wire \in PSeq
    BY DEF DeliveryInv, TypeInv, TypeOK, PSeq
  <2> QED
    BY <1>3, <2>1, TailAt
<1>6. /\ \A n : Below(wire, n) => Below(wire', n)
      /\ \A n : Lacks(wire, n) => Lacks(wire', n)
      /\ \A q : Apart(wire, q) => Apart(wire', q)
  BY <1>5, ShorterDelivery
<1>7. Distinct(wire') /\ Lacks(wire', p.id)
  BY <1>3, <1>5, TailLacks DEF DeliveryInv, SocketApart
<1>8. p.id < packetId /\ Lacks(processingEvents, p.id) /\ Lacks(outgoingEvents, p.id)
  <2>1. ~Lacks(wire, p.id)
    BY <1>5 DEF Lacks
  <2>2. \A q : Apart(wire, q) => Lacks(q, p.id)
    BY <1>5 DEF Apart, Lacks
  <2> QED
    BY <1>5, <2>2 DEF DeliveryInv, IdsBelow, Below, SocketApart
<1>9. ~Lacks(wire, p.id)
  BY <1>5 DEF Lacks
<1>10. /\ \A t \in Queueing : job[t].id # p.id
       /\ \A e \in Replies : e.id # p.id
  BY <1>9 DEF DeliveryInv, JobApart, ReplyApart, Elsewhere
<1> HIDE DEF p
<1>11. \A e \in Replies' : e \in Replies \/ (e.id = p.id /\ \E h \in found : e = ReplyEvent(h))
  BY <1>2, <1>3, <1>4, NoReplies DEF Replies
<1>12. \A h \in replyHandlersById' : h \in replyHandlersById /\ (found # {} => h.id # p.id)
  <2>1. found = {} \/ found = {h \in replyHandlersById : h.id = p.id}
    BY <1>3
  <2> QED
    BY <1>3, <2>1
<1>13. QueuesApart'
  <2> SUFFICES ASSUME NEW e \in incomingEvents' \cap processingQueue, e.type = "rpc_reply"
               PROVE  FALSE
    BY <1>2 DEF QueuesApart
  <2>1. e \in Replies
    BY DEF Replies
  <2>2. e \notin incomingEvents
    BY DEF DeliveryInv, QueuesApart
  <2>3. e.id = p.id
    BY <1>3, <1>4, <2>2, NoReplies
  <2> QED
    BY <1>10, <2>1, <2>3
<1>14. IdsBelow'
  BY <1>1, <1>2, <1>6, <1>8, <1>11, <1>12 DEF DeliveryInv, IdsBelow, Below
<1>15. HandlersApart'
  <2>1. \A g, h \in replyHandlersById' : g.id = h.id => g = h
    BY <1>12 DEF DeliveryInv, HandlersApart
  <2>2. \A e \in Replies', h \in replyHandlersById' : e.id # h.id
    BY <1>11, <1>12 DEF DeliveryInv, HandlersApart
  <2>3. \A t \in Callers : pc'[t] = "register" => \A h \in replyHandlersById' : h.id # job'[t].id
    BY <1>1, <1>12 DEF DeliveryInv, HandlersApart
  <2> QED
    BY <2>1, <2>2, <2>3 DEF HandlersApart
<1>16. JobRegistered'
  <2> SUFFICES ASSUME NEW t \in Callers, pc'[t] = "enqueue", Replied(job[t])
               PROVE  [id |-> job[t].id, kind |-> job[t].kind] \in replyHandlersById'
    BY <1>1 DEF JobRegistered
  <2>1. pc[t] = "enqueue" /\ t \in Queueing
    BY <1>1 DEF Queueing
  <2>2. [id |-> job[t].id, kind |-> job[t].kind] \in replyHandlersById /\ job[t].id # p.id
    BY <1>10, <2>1 DEF DeliveryInv, JobRegistered
  <2> QED
    BY <1>3, <1>4, <2>2
<1>17. HandlerRegistered'
  <2>1. Registered(wire')
    BY <1>5, ShorterDelivery DEF DeliveryInv, HandlerRegistered
  <2>2. \A i \in DOMAIN wire' : Replied(wire'[i]) => [id |-> wire'[i].id, kind |-> wire'[i].kind] \in replyHandlersById'
    BY <1>3, <1>4, <1>7, <2>1 DEF Registered, Lacks
  <2>3. /\ \A i \in DOMAIN processingEvents : Replied(processingEvents[i])
             => [id |-> processingEvents[i].id, kind |-> processingEvents[i].kind] \in replyHandlersById'
        /\ \A i \in DOMAIN outgoingEvents : Replied(outgoingEvents[i])
             => [id |-> outgoingEvents[i].id, kind |-> outgoingEvents[i].kind] \in replyHandlersById'
    BY <1>3, <1>4, <1>8 DEF DeliveryInv, HandlerRegistered, Registered, Lacks
  <2> QED
    BY <1>2, <2>2, <2>3 DEF HandlerRegistered, Registered
<1>18. SocketApart'
  BY <1>2, <1>6, <1>7 DEF DeliveryInv, SocketApart
<1>19. \A n : Elsewhere(n) \/ n = p.id => Elsewhere(n)'
  BY <1>2, <1>6, <1>7, <1>8 DEF Elsewhere
<1>20. JobApart'
  BY <1>1, <1>19 DEF DeliveryInv, JobApart
<1>21. ReplyApart'
  <2>1. \A e \in Replies' : Elsewhere(e.id)' /\ \A t \in Queueing' : job'[t].id # e.id
    BY <1>1, <1>10, <1>11, <1>19 DEF DeliveryInv, ReplyApart
  <2>2. \A g, h \in found : g = h
    BY <1>4 DEF DeliveryInv, HandlersApart
  <2>3. \A e, f \in Replies' : e.id = f.id => e = f
    BY <1>10, <1>11, <2>2 DEF DeliveryInv, ReplyApart
  <2> QED
    BY <2>1, <2>3 DEF ReplyApart
<1> QED
  BY <1>13, <1>14, <1>15, <1>16, <1>17, <1>18, <1>20, <1>21 DEF DeliveryInv

\* Losing what is on the connection, or clearing outgoingEvents, keeps DeliveryInv.
LEMMA LossDelivery == DeliveryInv /\ TypeInv' /\ (OpenReturns \/ ClearMethods) => DeliveryInv'
<1> SUFFICES ASSUME DeliveryInv, TypeInv', OpenReturns \/ ClearMethods PROVE DeliveryInv'
  OBVIOUS
<1>1. Queueing' = Queueing /\ job' = job /\ \A t \in Callers : pc'[t] = pc[t] \/ pc'[t] \in {"returned", "resetTime"}
  BY DEF OpenReturns, ClearMethods, Goto, Queueing, DeliveryInv, TypeInv, TypeOK, ControlOK, Threads, Callers
<1>2. Replies' = Replies /\ QueuesApart'
  BY DEF OpenReturns, ClearMethods, Replies, QueuesApart, DeliveryInv
<1>3. /\ UNCHANGED <<processingEvents, packetId, replyHandlersById>>
      /\ wire' = wire \/ wire' = <<>>
      /\ outgoingEvents' = outgoingEvents \/ outgoingEvents' = <<>>
  BY DEF OpenReturns, ClearMethods
<1>4. /\ DOMAIN <<>> = {}
      /\ \A n : Below(<<>>, n) /\ Lacks(<<>>, n)
      /\ Distinct(<<>>) /\ Registered(<<>>)
      /\ \A q : Apart(<<>>, q) /\ Apart(q, <<>>)
  <2>1. DOMAIN <<>> = {}
    OBVIOUS
  <2> QED
    BY <2>1 DEF Below, Lacks, Distinct, Registered, Apart
<1>5. IdsBelow'
  BY <1>1, <1>2, <1>3, <1>4 DEF DeliveryInv, IdsBelow
<1>6. HandlersApart' /\ JobRegistered'
  BY <1>1, <1>2, <1>3 DEF DeliveryInv, HandlersApart, JobRegistered
<1>7. HandlerRegistered'
  BY <1>3, <1>4 DEF DeliveryInv, HandlerRegistered, Registered
<1>8. SocketApart'
  BY <1>3, <1>4 DEF DeliveryInv, SocketApart
<1>9. \A n : Elsewhere(n) => Elsewhere(n)'
  BY <1>3, <1>4 DEF Elsewhere
<1>10. JobApart' /\ ReplyApart'
  BY <1>1, <1>2, <1>9 DEF DeliveryInv, JobApart, ReplyApart
<1> QED
  BY <1>2, <1>5, <1>6, <1>7, <1>8, <1>10 DEF DeliveryInv

\* Running the handler of a reply keeps DeliveryInv.
LEMMA HandledDelivery ==
    ASSUME DeliveryInv, TypeInv', NEW e \in Replies, Handled(e)
    PROVE  DeliveryInv'
<1>1. Queueing' = Queueing /\ \A t \in Queueing : job'[t] = job[t] /\ pc'[t] = pc[t]
  BY SameJobs DEF Handled
<1>2. Replies' \subseteq Replies /\ QueuesApart'
  BY DEF Handled, DeliveryInv
<1>3. UNCHANGED <<outgoingEvents, processingEvents, wire, packetId, replyHandlersById>>
  BY DEF Handled, SameQueues, SameCalls
<1>4. IdsBelow'
  BY <1>1, <1>2, <1>3 DEF DeliveryInv, IdsBelow, Below
<1>5. HandlersApart' /\ JobRegistered' /\ HandlerRegistered'
  BY <1>1, <1>2, <1>3 DEF DeliveryInv, HandlersApart, JobRegistered, HandlerRegistered, Registered, Queueing
<1>6. SocketApart' /\ JobApart' /\ ReplyApart'
  BY <1>1, <1>2, <1>3 DEF DeliveryInv, SocketApart, JobApart, ReplyApart, Elsewhere, Apart, Distinct, Lacks
<1> QED
  BY <1>2, <1>4, <1>5, <1>6 DEF DeliveryInv

\* DeliveryInv holds initially.
LEMMA DeliveryInit == Init => DeliveryInv
<1> SUFFICES ASSUME Init PROVE DeliveryInv
  OBVIOUS
<1>1. TypeInv
  BY TypeInit
<1>2. Replies = {} /\ Queueing = {} /\ \A t \in Callers : pc[t] \notin {"register", "enqueue"}
  BY DEF Init, Replies, Queueing, Threads, Callers
<1>3. outgoingEvents = <<>> /\ processingEvents = <<>> /\ wire = <<>> /\ replyHandlersById = {}
  BY DEF Init
<1>4. DOMAIN <<>> = {}
  OBVIOUS
<1>5. IdsBelow /\ HandlersApart /\ JobRegistered /\ HandlerRegistered
  BY <1>2, <1>3, <1>4 DEF IdsBelow, Below, HandlersApart, JobRegistered, HandlerRegistered, Registered
<1>6. SocketApart /\ JobApart /\ ReplyApart
  BY <1>2, <1>3, <1>4 DEF SocketApart, JobApart, ReplyApart, Elsewhere, Apart, Distinct, Lacks
<1>7. QueuesApart
  BY DEF Init, QueuesApart
<1> QED
  BY <1>1, <1>5, <1>6, <1>7 DEF DeliveryInv

\* DeliveryInv is inductive.
LEMMA DeliveryNext == DeliveryInv /\ [Next]_vars => DeliveryInv'
<1> SUFFICES ASSUME DeliveryInv, [Next]_vars PROVE DeliveryInv'
  OBVIOUS
<1>1. TypeInv'
  BY TypeStep DEF DeliveryInv
<1>2. DeliveryStep
  BY DeliverySteps DEF DeliveryInv
<1> QED
  BY <1>1, <1>2, QuietDelivery, CreatedDelivery, RegisterDelivery, QueueDelivery, SwapDelivery,
     SendDelivery, ReadyDelivery, ReplyDelivery, LossDelivery, HandledDelivery DEF DeliveryStep

\* DeliveryInv, the inductive strengthening of OnePlace and HandlerRegistered, is
\* an invariant of the session.
THEOREM DeliveryInvariant == Spec => []DeliveryInv
BY DeliveryInit, DeliveryNext, PTL DEF Spec

\* In every reachable state, for any number of connections, calls and failures,
\* each packet id is in one place: no method is sent or answered twice
\* (queue_method, run_outgoing_thread, handle_ws_message).
THEOREM DeliveryCorrect == Spec => []OnePlace
<1>1. DeliveryInv => OnePlace
  BY OnePlaceParts DEF DeliveryInv
<1> QED
  BY <1>1, DeliveryInvariant, PTL

\* In every reachable state the handler of a method that is queued, taken or sent
\* is registered (queue_method, handle_ws_message).
THEOREM HandlersCorrect == Spec => []HandlerRegistered
<1>1. DeliveryInv => HandlerRegistered
  BY DEF DeliveryInv
<1> QED
  BY <1>1, DeliveryInvariant, PTL

-------------------------------------------------------------------------------
(* The order of a thread's methods, and the wait of the outgoing thread. *)

\* The methods of a thread in a queue are older than n.
Earlier(s, t, n) == \A i \in DOMAIN s : s[i].by = t => s[i].id < n

\* The method a thread is queueing is its newest.
JobLast ==
    \A t \in Queueing :
        /\ job[t].by = t
        /\ Earlier(wire, t, job[t].id) /\ Earlier(processingEvents, t, job[t].id)
        /\ Earlier(outgoingEvents, t, job[t].id)

OrderInv == DeliveryInv /\ WaitInv /\ ThreadOrder /\ JobLast

\* WaitInv holds initially.
LEMMA WaitInit == Init => WaitInv
BY DEF Init, WaitInv, NoSleepOnWork, Threads

\* WaitInv is kept by every delivery step.
LEMMA WaitStep == TypeInv /\ WaitInv /\ DeliveryStep => WaitInv'
<1> SUFFICES ASSUME TypeInv, WaitInv, DeliveryStep PROVE WaitInv'
  OBVIOUS
<1> USE DEF TypeInv, TypeOK, ControlOK, Goto, Threads, Callers
<1>1. CASE Quiet \/ (\E t \in Callers : Created(t)) \/ (\E e \in Replies : Handled(e))
  BY <1>1 DEF Quiet, Created, Handled, SameQueues
<1>2. CASE Swapped
  BY <1>2 DEF Swapped, WaitInv, NoSleepOnWork
<1>3. ASSUME NEW t \in Callers, RegisterHandler(t) PROVE WaitInv'
  BY <1>3 DEF RegisterHandler, WaitInv, NoSleepOnWork
<1>4. ASSUME NEW t \in Callers, QueueMethod(t) PROVE WaitInv'
  BY <1>4 DEF QueueMethod, WaitInv, NoSleepOnWork
<1>5. CASE SendMethod
  BY <1>5 DEF SendMethod, WaitInv, NoSleepOnWork
<1>6. CASE ReceiveReady
  BY <1>6 DEF ReceiveReady, WaitInv, NoSleepOnWork
<1>7. CASE \E found, kept : ReplyTaken(found, kept)
  BY <1>7 DEF ReplyTaken
<1>8. CASE OpenReturns
  BY <1>8 DEF OpenReturns, WaitInv, NoSleepOnWork
<1>9. CASE ClearMethods
  BY <1>9 DEF ClearMethods, WaitInv, NoSleepOnWork
<1> QED
  BY <1>1, <1>2, <1>3, <1>4, <1>5, <1>6, <1>7, <1>8, <1>9 DEF DeliveryStep

\* The order is kept when the queues stay and no thread takes a new job.
LEMMA SameOrder ==
    ASSUME OrderInv, Queueing' \subseteq Queueing, \A t \in Queueing' : job'[t] = job[t],
           UNCHANGED <<outgoingEvents, processingEvents, wire>>
    PROVE  ThreadOrder' /\ JobLast'
<1>1. ThreadOrder'
  BY DEF OrderInv, ThreadOrder, Increasing, Before
<1>2. JobLast'
  BY DEF OrderInv, JobLast, Earlier
<1> QED
  BY <1>1, <1>2

\* A new packet id is larger than every earlier one.
LEMMA CreatedOrder ==
    ASSUME OrderInv, NEW t \in Callers, Created(t)
    PROVE  ThreadOrder' /\ JobLast'
<1>1. /\ Queueing' = Queueing \union {t}
      /\ \A u \in Queueing : job'[u] = job[u] /\ u # t
      /\ job'[t].id = packetId /\ job'[t].by = t
      /\ UNCHANGED <<outgoingEvents, processingEvents, wire>>
  BY DEF Created, SameJob, SameQueues, Idle, Queueing
<1>2. ThreadOrder'
  BY <1>1 DEF OrderInv, ThreadOrder, Increasing, Before
<1>3. \A s : Below(s, packetId) => Earlier(s, t, packetId)
  BY DEF Below, Earlier
<1>4. /\ Earlier(wire, t, packetId) /\ Earlier(processingEvents, t, packetId)
      /\ Earlier(outgoingEvents, t, packetId)
  BY <1>3 DEF OrderInv, DeliveryInv, IdsBelow
<1>5. JobLast'
  BY <1>1, <1>4 DEF OrderInv, JobLast, Earlier
<1> QED
  BY <1>2, <1>5

\* Queueing a thread's method puts it behind the thread's earlier ones.
LEMMA QueueOrder ==
    ASSUME OrderInv, NEW t \in Callers, QueueMethod(t)
    PROVE  ThreadOrder' /\ JobLast'
<1>1. /\ Queueing' = Queueing \ {t} /\ t \in Queueing
      /\ \A u \in Callers : u # t => job'[u] = job[u]
  BY DEF QueueMethod, Return, Queueing, OrderInv, DeliveryInv, TypeInv, TypeOK, ControlOK, Threads, Callers
<1>2. UNCHANGED <<processingEvents, wire>> /\ outgoingEvents' = Append(outgoingEvents, job[t])
  BY DEF QueueMethod
<1>3. wire \in PSeq /\ processingEvents \in PSeq /\ outgoingEvents \in PSeq /\ job[t] \in Packet
  BY <1>1 DEF OrderInv, DeliveryInv, TypeInv, TypeOK, PSeq, JobTaken, Queueing
<1>4. /\ job[t].by = t /\ Earlier(wire, t, job[t].id) /\ Earlier(processingEvents, t, job[t].id)
      /\ Earlier(outgoingEvents, t, job[t].id)
  BY <1>1 DEF OrderInv, JobLast
<1>5. /\ Increasing(outgoingEvents') /\ Before(wire, outgoingEvents')
      /\ Before(processingEvents, outgoingEvents')
  BY <1>2, <1>3, <1>4, AppendOrder DEF OrderInv, ThreadOrder, Earlier
<1>6. ThreadOrder'
  BY <1>2, <1>5 DEF OrderInv, ThreadOrder
<1>7. \A u \in Queueing' : u \in Queueing /\ u # t /\ job'[u] = job[u]
  BY <1>1 DEF Queueing
<1>8. \A u \in Queueing' : Earlier(outgoingEvents', u, job[u].id)
  <2> SUFFICES ASSUME NEW u \in Queueing' PROVE Earlier(outgoingEvents', u, job[u].id)
    OBVIOUS
  <2>1. Earlier(outgoingEvents, u, job[u].id) /\ job[t].by # u
    BY <1>4, <1>7 DEF OrderInv, JobLast
  <2>2. \A i \in DOMAIN outgoingEvents : outgoingEvents[i].by = u => outgoingEvents[i].id < job[u].id
    BY <2>1 DEF Earlier
  <2>3. \A i \in DOMAIN Append(outgoingEvents, job[t]) :
          Append(outgoingEvents, job[t])[i].by = u => Append(outgoingEvents, job[t])[i].id < job[u].id
    <3> SUFFICES ASSUME NEW i \in DOMAIN Append(outgoingEvents, job[t]),
                        Append(outgoingEvents, job[t])[i].by = u
                 PROVE  Append(outgoingEvents, job[t])[i].id < job[u].id
      OBVIOUS
    <3>1. Append(outgoingEvents, job[t])[i] # job[t]
      BY <2>1
    <3>2. i \in DOMAIN outgoingEvents /\ Append(outgoingEvents, job[t])[i] = outgoingEvents[i]
      BY <1>3, <3>1, AppendAt
    <3> QED
      BY <2>2, <3>2
  <2> QED
    BY <1>2, <2>3 DEF Earlier
<1>9. JobLast'
  BY <1>2, <1>7, <1>8 DEF OrderInv, JobLast
<1> QED
  BY <1>6, <1>9

\* The outgoing thread swaps only when it has nothing left to send.
LEMMA SwapOrder ==
    ASSUME OrderInv, Swapped
    PROVE  ThreadOrder' /\ JobLast'
<1>1. Queueing' = Queueing /\ \A t \in Queueing : job'[t] = job[t]
  BY SameJobs DEF Swapped
<1>2. /\ processingEvents = <<>>
      /\ processingEvents' = outgoingEvents /\ outgoingEvents' = <<>> /\ UNCHANGED wire
  BY DEF Swapped, OrderInv, WaitInv
<1>3. DOMAIN <<>> = {}
  OBVIOUS
<1>4. ThreadOrder'
  BY <1>2, <1>3 DEF OrderInv, ThreadOrder, Increasing, Before
<1>5. JobLast'
  BY <1>1, <1>2, <1>3 DEF OrderInv, JobLast, Earlier
<1> QED
  BY <1>4, <1>5

\* Sending moves the oldest method to the end of the connection.
LEMMA SendOrder ==
    ASSUME OrderInv, SendMethod
    PROVE  ThreadOrder' /\ JobLast'
<1> DEFINE p == Head(processingEvents)
<1>1. Queueing' = Queueing /\ job' = job
  BY DEF SendMethod, Goto, Queueing, OrderInv, DeliveryInv, TypeInv, TypeOK, ControlOK, Threads, Callers
<1>2. UNCHANGED outgoingEvents
  BY DEF SendMethod
<1>3. /\ wire \in PSeq /\ processingEvents \in PSeq /\ outgoingEvents \in PSeq
      /\ processingEvents # <<>> /\ p \in Packet
      /\ p = processingEvents[1] /\ 1 \in DOMAIN processingEvents
  <2>1. wire \in PSeq /\ processingEvents \in PSeq /\ outgoingEvents \in PSeq /\ processingEvents # <<>>
    BY DEF SendMethod, OrderInv, DeliveryInv, TypeInv, TypeOK, PSeq, SendingMethod
  <2> QED
    BY <2>1, TailAt
<1>4. processingEvents' = Tail(processingEvents) /\ (wire' = wire \/ wire' = Append(wire, p))
  BY Zenon DEF SendMethod
<1>5. Increasing(processingEvents') /\ Before(wire, processingEvents') /\ Before(processingEvents', outgoingEvents)
  BY <1>3, <1>4, TailOrder DEF OrderInv, ThreadOrder
<1>6. \A i \in DOMAIN processingEvents' : p.by = processingEvents'[i].by => p.id < processingEvents'[i].id
  BY <1>3, <1>4, TailOrder DEF OrderInv, ThreadOrder
<1>7. \A i \in DOMAIN wire : wire[i].by = p.by => wire[i].id < p.id
  BY <1>3 DEF OrderInv, ThreadOrder, Before
<1>8. \A i \in DOMAIN outgoingEvents : p.by = outgoingEvents[i].by => p.id < outgoingEvents[i].id
  BY <1>3 DEF OrderInv, ThreadOrder, Before
<1>9. \A t \in Queueing : p.by = t => p.id < job[t].id
  BY <1>3 DEF OrderInv, JobLast, Earlier
<1> HIDE DEF p
<1>10. \A i \in DOMAIN wire' : wire'[i] = p \/ (i \in DOMAIN wire /\ wire'[i] = wire[i])
  <2>1. CASE wire' = wire
    BY <2>1
  <2>2. CASE wire' = Append(wire, p)
    BY <1>3, <2>2, AppendAt
  <2> QED
    BY <1>4, <2>1, <2>2
<1>11. Increasing(wire') /\ Before(wire', processingEvents') /\ Before(wire', outgoingEvents)
  <2>1. CASE wire' = wire
    BY <1>5, <2>1 DEF OrderInv, ThreadOrder
  <2>2. CASE wire' = Append(wire, p)
    <3>1. Increasing(wire')
      BY <1>3, <1>7, <2>2, AppendOrder DEF OrderInv, ThreadOrder
    <3>2. Before(wire', processingEvents')
      BY <1>5, <1>6, <1>10 DEF Before
    <3>3. Before(wire', outgoingEvents)
      BY <1>8, <1>10 DEF Before, OrderInv, ThreadOrder
    <3> QED
      BY <3>1, <3>2, <3>3
  <2> QED
    BY <1>4, <2>1, <2>2
<1>12. ThreadOrder'
  BY <1>2, <1>5, <1>11 DEF OrderInv, ThreadOrder
<1>13. \A t \in Queueing : Earlier(wire', t, job[t].id) /\ Earlier(processingEvents', t, job[t].id)
  <2>1. \A i \in DOMAIN processingEvents' : \E j \in DOMAIN processingEvents : processingEvents'[i] = processingEvents[j]
    BY <1>3, <1>4, TailAt
  <2> QED
    BY <1>9, <1>10, <2>1 DEF OrderInv, JobLast, Earlier
<1>14. JobLast'
  BY <1>1, <1>2, <1>13 DEF OrderInv, JobLast
<1> QED
  BY <1>12, <1>14

\* An answer takes the oldest method off the connection.
LEMMA ReceiveOrder ==
    ASSUME OrderInv, ReceiveReady \/ \E found, kept : ReplyTaken(found, kept)
    PROVE  ThreadOrder' /\ JobLast'
<1>1. Queueing' = Queueing /\ job' = job
  BY DEF ReceiveReady, ReplyTaken, Queueing
<1>2. UNCHANGED <<outgoingEvents, processingEvents>> /\ wire' = Tail(wire) /\ wire # <<>>
  BY DEF ReceiveReady, ReplyTaken
<1>3. wire \in PSeq
  BY DEF OrderInv, DeliveryInv, TypeInv, TypeOK, PSeq
<1>4. ThreadOrder'
  BY <1>2, <1>3, TailOrder DEF OrderInv, ThreadOrder
<1>5. \A i \in DOMAIN wire' : \E j \in DOMAIN wire : wire'[i] = wire[j]
  BY <1>2, <1>3, TailAt
<1>6. JobLast'
  BY <1>1, <1>2, <1>5 DEF OrderInv, JobLast, Earlier
<1> QED
  BY <1>4, <1>6

\* Losing queued methods keeps the order of the rest.
LEMMA LossOrder ==
    ASSUME OrderInv, OpenReturns \/ ClearMethods
    PROVE  ThreadOrder' /\ JobLast'
<1>1. Queueing' = Queueing /\ job' = job
  BY DEF OpenReturns, ClearMethods, Goto, Queueing, OrderInv, DeliveryInv, TypeInv, TypeOK, ControlOK, Threads, Callers
<1>2. /\ UNCHANGED processingEvents
      /\ wire' = wire \/ wire' = <<>>
      /\ outgoingEvents' = outgoingEvents \/ outgoingEvents' = <<>>
  BY DEF OpenReturns, ClearMethods
<1>3. DOMAIN <<>> = {}
  OBVIOUS
<1>4. ThreadOrder'
  BY <1>2, <1>3 DEF OrderInv, ThreadOrder, Increasing, Before
<1>5. JobLast'
  BY <1>1, <1>2, <1>3 DEF OrderInv, JobLast, Earlier
<1> QED
  BY <1>4, <1>5

\* OrderInv holds initially.
LEMMA OrderInit == Init => OrderInv
<1> SUFFICES ASSUME Init PROVE OrderInv
  OBVIOUS
<1>1. Queueing = {} /\ outgoingEvents = <<>> /\ processingEvents = <<>> /\ wire = <<>>
  BY DEF Init, Queueing, Threads, Callers
<1>2. DOMAIN <<>> = {}
  OBVIOUS
<1>3. ThreadOrder /\ JobLast
  BY <1>1, <1>2 DEF ThreadOrder, Increasing, Before, JobLast
<1> QED
  BY <1>3, DeliveryInit, WaitInit DEF OrderInv

\* OrderInv is inductive.
LEMMA OrderNext == OrderInv /\ [Next]_vars => OrderInv'
<1> SUFFICES ASSUME OrderInv, [Next]_vars PROVE OrderInv'
  OBVIOUS
<1>1. DeliveryInv' /\ DeliveryStep /\ WaitInv'
  BY DeliveryNext, DeliverySteps, WaitStep DEF OrderInv, DeliveryInv
<1>2. ASSUME Quiet \/ (\E e \in Replies : Handled(e))
      PROVE  ThreadOrder' /\ JobLast'
  BY <1>2, SameJobs, SameOrder DEF Quiet, Handled, SameQueues
<1>3. ASSUME NEW t \in Callers, RegisterHandler(t)
      PROVE  ThreadOrder' /\ JobLast'
  <2>1. Queueing' = Queueing /\ job' = job /\ UNCHANGED <<outgoingEvents, processingEvents, wire>>
    BY <1>3 DEF RegisterHandler, Goto, Queueing, OrderInv, DeliveryInv, TypeInv, TypeOK, ControlOK, Threads, Callers
  <2> QED
    BY <2>1, SameOrder
<1>4. ThreadOrder' /\ JobLast'
  BY <1>1, <1>2, <1>3, CreatedOrder, QueueOrder, SwapOrder, SendOrder, ReceiveOrder, LossOrder DEF DeliveryStep
<1> QED
  BY <1>1, <1>4 DEF OrderInv

\* OrderInv holds in every reachable state.
THEOREM OrderInvariant == Spec => []OrderInv
BY OrderInit, OrderNext, PTL DEF Spec

\* In every reachable state the methods of one thread are in the order in which
\* the thread queued them (queue_method, run_outgoing_thread).
THEOREM OrderCorrect == Spec => []ThreadOrder
<1>1. OrderInv => ThreadOrder
  BY DEF OrderInv
<1> QED
  BY <1>1, OrderInvariant, PTL

\* In no reachable state does the outgoing thread sleep while a method waits to
\* be sent (queue_method, run_outgoing_thread).
THEOREM WakeupCorrect == Spec => []NoSleepOnWork
<1>1. OrderInv => NoSleepOnWork
  BY DEF OrderInv, WaitInv
<1> QED
  BY <1>1, OrderInvariant, PTL

-------------------------------------------------------------------------------
(* The session implements MethodCalls, under the mapping of Session. *)

\* The ids of a queue after a push.
LEMMA AppendIds ==
    ASSUME NEW s \in PSeq, NEW p \in Packet
    PROVE  Ids(Append(s, p)) = Ids(s) \union {p.id}
<1>1. Ids(Append(s, p)) \subseteq Ids(s) \union {p.id}
  BY AppendAt DEF Ids
<1>2. Ids(s) \subseteq Ids(Append(s, p))
  BY AppendAt DEF Ids
<1>3. p.id \in Ids(Append(s, p))
  BY AppendAt DEF Ids
<1> QED
  BY <1>1, <1>2, <1>3

\* The ids of a queue after a pop.
LEMMA TailIds ==
    ASSUME NEW s \in PSeq, s # <<>>, Distinct(s)
    PROVE  Ids(Tail(s)) = Ids(s) \ {Head(s).id} /\ Head(s).id \in Ids(s)
<1>1. \A n : Lacks(s, n) <=> n \notin Ids(s)
  BY DEF Lacks, Ids
<1>2. \A n : Lacks(Tail(s), n) <=> n \notin Ids(Tail(s))
  BY DEF Lacks, Ids
<1> QED
  BY <1>1, <1>2, TailLacks

\* The refinement mapping, with names for its parts.
JobIds == {job[t].id : t \in Queueing}
QueuedIds == Ids(processingEvents) \union Ids(outgoingEvents) \union JobIds
AnsweredIds == {e.id : e \in Replies}

\* The delivery steps that leave the queues alone leave the ids alone.
LEMMA SameIds ==
    /\ SameQueues => UNCHANGED <<Ids(processingEvents), Ids(outgoingEvents), Ids(wire)>>
    /\ SameReplies => UNCHANGED AnsweredIds
    /\ (\A t \in Callers : SameJob(t)) => UNCHANGED JobIds
<1>1. SameQueues => UNCHANGED <<Ids(processingEvents), Ids(outgoingEvents), Ids(wire)>>
  BY DEF SameQueues, Ids
<1>2. SameReplies => UNCHANGED AnsweredIds
  BY DEF SameReplies, AnsweredIds
<1>3. (\A t \in Callers : SameJob(t)) => UNCHANGED JobIds
  BY SameJobs DEF JobIds
<1> QED
  BY <1>1, <1>2, <1>3

\* The sets of ids are functions of the variables they are read from.
LEMMA IdsFollow ==
    /\ Ids(wire)' = Ids(wire') /\ Ids(processingEvents)' = Ids(processingEvents')
    /\ Ids(outgoingEvents)' = Ids(outgoingEvents')
    /\ Queueing' = Queueing /\ job' = job => JobIds' = JobIds
    /\ Replies' = Replies => AnsweredIds' = AnsweredIds
BY DEF Ids, JobIds, AnsweredIds

\* The actions of MethodCalls on the mapped variables.
MethodsStep ==
    \/ UNCHANGED <<packetId, QueuedIds, Ids(wire), AnsweredIds>>
    \/ /\ packetId' = packetId + 1 /\ QueuedIds' = QueuedIds \union {packetId}
       /\ UNCHANGED <<Ids(wire), AnsweredIds>>
    \/ \E n \in QueuedIds : /\ QueuedIds' = QueuedIds \ {n} /\ Ids(wire)' = Ids(wire) \union {n}
                            /\ UNCHANGED <<packetId, AnsweredIds>>
    \/ \E n \in Ids(wire) : /\ Ids(wire)' = Ids(wire) \ {n} /\ AnsweredIds' = AnsweredIds \union {n}
                            /\ UNCHANGED <<packetId, QueuedIds>>
    \/ \E n \in AnsweredIds : /\ AnsweredIds' = AnsweredIds \ {n}
                              /\ UNCHANGED <<packetId, QueuedIds, Ids(wire)>>
    \/ /\ QueuedIds' \subseteq QueuedIds /\ Ids(wire)' \subseteq Ids(wire)
       /\ UNCHANGED <<packetId, AnsweredIds>>

\* A step on the sets of ids is a step of MethodCalls or leaves it unchanged.
LEMMA MethodsNext == MethodsStep => [Methods!Next]_(Methods!mvars)
BY DEF MethodsStep, QueuedIds, AnsweredIds, JobIds, Methods!Next, Methods!mvars, Methods!Queue,
       Methods!Send, Methods!Answer, Methods!Handle, Methods!Leave

\* The initial states of the session are initial in MethodCalls.
LEMMA MethodsInit == Init => Methods!Init
BY DEF Init, Methods!Init, Ids, Replies, Queueing, Threads, Callers

\* DeliveryInv, in terms of sets of ids.
LEMMA PositionsOf ==
    ASSUME DeliveryInv
    PROVE  /\ wire \in PSeq /\ processingEvents \in PSeq /\ outgoingEvents \in PSeq
           /\ Distinct(wire) /\ Distinct(processingEvents)
           /\ \A n \in Ids(wire) : n \notin QueuedIds
           /\ \A n \in Ids(processingEvents) : n \notin Ids(outgoingEvents) /\ n \notin JobIds
           /\ \A n \in JobIds : n \notin Ids(wire)
<1>1. \A s, n : Lacks(s, n) <=> n \notin Ids(s)
  BY DEF Lacks, Ids
<1>2. \A s, r : Apart(s, r) => \A n \in Ids(r) : n \notin Ids(s)
  BY <1>1 DEF Apart, Ids
<1>3. \A n \in JobIds : n \notin Ids(wire) /\ n \notin Ids(processingEvents)
  BY <1>1 DEF DeliveryInv, JobApart, Elsewhere, JobIds
<1>4. wire \in PSeq /\ processingEvents \in PSeq /\ outgoingEvents \in PSeq
  BY DEF DeliveryInv, TypeInv, TypeOK, PSeq
<1> QED
  BY <1>2, <1>3, <1>4 DEF DeliveryInv, SocketApart, QueuedIds

\* create_method_json is the action Queue.
LEMMA CreatedMethods ==
    ASSUME DeliveryInv, NEW t \in Callers, Created(t)
    PROVE  MethodsStep
<1>1. /\ Queueing' = Queueing \union {t} /\ t \notin Queueing
      /\ \A u \in Queueing : job'[u] = job[u]
      /\ job'[t].id = packetId /\ packetId' = packetId + 1
  BY DEF Created, SameJob, Idle, Queueing
<1>2. JobIds' = JobIds \union {packetId}
  BY <1>1 DEF JobIds
<1>3. UNCHANGED <<Ids(processingEvents), Ids(outgoingEvents), Ids(wire), AnsweredIds>>
  BY SameIds DEF Created
<1> QED
  BY <1>1, <1>2, <1>3 DEF MethodsStep, QueuedIds

\* queue_method moves an id that is queued already.
LEMMA QueueMethodMethods ==
    ASSUME DeliveryInv, NEW t \in Callers, QueueMethod(t)
    PROVE  MethodsStep
<1>1. /\ Queueing' = Queueing \ {t} /\ t \in Queueing /\ pc[t] = "enqueue"
      /\ \A u \in Callers : u # t => job'[u] = job[u]
  BY DEF QueueMethod, Return, Queueing, DeliveryInv, TypeInv, TypeOK, ControlOK, Threads, Callers
<1>2. JobIds = JobIds' \union {job[t].id}
  BY <1>1 DEF JobIds, Queueing
<1>3. outgoingEvents' = Append(outgoingEvents, job[t]) /\ job[t] \in Packet /\ outgoingEvents \in PSeq
  BY <1>1 DEF QueueMethod, DeliveryInv, TypeInv, TypeOK, JobTaken, PSeq
<1>4. Ids(outgoingEvents)' = Ids(outgoingEvents) \union {job[t].id}
  <2>1. Ids(outgoingEvents') = Ids(outgoingEvents) \union {job[t].id}
    BY <1>3, AppendIds
  <2> QED
    BY <2>1 DEF Ids
<1>5. UNCHANGED <<packetId, Ids(wire), Ids(processingEvents), AnsweredIds>>
  <2>1. UNCHANGED <<packetId, wire, processingEvents>> /\ Replies' = Replies
    BY DEF QueueMethod, Replies
  <2> QED
    BY <2>1, IdsFollow
<1> QED
  BY <1>2, <1>4, <1>5 DEF MethodsStep, QueuedIds

\* Registering a handler moves no id.
LEMMA RegisterMethods ==
    ASSUME DeliveryInv, NEW t \in Callers, RegisterHandler(t)
    PROVE  MethodsStep
<1>1. Queueing' = Queueing /\ job' = job
  BY DEF RegisterHandler, Goto, Queueing, DeliveryInv, TypeInv, TypeOK, ControlOK, Threads, Callers
<1>2. UNCHANGED <<packetId, wire, processingEvents, outgoingEvents>> /\ Replies' = Replies
  BY DEF RegisterHandler, Replies
<1> QED
  BY <1>1, <1>2, IdsFollow DEF MethodsStep, QueuedIds

\* ws->send is the action Send, or Leave on a broken connection.
LEMMA SendMethods ==
    ASSUME DeliveryInv, SendMethod
    PROVE  MethodsStep
<1> DEFINE p == Head(processingEvents)
<1>1. Queueing' = Queueing /\ job' = job
  BY DEF SendMethod, Goto, Queueing, DeliveryInv, TypeInv, TypeOK, ControlOK, Threads, Callers
<1>2. JobIds' = JobIds /\ UNCHANGED <<packetId, Ids(outgoingEvents), AnsweredIds>>
  <2>1. UNCHANGED <<packetId, outgoingEvents>> /\ Replies' = Replies
    BY DEF SendMethod, Replies
  <2> QED
    BY <1>1, <2>1, IdsFollow
<1>3. processingEvents \in PSeq /\ processingEvents # <<>> /\ p \in Packet /\ wire \in PSeq
  BY TailAt DEF SendMethod, DeliveryInv, TypeInv, TypeOK, PSeq, SendingMethod
<1>4. processingEvents' = Tail(processingEvents) /\ (wire' = wire \/ wire' = Append(wire, p))
  BY Zenon DEF SendMethod
<1>5. Ids(processingEvents)' = Ids(processingEvents) \ {p.id} /\ p.id \in Ids(processingEvents)
  <2>1. Ids(Tail(processingEvents)) = Ids(processingEvents) \ {p.id} /\ p.id \in Ids(processingEvents)
    BY <1>3, PositionsOf, TailIds
  <2> QED
    BY <1>4, <2>1 DEF Ids
<1>6. Ids(wire)' = Ids(wire) \/ Ids(wire)' = Ids(wire) \union {p.id}
  <2>1. Ids(Append(wire, p)) = Ids(wire) \union {p.id}
    BY <1>3, AppendIds
  <2> QED
    BY <1>4, <2>1 DEF Ids
<1> HIDE DEF p
<1>7. QueuedIds' = QueuedIds \ {p.id} /\ p.id \in QueuedIds
  BY <1>2, <1>5, PositionsOf DEF QueuedIds
<1> QED
  BY <1>2, <1>6, <1>7 DEF MethodsStep

\* The answer to ready makes its id leave.
LEMMA ReadyMethods ==
    ASSUME DeliveryInv, ReceiveReady
    PROVE  MethodsStep
<1>1. UNCHANGED <<packetId, QueuedIds>>
  <2>1. UNCHANGED <<packetId, processingEvents, outgoingEvents, job>> /\ Queueing' = Queueing
    BY DEF ReceiveReady, Queueing
  <2> QED
    BY <2>1, IdsFollow DEF QueuedIds
<1>2. AnsweredIds' = AnsweredIds
  BY NoReplies DEF ReceiveReady, AnsweredIds, Replies
<1>3. wire' = Tail(wire) /\ wire # <<>>
  BY DEF ReceiveReady
<1>4. Ids(wire)' \subseteq Ids(wire)
  <2>1. Ids(Tail(wire)) \subseteq Ids(wire)
    BY <1>3, PositionsOf, TailIds
  <2> QED
    BY <1>3, <2>1 DEF Ids
<1> QED
  BY <1>1, <1>2, <1>4 DEF MethodsStep

\* A reply whose handler interactive_run will call is the action Answer; one that
\* is handled at once, or after shutdown, makes its id leave.
LEMMA ReplyMethods ==
    ASSUME DeliveryInv, NEW found, NEW kept, ReplyTaken(found, kept)
    PROVE  MethodsStep
<1> DEFINE p == Head(wire)
<1>2. UNCHANGED <<packetId, QueuedIds>>
  <2>1. UNCHANGED <<packetId, processingEvents, outgoingEvents, job>> /\ Queueing' = Queueing
    BY DEF ReplyTaken, Queueing
  <2> QED
    BY <2>1, IdsFollow DEF QueuedIds
<1>3. wire' = Tail(wire) /\ wire # <<>> /\ processingQueue' = processingQueue
  BY DEF ReplyTaken
<1>4. incomingEvents' = incomingEvents \union {ReplyEvent(h) : h \in kept}
  BY DEF ReplyTaken
<1>5. \A h \in kept : h.id = p.id
  BY DEF ReplyTaken
<1>6. Ids(wire)' = Ids(wire) \ {p.id} /\ p.id \in Ids(wire)
  <2>1. Ids(Tail(wire)) = Ids(wire) \ {p.id} /\ p.id \in Ids(wire)
    BY <1>3, PositionsOf, TailIds
  <2> QED
    BY <1>3, <2>1 DEF Ids
<1> HIDE DEF p
<1>7. CASE kept = {}
  <2>1. AnsweredIds' = AnsweredIds
    BY <1>3, <1>4, <1>7 DEF AnsweredIds, Replies
  <2> QED
    BY <1>2, <1>6, <2>1 DEF MethodsStep
<1>8. CASE kept # {}
  <2>1. Replies' = Replies \union {ReplyEvent(h) : h \in kept}
    BY <1>3, <1>4, NoReplies DEF Replies
  <2>2. \A h \in kept : ReplyEvent(h).id = p.id
    BY <1>5, NoReplies
  <2>3. AnsweredIds' = AnsweredIds \union {p.id}
    BY <1>8, <2>1, <2>2 DEF AnsweredIds
  <2> QED
    BY <1>2, <1>6, <2>3 DEF MethodsStep
<1> QED
  BY <1>7, <1>8

\* A lost connection and the cleared queue make ids leave.
LEMMA LossMethods ==
    ASSUME DeliveryInv, OpenReturns \/ ClearMethods
    PROVE  MethodsStep
<1>1. Queueing' = Queueing /\ job' = job
  BY DEF OpenReturns, ClearMethods, Goto, Queueing, DeliveryInv, TypeInv, TypeOK, ControlOK, Threads, Callers
<1>2. UNCHANGED <<packetId, processingEvents>> /\ Replies' = Replies
  BY DEF OpenReturns, ClearMethods, Replies
<1>3. /\ wire' = wire \/ wire' = <<>>
      /\ outgoingEvents' = outgoingEvents \/ outgoingEvents' = <<>>
  BY DEF OpenReturns, ClearMethods
<1>4. Ids(<<>>) = {}
  BY DEF Ids
<1>5. Ids(wire)' \subseteq Ids(wire) /\ Ids(outgoingEvents)' \subseteq Ids(outgoingEvents)
  BY <1>3, <1>4, IdsFollow
<1> QED
  BY <1>1, <1>2, <1>5, IdsFollow DEF MethodsStep, QueuedIds

\* Running the handler of a reply is the action Handle.
LEMMA HandledMethods ==
    ASSUME DeliveryInv, NEW e \in Replies, Handled(e)
    PROVE  MethodsStep
<1>1. UNCHANGED <<packetId, QueuedIds, Ids(wire)>>
  BY SameIds DEF Handled, QueuedIds, SameCalls
<1>2. AnsweredIds' = AnsweredIds \ {e.id} /\ e.id \in AnsweredIds
  BY DEF Handled, AnsweredIds, DeliveryInv, ReplyApart
<1> QED
  BY <1>1, <1>2 DEF MethodsStep

\* Every delivery step is a step of MethodCalls or a stutter.
LEMMA MethodsSteps == DeliveryInv /\ DeliveryStep => MethodsStep
<1> SUFFICES ASSUME DeliveryInv, DeliveryStep PROVE MethodsStep
  OBVIOUS
<1>1. CASE Quiet
  BY <1>1, SameIds DEF Quiet, SameCalls, QueuedIds, MethodsStep
<1>2. CASE Swapped
  <2>1. UNCHANGED <<packetId, JobIds, AnsweredIds>>
    BY <1>2, SameIds DEF Swapped, SameCalls
  <2>2. /\ Ids(wire)' = Ids(wire) /\ Ids(processingEvents)' = Ids(outgoingEvents)
        /\ Ids(outgoingEvents)' = Ids(processingEvents)
    BY <1>2 DEF Swapped, Ids
  <2> QED
    BY <2>1, <2>2 DEF QueuedIds, MethodsStep
<1> QED
  BY <1>1, <1>2, CreatedMethods, RegisterMethods, QueueMethodMethods, SendMethods, ReadyMethods,
     ReplyMethods, LossMethods, HandledMethods DEF DeliveryStep

\* The session implements MethodCalls: whatever the threads, the network and the
\* caller do, a method is queued once, answered only after it was sent, and an
\* answer that has arrived is handled once and not lost.
THEOREM MethodsRefined == Spec => ImplementsMethodCalls
<1>1. DeliveryInv /\ [Next]_vars => [Methods!Next]_(Methods!mvars)
  BY DeliverySteps, MethodsSteps, MethodsNext DEF DeliveryInv
<1> QED
  BY <1>1, MethodsInit, DeliveryInvariant, PTL DEF Spec, ImplementsMethodCalls, Methods!Spec
===============================================================================
