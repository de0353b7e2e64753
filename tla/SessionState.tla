----------------------------- MODULE SessionState -----------------------------
(***************************************************************************)
(* The state of one interactive_session_internal and of the server behind  *)
(* its websocket, shared by the modules of the caller's thread, the        *)
(* incoming (websocket) thread and the outgoing thread.                    *)
(*                                                                         *)
(* Data is abstracted to what the protocol tells apart: a method is its    *)
(* packet id and its kind, a reply or a server method is an event with its *)
(* kind and the number of the connection it arrived on, and the cached     *)
(* scenes and groups are the number of the connection they came from.      *)
(***************************************************************************)
EXTENDS Naturals, Sequences, FiniteSets

CONSTANTS
    MaxConns,    \* how many websocket connections the server accepts
    MaxHosts,    \* length of the longest list of interactive hosts
    MaxEvents,   \* the values the caller passes as maxEventsToProcess
    IsReady,     \* the setReady argument of interactive_connect
    Calls,       \* the methods the caller queues
    Pushes,      \* the methods the server may send on its own
    CleanClose,  \* may the server end a connection with a close frame?
    MayClose,    \* may the caller close the session?
    Budget       \* how often each unforced thing of BudgetKinds may happen

BudgetKinds == {"connectFail", "sendFail", "call", "push", "timeError"}

CallKinds == {"method", "ready", "notReady"}
PushKinds == {"onGroupUpdate", "updateScenes", "badInput", "badUpdate"}

ASSUME ConstantsAssumption ==
    /\ MaxConns \in Nat
    /\ MaxHosts \in Nat \ {0}
    /\ MaxEvents \subseteq Nat \ {0}
    /\ IsReady \in BOOLEAN
    /\ Calls \subseteq CallKinds
    /\ Pushes \subseteq PushKinds
    /\ CleanClose \in BOOLEAN
    /\ MayClose \in BOOLEAN
    /\ Budget \in [BudgetKinds -> Nat]

VARIABLES
    \* Written by several threads without a lock.
    state,                       \* interactive_state
    serverTimeOffsetCalculated, scenesCached, groupsCached,
    wsOpen, shutdownRequested,
    \* The session's data, by the connection it was fetched on.
    scenesFrom, groupsFrom,
    getTimeSent,                 \* 1 + the id of the getTime it was taken for
    \* Under incomingMutex and outgoingMutex; packetId is atomic.
    packetId, replyHandlersById, incomingEvents, outgoingEvents,
    \* Local to interactive_run and to the outgoing thread.
    processingQueue, processingEvents,
    \* Local to the incoming thread.
    hosts, connectionRetryFrequency,
    openError,                   \* did the last ws->open return an error?
    \* The websocket and the server.
    conn, up, helloDue, serverReady, wire, wsClosed,
    \* Control: where each thread is and the method it is queueing.
    pc, job,
    \* What is left of Budget.
    budget

flagVars  == <<serverTimeOffsetCalculated, scenesCached, groupsCached>>
cacheVars == <<scenesFrom, groupsFrom, getTimeSent>>
callVars  == <<packetId, replyHandlersById>>
outVars   == <<outgoingEvents, processingEvents>>
inVars    == <<incomingEvents, processingQueue>>
hostVars  == <<hosts, connectionRetryFrequency, openError>>
netVars   == <<conn, up, helloDue, serverReady, wire>>
closeVars == <<shutdownRequested, wsClosed>>

vars == <<state, flagVars, wsOpen, cacheVars, callVars, outVars, inVars,
          hostVars, netVars, closeVars, pc, job, budget>>

-------------------------------------------------------------------------------
Threads == {"app", "ws", "out"}
Callers == {"app", "ws"}          \* the threads that queue methods

States == {"disconnected", "connecting", "connected", "ready"}

\* A method on its way to the server, with the thread that queued it.
Kinds == {"getTime", "getScenes", "getGroups", "method", "ready", "notReady"}
Packet == [id : Nat, kind : Kinds, by : Callers]
NoPacket == [id |-> 0, kind |-> "none", by |-> "app"]

\* ready is queued without a reply handler, so with discard = true.
Replied(p) == p.kind \notin {"ready", "notReady"}

\* Variant of Rank for ResetBeforeHello: state changes after methods.
RankMethodsFirst == [error |-> 0, state_change |-> 5, rpc_reply |-> 3, rpc_method |-> 4]

\* interactive_event_type: the enumeration is the priority order.
Rank == [error |-> 0, state_change |-> 1, rpc_reply |-> 4, rpc_method |-> 5]
Codes == {"NO_HOST", "WS_CONNECT_FAILED", "WS_CLOSED", "WS_SEND_FAILED"}
Event == [type : {"error"}, what : Codes, conn : Nat, id : Nat]
            \union [type : {"state_change"}, what : States, conn : Nat, id : {0}]
            \union [type : {"rpc_reply"}, what : Kinds, conn : Nat, id : Nat]
            \union [type : {"rpc_method"}, what : {"hello", "ready", "notReady"} \union PushKinds,
                     conn : Nat, id : Nat]

ErrorEvent(code, n) == [type |-> "error", what |-> code, conn |-> conn, id |-> n]
StateChangeEvent(s) == [type |-> "state_change", what |-> s, conn |-> conn, id |-> 0]
ReplyEvent(h)       == [type |-> "rpc_reply", what |-> h.kind, conn |-> conn, id |-> h.id]
MethodEvent(m, n)   == [type |-> "rpc_method", what |-> m, conn |-> conn, id |-> n]

\* Variant of Top for OnlyMethodsDropped: the comparison the other way round.
TopReversed(q) == {e \in q : \A f \in q : Rank[e.type] >= Rank[f.type]}

\* compare_event_priority: what priority_queue::top may return.  The order of
\* events of one type is unspecified.
Top(q) == {e \in q : \A f \in q : Rank[e.type] <= Rank[f.type]}

\* The k events that k calls of top and pop may take out of q.
TopSets(q, k) ==
    {s \in SUBSET q : /\ Cardinality(s) = k
                      /\ \A e \in s, f \in q \ s : Rank[e.type] <= Rank[f.type]}

Smaller(a, b) == IF a <= b THEN a ELSE b

Goto(t, label) == pc' = [pc EXCEPT ![t] = label]

Spend(k) == /\ budget[k] > 0
            /\ budget' = [budget EXCEPT ![k] = @ - 1]
===============================================================================
