------------------------------ MODULE MethodCalls ------------------------------
(***************************************************************************)
(* What a session promises for the methods queued on it, whoever queues    *)
(* them: each has a packet id of its own, may be sent, and if it was sent  *)
(* may be answered; an answer is handled, once.  A method that has not     *)
(* been answered can be lost with a connection.                            *)
(***************************************************************************)
EXTENDS Naturals

VARIABLES
    next,      \* the next packet id
    queued,    \* ids of the methods waiting to be sent
    sent,      \* ids of the methods that were sent and not yet answered
    answered   \* ids of the methods whose answer waits for its handler

mvars == <<next, queued, sent, answered>>

Init ==
    /\ next = 0
    /\ queued = {} /\ sent = {} /\ answered = {}

Queue ==
    /\ next' = next + 1
    /\ queued' = queued \union {next}
    /\ UNCHANGED <<sent, answered>>

Send(id) ==
    /\ id \in queued
    /\ queued' = queued \ {id}
    /\ sent' = sent \union {id}
    /\ UNCHANGED <<next, answered>>

Answer(id) ==
    /\ id \in sent
    /\ sent' = sent \ {id}
    /\ answered' = answered \union {id}
    /\ UNCHANGED <<next, queued>>

Handle(id) ==
    /\ id \in answered
    /\ answered' = answered \ {id}
    /\ UNCHANGED <<next, queued, sent>>

\* Methods leave without an answer for interactive_run: with a connection, or
\* because no answer is expected or it is handled as it arrives.
Leave ==
    /\ queued' \subseteq queued
    /\ sent' \subseteq sent
    /\ UNCHANGED <<next, answered>>

Next ==
    \/ Queue
    \/ \E id \in queued : Send(id)
    \/ \E id \in sent : Answer(id)
    \/ \E id \in answered : Handle(id)
    \/ Leave

Spec == Init /\ [][Next]_mvars
===============================================================================
