------------------------------- MODULE Websocket -------------------------------
(***************************************************************************)
(* What a websocket promises to the thread that calls open (websocket.h),  *)
(* on either platform: onMessage is given the messages of the server in    *)
(* the order in which they come, each once, and only inside an open that   *)
(* has connected and has not yet returned.                                 *)
(***************************************************************************)
EXTENDS Naturals, Sequences

VARIABLES
    phase,   \* of the open that the thread is in; "closed" outside one
    inbox,   \* the messages that have come and wait, by their numbers
    given    \* the messages that onMessage was given

wvars == <<phase, inbox, given>>

Init == phase = "closed" /\ inbox = <<>> /\ given = <<>>

\* The number of the message that comes next.
Newest == Len(given) + Len(inbox) + 1

\* What waits from an earlier connection is kept for this one, or everything
\* before this connection is forgotten and its messages are counted from 1.
Open ==
    /\ phase = "closed"
    /\ phase' = "opening"
    /\ \/ UNCHANGED <<inbox, given>>
       \/ inbox' = <<>> /\ given' = <<>>

Connect ==
    /\ phase = "opening"
    /\ phase' = "open"
    /\ UNCHANGED <<inbox, given>>

\* The connection was not made, or it has ended.
Return ==
    /\ phase # "closed"
    /\ phase' = "closed"
    /\ UNCHANGED <<inbox, given>>

Arrive ==
    /\ phase # "closed"
    /\ inbox' = Append(inbox, Newest)
    /\ UNCHANGED <<phase, given>>

Give ==
    /\ phase = "open" /\ inbox # <<>>
    /\ given' = Append(given, Head(inbox))
    /\ inbox' = Tail(inbox)
    /\ UNCHANGED phase

\* A message is given as it comes when none waits.
Pass ==
    /\ phase = "open" /\ inbox = <<>>
    /\ given' = Append(given, Newest)
    /\ UNCHANGED <<phase, inbox>>

Next == Open \/ Connect \/ Return \/ Arrive \/ Give \/ Pass

Spec == Init /\ [][Next]_wvars
===============================================================================
