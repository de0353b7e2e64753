------------------------------- MODULE MCSession -------------------------------
(* Session with small bounds, for TLC. *)
EXTENDS Session

NoExtras == [k \in BudgetKinds |-> 0]
PushAndTimeError == [NoExtras EXCEPT !["push"] = 1, !["timeError"] = 1]
CallAndFail == [connectFail |-> 1, sendFail |-> 1, call |-> 1, push |-> 0, timeError |-> 1]
===============================================================================
