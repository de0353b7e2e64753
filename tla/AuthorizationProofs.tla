-------------------------- MODULE AuthorizationProofs -------------------------
(***************************************************************************)
(* TypeOK, VerdictsTrue and FreshTokenWorks, for every lifetime of tokens, *)
(* every delay of answers that leaves a token its second half, and every   *)
(* number of tokens and length of time.                                    *)
(*                                                                         *)
(* The invariant follows a token from the service to the application:      *)
(* the answer to an exchange or a refresh was issued at the time of the    *)
(* answer and is at most MaxDelay old (AnswerTrue); what is stamped is     *)
(* such an answer, or the response was lost and is an older one            *)
(* (ResponseTrue); so the token data of the application is dated at most   *)
(* MaxDelay after its issue, or is no token (TokenTrue).                   *)
(***************************************************************************)
EXTENDS Authorization, TLAPS

CodeBody == Object([m \in {"code"} |-> 1])
Asking == {"code", "poll", "exchange", "refresh"}

Typed ==
    /\ platform \in {"desktop", "uwp"} /\ now \in 0..MaxTime
    /\ handle \in {"none", "waiting", "granted", "denied", "expired", "used"}
    /\ issued \in Seq(Nat) /\ \A n \in 1..Len(issued) : issued[n] <= now
    /\ call \in [fn : {"none", "get_short_code", "wait_short_code", "refresh_token"},
                 at : Asking \union {"idle", "stamp"}, lost : BOOLEAN]

\* A function is called for what it asks, and returned nothing before it is done.
CallTrue ==
    /\ call.at = "idle" => call = Idle
    /\ call.at = "code" => call.fn = "get_short_code"
    /\ call.at \in {"poll", "exchange"} => handle # "none"
    /\ call.at # "idle" => result = NoResult

\* An answer on its way is recent, and says what the service knows or has issued.
AnswerTrue ==
    answer # NoAnswer =>
        /\ call.at \in Asking
        /\ answer.at \in 0..now /\ now <= answer.at + MaxDelay
        /\ call.at = "poll" =>
              /\ answer.body \in {Empty, CodeBody}
              /\ answer.status = 403 => handle = "denied"
              /\ answer.status = 404 => handle \in {"expired", "used"}
        /\ call.at \in {"exchange", "refresh"} /\ answer.status = 200 =>
              \E n \in 1..Len(issued) : answer.body = TokenBody(n) /\ issued[n] = answer.at

\* What is about to be stamped was issued at most MaxDelay ago, unless it was lost.
ResponseTrue ==
    IF call.at = "stamp" /\ ~call.lost
    THEN \E n \in 1..Len(issued) : response.body = TokenBody(n) /\ now <= issued[n] + MaxDelay
    ELSE response.body \in {Empty, CodeBody}

\* Token data that was stamped.
Stamped(data, n) ==
    /\ data.parses /\ DOMAIN data.members = {"access_token", "refresh_token", "expires_in", "granted_at"}
    /\ data.members["access_token"] = n /\ data.members["refresh_token"] = n
    /\ data.members["expires_in"] = Lifetime
    /\ data.members["granted_at"] \in Nat /\ data.members["granted_at"] <= issued[n] + MaxDelay
NoToken(data) ==
    /\ data.parses \in BOOLEAN /\ DOMAIN data.members \subseteq {"code", "granted_at"}
    /\ \A m \in DOMAIN data.members : data.members[m] \in Nat
TokenTrue == NoToken(token) \/ \E n \in 1..Len(issued) : Stamped(token, n)

AuthInv ==
    /\ Typed /\ CallTrue /\ AnswerTrue /\ ResponseTrue /\ TokenTrue
    /\ VerdictsTrue /\ FreshTokenWorks

-------------------------------------------------------------------------------
(* Bodies and token data. *)

\* What the bodies of answers are made of.
LEMMA Bodies ==
    /\ Empty.parses = FALSE /\ DOMAIN Empty.members = {}
    /\ CodeBody.parses = TRUE /\ DOMAIN CodeBody.members = {"code"}
    /\ CodeBody.members["code"] = 1
    /\ \A n : /\ TokenBody(n).parses = TRUE
             /\ DOMAIN TokenBody(n).members = {"access_token", "refresh_token", "expires_in"}
             /\ TokenBody(n).members["access_token"] = n
             /\ TokenBody(n).members["refresh_token"] = n
             /\ TokenBody(n).members["expires_in"] = Lifetime
BY DEF Empty, Nothing, CodeBody, Object, TokenBody

\* The stamp adds the time to what was received.
LEMMA StampAdds ==
    ASSUME NEW b, "granted_at" \notin DOMAIN b.members
    PROVE  /\ Stamp(b).parses = TRUE
           /\ DOMAIN Stamp(b).members = DOMAIN b.members \union {"granted_at"}
           /\ \A m \in DOMAIN b.members : Stamp(b).members[m] = b.members[m]
           /\ Stamp(b).members["granted_at"] = now
BY DEF Stamp, Object, With

\* The service issues tokens one after the other.
LEMMA Issues ==
    ASSUME Typed, issued' = issued \o <<now>>
    PROVE  /\ issued' \in Seq(Nat) /\ Len(issued') = Len(issued) + 1
           /\ \A n \in 1..Len(issued) : issued'[n] = issued[n]
           /\ issued'[Len(issued) + 1] = now
BY DEF Typed

\* What has been issued stays issued.
LEMMA IssuedKept ==
    ASSUME Typed, issued' = issued \o <<now>> \/ issued' = issued,
           NEW n \in 1..Len(issued)
    PROVE  n \in 1..Len(issued') /\ issued'[n] = issued[n]
<1>1. CASE issued' = issued
  BY <1>1
<1>2. CASE issued' = issued \o <<now>>
  BY <1>2, Issues DEF Typed
<1> QED
  BY <1>1, <1>2

\* The token data of the application stays true while the service issues more.
LEMMA TokenKept ==
    ASSUME Typed, TokenTrue, token' = token, issued' = issued \o <<now>> \/ issued' = issued
    PROVE  TokenTrue'
<1>1. CASE NoToken(token)
  BY <1>1 DEF TokenTrue, NoToken
<1>2. CASE \E n \in 1..Len(issued) : Stamped(token, n)
  <2>1. PICK n \in 1..Len(issued) : Stamped(token, n)
    BY <1>2
  <2>2. n \in 1..Len(issued') /\ issued'[n] = issued[n]
    BY IssuedKept
  <2>3. Stamped(token, n)'
    BY <2>1, <2>2 DEF Stamped
  <2> QED
    BY <2>2, <2>3 DEF TokenTrue
<1> QED
  BY <1>1, <1>2 DEF TokenTrue

\* A function that is not done has said nothing.
LEMMA NothingSaid ==
    ASSUME result' = NoResult
    PROVE  VerdictsTrue' /\ FreshTokenWorks'
BY DEF NoResult, VerdictsTrue, FreshTokenWorks

\* What was said stays true while nothing that it speaks of changes.
LEMMA SaidKept ==
    ASSUME VerdictsTrue, FreshTokenWorks, UNCHANGED <<result, token, handle, issued>>
    PROVE  VerdictsTrue' /\ FreshTokenWorks'
BY DEF VerdictsTrue, FreshTokenWorks, Parse, Has

-------------------------------------------------------------------------------
(* The service, the user and the clock. *)

\* The invariant holds at the start.
LEMMA InitAuthInv == Init => AuthInv
<1> SUFFICES ASSUME Init PROVE AuthInv
  OBVIOUS
<1>1. Typed /\ CallTrue /\ AnswerTrue
  BY LifetimeAssumption DEF Init, Typed, CallTrue, AnswerTrue, Idle, Asking
<1>2. ResponseTrue
  BY DEF Init, ResponseTrue, NoResponse, Idle
<1>3. TokenTrue
  BY Bodies DEF Init, TokenTrue, NoToken
<1>4. VerdictsTrue /\ FreshTokenWorks
  BY DEF Init, NoResult, VerdictsTrue, FreshTokenWorks
<1> QED
  BY <1>1, <1>2, <1>3, <1>4 DEF AuthInv

\* Serve keeps the invariant: what it answers is recent, and what it issued.
LEMMA ServeKeeps == AuthInv /\ Serve => AuthInv'
<1> SUFFICES ASSUME AuthInv, Serve PROVE AuthInv'
  OBVIOUS
<1> USE LifetimeAssumption DEF AuthInv
<1>1. UNCHANGED <<platform, now, call, response, token, result>> /\ call.at \in Asking
  BY DEF Serve, Asking
<1>2. issued' = issued \o <<now>> \/ issued' = issued
  BY DEF Serve, serverVars
<1>3. result = NoResult
  BY <1>1 DEF CallTrue, Asking
<1>4. Typed'
  <2>1. handle' \in {"none", "waiting", "granted", "denied", "expired", "used"}
    BY DEF Serve, Typed, serverVars
  <2>2. issued' \in Seq(Nat) /\ \A n \in 1..Len(issued') : issued'[n] <= now
    <3>1. CASE issued' = issued
      BY <3>1 DEF Typed
    <3>2. CASE issued' = issued \o <<now>>
      BY <3>2, Issues DEF Typed
    <3> QED
      BY <1>2, <3>1, <3>2
  <2> QED
    BY <1>1, <2>1, <2>2 DEF Typed
<1>5. CallTrue'
  <2>1. call.at \in {"poll", "exchange"} => handle' # "none"
    BY DEF Serve, CallTrue, serverVars
  <2> QED
    BY <1>1, <2>1 DEF CallTrue
<1>6. AnswerTrue'
  <2>1. answer'.at = now
    BY DEF Serve, Answer
  <2>2. now \in Nat
    BY DEF Typed
  <2>3. CASE call.at = "poll"
    <3>1. /\ answer'.body \in {Empty, CodeBody} /\ handle' = handle
          /\ answer'.status = 403 => handle = "denied"
          /\ answer'.status = 404 => handle \in {"expired", "used"}
      BY <2>3 DEF Serve, Answer, CodeBody, serverVars, Typed, CallTrue
    <3> QED
      BY <1>1, <2>1, <2>2, <2>3, <3>1 DEF AnswerTrue
  <2>4. CASE call.at \in {"exchange", "refresh"}
    <3>1. SUFFICES ASSUME answer'.status = 200
                   PROVE  \E n \in 1..Len(issued') :
                              answer'.body = TokenBody(n) /\ issued'[n] = answer'.at
      BY <1>1, <2>1, <2>2, <2>4 DEF AnswerTrue
    <3>2. issued' = issued \o <<now>> /\ answer'.body = TokenBody(Len(issued) + 1)
      BY <2>4, <3>1 DEF Serve, Answer
    <3>3. Len(issued) + 1 \in 1..Len(issued')
      BY <3>2, Issues DEF Typed
    <3> QED
      BY <2>1, <3>2, <3>3, Issues
  <2>5. CASE call.at = "code"
    BY <1>1, <2>1, <2>2, <2>5 DEF AnswerTrue
  <2> QED
    BY <1>1, <2>3, <2>4, <2>5 DEF Asking
<1>7. ResponseTrue'
  BY <1>1 DEF ResponseTrue, Asking
<1>8. TokenTrue'
  BY <1>1, <1>2, TokenKept
<1>9. VerdictsTrue' /\ FreshTokenWorks'
  BY <1>1, <1>3, NothingSaid
<1> QED
  BY <1>4, <1>5, <1>6, <1>7, <1>8, <1>9

\* Decide keeps the invariant: what was said of the handle was said after it was decided.
LEMMA DecideKeeps == AuthInv /\ Decide => AuthInv'
<1> SUFFICES ASSUME AuthInv, Decide PROVE AuthInv'
  OBVIOUS
<1> USE DEF AuthInv
<1>1. /\ UNCHANGED <<platform, now, issued, call, answer, response, token, result>>
      /\ handle = "waiting" /\ handle' \in {"granted", "denied", "expired"}
  BY DEF Decide
<1>2. Typed' /\ CallTrue' /\ ResponseTrue'
  BY <1>1 DEF Typed, CallTrue, ResponseTrue
<1>3. AnswerTrue'
  BY <1>1 DEF AnswerTrue
<1>4. TokenTrue'
  BY <1>1, TokenKept
<1>5. VerdictsTrue' /\ FreshTokenWorks'
  BY <1>1 DEF VerdictsTrue, FreshTokenWorks, Parse, Has
<1> QED
  BY <1>2, <1>3, <1>4, <1>5

\* Tick keeps the invariant: an answer is not underway for longer than MaxDelay, and
\* is stamped when it has arrived.
LEMMA TickKeeps == AuthInv /\ Tick => AuthInv'
<1> SUFFICES ASSUME AuthInv, Tick PROVE AuthInv'
  OBVIOUS
<1> USE LifetimeAssumption DEF AuthInv
<1>1. /\ UNCHANGED <<platform, handle, issued, call, answer, response, token, result>>
      /\ now' = now + 1 /\ now < MaxTime /\ call.at # "stamp"
      /\ answer # NoAnswer => now - answer.at < MaxDelay
  BY DEF Tick, serverVars
<1>2. Typed'
  <2>1. now \in 0..MaxTime /\ \A n \in 1..Len(issued) : issued[n] <= now /\ issued[n] \in Nat
    BY DEF Typed
  <2>2. now' \in 0..MaxTime /\ \A n \in 1..Len(issued) : issued[n] <= now'
    BY <1>1, <2>1
  <2> QED
    BY <1>1, <2>2 DEF Typed
<1>3. CallTrue' /\ ResponseTrue'
  BY <1>1 DEF CallTrue, ResponseTrue
<1>4. AnswerTrue'
  BY <1>1 DEF AnswerTrue, Typed
<1>5. TokenTrue'
  BY <1>1, TokenKept
<1>6. VerdictsTrue' /\ FreshTokenWorks'
  BY <1>1, SaidKept
<1> QED
  BY <1>2, <1>3, <1>4, <1>5, <1>6

-------------------------------------------------------------------------------
(* The functions. *)

\* A call begins with nothing said and nothing in its response.
LEMMA BeginKeeps ==
    ASSUME AuthInv, NEW fn \in {"get_short_code", "wait_short_code", "refresh_token"},
           NEW step \in {"code", "poll", "refresh"}, Begin(fn, step),
           step = "code" => fn = "get_short_code", step = "poll" => handle # "none"
    PROVE  AuthInv'
<1> USE DEF AuthInv
<1>1. /\ UNCHANGED <<platform, now, handle, issued, answer, token>>
      /\ call = Idle /\ call' = [fn |-> fn, at |-> step, lost |-> FALSE]
      /\ response'.body = Empty /\ result' = NoResult
  BY DEF Begin, serverVars
<1>2. Typed'
  BY <1>1 DEF Typed, Asking
<1>3. CallTrue' /\ ResponseTrue'
  BY <1>1 DEF CallTrue, ResponseTrue, Idle
<1>4. AnswerTrue'
  BY <1>1 DEF AnswerTrue, Idle, Asking
<1>5. TokenTrue'
  BY <1>1, TokenKept
<1>6. VerdictsTrue' /\ FreshTokenWorks'
  BY <1>1, NothingSaid
<1> QED
  BY <1>2, <1>3, <1>4, <1>5, <1>6

\* A function returns something other than MIXER_OK: what is left to show is that
\* the service has denied the code, or that it has expired, when it says so.
LEMMA ReturnKeeps ==
    ASSUME AuthInv, UNCHANGED <<platform, now, handle, issued, token>>,
           call' = Idle, answer' = NoAnswer, response' = NoResponse,
           result'.fresh = FALSE,
           result'.fn \in {"wait_short_code", "refresh_token"} /\ ~result'.lost =>
               /\ result'.rc # "MIXER_OK"
               /\ result'.rc = "MIXER_ERROR_AUTH_DENIED" => handle = "denied"
               /\ result'.rc = "MIXER_ERROR_TIMED_OUT" => handle \in {"expired", "used"}
    PROVE  AuthInv'
<1> USE DEF AuthInv
<1>1. Typed' /\ CallTrue'
  BY DEF Typed, CallTrue, Idle
<1>2. AnswerTrue'
  BY DEF AnswerTrue
<1>3. ResponseTrue'
  BY DEF ResponseTrue, Idle, NoResponse
<1>4. TokenTrue'
  BY TokenKept
<1>5. VerdictsTrue' /\ FreshTokenWorks'
  BY DEF VerdictsTrue, FreshTokenWorks
<1> QED
  BY <1>1, <1>2, <1>3, <1>4, <1>5

\* A function goes on to its next request with the response seen.
LEMMA AsksNext ==
    ASSUME AuthInv, UNCHANGED <<platform, now, handle, issued, token, result>>,
           call.at = "poll", call'.at \in {"poll", "exchange"},
           call' \in [fn : {call.fn}, at : {"poll", "exchange"}, lost : BOOLEAN],
           answer' = NoAnswer, response'.body \in {Empty, CodeBody}
    PROVE  AuthInv'
<1> USE DEF AuthInv
<1>1. Typed'
  BY DEF Typed, Asking
<1>2. CallTrue'
  BY DEF CallTrue
<1>3. AnswerTrue' /\ ResponseTrue'
  BY DEF AnswerTrue, ResponseTrue
<1>4. TokenTrue'
  BY TokenKept
<1>5. VerdictsTrue' /\ FreshTokenWorks'
  BY SaidKept
<1> QED
  BY <1>1, <1>2, <1>3, <1>4, <1>5

\* get_short_code keeps the invariant: its results say nothing of a token.
LEMMA CodeKeeps == AuthInv /\ CodeReturns => AuthInv'
<1> SUFFICES ASSUME AuthInv, CodeReturns PROVE AuthInv'
  OBVIOUS
<1>1. /\ UNCHANGED <<platform, now, handle, issued, token>>
      /\ answer' = NoAnswer /\ response' = NoResponse /\ call.fn = "get_short_code"
  BY DEF CodeReturns, Completes, serverVars, AuthInv, CallTrue
<1>2. call' = Idle /\ result'.fresh = FALSE /\ result'.fn = call.fn
  BY DEF CodeReturns, Return, Result
<1> QED
  BY <1>1, <1>2, ReturnKeeps

\* One turn of the polling loop with the response seen, which is what the service
\* answered or was lost.
LEMMA JudgeKeeps ==
    ASSUME AuthInv, NEW seen, NEW lost \in BOOLEAN, call.at = "poll",
           UNCHANGED <<platform, now, handle, issued, token>>, answer' = NoAnswer,
           Judge(seen, lost), Keep(seen), seen.body \in {Empty, CodeBody},
           ~lost /\ seen.status = 403 => handle = "denied",
           ~lost /\ seen.status = 404 => handle \in {"expired", "used"}
    PROVE  AuthInv'
<1>1. call \in [fn : {call.fn}, at : {"poll"}, lost : BOOLEAN] /\ call.at # Idle.at
  BY DEF AuthInv, Typed, Idle
<1>2. CASE seen.status = 204
  <2>1. UNCHANGED <<call, result>>
    BY <1>2 DEF Judge
  <2>2. response' = seen
    BY <1>1, <2>1 DEF Keep
  <2> QED
    BY <1>1, <2>1, <2>2, AsksNext
<1>3. CASE seen.status = 200 /\ seen.body.parses
  <2>1. call' = [call EXCEPT !.at = "exchange", !.lost = lost] /\ result' = result
    BY <1>3 DEF Judge, Advance
  <2>2. /\ call' \in [fn : {call.fn}, at : {"poll", "exchange"}, lost : BOOLEAN]
        /\ call'.at = "exchange" /\ call' # Idle
    BY <1>1, <2>1 DEF Idle
  <2>3. response' = seen
    BY <2>2 DEF Keep
  <2> QED
    BY <2>1, <2>2, <2>3, AsksNext
<1>4. CASE seen.status # 204 /\ ~(seen.status = 200 /\ seen.body.parses)
  <2>1. /\ call' = Idle /\ result'.fresh = FALSE /\ result'.lost = lost
        /\ result'.rc = CASE seen.status = 200 -> "MIXER_ERROR_JSON_PARSE"
                          [] seen.status = 403 -> "MIXER_ERROR_AUTH_DENIED"
                          [] seen.status = 404 -> "MIXER_ERROR_TIMED_OUT"
                          [] OTHER -> "MIXER_ERROR"
    BY <1>4 DEF Judge, Result
  <2>2. response' = NoResponse
    BY <2>1 DEF Keep
  <2> QED
    BY <2>1, <2>2, ReturnKeeps
<1> QED
  BY <1>2, <1>3, <1>4

\* wait_short_code, up to its exchange.
LEMMA PollKeeps == AuthInv /\ PollReturns => AuthInv'
<1> SUFFICES ASSUME AuthInv, PollReturns PROVE AuthInv'
  OBVIOUS
<1>1. /\ UNCHANGED <<platform, now, handle, issued, token>>
      /\ call.at = "poll" /\ answer' = NoAnswer
  BY DEF PollReturns, Completes, serverVars
<1>2. CASE Completes /\ Judge(Received, FALSE) /\ Keep(Received)
  <2>1. /\ Received.body \in {Empty, CodeBody}
        /\ Received.status = 403 => handle = "denied"
        /\ Received.status = 404 => handle \in {"expired", "used"}
    BY <1>1, <1>2 DEF AuthInv, AnswerTrue, Completes, Received
  <2> QED
    BY <1>1, <1>2, <2>1, JudgeKeeps
<1>3. CASE Judge(response, TRUE) /\ Keep(response)
  <2>1. response.body \in {Empty, CodeBody}
    BY <1>1 DEF AuthInv, ResponseTrue
  <2> QED
    BY <1>1, <1>3, <2>1, JudgeKeeps
<1>4. CASE Return("HTTP_ERROR") /\ Keep(response)
  <2>1. /\ call' = Idle /\ response' = NoResponse
        /\ result'.fresh = FALSE /\ result'.rc = "HTTP_ERROR"
    BY <1>4 DEF Return, Result, Keep
  <2> QED
    BY <1>1, <2>1, ReturnKeeps
<1> QED
  BY <1>2, <1>3, <1>4 DEF PollReturns

\* The exchange: what comes back is the token of the answer, or was lost.
LEMMA ExchangeKeeps == AuthInv /\ ExchangeReturns => AuthInv'
<1> SUFFICES ASSUME AuthInv, ExchangeReturns PROVE AuthInv'
  OBVIOUS
<1>1. /\ UNCHANGED <<platform, now, handle, issued, token>>
      /\ call.at \in {"exchange", "refresh"} /\ answer' = NoAnswer
  BY DEF ExchangeReturns, Completes, serverVars
<1>2. PICK seen, lost :
           /\ lost \in BOOLEAN /\ Exchanged(seen, lost) /\ Keep(seen)
           /\ lost => seen = response
           /\ ~lost => seen = Received /\ answer # NoAnswer
  <2>1. CASE Completes /\ Exchanged(Received, FALSE) /\ Keep(Received)
    BY <2>1, Zenon DEF Completes
  <2>2. CASE Exchanged(response, TRUE) /\ Keep(response)
    BY <2>2, Zenon
  <2> QED
    BY <2>1, <2>2 DEF ExchangeReturns
<1>3. CASE seen.status = 200
  <2>1. call' = [call EXCEPT !.at = "stamp", !.lost = lost] /\ result' = result
    BY <1>2, <1>3 DEF Exchanged, Advance
  <2>2. /\ call' \in [fn : {call.fn}, at : {"stamp"}, lost : {lost}]
        /\ call' # Idle /\ call.at # "idle"
    BY <1>1, <2>1 DEF Idle, AuthInv, Typed
  <2>3. response' = seen
    BY <1>2, <2>2 DEF Keep
  <2>4. Typed' /\ CallTrue' /\ AnswerTrue'
    BY <1>1, <1>2, <2>1, <2>2 DEF AuthInv, Typed, CallTrue, AnswerTrue
  <2>5. ResponseTrue'
    <3>1. CASE lost
      <4>1. response.body \in {Empty, CodeBody}
        BY <1>1 DEF AuthInv, ResponseTrue
      <4> QED
        BY <1>2, <2>2, <2>3, <3>1, <4>1 DEF ResponseTrue
    <3>2. CASE ~lost
      <4>1. PICK n \in 1..Len(issued) : answer.body = TokenBody(n) /\ issued[n] = answer.at
        BY <1>1, <1>2, <1>3, <3>2 DEF AuthInv, AnswerTrue, Received
      <4>2. now <= issued[n] + MaxDelay
        BY <1>2, <3>2, <4>1 DEF AuthInv, AnswerTrue
      <4>3. response'.body = TokenBody(n)
        BY <1>2, <2>3, <3>2, <4>1 DEF Received
      <4> QED
        BY <1>1, <2>2, <3>2, <4>2, <4>3 DEF ResponseTrue
    <3> QED
      BY <3>1, <3>2
  <2>6. TokenTrue'
    BY <1>1, TokenKept DEF AuthInv
  <2>7. VerdictsTrue' /\ FreshTokenWorks'
    BY <1>1, <2>1, SaidKept DEF AuthInv
  <2> QED
    BY <2>4, <2>5, <2>6, <2>7 DEF AuthInv
<1>4. CASE seen.status # 200
  <2>1. /\ call' = Idle /\ response' = NoResponse
        /\ result'.fresh = FALSE /\ result'.rc = "MIXER_ERROR_AUTH"
    BY <1>2, <1>4 DEF Exchanged, Return, Result, Keep
  <2> QED
    BY <1>1, <2>1, ReturnKeeps
<1> QED
  BY <1>3, <1>4

\* What is stamped becomes token data that is dated at most MaxDelay after its issue.
LEMMA StampKeeps == AuthInv /\ StampAndCopy => AuthInv'
<1> SUFFICES ASSUME AuthInv, StampAndCopy PROVE AuthInv'
  OBVIOUS
<1>1. /\ UNCHANGED <<platform, now, handle, issued, answer>> /\ call.at = "stamp"
      /\ call' = Idle /\ response' = NoResponse
      /\ result'.lost = call.lost /\ result'.fresh = FALSE
  BY DEF StampAndCopy, serverVars, Return, Result
<1>2. answer = NoAnswer
  BY <1>1 DEF AuthInv, AnswerTrue, Asking
<1>3. CASE UNCHANGED token /\ result'.rc \in {"MIXER_ERROR_JSON_PARSE", "MIXER_ERROR_BUFFER_SIZE"}
  BY <1>1, <1>2, <1>3, ReturnKeeps
<1>4. CASE /\ response.body.parses /\ token' = Stamp(response.body)
           /\ result'.rc = "MIXER_OK"
  <2>1. Typed' /\ CallTrue' /\ AnswerTrue' /\ ResponseTrue'
    BY <1>1, <1>2 DEF AuthInv, Typed, CallTrue, AnswerTrue, ResponseTrue, Idle, NoResponse
  <2>2. FreshTokenWorks'
    BY <1>1 DEF FreshTokenWorks
  <2>3. now \in Nat
    BY LifetimeAssumption DEF AuthInv, Typed
  <2>4. CASE call.lost
    <3>1. response.body \in {Empty, CodeBody}
      BY <1>1, <2>4 DEF AuthInv, ResponseTrue
    <3>2. response.body = CodeBody
      BY <1>4, <3>1, Bodies
    <3>3. NoToken(token')
      <4>1. /\ "granted_at" \notin DOMAIN response.body.members
            /\ DOMAIN response.body.members = {"code"} /\ response.body.members["code"] = 1
        BY <3>2, Bodies
      <4>2. /\ token'.parses = TRUE
            /\ DOMAIN token'.members = DOMAIN response.body.members \union {"granted_at"}
            /\ token'.members["granted_at"] = now
            /\ \A m \in DOMAIN response.body.members :
                  token'.members[m] = response.body.members[m]
        BY <1>4, <4>1, StampAdds
      <4>3. token'.parses \in BOOLEAN
        BY <4>2, Zenon
      <4> QED
        BY <2>3, <4>1, <4>2, <4>3 DEF NoToken
    <3>4. TokenTrue'
      BY <3>3 DEF TokenTrue, NoToken
    <3>5. VerdictsTrue'
      BY <1>1, <2>4 DEF VerdictsTrue
    <3> QED
      BY <2>1, <2>2, <3>4, <3>5 DEF AuthInv
  <2>5. CASE ~call.lost
    <3>1. PICK n \in 1..Len(issued) :
             response.body = TokenBody(n) /\ now <= issued[n] + MaxDelay
      BY <1>1, <2>5 DEF AuthInv, ResponseTrue
    <3>2. Stamped(token, n)'
      <4>1. /\ "granted_at" \notin DOMAIN response.body.members
            /\ DOMAIN response.body.members = {"access_token", "refresh_token", "expires_in"}
        BY <3>1, Bodies
      <4>2. /\ token'.parses = TRUE
            /\ DOMAIN token'.members = DOMAIN response.body.members \union {"granted_at"}
            /\ token'.members["granted_at"] = now
            /\ \A m \in DOMAIN response.body.members :
                  token'.members[m] = response.body.members[m]
        BY <1>4, <4>1, StampAdds
      <4> QED
        BY <1>1, <2>3, <3>1, <4>1, <4>2, Bodies DEF Stamped
    <3>3. TokenTrue'
      BY <1>1, <3>2 DEF TokenTrue
    <3>4. Parse(token') = "MIXER_OK"
      BY <3>2 DEF Stamped, Parse, Has
    <3>5. VerdictsTrue'
      BY <1>4, <3>4 DEF VerdictsTrue
    <3> QED
      BY <2>1, <2>2, <3>3, <3>5 DEF AuthInv
  <2>6. call.lost \in BOOLEAN
    BY DEF AuthInv, Typed
  <2> QED
    BY <2>4, <2>5
<1> QED
  BY <1>3, <1>4 DEF StampAndCopy, Return, Result

\* is_token_stale calls a token fresh in the first half of the life it dates from
\* its stamp; the stamp is at most MaxDelay late, which the second half covers.
LEMMA StaleKeeps == AuthInv /\ IsTokenStale => AuthInv'
<1> SUFFICES ASSUME AuthInv, IsTokenStale PROVE AuthInv'
  OBVIOUS
<1>1. /\ UNCHANGED <<platform, now, handle, issued, call, answer, response, token>>
      /\ call = Idle /\ result'.fn = "is_token_stale" /\ result'.at = now
  BY DEF IsTokenStale, serverVars, Result
<1>2. Typed' /\ CallTrue' /\ AnswerTrue' /\ ResponseTrue'
  BY <1>1 DEF AuthInv, Typed, CallTrue, AnswerTrue, ResponseTrue, Idle
<1>3. TokenTrue'
  BY <1>1, TokenKept DEF AuthInv
<1>4. VerdictsTrue'
  BY <1>1 DEF VerdictsTrue
<1>5. FreshTokenWorks'
  <2>1. SUFFICES ASSUME result'.fresh
                 PROVE  now < issued[token.members["access_token"]] + Lifetime
    BY <1>1 DEF FreshTokenWorks
  <2>2. /\ {"granted_at", "expires_in"} \subseteq DOMAIN token.members
        /\ ~Stale(token)
    <3>1. CASE Has(token, "granted_at") /\ Has(token, "expires_in")
      <4>1. result'.fresh = ~Stale(token)
        BY <3>1 DEF IsTokenStale, Result
      <4> QED
        BY <2>1, <3>1, <4>1 DEF Has
    <3>2. CASE ~(Has(token, "granted_at") /\ Has(token, "expires_in"))
      <4>1. result'.fresh = FALSE
        BY <3>2 DEF IsTokenStale, Result
      <4> QED
        BY <2>1, <4>1
    <3> QED
      BY <3>1, <3>2
  <2>3. PICK n \in 1..Len(issued) : Stamped(token, n)
    BY <2>2 DEF AuthInv, TokenTrue, NoToken
  <2>4. /\ token.members["granted_at"] \in Nat
        /\ token.members["granted_at"] <= issued[n] + MaxDelay
        /\ ~(now > token.members["granted_at"] + Lifetime \div 2)
        /\ token.members["access_token"] = n
    BY <2>2, <2>3 DEF Stale, Stamped
  <2>5. issued[n] \in Nat /\ now \in Nat
    BY LifetimeAssumption DEF AuthInv, Typed
  <2>6. /\ MaxDelay \in Nat /\ Lifetime \div 2 \in Nat
        /\ MaxDelay + Lifetime \div 2 < Lifetime /\ Lifetime \in Nat
    BY LifetimeAssumption
  <2> QED
    BY <2>4, <2>5, <2>6
<1> QED
  BY <1>2, <1>3, <1>4, <1>5 DEF AuthInv

-------------------------------------------------------------------------------
(* The theorems. *)

\* refresh_token begins, or says that the token data has no refresh token.
LEMMA RefreshKeeps == AuthInv /\ RefreshToken => AuthInv'
<1> SUFFICES ASSUME AuthInv, RefreshToken PROVE AuthInv'
  OBVIOUS
<1>1. CASE Begin("refresh_token", "refresh")
  BY <1>1, BeginKeeps
<1>2. CASE /\ call = Idle
           /\ Result("refresh_token", "MIXER_ERROR_AUTH_INVALID_TOKEN", FALSE, FALSE)
           /\ UNCHANGED <<platform, now, serverVars, call, answer, response, token>>
  <2>1. Typed' /\ CallTrue' /\ AnswerTrue' /\ ResponseTrue'
    BY <1>2 DEF AuthInv, Typed, CallTrue, AnswerTrue, ResponseTrue, Idle, serverVars
  <2>2. TokenTrue'
    BY <1>2, TokenKept DEF AuthInv, serverVars
  <2>3. VerdictsTrue' /\ FreshTokenWorks'
    BY <1>2 DEF VerdictsTrue, FreshTokenWorks, Result
  <2> QED
    BY <2>1, <2>2, <2>3 DEF AuthInv
<1> QED
  BY <1>1, <1>2 DEF RefreshToken

\* Every step keeps the invariant.
LEMMA AuthInductive == AuthInv /\ [Next]_vars => AuthInv'
<1> SUFFICES ASSUME AuthInv, [Next]_vars PROVE AuthInv'
  OBVIOUS
<1>1. CASE GetShortCode
  BY <1>1, BeginKeeps DEF GetShortCode
<1>2. CASE WaitShortCode
  BY <1>2, BeginKeeps DEF WaitShortCode
<1>3. CASE UNCHANGED vars
  <2>1. /\ UNCHANGED <<platform, now, handle, issued, token, result>>
        /\ UNCHANGED <<call, answer, response>>
    BY <1>3 DEF vars
  <2>2. Typed' /\ CallTrue' /\ AnswerTrue' /\ ResponseTrue'
    BY <2>1 DEF AuthInv, Typed, CallTrue, AnswerTrue, ResponseTrue
  <2> QED
    BY <2>1, <2>2, TokenKept, SaidKept DEF AuthInv
<1> QED
  BY <1>1, <1>2, <1>3, ServeKeeps, DecideKeeps, TickKeeps, CodeKeeps, PollKeeps,
     RefreshKeeps, ExchangeKeeps, StampKeeps, StaleKeeps DEF Next

\* The bodies that responses may have, and token data, are objects of the members
\* the code looks at.
LEMMA InvTypes == AuthInv => TypeOK
<1> SUFFICES ASSUME AuthInv PROVE TypeOK
  OBVIOUS
<1> USE LifetimeAssumption
<1>1. IsBody(Empty) /\ IsBody(CodeBody) /\ \A n \in Nat : IsBody(TokenBody(n))
  <2>1. IsBody(Empty) /\ IsBody(CodeBody)
    <3>1. Empty.parses \in BOOLEAN /\ CodeBody.parses \in BOOLEAN
      BY Bodies, Zenon
    <3>2. \A m \in DOMAIN CodeBody.members : CodeBody.members[m] = 1
      BY Bodies
    <3> QED
      BY <3>1, <3>2, Bodies DEF IsBody, Names
  <2>2. ASSUME NEW n \in Nat PROVE IsBody(TokenBody(n))
    <3>1. \A m \in DOMAIN TokenBody(n).members : TokenBody(n).members[m] \in {n, Lifetime}
      BY Bodies
    <3>2. /\ TokenBody(n).parses \in BOOLEAN
          /\ DOMAIN TokenBody(n).members \subseteq Names
      BY Bodies DEF Names
    <3> QED
      BY <3>1, <3>2 DEF IsBody
  <2> QED
    BY <2>1, <2>2
<1>2. \A n \in 1..Len(issued) : n \in Nat /\ issued[n] \in 0..now
  BY DEF AuthInv, Typed
<1>3. IsBody(response.body)
  BY <1>1, <1>2 DEF AuthInv, ResponseTrue
<1>4. /\ IsBody(token)
      /\ Has(token, "access_token") => token.members["access_token"] \in 1..Len(issued)
  <2>1. CASE NoToken(token)
    BY <2>1 DEF NoToken, IsBody, Names, Has
  <2>2. CASE \E n \in 1..Len(issued) : Stamped(token, n)
    BY <1>2, <2>2 DEF Stamped, IsBody, Names
  <2> QED
    BY <2>1, <2>2 DEF AuthInv, TokenTrue
<1> QED
  BY <1>2, <1>3, <1>4 DEF AuthInv, Typed, TypeOK, Asking

\* The invariant of the authorization functions and the service.
THEOREM AuthInvariant == Spec => []AuthInv
BY InitAuthInv, AuthInductive, PTL DEF Spec

\* The token that the application keeps is one the service has issued
\* (stamp_token_response and the calls around it).
THEOREM AuthTypeCorrect == Spec => []TypeOK
BY AuthInvariant, InvTypes, PTL

\* When no response was lost, MIXER_OK comes with token data that can be opened a
\* session with, and a denial or an expiry is one of the service.
THEOREM VerdictsCorrect == Spec => []VerdictsTrue
<1>1. AuthInv => VerdictsTrue
  BY DEF AuthInv
<1> QED
  BY <1>1, AuthInvariant, PTL

\* The service takes every token that interactive_auth_is_token_stale calls fresh.
THEOREM FreshTokensWork == Spec => []FreshTokenWorks
<1>1. AuthInv => FreshTokenWorks
  BY DEF AuthInv
<1> QED
  BY <1>1, AuthInvariant, PTL
===============================================================================
