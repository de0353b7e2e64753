---------------------------- MODULE Authorization -----------------------------
(***************************************************************************)
(* The interactive_auth functions, over an HTTP client that may fail, and  *)
(* a service (external) that lets a user grant or deny a short code and    *)
(* issues tokens that live for Lifetime seconds.  Token data is a JSON     *)
(* object of which the members the code looks at are kept.                 *)
(***************************************************************************)
EXTENDS Naturals, Sequences

CONSTANTS Lifetime,       \* expires_in of a token, in seconds
          MaxDelay,       \* how long an answer may be on its way
          MaxTime,        \* bound of the clock
          MaxTokens       \* bound of the tokens the service issues

ASSUME LifetimeAssumption ==
    /\ Lifetime \in Nat /\ MaxDelay \in Nat /\ MaxTime \in Nat /\ MaxTokens \in Nat
    /\ MaxDelay + Lifetime \div 2 < Lifetime

VARIABLES platform,   \* which http_client make_http_client makes
          now,        \* std::time, and the clock of the service
          handle,     \* what the service knows of the short code
          issued,     \* when each token was issued
          call,       \* the function the application is in, and where it is
          answer,     \* the answer of the service to the request in flight
          response,   \* http_response: a local of the function
          token,      \* the token data that the application holds
          result      \* what the last call returned

serverVars == <<handle, issued>>
vars == <<platform, now, handle, issued, call, answer, response, token, result>>

Statuses == {200, 204, 403, 404, 500}      \* that the memory of a response may happen to hold
Names == {"code", "access_token", "refresh_token", "expires_in", "granted_at"}
Nothing == [m \in {} |-> 0]
IsBody(b) ==
    /\ b.parses \in BOOLEAN /\ DOMAIN b.members \subseteq Names
    /\ \A m \in DOMAIN b.members : b.members[m] \in Nat
Empty == [parses |-> FALSE, members |-> Nothing]
Object(members) == [parses |-> TRUE, members |-> members]
Has(data, name) == name \in DOMAIN data.members
\* AddMember: of two members with a name, the first is found.
With(members, name, v) ==
    [m \in DOMAIN members \union {name} |-> IF m \in DOMAIN members THEN members[m] ELSE v]

TokenBody(no) == Object([m \in {"access_token", "refresh_token", "expires_in"} |->
                             IF m = "expires_in" THEN Lifetime ELSE no])
Answer(status, body) == [status |-> status, body |-> body, at |-> now]
NoAnswer == [status |-> 0, body |-> Empty, at |-> 0]
NoResponse == [status |-> 0, body |-> Empty]     \* between two calls
NoResult == [fn |-> "none", rc |-> "MIXER_OK", fresh |-> FALSE, lost |-> FALSE, at |-> 0]

Idle == [fn |-> "none", at |-> "idle", lost |-> FALSE]

Init ==
    /\ platform \in {"desktop", "uwp"}
    /\ now = 0 /\ handle = "none" /\ issued = <<>>
    /\ call = Idle /\ answer = NoAnswer /\ response = NoResponse
    /\ token = Empty /\ result = NoResult

Result(fn, rc, fresh, lost) ==
    result' = [fn |-> fn, rc |-> rc, fresh |-> fresh, lost |-> lost, at |-> now]

\* lost: the call went on with a response that is not the answer to its request.
Return(rc) == call' = Idle /\ Result(call.fn, rc, FALSE, call.lost)
Keep(seen) == response' = IF call' = Idle THEN NoResponse ELSE seen

-------------------------------------------------------------------------------
(* make_request: what it may return, and leave in the caller's response.  The *)
(* desktop client returns an error and leaves the response alone; the UWP     *)
(* client also returns S_OK for a request that OnError ended.                 *)

Completes == answer # NoAnswer /\ answer' = NoAnswer
Received == [status |-> answer.status, body |-> answer.body]
Errors == IF platform = "uwp" THEN {"OK", "ERROR"} ELSE {"ERROR"}

\* The service's part of it, by the step of the call that asks.
Serve ==
    /\ answer = NoAnswer
    /\ \/ /\ call.at = "code" /\ handle' = "waiting"
          /\ answer' = Answer(200, Object([m \in {"code"} |-> 1]))
          /\ UNCHANGED issued
       \/ /\ call.at = "poll"
          /\ answer' = CASE handle = "waiting" -> Answer(204, Empty)
                         [] handle = "granted" -> Answer(200, Object([m \in {"code"} |-> 1]))
                         [] handle = "denied" -> Answer(403, Empty)
                         [] OTHER -> Answer(404, Empty)
          /\ UNCHANGED serverVars
       \/ /\ call.at \in {"exchange", "refresh"}
          /\ \/ /\ handle = "granted" \/ call.at = "refresh"
                /\ Len(issued) < MaxTokens
                /\ handle' = IF call.at = "refresh" THEN handle ELSE "used"
                /\ issued' = issued \o <<now>>
                /\ answer' = Answer(200, TokenBody(Len(issued) + 1))
             \/ answer' = Answer(500, Object(Nothing)) /\ UNCHANGED serverVars
    /\ UNCHANGED <<platform, now, call, response, token, result>>

\* The user, and the expiry of the handle.
Decide ==
    /\ handle = "waiting"
    /\ handle' \in {"granted", "denied", "expired"}
    /\ UNCHANGED <<platform, now, issued, call, answer, response, token, result>>

Tick ==
    /\ now < MaxTime
    /\ answer # NoAnswer => now - answer.at < MaxDelay
    /\ call.at # "stamp"
    /\ now' = now + 1
    /\ UNCHANGED <<platform, serverVars, call, answer, response, token, result>>

-------------------------------------------------------------------------------
(* The functions.  http_response is not initialized by its constructor. *)

Begin(fn, step) ==
    /\ call = Idle
    /\ call' = [fn |-> fn, at |-> step, lost |-> FALSE]
    /\ \E garbage \in Statuses : response' = [status |-> garbage, body |-> Empty]
    /\ result' = NoResult
    /\ UNCHANGED <<platform, now, serverVars, answer, token>>

GetShortCode == handle = "none" /\ Begin("get_short_code", "code")
WaitShortCode == handle # "none" /\ Begin("wait_short_code", "poll")
RefreshToken ==
    IF Has(token, "refresh_token") THEN Begin("refresh_token", "refresh")
    ELSE /\ call = Idle /\ token # Empty
         /\ Result("refresh_token", "MIXER_ERROR_AUTH_INVALID_TOKEN", FALSE, FALSE)
         /\ UNCHANGED <<platform, now, serverVars, call, answer, response, token>>

\* interactive_auth_get_short_code after its request.
CodeReturns ==
    /\ call.at = "code"
    /\ \/ /\ Completes
          /\ Return(IF answer.status # 200 THEN "HTTP_STATUS" ELSE "MIXER_OK")
       \/ /\ answer' = NoAnswer
          /\ \E rc \in Errors :
                Return(IF rc = "ERROR" THEN "HTTP_ERROR"
                       ELSE IF response.status # 200 THEN "HTTP_STATUS"
                       ELSE "MIXER_ERROR_JSON_PARSE")
    /\ response' = NoResponse
    /\ UNCHANGED <<platform, now, serverVars, token>>

Advance(step, lost) == call' = [call EXCEPT !.at = step, !.lost = lost] /\ UNCHANGED result

\* One turn of the polling loop, and the switch on its status.
Judge(seen, lost) ==
    CASE seen.status = 204 -> UNCHANGED <<call, result>>
      [] seen.status = 200 /\ seen.body.parses -> Advance("exchange", lost)
      [] OTHER ->
           /\ call' = Idle
           /\ Result(call.fn, CASE seen.status = 200 -> "MIXER_ERROR_JSON_PARSE"
                                [] seen.status = 403 -> "MIXER_ERROR_AUTH_DENIED"
                                [] seen.status = 404 -> "MIXER_ERROR_TIMED_OUT"
                                [] OTHER -> "MIXER_ERROR", FALSE, lost)

PollReturns ==
    /\ call.at = "poll"
    /\ \/ Completes /\ Judge(Received, FALSE) /\ Keep(Received)
       \/ /\ answer' = NoAnswer
          /\ \/ "OK" \in Errors /\ Judge(response, TRUE)
             \/ Return("HTTP_ERROR")
          /\ Keep(response)
    /\ UNCHANGED <<platform, now, serverVars, token>>

\* Variant of Exchanged for VerdictsTrue: the status is not looked at.
ExchangedAny(seen, lost) == Advance("stamp", lost)

Exchanged(seen, lost) ==
    IF seen.status = 200 THEN Advance("stamp", lost) ELSE Return("MIXER_ERROR_AUTH")

\* The exchange of the code, or of the refresh token: what make_request returns
\* is ignored, and the response may be the one that was there before it.
ExchangeReturns ==
    /\ call.at \in {"exchange", "refresh"}
    /\ \/ Completes /\ Exchanged(Received, FALSE) /\ Keep(Received)
       \/ answer' = NoAnswer /\ Exchanged(response, TRUE) /\ Keep(response)
    /\ UNCHANGED <<platform, now, serverVars, token>>

\* Variant of Stamp for TypeOK: is_token_stale looks for another member.
StampElsewhere(data) == Object(With(data.members, "grantedAt", now))

\* stamp_token_response.
Stamp(data) == Object(With(data.members, "granted_at", now))

\* The rest of both functions: a buffer that is too small drops the token.
StampAndCopy ==
    /\ call.at = "stamp"
    /\ \/ ~response.body.parses /\ Return("MIXER_ERROR_JSON_PARSE") /\ UNCHANGED token
       \/ response.body.parses /\ Return("MIXER_OK") /\ token' = Stamp(response.body)
       \/ response.body.parses /\ Return("MIXER_ERROR_BUFFER_SIZE") /\ UNCHANGED token
    /\ response' = NoResponse
    /\ UNCHANGED <<platform, now, serverVars, answer>>

\* Variant of Stale for FreshTokenWorks: the whole life of a token.
StaleAtEnd(data) == now > data.members["granted_at"] + data.members["expires_in"]

Stale(data) == now > data.members["granted_at"] + data.members["expires_in"] \div 2

IsTokenStale ==
    /\ call = Idle /\ token # Empty
    /\ IF Has(token, "granted_at") /\ Has(token, "expires_in")
         THEN Result("is_token_stale", "MIXER_OK", ~Stale(token), FALSE)
         ELSE Result("is_token_stale", "MIXER_ERROR_AUTH_INVALID_TOKEN", FALSE, FALSE)
    /\ UNCHANGED <<platform, now, serverVars, call, answer, response, token>>

\* interactive_auth_parse_refresh_token.
Parse(data) ==
    IF ~data.parses THEN "MIXER_ERROR_JSON_PARSE"
    ELSE IF ~Has(data, "access_token") THEN "MIXER_ERROR_AUTH_INVALID_TOKEN"
    ELSE "MIXER_OK"

Next ==
    \/ Serve \/ Decide \/ Tick
    \/ GetShortCode \/ CodeReturns \/ WaitShortCode \/ PollReturns
    \/ RefreshToken \/ ExchangeReturns \/ StampAndCopy \/ IsTokenStale

Spec == Init /\ [][Next]_vars

-------------------------------------------------------------------------------
\* The types of the variables: the access token the caller keeps is one that the
\* service has issued (stamp_token_response and the calls around it).
TypeOK ==
    /\ platform \in {"desktop", "uwp"}
    /\ now \in 0..MaxTime
    /\ handle \in {"none", "waiting", "granted", "denied", "expired", "used"}
    /\ \A i \in 1..Len(issued) : issued[i] \in 0..now
    /\ call.at \in {"idle", "code", "poll", "exchange", "refresh", "stamp"}
    /\ IsBody(response.body) /\ IsBody(token)
    /\ Has(token, "access_token") => token.members["access_token"] \in 1..Len(issued)

\* What a function says is what happened, when no response was lost: wait_short_code
\* and refresh_token return MIXER_OK only with token data from which the header of
\* interactive_open_session can be parsed, and a denial or an expiry is one of the
\* service (the polling loop, the switch and the exchange).
VerdictsTrue ==
    result.fn \in {"wait_short_code", "refresh_token"} /\ ~result.lost =>
        CASE result.rc = "MIXER_OK" -> Parse(token) = "MIXER_OK"
          [] result.rc = "MIXER_ERROR_AUTH_DENIED" -> handle = "denied"
          [] result.rc = "MIXER_ERROR_TIMED_OUT" -> handle \in {"expired", "used"}
          [] OTHER -> TRUE

\* The same whatever is lost, as interactivity.h has it.
OkMeansToken ==
    result.fn = "wait_short_code" /\ result.rc = "MIXER_OK" => Parse(token) = "MIXER_OK"

\* A token that is_token_stale calls fresh is one that the service still takes,
\* although the grant is stamped with the time its answer arrived, not with the
\* time of its issue (stamp_token_response, interactive_auth_is_token_stale).
FreshTokenWorks ==
    result.fresh => result.at < issued[token.members["access_token"]] + Lifetime
===============================================================================
