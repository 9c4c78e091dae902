----------------------------- MODULE Failover -----------------------------
(***************************************************************************)
(* One client request on its way through accounts, models and endpoints:   *)
(* the account loop of the handlers (account_failover.go), the replay of a *)
(* truncated stream, the model fallback (model_fallback.go), the endpoint  *)
(* loop of callKiroAPISingleModel (kiro.go) and the classification of what *)
(* went wrong (upstream_error.go), which decides at every level whether to *)
(* go on and what the account has to pay for.                              *)
(*                                                                         *)
(* An answer of the upstream is its status and the marker found in its     *)
(* body.  Circuits, slots, cooldowns and delivery are modelled in          *)
(* UpstreamHealth, UpstreamProtection, EndpointRoutes and StreamDelivery;  *)
(* here an endpoint may be skipped and an account may be busy at any time, *)
(* and at any time the retry window ends (late), the time to select an     *)
(* account ends (tired) or the client leaves (gone).  sent, since, told    *)
(* and shownAt are history.  D_x is D with the defect x.                   *)
(***************************************************************************)
EXTENDS Integers, Sequences, FiniteSets, FiniteSetsExt

CONSTANTS
  FailoverAccounts, RequestModel, NoAccount,
  Journeys,        \* the settings and the answers that take part, see Journey
  EmptyLimit,      \* maxEmptyTotal
  MaxIntegrity     \* maxSameAccountStreamRetries

ASSUME FailoverAssumption ==
  /\ EmptyLimit \in Nat
  /\ \A j \in Journeys :
       /\ j.budget \in Nat /\ j.maxHops \in Nat
       /\ \A h \in j.http : h[1] \in Nat
       /\ \A s \in j.streams : s.emitted \subseteq BOOLEAN
       /\ j.events \subseteq {"late", "tired", "gone"}

VARIABLES journey, req
failoverVars == <<journey, req>>

\* limits: accounts (MaxAccountAttempts, 0 for unlimited), cap (unlimitedAttemptCap),
\* budget (MaxUpstreamAttempts), tries (PreOutputStreamRetries), endpoints.
\* traits: keys and proxied are the accounts with an API key and with a proxy of
\* their own, transparent tells whether history is passed on as it is.
Journey(limits, traits, answers, rules) ==
  [accounts |-> limits[1], cap |-> limits[2], budget |-> limits[3],
   preOutputRetries |-> limits[4], endpoints |-> limits[5],
   keys |-> traits.keys, proxied |-> traits.proxied, transparent |-> traits.transparent,
   http |-> answers.http, transport |-> answers.transport, streams |-> answers.streams,
   empty |-> answers.empty, events |-> answers.events, rules |-> rules,
   emptyRetries |-> 1, truncationRetries |-> 1, maxHops |-> 3]
-----------------------------------------------------------------------------
(* Errors.                                                                  *)

Failure(kind, accounts, endpoints) ==
  [kind |-> kind, accounts |-> accounts, endpoints |-> endpoints,
   refresh |-> FALSE, skipped |-> FALSE, status |-> 0]

\* An error that was not classified: worth another account, and known by its text only.
PlainError(cause) == Failure(cause, TRUE, TRUE)
Fine == Failure("none", FALSE, FALSE)

HttpFailure(code, mark) ==
  LET client == Failure("client_request", FALSE, FALSE)
  IN  CASE mark \in {"tool_use_result_mismatch", "tool_schema_invalid"} -> client
        [] mark = "suspended" -> Failure("suspended", TRUE, FALSE)
        [] mark = "invalid_grant" -> Failure("auth_revoked", TRUE, FALSE)
        [] code = 401 \/ mark = "expired" ->
             [Failure("token_expired", TRUE, FALSE) EXCEPT !.refresh = TRUE]
        [] code = 403 -> Failure("forbidden", TRUE, TRUE)
        [] code = 402 \/ mark = "quota" -> Failure("quota", TRUE, TRUE)
        [] code \in {408, 504} -> Failure("first_token_timeout", TRUE, FALSE)
        [] code = 429 \/ mark = "rate limit" -> Failure("rate_limit", TRUE, TRUE)
        [] mark = "invalid_model_id" -> Failure("model_unavailable", TRUE, TRUE)
        [] mark = "too long" \/ code = 422 -> client
        [] code \in {404, 405, 410, 501} -> Failure("endpoint_unavailable", TRUE, TRUE)
        [] code \in 400 .. 499 -> client
        [] OTHER -> Failure("transient", TRUE, TRUE)
classifyUpstreamHTTPError(code, mark) == [HttpFailure(code, mark) EXCEPT !.status = code]

classifyTransportError(cause) ==
  CASE cause = "bind" -> Failure("local_configuration", FALSE, FALSE)
    [] cause = "timeout" -> Failure("first_token_timeout", TRUE, TRUE)
    [] OTHER -> Failure("transient", TRUE, TRUE)

classifyRequestCancellation == Failure("canceled", FALSE, FALSE)

newEndpointCircuitOpenError ==
  [Failure("endpoint_unavailable", FALSE, TRUE) EXCEPT !.skipped = TRUE, !.status = 503]

profileArnMissing == [Failure("endpoint_unavailable", TRUE, TRUE) EXCEPT !.skipped = TRUE]

newRetryBudgetError == Failure("retry_budget", FALSE, FALSE)
newEmptyResponseLimitError == Failure("empty_limit", FALSE, FALSE)
newEmptyResponseError == Failure("empty_response", TRUE, TRUE)

classifyRefreshFailure(cause) ==
  CASE cause = "bind" -> Failure("local_configuration", FALSE, FALSE)
    [] cause = "blocked" -> Failure("endpoint_unavailable", TRUE, FALSE)
    [] cause = "rejected" -> Failure("auth_revoked", TRUE, FALSE)
    [] OTHER -> Failure("transient", TRUE, FALSE)

\* A stream that ended badly.  A tool call cut off or stalled is worth another
\* attempt only a few times per request, and never after output.
streamFailure(cause, emitted) ==
  LET again == ~emitted /\ req.repairs < journey.truncationRetries
  IN  CASE cause = "tool stalled" -> Failure("tool_assembly_timeout", again, again)
        [] cause = "tool cut" -> Failure("tool_output_truncated", again, again)
        [] cause = "not actionable" -> Failure("actionable_output_timeout", TRUE, TRUE)
        [] cause = "idle" -> Failure("stream_idle_timeout", TRUE, TRUE)
        [] cause = "no first token" -> classifyTransportError("timeout")
        [] cause = "required tool missing" -> Failure("empty_response", ~emitted, ~emitted)
        [] cause = "incomplete" -> IF emitted THEN Failure("stream_truncated", TRUE, TRUE)
                                   ELSE newEmptyResponseError
        [] cause = "cut after thinking" -> Failure("stream_truncated", TRUE, TRUE)
        [] OTHER -> classifyTransportError(cause)

isRetryablePreOutputStreamError(e, emitted) ==
  ~emitted /\ e.kind \in {"transient", "stream_truncated", "empty_response"} /\ e.endpoints

mapDownstreamError(e) ==
  CASE e.kind = "selection_timeout" -> 504
    [] e.kind = "busy" -> 429
    [] e.kind = "client_request" -> IF e.status \in {413, 422} THEN e.status ELSE 400
    [] e.kind \in {"forbidden", "suspended"} -> 403
    [] e.kind \in {"quota", "rate_limit"} -> 429
    [] e.kind \in {"token_expired", "auth_revoked", "model_unavailable", "retry_budget",
                   "empty_limit", "local_configuration"} -> 503
    [] e.kind \in {"first_token_timeout", "stream_idle_timeout", "actionable_output_timeout",
                   "tool_assembly_timeout"} -> 504
    [] e.kind = "canceled" -> 499
    [] e.kind \in {"endpoint_unavailable", "transient"} /\ e.status = 503 -> 503
    [] OTHER -> 502
-----------------------------------------------------------------------------
(* The request.                                                             *)

NewRequest ==
  [at |-> "select", status |-> 0, event |-> "none",
   attempts |-> 0, excluded |-> {}, lastFailure |-> Fine, penalties |-> {},
   account |-> NoAccount, model |-> RequestModel, used |-> {}, hop |-> 0, integrity |-> 0,
   endpoint |-> 1, tryNo |-> 0, lastErr |-> Fine, lastAttempt |-> Fine, err |-> Fine,
   budget |-> 0, empties |-> 0, refreshed |-> {}, repairs |-> 0, shown |-> FALSE,
   probed |-> {}, region |-> "configured", sanitized |-> FALSE,
   sent |-> 0, since |-> 0, told |-> {}, shownAt |-> 0]

FailoverInit == journey \in Journeys /\ req = NewRequest

Move(from, r) == req.at = from /\ req' = r /\ UNCHANGED journey

\* Deadlines and the client: one such event in a request.
Disturbed(event) ==
  /\ req.at # "done" /\ req.event = "none" /\ (event = "tired" => req.at = "select")
  /\ req' = [req EXCEPT !.event = event] /\ UNCHANGED journey

stopErr == req.event \in {"tired", "gone"}
-----------------------------------------------------------------------------
(* The endpoint loop of callKiroAPISingleModel.                             *)

\* The loop starts: at the first endpoint, knowing of no failure.
BeginCall(r) ==
  [r EXCEPT !.at = "route", !.endpoint = 1, !.tryNo = 0, !.lastErr = Fine, !.lastAttempt = Fine,
            !.err = Fine, !.since = r.sent]

\* A region that was only tried is kept when the call succeeds in it.
Return(r, e) ==
  [r EXCEPT !.at = "returned", !.err = e,
            !.region = CASE @ # "candidate" -> @ [] e = Fine -> "confirmed" [] OTHER -> "configured"]

\* After the last endpoint the last real failure counts, not a skipped endpoint.
Exhausted_last(r) == r.lastErr
Exhausted(r) == IF r.lastAttempt # Fine THEN r.lastAttempt ELSE r.lastErr

NextEndpoint(r) ==
  IF r.endpoint < journey.endpoints THEN [r EXCEPT !.endpoint = @ + 1, !.tryNo = 0, !.at = "route"]
  ELSE Return(r, Exhausted(r))

\* All endpoints of the account cool down, or its proxy's circuit is open.
NoRouteForCall ==
  /\ req.endpoint = 1 /\ req.tryNo = 0 /\ req.lastErr = Fine
  /\ \E kind \in {"rate_limit", "endpoint_unavailable"} :
       Move("route", Return([req EXCEPT !.told = @ \cup {<<req.account, kind>>}],
                            Failure(kind, TRUE, FALSE)))

\* The circuit of the endpoint is open, or it needs a profile that is unknown.
SkipEndpoint ==
  \E e \in {newEndpointCircuitOpenError, profileArnMissing} :
    /\ req.event # "gone" /\ (e = profileArnMissing => req.tryNo = 0)
    /\ Move("route", NextEndpoint([req EXCEPT !.lastErr = e]))

take == journey.budget = 0 \/ req.budget < journey.budget

Dispatch ==
  Move("route",
       CASE req.event = "gone" -> Return(req, classifyRequestCancellation)
         [] req.event = "late" \/ ~take -> Return(req, newRetryBudgetError)
         [] OTHER -> [req EXCEPT !.at = "sent", !.budget = @ + 1, !.sent = @ + 1])

Tell(r, e) == [r EXCEPT !.told = @ \cup {<<r.account, e.kind>>},
                        !.lastErr = e, !.lastAttempt = e]

\* The retry window has ended meanwhile.
OrExpired(r, e, r2) == IF req.event = "late" THEN Return(r, newRetryBudgetError) ELSE r2

TransportFails(cause) ==
  LET e == classifyTransportError(cause)
      r == Tell(req, e)
  IN  Move("sent",
           CASE req.event = "gone" -> Return(req, classifyRequestCancellation)
             [] e.kind = "local_configuration" -> Return(req, e)
             [] OTHER -> OrExpired(r, e, NextEndpoint(r)))

\* An API key may belong to another region: once per request and account the
\* regions are probed, and the call starts over in the one that accepts the key.
retryAfterAPIKeyRegionRecovery(e) ==
  /\ req.account \in journey.keys \ req.probed
  /\ e.kind \in {"token_expired", "auth_revoked", "forbidden"}

\* A refused token is refreshed once per request and account.
takeTokenRefreshAttempt(e) ==
  e.refresh /\ req.account \notin req.refreshed \cup journey.keys

\* A history that was passed on as it is and refused is sanitised once.
shouldFallbackTransparentHistory(e, mark) ==
  /\ journey.transparent /\ ~req.sanitized
  /\ e.kind = "client_request" /\ e.status = 400 /\ mark = "tool_use_result_mismatch"

HttpError(code, mark) ==
  LET e == classifyUpstreamHTTPError(code, mark)
      probing == retryAfterAPIKeyRegionRecovery(e)
      r == IF probing THEN [Tell(req, e) EXCEPT !.probed = @ \cup {req.account}] ELSE Tell(req, e)
      refreshing == [r EXCEPT !.refreshed = @ \cup {r.account}]
  IN  \/ probing /\ Move("sent", BeginCall([r EXCEPT !.region = "candidate"]))
      \/ /\ takeTokenRefreshAttempt(e)
         /\ \/ Move("sent", BeginCall(refreshing))
            \/ \E cause \in {"rejected", "blocked", "transport"} :
                 LET f == classifyRefreshFailure(cause)
                 IN  Move("sent", Return(Tell(refreshing, f), f))
      \/ /\ ~takeTokenRefreshAttempt(e)
         /\ Move("sent", CASE shouldFallbackTransparentHistory(e, mark) ->
                                BeginCall([r EXCEPT !.sanitized = TRUE])
                           [] e.endpoints -> NextEndpoint(r)
                           [] OTHER -> Return(r, e))

\* The stream fails, before or after the client has seen output.
Repaired(r, cause) == IF cause \in {"tool stalled", "tool cut"} THEN [r EXCEPT !.repairs = @ + 1] ELSE r

TryAgain_always(e, cause, emitted) == e.endpoints
TryAgain(e, cause, emitted) == ~emitted /\ e.endpoints

\* From the first output on it is the client's.
fallbackOutputTracker(r) == IF r.shown THEN r ELSE [r EXCEPT !.shown = TRUE, !.shownAt = r.sent]

StreamBreaks(cause, emitted) ==
  LET e == streamFailure(cause, emitted)
      said == Tell(Repaired(req, cause), e)
      r == IF emitted THEN fallbackOutputTracker(said) ELSE said
  IN  Move("sent",
           CASE req.event = "gone" -> Return(r, classifyRequestCancellation)
             [] req.event = "late" -> Return(r, newRetryBudgetError)
             [] ~TryAgain(e, cause, emitted) -> Return(r, e)
             [] /\ cause # "tool stalled" /\ req.tryNo < journey.preOutputRetries
                /\ isRetryablePreOutputStreamError(e, emitted) -> [r EXCEPT !.at = "route", !.tryNo = @ + 1]
             [] OTHER -> NextEndpoint(r))

\* recordEmpty: whether to try the same endpoint again, and when to give up.
EmptyAnswer ==
  LET r == Tell([req EXCEPT !.empties = Min({@ + 1, EmptyLimit})], newEmptyResponseError)
  IN  Move("sent",
           CASE r.empties >= EmptyLimit -> Return(r, newEmptyResponseLimitError)
             [] r.empties <= journey.emptyRetries /\ req.tryNo < journey.preOutputRetries ->
                  [r EXCEPT !.at = "route", !.tryNo = @ + 1]
             [] OTHER -> NextEndpoint(r))

CallSucceeds == Move("sent", Return(fallbackOutputTracker(req), Fine))
-----------------------------------------------------------------------------
(* The model fallback around the call.                                      *)

fallbackTriggerForError(kind) ==
  CASE kind \in {"model_unavailable", "empty_response", "empty_limit"} -> "unavailable"
    [] kind \in {"retry_budget", "rate_limit", "quota", "endpoint_unavailable", "transient",
                 "first_token_timeout", "stream_idle_timeout", "actionable_output_timeout",
                 "tool_assembly_timeout", "tool_output_truncated", "stream_truncated"} -> "error"
    [] OTHER -> "none"

\* The rules by falling priority; a rule is used once in a call.
Applicable_reused(i) ==
  LET rule == journey.rules[i]
  IN  /\ rule.source = req.model /\ rule.target # req.model
      /\ rule.trigger = fallbackTriggerForError(req.err.kind)
Applicable(i) ==
  LET rule == journey.rules[i]
  IN  /\ i \notin req.used /\ rule.source = req.model /\ rule.target # req.model
      /\ rule.trigger = fallbackTriggerForError(req.err.kind)

modelFallbackMayRetry_late == fallbackTriggerForError(req.err.kind) # "none"
modelFallbackMayRetry == ~req.shown /\ fallbackTriggerForError(req.err.kind) # "none"

resolveModelFallback ==
  IF modelFallbackMayRetry /\ req.hop < journey.maxHops
  THEN {i \in DOMAIN journey.rules : Applicable(i) /\ \A j \in 1 .. i - 1 : ~Applicable(j)} ELSE {}

FallBack ==
  \E i \in resolveModelFallback :
    Move("returned", BeginCall([req EXCEPT !.model = journey.rules[i].target,
                                           !.used = @ \cup {i}, !.hop = @ + 1]))

CallKiroAPI(r) == BeginCall([r EXCEPT !.model = RequestModel, !.used = {}, !.hop = 0])

\* The call returns to the handler with the model of the request restored.
CallReturns ==
  /\ resolveModelFallback = {}
  /\ Move("returned", [req EXCEPT !.at = "judged", !.model = RequestModel])
-----------------------------------------------------------------------------
(* The account loop of the handlers.                                        *)

\* What the account pays for the failure: nothing for the client's mistakes
\* and shared trouble, a cooldown, or a ban.
PlainPenalty(kind) ==
  CASE kind = "plain: rejected" -> "banned"
    [] kind = "plain: limited" -> "quota"
    [] kind \in {"plain: transport", "plain: canceled"} -> "cooldown"
    [] OTHER -> "nothing"
Penalty_bansForbidden(kind) ==
  CASE kind \in {"suspended", "auth_revoked", "forbidden"} -> "banned"
    [] kind = "quota" -> "quota"
    [] kind = "rate_limit" -> "model cooldown"
    [] kind = "model_unavailable" -> "model excluded"
    [] kind = "token_expired" -> "cooldown"
    [] OTHER -> PlainPenalty(kind)
Penalty(kind) ==
  CASE kind \in {"suspended", "auth_revoked"} -> "banned"
    [] kind = "quota" -> "quota"
    [] kind = "rate_limit" -> "model cooldown"
    [] kind = "model_unavailable" -> "model excluded"
    [] kind \in {"token_expired", "forbidden"} -> "cooldown"
    [] OTHER -> PlainPenalty(kind)

\* A transport failure is the account's own only behind a proxy of its own.
handleAccountFailureForModel(r, e) ==
  LET p == IF e.kind = "transient" /\ r.account \in journey.proxied THEN "cooldown" ELSE Penalty(e.kind)
  IN  IF p = "nothing" THEN r ELSE [r EXCEPT !.penalties = @ \cup {<<r.account, p>>}]

Banned == {a \in FailoverAccounts : <<a, "banned">> \in req.penalties}

Finish(r, code) == [r EXCEPT !.at = "done", !.status = code]

\* The end of the loop: an expired selection speaks before the last failure.
GiveUp(r, busy) ==
  Finish(r, CASE req.event = "gone" -> 499
              [] req.event = "tired" -> 504
              [] r.lastFailure # Fine -> mapDownstreamError(r.lastFailure)
              [] busy -> 429
              [] OTHER -> 503)

MayTry == IF journey.accounts > 0 THEN req.attempts < journey.accounts ELSE req.attempts < journey.cap

\* acquireNextAccountForRequest: out of attempts, or one more.
NoAttemptLeft ==
  /\ stopErr \/ ~MayTry
  /\ Move("select",
          IF journey.accounts = 0 /\ ~stopErr THEN Finish(req, 504) ELSE GiveUp(req, FALSE))

\* The account's token is made valid first; whatever goes wrong with that is one
\* reason to try the next account.  A client that leaves in between is noticed by
\* the refresh, or by runKiroWithIntegrityRetry before it calls.
Acquire(a) ==
  LET r == [req EXCEPT !.attempts = @ + 1, !.account = a, !.integrity = 0]
      failed(cause) == handleAccountFailureForModel(
        [r EXCEPT !.excluded = @ \cup {a}, !.lastFailure = PlainError(cause),
                  !.told = @ \cup {<<a, cause>>}], PlainError(cause))
  IN  /\ ~stopErr /\ MayTry /\ a \notin req.excluded \cup Banned
      /\ \/ Move("select", CallKiroAPI(r))
         \/ /\ a \notin journey.keys
            /\ \E cause \in {"plain: rejected", "plain: limited", "plain: transport"} :
                 Move("select", failed(cause))
         \/ /\ req.event = "none" /\ "gone" \in journey.events
            /\ Move("select", [failed("plain: canceled") EXCEPT !.event = "gone"])

nextRound(r) == [r EXCEPT !.excluded = {}]

\* No account, or all busy: with unlimited attempts wait and start a new round,
\* unless too many requests wait already.
NoneFree(busy) ==
  LET r == [req EXCEPT !.attempts = @ + 1]
  IN  /\ ~stopErr /\ MayTry
      /\ \/ journey.accounts = 0 /\ Move("select", nextRound(r))
         \/ (journey.accounts = 0 => busy) /\ Move("select", GiveUp(r, busy))

\* runKiroWithIntegrityRetry, then the handler's judgement of the account.
Replays ==
  /\ req.err.kind = "stream_truncated" /\ ~req.shown /\ req.integrity < MaxIntegrity
  /\ take /\ req.event \notin {"late", "gone"}

\* A truncated stream is nobody's fault, unless the client has left meanwhile:
\* then the plain error of its context is judged.
Judge ==
  LET e == IF req.err.kind = "stream_truncated" /\ req.event = "gone"
           THEN PlainError("plain: canceled") ELSE req.err
      failed == [req EXCEPT !.lastFailure = e, !.excluded = @ \cup {req.account},
                            !.told = IF e = req.err THEN @ ELSE @ \cup {<<req.account, e.kind>>}]
      r == IF e.kind = "stream_truncated" THEN failed ELSE handleAccountFailureForModel(failed, e)
  IN  Move("judged",
           CASE e = Fine -> Finish(req, 200)
             [] Replays -> CallKiroAPI([req EXCEPT !.integrity = @ + 1])
             [] req.shown -> Finish(r, mapDownstreamError(e))
             [] ~e.accounts -> GiveUp(r, FALSE)
             [] OTHER -> [r EXCEPT !.at = "select"])

\* The next request starts from nothing.
NextRequest == Move("done", NewRequest)

FailoverNext ==
  \/ \E event \in journey.events : Disturbed(event)
  \/ NoRouteForCall \/ SkipEndpoint \/ Dispatch
  \/ \E cause \in journey.transport : TransportFails(cause)
  \/ \E h \in journey.http : HttpError(h[1], h[2])
  \/ \E s \in journey.streams : \E emitted \in s.emitted : StreamBreaks(s.cause, emitted)
  \/ journey.empty /\ EmptyAnswer
  \/ CallSucceeds
  \/ FallBack \/ CallReturns
  \/ NoAttemptLeft \/ \E a \in FailoverAccounts : Acquire(a)
  \/ \E busy \in BOOLEAN : NoneFree(busy)
  \/ Judge \/ NextRequest

FailoverSpec == FailoverInit /\ [][FailoverNext]_failoverVars
-----------------------------------------------------------------------------
(* Whatever the levels of retries add up to, the budgets of the request hold. *)
BudgetKept ==
  /\ journey.budget > 0 => req.sent <= journey.budget
  /\ req.empties <= EmptyLimit
  /\ req.hop <= journey.maxHops /\ Cardinality(req.used) = req.hop

\* Nothing is sent again once the client has seen output, and outside a call the
\* request is for the model the client asked for.
NoReplay ==
  /\ req.shown => req.sent = req.shownAt
  /\ req.at \in {"select", "judged", "done"} => req.model = RequestModel

\* A ban needs word of a suspension or of revoked credentials from this very
\* account, a cooldown or an exclusion word of such a failure; after the ban the
\* account is not tried again.
Grounds(p) ==
  CASE p = "banned" -> {"suspended", "auth_revoked", "plain: rejected"}
    [] p = "quota" -> {"quota", "plain: limited"}
    [] p = "model cooldown" -> {"rate_limit"}
    [] p = "model excluded" -> {"model_unavailable"}
    [] OTHER -> {"token_expired", "forbidden", "transient", "plain: transport", "plain: canceled"}
PenaltiesExplained ==
  \A p \in req.penalties : \E kind \in Grounds(p[2]) : <<p[1], kind>> \in req.told

\* A call that has reached an endpoint reports what it heard there, never the
\* endpoint it skipped; a region only tried is confirmed or taken back; the client
\* never sees the 401 of an account.
TruthReported ==
  /\ req.at \in {"returned", "judged"} /\ req.err.skipped => req.sent = req.since
  /\ req.at \in {"select", "judged", "done"} => req.region # "candidate"
  /\ req.region = "confirmed" => req.shown
  /\ req.at = "done" => req.status \notin {0, 401}

\* The way of a request over endpoints, models and accounts keeps its budgets,
\* never repeats shown output, blames an account only for what was heard of it and
\* reports the real failure (kiro.go, model_fallback.go, account_failover.go).
FailoverSafe == BudgetKept /\ NoReplay /\ PenaltiesExplained /\ TruthReported
=============================================================================
