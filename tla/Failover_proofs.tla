---------------------------- MODULE Failover_proofs ----------------------------
(***************************************************************************)
(* Proofs about Failover, for any accounts, settings, answers and rules:   *)
(* the levels of retries keep the budgets of the request, never repeat     *)
(* shown output and blame an account only for what was heard of it.  And   *)
(* about StreamGate, which decides what counts as shown, for any requests  *)
(* and any number of events: it hands on everything, in order, and lets a  *)
(* call be made again only when nothing was shown.                         *)
(***************************************************************************)
EXTENDS Failover, StreamGate, DataLemmas

-----------------------------------------------------------------------------
(* A request, field by field. *)
Payers == FailoverAccounts \cup {NoAccount}
Models == {RequestModel} \cup UNION {{j.rules[i].target : i \in DOMAIN j.rules} : j \in Journeys}
RuleNumbers == UNION {DOMAIN j.rules : j \in Journeys}
Places == {"select", "route", "sent", "returned", "judged", "done"}

Kinds ==
  {"none", "client_request", "suspended", "auth_revoked", "token_expired", "forbidden", "quota",
   "first_token_timeout", "rate_limit", "model_unavailable", "endpoint_unavailable", "transient",
   "local_configuration", "canceled", "retry_budget", "empty_limit", "empty_response",
   "tool_assembly_timeout", "tool_output_truncated", "actionable_output_timeout",
   "stream_idle_timeout", "stream_truncated",
   "plain: rejected", "plain: limited", "plain: transport", "plain: canceled"}
Fines == {"banned", "quota", "model cooldown", "model excluded", "cooldown"}

Errors == [kind : Kinds, accounts : BOOLEAN, endpoints : BOOLEAN,
           refresh : BOOLEAN, skipped : BOOLEAN, status : Nat]

Requests ==
  [at : Places, status : Nat, event : {"none", "late", "tired", "gone"},
   attempts : Nat, excluded : SUBSET Payers, lastFailure : Errors,
   penalties : SUBSET (Payers \X Fines),
   account : Payers, model : Models, used : SUBSET RuleNumbers, hop : Nat, integrity : Nat,
   endpoint : Nat, tryNo : Nat, lastErr : Errors, lastAttempt : Errors, err : Errors,
   budget : Nat, empties : Nat, refreshed : SUBSET Payers, repairs : Nat, shown : BOOLEAN,
   probed : SUBSET Payers, region : {"configured", "candidate", "confirmed"}, sanitized : BOOLEAN,
   sent : Nat, since : Nat, told : SUBSET (Payers \X Kinds), shownAt : Nat]

(* What holds of a request wherever it is. *)
Budgets(j, r) ==
  /\ r.budget = r.sent /\ (j.budget > 0 => r.sent <= j.budget)
  /\ r.empties <= EmptyLimit
  /\ IsFiniteSet(r.used) /\ Cardinality(r.used) = r.hop /\ r.hop <= j.maxHops

Explained(r) == \A p \in r.penalties : \E cause \in Grounds(p[2]) : <<p[1], cause>> \in r.told

Kept(j, r) ==
  /\ r \in Requests /\ Budgets(j, r) /\ Explained(r)
  /\ r.shown => r.sent = r.shownAt
  /\ r.region = "confirmed" => r.shown

(* An error costs the account nothing, or is what it was heard to say. *)
Blameless(cause) == cause # "transient" /\ Penalty(cause) = "nothing"
Heard(r, e) == Blameless(e.kind) \/ <<r.account, e.kind>> \in r.told

(* A call under way has shown nothing and knows what it was told; without an *)
(* attempt it has sent nothing.                                              *)
Calling(r) ==
  /\ ~r.shown
  /\ Heard(r, r.lastErr) /\ Heard(r, r.lastAttempt) /\ ~r.lastAttempt.skipped
Idle(r) == r.lastAttempt = Fine => r.sent = r.since
Reported(r, e) == Heard(r, e) /\ (e.skipped => r.sent = r.since)

Placed(r) ==
  /\ r.at = "select" => ~r.shown
  /\ r.at \in {"select", "judged", "done"} => r.model = RequestModel
  /\ r.at \in {"select", "returned", "judged", "done"} => r.region # "candidate"
  /\ r.at \in {"route", "sent"} => Calling(r)
  /\ r.at = "route" => Idle(r)
  /\ r.at \in {"returned", "judged"} => Reported(r, r.err)
  /\ r.at = "done" => r.status \notin {0, 401}

RequestInv == journey \in Journeys /\ Kept(journey, req) /\ Placed(req)

-----------------------------------------------------------------------------
(* The errors. *)
LEMMA ErrorFieldSet ==
  \A e \in Errors :
    /\ \A x \in BOOLEAN : [e EXCEPT !.refresh = x] \in Errors /\ [e EXCEPT !.skipped = x] \in Errors
    /\ \A x \in Nat : [e EXCEPT !.status = x] \in Errors
<1> TAKE e \in Errors
<1>1. \A x \in BOOLEAN : [e EXCEPT !.refresh = x] \in Errors
  BY DEF Errors
<1>2. \A x \in BOOLEAN : [e EXCEPT !.skipped = x] \in Errors
  BY DEF Errors
<1>3. \A x \in Nat : [e EXCEPT !.status = x] \in Errors
  BY DEF Errors
<1> QED
  BY <1>1, <1>2, <1>3

Real(e) == e \in Errors /\ e.kind # "none" /\ ~e.skipped

LEMMA FailureReal ==
  ASSUME NEW cause \in Kinds, NEW a \in BOOLEAN, NEW b \in BOOLEAN
  PROVE  /\ Failure(cause, a, b) \in Errors /\ ~Failure(cause, a, b).skipped
         /\ Failure(cause, a, b).kind = cause
BY DEF Failure, Errors

LEMMA FineError == Fine \in Errors /\ ~Fine.skipped /\ Fine.kind = "none" /\ Blameless("none")
<1>1. Fine \in Errors /\ ~Fine.skipped /\ Fine.kind = "none"
  BY DEF Fine, Failure, Errors, Kinds
<1>2. Blameless("none")
  BY DEF Blameless, Penalty, PlainPenalty
<1> QED
  BY <1>1, <1>2

LEMMA HttpReal ==
  ASSUME NEW code \in Nat, NEW mark
  PROVE  Real(classifyUpstreamHTTPError(code, mark))
<1> DEFINE expired == [Failure("token_expired", TRUE, FALSE) EXCEPT !.refresh = TRUE]
<1>1. Real(expired)
  BY DEF Failure, Errors, Kinds, Real
<1>2. \A cause \in Kinds \ {"none"}, a \in BOOLEAN, b \in BOOLEAN : Real(Failure(cause, a, b))
  BY DEF Failure, Errors, Real
<1>3. Real(HttpFailure(code, mark))
  <2> HIDE DEF expired
  <2>1. /\ TRUE \in BOOLEAN /\ FALSE \in BOOLEAN
        /\ {"client_request", "suspended", "auth_revoked", "forbidden", "quota",
            "first_token_timeout", "rate_limit", "model_unavailable", "endpoint_unavailable",
            "transient"} \subseteq Kinds \ {"none"}
    BY DEF Kinds
  <2>2. /\ Real(Failure("client_request", FALSE, FALSE)) /\ Real(Failure("suspended", TRUE, FALSE))
        /\ Real(Failure("auth_revoked", TRUE, FALSE)) /\ Real(Failure("forbidden", TRUE, TRUE))
        /\ Real(Failure("quota", TRUE, TRUE)) /\ Real(Failure("first_token_timeout", TRUE, FALSE))
        /\ Real(Failure("rate_limit", TRUE, TRUE)) /\ Real(Failure("model_unavailable", TRUE, TRUE))
        /\ Real(Failure("endpoint_unavailable", TRUE, TRUE)) /\ Real(Failure("transient", TRUE, TRUE))
    BY <1>2, <2>1
  <2> QED
    BY <1>1, <2>2, ZenonT(30) DEF HttpFailure, expired
<1>4. \A e \in Errors : /\ [e EXCEPT !.status = code] \in Errors
                        /\ [e EXCEPT !.status = code].kind = e.kind
                        /\ [e EXCEPT !.status = code].skipped = e.skipped
  BY ErrorFieldSet DEF Errors
<1> QED
  BY <1>3, <1>4 DEF Real, classifyUpstreamHTTPError

LEMMA TransportReal ==
  ASSUME NEW cause
  PROVE  Real(classifyTransportError(cause))
BY DEF classifyTransportError, Failure, Errors, Real, Kinds

LEMMA RefreshReal ==
  ASSUME NEW cause
  PROVE  Real(classifyRefreshFailure(cause))
BY DEF classifyRefreshFailure, Failure, Errors, Real, Kinds

LEMMA StreamReal ==
  ASSUME NEW cause, NEW emitted \in BOOLEAN
  PROVE  Real(streamFailure(cause, emitted))
BY DEF streamFailure, classifyTransportError, newEmptyResponseError, Failure, Errors, Real, Kinds

(* The errors nobody pays for. *)
LEMMA SharedErrors ==
  /\ \A e \in {classifyRequestCancellation, newRetryBudgetError, newEmptyResponseLimitError} :
       Real(e) /\ Blameless(e.kind)
  /\ \A e \in {newEndpointCircuitOpenError, profileArnMissing} :
       e \in Errors /\ e # Fine /\ Blameless(e.kind)
  /\ Real(newEmptyResponseError)
  /\ Blameless("local_configuration")
<1>1. \A cause \in {"canceled", "retry_budget", "empty_limit", "endpoint_unavailable",
                   "local_configuration"} : Blameless(cause)
  BY DEF Blameless, Penalty, PlainPenalty
<1>2. /\ Real(classifyRequestCancellation) /\ classifyRequestCancellation.kind = "canceled"
      /\ Real(newRetryBudgetError) /\ newRetryBudgetError.kind = "retry_budget"
      /\ Real(newEmptyResponseLimitError) /\ newEmptyResponseLimitError.kind = "empty_limit"
      /\ Real(newEmptyResponseError)
  BY DEF classifyRequestCancellation, newRetryBudgetError, newEmptyResponseLimitError,
         newEmptyResponseError, Failure, Errors, Real, Kinds
<1>3. \A e \in {newEndpointCircuitOpenError, profileArnMissing} :
        e \in Errors /\ e.kind = "endpoint_unavailable"
  <2>1. \A x \in BOOLEAN : LET f == Failure("endpoint_unavailable", x, TRUE)
                           IN f \in Errors /\ f.kind = "endpoint_unavailable"
    BY DEF Failure, Errors, Kinds
  <2>2. newEndpointCircuitOpenError \in Errors /\ profileArnMissing \in Errors
    <3> DEFINE open == Failure("endpoint_unavailable", FALSE, TRUE)
               missing == Failure("endpoint_unavailable", TRUE, TRUE)
    <3>1. open \in Errors /\ missing \in Errors
      BY <2>1
    <3> HIDE DEF open, missing
    <3>2. [open EXCEPT !.skipped = TRUE] \in Errors /\ [missing EXCEPT !.skipped = TRUE] \in Errors
      BY <3>1, ErrorFieldSet
    <3>3. \A e \in Errors : [e EXCEPT !.status = 503] \in Errors
      BY ErrorFieldSet
    <3>4. [open EXCEPT !.skipped = TRUE, !.status = 503] \in Errors
      BY <3>2, <3>3, Zenon
    <3> QED
      BY <3>2, <3>4, Zenon DEF newEndpointCircuitOpenError, profileArnMissing, open, missing
  <2>3. newEndpointCircuitOpenError.kind = "endpoint_unavailable" /\ profileArnMissing.kind = "endpoint_unavailable"
    BY DEF newEndpointCircuitOpenError, profileArnMissing, Failure
  <2> QED
    BY <2>2, <2>3
<1>4. \A e \in {newEndpointCircuitOpenError, profileArnMissing} : e # Fine
  BY <1>3, FineError
<1> QED
  BY <1>1, <1>2, <1>3, <1>4

LEMMA PenaltyGrounds ==
  ASSUME NEW cause \in Kinds
  PROVE  /\ Penalty(cause) \in Fines \cup {"nothing"}
         /\ Penalty(cause) # "nothing" => cause \in Grounds(Penalty(cause))
         /\ "transient" \in Grounds("cooldown")
BY DEF Penalty, PlainPenalty, Grounds, Kinds, Fines

LEMMA StatusShown ==
  ASSUME NEW e \in Errors
  PROVE  mapDownstreamError(e) \in Nat \ {0, 401}
BY DEF mapDownstreamError, Errors

-----------------------------------------------------------------------------
(* A field set to a value of its type leaves a request a request. *)
LEMMA FieldSet ==
  \A r \in Requests :
    /\ \A x \in Places : [r EXCEPT !.at = x] \in Requests
    /\ \A x \in {"none", "late", "tired", "gone"} : [r EXCEPT !.event = x] \in Requests
    /\ \A x \in Nat : /\ [r EXCEPT !.status = x] \in Requests
                      /\ [r EXCEPT !.attempts = x] \in Requests
                      /\ [r EXCEPT !.hop = x] \in Requests
                      /\ [r EXCEPT !.integrity = x] \in Requests
                      /\ [r EXCEPT !.endpoint = x] \in Requests
                      /\ [r EXCEPT !.tryNo = x] \in Requests
                      /\ [r EXCEPT !.budget = x] \in Requests
                      /\ [r EXCEPT !.empties = x] \in Requests
                      /\ [r EXCEPT !.repairs = x] \in Requests
                      /\ [r EXCEPT !.sent = x] \in Requests
                      /\ [r EXCEPT !.since = x] \in Requests
                      /\ [r EXCEPT !.shownAt = x] \in Requests
    /\ \A x \in SUBSET Payers : /\ [r EXCEPT !.excluded = x] \in Requests
                                /\ [r EXCEPT !.refreshed = x] \in Requests
                                /\ [r EXCEPT !.probed = x] \in Requests
    /\ \A x \in Errors : /\ [r EXCEPT !.lastFailure = x] \in Requests
                         /\ [r EXCEPT !.lastErr = x] \in Requests
                         /\ [r EXCEPT !.lastAttempt = x] \in Requests
                         /\ [r EXCEPT !.err = x] \in Requests
    /\ \A x \in SUBSET (Payers \X Fines) : [r EXCEPT !.penalties = x] \in Requests
    /\ \A x \in SUBSET (Payers \X Kinds) : [r EXCEPT !.told = x] \in Requests
    /\ \A x \in Payers : [r EXCEPT !.account = x] \in Requests
    /\ \A x \in Models : [r EXCEPT !.model = x] \in Requests
    /\ \A x \in SUBSET RuleNumbers : [r EXCEPT !.used = x] \in Requests
    /\ \A x \in BOOLEAN : /\ [r EXCEPT !.shown = x] \in Requests
                          /\ [r EXCEPT !.sanitized = x] \in Requests
    /\ \A x \in {"configured", "candidate", "confirmed"} : [r EXCEPT !.region = x] \in Requests
<1> TAKE r \in Requests
<1>1. \A x \in Places : [r EXCEPT !.at = x] \in Requests
  BY DEF Requests
<1>2. \A x \in {"none", "late", "tired", "gone"} : [r EXCEPT !.event = x] \in Requests
  BY DEF Requests
<1>3. \A x \in Nat : [r EXCEPT !.status = x] \in Requests
  BY DEF Requests
<1>4. \A x \in Nat : [r EXCEPT !.attempts = x] \in Requests
  BY DEF Requests
<1>5. \A x \in Nat : [r EXCEPT !.hop = x] \in Requests
  BY DEF Requests
<1>6. \A x \in Nat : [r EXCEPT !.integrity = x] \in Requests
  BY DEF Requests
<1>7. \A x \in Nat : [r EXCEPT !.endpoint = x] \in Requests
  BY DEF Requests
<1>8. \A x \in Nat : [r EXCEPT !.tryNo = x] \in Requests
  BY DEF Requests
<1>9. \A x \in Nat : [r EXCEPT !.budget = x] \in Requests
  BY DEF Requests
<1>10. \A x \in Nat : [r EXCEPT !.empties = x] \in Requests
  BY DEF Requests
<1>11. \A x \in Nat : [r EXCEPT !.repairs = x] \in Requests
  BY DEF Requests
<1>12. \A x \in Nat : [r EXCEPT !.sent = x] \in Requests
  BY DEF Requests
<1>13. \A x \in Nat : [r EXCEPT !.since = x] \in Requests
  BY DEF Requests
<1>14. \A x \in Nat : [r EXCEPT !.shownAt = x] \in Requests
  BY DEF Requests
<1>15. \A x \in SUBSET Payers : [r EXCEPT !.excluded = x] \in Requests
  BY DEF Requests
<1>16. \A x \in SUBSET Payers : [r EXCEPT !.refreshed = x] \in Requests
  BY DEF Requests
<1>17. \A x \in SUBSET Payers : [r EXCEPT !.probed = x] \in Requests
  BY DEF Requests
<1>18. \A x \in Errors : [r EXCEPT !.lastFailure = x] \in Requests
  BY DEF Requests
<1>19. \A x \in Errors : [r EXCEPT !.lastErr = x] \in Requests
  BY DEF Requests
<1>20. \A x \in Errors : [r EXCEPT !.lastAttempt = x] \in Requests
  BY DEF Requests
<1>21. \A x \in Errors : [r EXCEPT !.err = x] \in Requests
  BY DEF Requests
<1>22. \A x \in SUBSET (Payers \X Fines) : [r EXCEPT !.penalties = x] \in Requests
  BY DEF Requests
<1>23. \A x \in SUBSET (Payers \X Kinds) : [r EXCEPT !.told = x] \in Requests
  BY DEF Requests
<1>24. \A x \in Payers : [r EXCEPT !.account = x] \in Requests
  BY DEF Requests
<1>25. \A x \in Models : [r EXCEPT !.model = x] \in Requests
  BY DEF Requests
<1>26. \A x \in SUBSET RuleNumbers : [r EXCEPT !.used = x] \in Requests
  BY DEF Requests
<1>27. \A x \in BOOLEAN : [r EXCEPT !.shown = x] \in Requests
  BY DEF Requests
<1>28. \A x \in BOOLEAN : [r EXCEPT !.sanitized = x] \in Requests
  BY DEF Requests
<1>29. \A x \in {"configured", "candidate", "confirmed"} : [r EXCEPT !.region = x] \in Requests
  BY DEF Requests
<1> QED
  BY <1>1, <1>2, <1>3, <1>4, <1>5, <1>6, <1>7, <1>8, <1>9, <1>10, <1>11, <1>12, <1>13,
     <1>14, <1>15, <1>16, <1>17, <1>18, <1>19, <1>20, <1>21, <1>22, <1>23, <1>24, <1>25,
     <1>26, <1>27, <1>28, <1>29, Zenon

-----------------------------------------------------------------------------
(* What the steps of a call do to a request. *)
LEMMA BeginKept ==
  ASSUME NEW j, NEW r, Kept(j, r), ~r.shown
  PROVE  Kept(j, BeginCall(r)) /\ Placed(BeginCall(r))
<1>1. r \in Requests /\ r.sent \in Nat
  BY DEF Kept, Requests
<1>2. BeginCall(r) \in Requests
  <2>1. "route" \in Places /\ 0 \in Nat /\ 1 \in Nat
    BY DEF Places
  <2> QED
    BY <1>1, <2>1, FieldSet, FineError, Zenon DEF BeginCall
<1>3. /\ BeginCall(r).at = "route" /\ BeginCall(r).lastErr = Fine /\ BeginCall(r).lastAttempt = Fine
      /\ BeginCall(r).since = r.sent /\ BeginCall(r).sent = r.sent /\ BeginCall(r).shown = r.shown
      /\ BeginCall(r).budget = r.budget /\ BeginCall(r).empties = r.empties
      /\ BeginCall(r).used = r.used /\ BeginCall(r).hop = r.hop
      /\ BeginCall(r).penalties = r.penalties /\ BeginCall(r).told = r.told
      /\ BeginCall(r).shownAt = r.shownAt /\ BeginCall(r).region = r.region
  BY <1>1 DEF BeginCall, Requests
<1> QED
  BY <1>2, <1>3, FineError DEF Kept, Budgets, Explained, Placed, Calling, Idle, Heard

LEMMA ReturnKept ==
  ASSUME NEW j, NEW r, Kept(j, r), NEW e \in Errors, Reported(r, e), e = Fine => r.shown
  PROVE  Kept(j, Return(r, e)) /\ Placed(Return(r, e))
<1> DEFINE q == Return(r, e)
<1>1. r \in Requests
  BY DEF Kept
<1>2. q \in Requests
  <2> DEFINE g == CASE r.region # "candidate" -> r.region
                    [] e = Fine -> "confirmed"
                    [] OTHER -> "configured"
  <2>1. g \in {"configured", "candidate", "confirmed"} /\ "returned" \in Places
    BY <1>1 DEF Requests, Places
  <2>2. q = [r EXCEPT !.at = "returned", !.err = e, !.region = g]
    BY DEF Return
  <2> HIDE DEF g, q
  <2> QED
    BY <1>1, <2>1, <2>2, FieldSet, Zenon
<1>3. /\ q.at = "returned" /\ q.err = e
      /\ q.since = r.since /\ q.sent = r.sent /\ q.shown = r.shown
      /\ q.budget = r.budget /\ q.empties = r.empties
      /\ q.used = r.used /\ q.hop = r.hop /\ q.account = r.account
      /\ q.penalties = r.penalties /\ q.told = r.told
      /\ q.shownAt = r.shownAt
      /\ q.region # "candidate" /\ (q.region = "confirmed" => r.shown)
  BY <1>1 DEF Return, Requests, Kept
<1> HIDE DEF q
<1>4. Kept(j, q) /\ Placed(q)
  BY <1>2, <1>3 DEF Kept, Budgets, Explained, Placed, Calling, Idle, Heard, Reported
<1> QED
  BY <1>4 DEF q

LEMMA NextKept ==
  ASSUME NEW j, NEW r, Kept(j, r), Calling(r), r.lastErr # Fine, Idle(r), r.at \in Places
  PROVE  Kept(j, NextEndpoint(r)) /\ Placed(NextEndpoint(r))
<1> DEFINE q == [r EXCEPT !.endpoint = @ + 1, !.tryNo = 0, !.at = "route"]
<1>1. r \in Requests
  BY DEF Kept
<1>2. CASE r.endpoint < journey.endpoints
  <2>1. q \in Requests
    <3>1. "route" \in Places /\ 0 \in Nat /\ r.endpoint + 1 \in Nat
      BY <1>1 DEF Places, Requests
    <3> QED
      BY <1>1, <3>1, FieldSet, Zenon
  <2>2. /\ q.at = "route"
        /\ q.lastErr = r.lastErr /\ q.lastAttempt = r.lastAttempt
        /\ q.since = r.since /\ q.sent = r.sent /\ q.shown = r.shown
        /\ q.budget = r.budget /\ q.empties = r.empties
        /\ q.used = r.used /\ q.hop = r.hop /\ q.account = r.account
        /\ q.penalties = r.penalties /\ q.told = r.told
        /\ q.shownAt = r.shownAt /\ q.region = r.region
    BY <1>1 DEF Requests
  <2>3. NextEndpoint(r) = q
    BY <1>2 DEF NextEndpoint
  <2> HIDE DEF q
  <2> QED
    BY <2>1, <2>2, <2>3 DEF Kept, Budgets, Explained, Placed, Calling, Idle, Heard
<1>3. CASE ~(r.endpoint < journey.endpoints)
  <2>1. Exhausted(r) \in Errors /\ Exhausted(r) # Fine
    BY <1>1 DEF Exhausted, Requests
  <2>2. Reported(r, Exhausted(r))
    BY DEF Exhausted, Calling, Idle, Reported, Heard
  <2>3. NextEndpoint(r) = Return(r, Exhausted(r))
    BY <1>3 DEF NextEndpoint
  <2> QED
    BY <2>1, <2>2, <2>3, ReturnKept
<1> QED
  BY <1>2, <1>3

(* A request that keeps its counters, penalties and output keeps Kept. *)
Carried(r, q) ==
  /\ q.budget = r.budget /\ q.sent = r.sent /\ q.empties = r.empties
  /\ q.used = r.used /\ q.hop = r.hop
  /\ q.penalties = r.penalties /\ r.told \subseteq q.told
  /\ q.shown = r.shown /\ q.shownAt = r.shownAt /\ q.region = r.region

LEMMA CarriedKept ==
  ASSUME NEW j, NEW r, Kept(j, r), NEW q \in Requests, Carried(r, q)
  PROVE  Kept(j, q)
<1>1. Budgets(j, q)
  BY DEF Kept, Budgets, Carried
<1>2. Explained(q)
  BY DEF Kept, Explained, Carried
<1> QED
  BY <1>1, <1>2 DEF Kept, Carried

(* An answer is told: it is the last failure, and it is real. *)
LEMMA TellKept ==
  ASSUME NEW j, NEW r, Kept(j, r), NEW e, Real(e), ~r.shown
  PROVE  LET q == Tell(r, e) IN
         /\ Kept(j, q) /\ Calling(q) /\ Idle(q) /\ q.lastErr # Fine /\ Reported(q, e)
         /\ q.account = r.account /\ q.at = r.at /\ q.region = r.region
<1> DEFINE q == Tell(r, e)
<1>1. r \in Requests /\ e \in Errors /\ e.kind \in Kinds /\ e # Fine
  BY FineError DEF Kept, Real, Errors
<1>2. <<r.account, e.kind>> \in Payers \X Kinds /\ r.told \in SUBSET (Payers \X Kinds)
  BY <1>1 DEF Requests
<1>3. q \in Requests
  <2>1. r.told \cup {<<r.account, e.kind>>} \in SUBSET (Payers \X Kinds)
    BY <1>2
  <2> QED
    BY <1>1, <2>1, FieldSet, Zenon DEF Tell
<1>4. /\ Carried(r, q) /\ q.account = r.account /\ q.at = r.at /\ q.lastErr = e /\ q.lastAttempt = e
      /\ <<q.account, e.kind>> \in q.told
  BY <1>1 DEF Tell, Requests, Carried
<1> HIDE DEF q
<1>5. Kept(j, q)
  BY <1>3, <1>4, CarriedKept
<1>6. Calling(q) /\ Idle(q) /\ q.lastErr # Fine /\ Reported(q, e) /\ q.region = r.region
  BY <1>1, <1>4 DEF Calling, Idle, Reported, Heard, Real, Carried
<1> QED
  BY <1>4, <1>5, <1>6 DEF q

(* What a failure costs: only what the account was heard to say. *)
LEMMA PenaltyKept ==
  ASSUME NEW j, NEW r, Kept(j, r), NEW e \in Errors, Heard(r, e)
  PROVE  LET q == handleAccountFailureForModel(r, e) IN
         /\ Kept(j, q)
         /\ q.at = r.at /\ q.model = r.model /\ q.region = r.region /\ q.shown = r.shown
         /\ q.event = r.event /\ q.lastFailure = r.lastFailure /\ q.status = r.status
<1> DEFINE p == IF e.kind = "transient" /\ r.account \in journey.proxied
                THEN "cooldown" ELSE Penalty(e.kind)
           q == [r EXCEPT !.penalties = @ \cup {<<r.account, p>>}]
<1>1. r \in Requests /\ e.kind \in Kinds
  BY DEF Kept, Errors
<1>2. CASE p = "nothing"
  BY <1>1, <1>2 DEF handleAccountFailureForModel
<1>3. CASE p # "nothing"
  <2>1. p \in Fines /\ e.kind \in Grounds(p)
    BY <1>1, <1>3, PenaltyGrounds DEF Fines
  <2>2. <<r.account, e.kind>> \in r.told
    BY <1>3 DEF Heard, Blameless
  <2>3. handleAccountFailureForModel(r, e) = q
    BY <1>3 DEF handleAccountFailureForModel
  <2>4. r.account \in Payers /\ r.penalties \in SUBSET (Payers \X Fines)
    BY <1>1 DEF Requests
  <2> HIDE DEF p
  <2>5. q \in Requests
    <3>1. r.penalties \cup {<<r.account, p>>} \in SUBSET (Payers \X Fines)
      BY <2>1, <2>4
    <3> QED
      BY <1>1, <3>1, FieldSet, Zenon
  <2>6. /\ q.budget = r.budget /\ q.sent = r.sent /\ q.empties = r.empties
        /\ q.used = r.used /\ q.hop = r.hop /\ q.told = r.told
        /\ q.shown = r.shown /\ q.shownAt = r.shownAt /\ q.region = r.region
        /\ q.at = r.at /\ q.model = r.model /\ q.event = r.event
        /\ q.lastFailure = r.lastFailure /\ q.status = r.status
        /\ q.penalties = r.penalties \cup {<<r.account, p>>}
    BY <1>1 DEF Requests
  <2> HIDE DEF q
  <2>7. Budgets(j, q)
    BY <2>6 DEF Kept, Budgets
  <2>8. Explained(q)
    <3>1. ASSUME NEW x \in q.penalties PROVE \E cause \in Grounds(x[2]) : <<x[1], cause>> \in q.told
      <4>1. CASE x \in r.penalties
        BY <4>1, <2>6 DEF Kept, Explained
      <4>2. CASE x = <<r.account, p>>
        BY <4>2, <2>1, <2>2, <2>6
      <4> QED
        BY <3>1, <4>1, <4>2, <2>6
    <3> QED
      BY <3>1 DEF Explained
  <2> QED
    BY <2>3, <2>5, <2>6, <2>7, <2>8 DEF Kept
<1> QED
  BY <1>2, <1>3

(* The end of a request, and what the client is told. *)
LEMMA FinishKept ==
  ASSUME NEW j, NEW r, Kept(j, r), r.model = RequestModel, r.region # "candidate",
         NEW code \in Nat \ {0, 401}
  PROVE  Kept(j, Finish(r, code)) /\ Placed(Finish(r, code))
<1> DEFINE q == Finish(r, code)
<1>1. r \in Requests
  BY DEF Kept
<1>2. q \in Requests
  <2>1. "done" \in Places /\ code \in Nat
    BY DEF Places
  <2> QED
    BY <1>1, <2>1, FieldSet, Zenon DEF Finish
<1>3. Carried(r, q) /\ q.at = "done" /\ q.status = code /\ q.model = RequestModel /\ q.region # "candidate"
  BY <1>1 DEF Finish, Requests, Carried
<1> HIDE DEF q
<1>4. Kept(j, q) /\ Placed(q)
  BY <1>2, <1>3, CarriedKept DEF Placed
<1> QED
  BY <1>4 DEF q

LEMMA GiveUpKept ==
  ASSUME NEW j, NEW r, Kept(j, r), r.model = RequestModel, r.region # "candidate", NEW busy
  PROVE  Kept(j, GiveUp(r, busy)) /\ Placed(GiveUp(r, busy))
<1>1. mapDownstreamError(r.lastFailure) \in Nat \ {0, 401}
  BY StatusShown DEF Kept, Requests
<1> DEFINE code == CASE req.event = "gone" -> 499
                     [] req.event = "tired" -> 504
                     [] r.lastFailure # Fine -> mapDownstreamError(r.lastFailure)
                     [] busy -> 429
                     [] OTHER -> 503
<1>2. code \in Nat \ {0, 401}
  BY <1>1
<1>3. GiveUp(r, busy) = Finish(r, code)
  BY DEF GiveUp
<1> HIDE DEF code
<1> QED
  BY <1>2, <1>3, FinishKept

(* The call with its fallbacks starts over, for the model of the request. *)
LEMMA CallKept ==
  ASSUME NEW j \in Journeys, NEW r, Kept(j, r), ~r.shown
  PROVE  Kept(j, CallKiroAPI(r)) /\ Placed(CallKiroAPI(r))
<1> DEFINE q == [r EXCEPT !.model = RequestModel, !.used = {}, !.hop = 0]
<1>1. r \in Requests
  BY DEF Kept
<1>2. q \in Requests
  <2>1. RequestModel \in Models /\ {} \in SUBSET RuleNumbers /\ 0 \in Nat
    BY DEF Models
  <2> QED
    BY <1>1, <2>1, FieldSet, Zenon
<1>3. /\ q.budget = r.budget /\ q.sent = r.sent /\ q.empties = r.empties
      /\ q.used = {} /\ q.hop = 0 /\ q.told = r.told /\ q.penalties = r.penalties
      /\ q.shown = r.shown /\ q.shownAt = r.shownAt /\ q.region = r.region
  BY <1>1 DEF Requests
<1> HIDE DEF q
<1>4. Budgets(j, q)
  BY <1>3, FailoverAssumption, FS_EmptySet DEF Kept, Budgets
<1>5. Kept(j, q) /\ ~q.shown
  BY <1>2, <1>3, <1>4 DEF Kept, Explained
<1> QED
  BY <1>5, BeginKept DEF CallKiroAPI, q

-----------------------------------------------------------------------------
(* The steps of the endpoint loop, one lemma for each action. *)
LEMMA SharedReturn ==
  ASSUME NEW j, NEW r, Kept(j, r),
         NEW e \in {classifyRequestCancellation, newRetryBudgetError, newEmptyResponseLimitError}
  PROVE  Kept(j, Return(r, e)) /\ Placed(Return(r, e))
<1>1. Real(e) /\ Blameless(e.kind)
  BY SharedErrors
<1>2. e \in Errors /\ e # Fine /\ Reported(r, e)
  BY <1>1, FineError DEF Real, Reported, Heard
<1> QED
  BY <1>2, ReturnKept

LEMMA RealReturn ==
  ASSUME NEW j, NEW r, Kept(j, r), NEW e, Real(e), Reported(r, e)
  PROVE  Kept(j, Return(r, e)) /\ Placed(Return(r, e))
<1>1. e \in Errors /\ e # Fine
  BY FineError DEF Real
<1> QED
  BY <1>1, ReturnKept

LEMMA DisturbedKept ==
  ASSUME RequestInv, NEW event \in {"late", "tired", "gone"}, Disturbed(event)
  PROVE  RequestInv'
<1> DEFINE q == [req EXCEPT !.event = event]
<1>1. req \in Requests
  BY DEF RequestInv, Kept
<1>2. q \in Requests
  BY <1>1, FieldSet, Zenon
<1>3. /\ Carried(req, q) /\ q.at = req.at /\ q.model = req.model /\ q.status = req.status
      /\ q.account = req.account /\ q.since = req.since /\ q.told = req.told
      /\ q.lastErr = req.lastErr /\ q.lastAttempt = req.lastAttempt /\ q.err = req.err
  BY <1>1 DEF Requests, Carried
<1>4. req' = q /\ journey' = journey
  BY DEF Disturbed
<1> HIDE DEF q
<1>5. Kept(journey, q)
  BY <1>2, <1>3, CarriedKept DEF RequestInv
<1>6. Placed(q)
  BY <1>3 DEF RequestInv, Placed, Carried, Calling, Idle, Reported, Heard
<1> QED
  BY <1>4, <1>5, <1>6 DEF RequestInv

LEMMA NoRouteKept ==
  ASSUME RequestInv, NoRouteForCall
  PROVE  RequestInv'
<1>1. PICK cause \in {"rate_limit", "endpoint_unavailable"} :
        Move("route", Return([req EXCEPT !.told = @ \cup {<<req.account, cause>>}],
                             Failure(cause, TRUE, FALSE)))
  BY DEF NoRouteForCall
<1> DEFINE r == [req EXCEPT !.told = @ \cup {<<req.account, cause>>}]
           e == Failure(cause, TRUE, FALSE)
<1>2. req \in Requests
  BY DEF RequestInv, Kept
<1>3. r \in Requests
  <2>1. cause \in Kinds /\ req.account \in Payers /\ req.told \in SUBSET (Payers \X Kinds)
    BY <1>2 DEF Requests, Kinds
  <2>2. req.told \cup {<<req.account, cause>>} \in SUBSET (Payers \X Kinds)
    BY <2>1
  <2> QED
    BY <1>2, <2>2, FieldSet, Zenon
<1>4. Carried(req, r) /\ r.account = req.account /\ <<req.account, cause>> \in r.told
  BY <1>2 DEF Requests, Carried
<1>5. Real(e) /\ e.kind = cause
  BY DEF Failure, Real, Errors, Kinds
<1> HIDE DEF r, e
<1>6. Reported(r, e)
  BY <1>4, <1>5 DEF Reported, Heard, Real
<1>7. Kept(journey, r)
  BY <1>3, <1>4, CarriedKept DEF RequestInv
<1>8. Kept(journey, Return(r, e)) /\ Placed(Return(r, e))
  BY <1>5, <1>6, <1>7, RealReturn
<1>9. req' = Return(r, e) /\ journey' = journey
  BY <1>1 DEF Move, r, e
<1> QED
  BY <1>8, <1>9 DEF RequestInv

LEMMA SkipKept ==
  ASSUME RequestInv, SkipEndpoint
  PROVE  RequestInv'
<1>1. PICK e \in {newEndpointCircuitOpenError, profileArnMissing} :
        Move("route", NextEndpoint([req EXCEPT !.lastErr = e]))
  BY DEF SkipEndpoint
<1> DEFINE r == [req EXCEPT !.lastErr = e]
<1>2. req \in Requests /\ e \in Errors /\ e # Fine /\ Blameless(e.kind)
  BY SharedErrors DEF RequestInv, Kept
<1>3. r \in Requests
  BY <1>2, FieldSet, Zenon
<1>4. /\ Carried(req, r) /\ r.account = req.account /\ r.lastErr = e /\ r.told = req.told
      /\ r.lastAttempt = req.lastAttempt /\ r.since = req.since /\ r.at \in Places
  BY <1>2 DEF Requests, Carried
<1>5. req.at = "route" /\ req' = NextEndpoint(r) /\ journey' = journey
  BY <1>1 DEF Move
<1> HIDE DEF r
<1>6. Calling(req) /\ Idle(req)
  BY <1>5 DEF RequestInv, Placed
<1>7. Calling(r) /\ Idle(r) /\ r.lastErr # Fine
  BY <1>2, <1>4, <1>6 DEF Calling, Idle, Heard, Carried
<1>8. Kept(journey, r)
  BY <1>3, <1>4, CarriedKept DEF RequestInv
<1> QED
  BY <1>4, <1>5, <1>7, <1>8, NextKept DEF RequestInv

LEMMA DispatchKept ==
  ASSUME RequestInv, Dispatch
  PROVE  RequestInv'
<1>1. req.at = "route" /\ journey' = journey
  BY DEF Dispatch, Move
<1> DEFINE q == [req EXCEPT !.at = "sent", !.budget = @ + 1, !.sent = @ + 1]
<1>2. \/ req' = Return(req, classifyRequestCancellation)
      \/ req' = Return(req, newRetryBudgetError)
      \/ take /\ req' = q
  BY DEF Dispatch, Move
<1>3. CASE req' = Return(req, classifyRequestCancellation) \/ req' = Return(req, newRetryBudgetError)
  BY <1>1, <1>3, SharedReturn DEF RequestInv
<1>4. CASE take /\ req' = q
  <2>1. req' = q
    BY <1>4
  <2>2. req \in Requests
    BY DEF RequestInv, Kept
  <2>3. q \in Requests
    <3>1. "sent" \in Places /\ req.budget + 1 \in Nat /\ req.sent + 1 \in Nat
      BY <2>2 DEF Places, Requests
    <3> QED
      BY <2>2, <3>1, FieldSet, Zenon
  <2>4. /\ q.at = "sent" /\ q.budget = req.budget + 1 /\ q.sent = req.sent + 1
        /\ q.empties = req.empties /\ q.used = req.used /\ q.hop = req.hop
        /\ q.penalties = req.penalties /\ q.told = req.told /\ q.account = req.account
        /\ q.shown = req.shown /\ q.shownAt = req.shownAt /\ q.region = req.region
        /\ q.lastErr = req.lastErr /\ q.lastAttempt = req.lastAttempt
    BY <2>2 DEF Requests
  <2>5. req.budget \in Nat /\ journey.budget \in Nat
    BY <2>2, FailoverAssumption DEF Requests, RequestInv
  <2>6. Calling(req) /\ ~req.shown
    BY <1>1 DEF RequestInv, Placed, Calling
  <2> HIDE DEF q
  <2>7. Budgets(journey, q)
    BY <1>4, <2>4, <2>5 DEF RequestInv, Kept, Budgets, take
  <2>8. Kept(journey, q)
    BY <2>3, <2>4, <2>6, <2>7 DEF RequestInv, Kept, Explained
  <2>9. Placed(q)
    BY <2>4, <2>6 DEF Placed, Calling, Heard
  <2> QED
    BY <1>1, <2>1, <2>8, <2>9 DEF RequestInv
<1> QED
  BY <1>2, <1>3, <1>4

LEMMA TransportKept ==
  ASSUME RequestInv, NEW cause, TransportFails(cause)
  PROVE  RequestInv'
<1> DEFINE e == classifyTransportError(cause)
           r == Tell(req, e)
<1>1. req.at = "sent" /\ journey' = journey
  BY DEF TransportFails, Move
<1>2. Real(e) /\ Kept(journey, req) /\ ~req.shown
  BY <1>1, TransportReal DEF RequestInv, Placed, Calling
<1>3. /\ Kept(journey, r) /\ Calling(r) /\ Idle(r) /\ r.lastErr # Fine /\ Reported(r, e)
      /\ r.at = req.at
  BY <1>2, TellKept
<1>4. r.at \in Places
  BY <1>1, <1>3 DEF Places
<1>5. \/ req' = Return(req, classifyRequestCancellation)
      \/ e.kind = "local_configuration" /\ req' = Return(req, e)
      \/ req' = Return(r, newRetryBudgetError)
      \/ req' = NextEndpoint(r)
  BY DEF TransportFails, Move, OrExpired
<1> HIDE DEF e, r
<1>6. CASE req' = Return(req, classifyRequestCancellation)
  BY <1>1, <1>2, <1>6, SharedReturn DEF RequestInv
<1>7. CASE e.kind = "local_configuration" /\ req' = Return(req, e)
  <2>1. Reported(req, e)
    BY <1>2, <1>7, SharedErrors DEF Reported, Heard, Real
  <2> QED
    BY <1>1, <1>2, <1>7, <2>1, RealReturn DEF RequestInv
<1>8. CASE req' = Return(r, newRetryBudgetError)
  BY <1>1, <1>3, <1>8, SharedReturn DEF RequestInv
<1>9. CASE req' = NextEndpoint(r)
  BY <1>1, <1>3, <1>4, <1>9, NextKept DEF RequestInv
<1> QED
  BY <1>5, <1>6, <1>7, <1>8, <1>9

(* A call that has just been told of a failure: what it may go on with. *)
Failed(j, r) == Kept(j, r) /\ Calling(r) /\ Idle(r) /\ r.lastErr # Fine /\ r.at \in Places

LEMMA FailedMayEnd ==
  ASSUME NEW j, NEW r, Failed(j, r)
  PROVE  /\ Kept(j, BeginCall(r)) /\ Placed(BeginCall(r))
         /\ Kept(j, NextEndpoint(r)) /\ Placed(NextEndpoint(r))
         /\ \A e \in {classifyRequestCancellation, newRetryBudgetError, newEmptyResponseLimitError} :
              Kept(j, Return(r, e)) /\ Placed(Return(r, e))
<1>1. Kept(j, r) /\ Calling(r) /\ Idle(r) /\ r.lastErr # Fine /\ r.at \in Places /\ ~r.shown
  BY DEF Failed, Calling
<1> QED
  BY <1>1, BeginKept, NextKept, SharedReturn

(* The marks of what has been tried once do not matter to it. *)
Alike(r, q) ==
  /\ Carried(r, q) /\ q.told = r.told /\ q.account = r.account /\ q.at = r.at
  /\ q.since = r.since /\ q.lastErr = r.lastErr /\ q.lastAttempt = r.lastAttempt

LEMMA AlikeFailed ==
  ASSUME NEW j, NEW r, Failed(j, r), NEW q \in Requests, Alike(r, q)
  PROVE  Failed(j, q) /\ \A e : Reported(r, e) => Reported(q, e)
<1>1. Kept(j, q)
  BY CarriedKept DEF Failed, Alike
<1>2. Calling(q) /\ Idle(q) /\ q.lastErr # Fine /\ q.at \in Places
  BY DEF Failed, Alike, Calling, Idle, Heard, Carried
<1>3. \A e : Reported(r, e) => Reported(q, e)
  BY DEF Alike, Reported, Heard, Carried
<1> QED
  BY <1>1, <1>2, <1>3 DEF Failed

LEMMA MarkedFailed ==
  ASSUME NEW j, NEW r, Failed(j, r), NEW a \in Payers
  PROVE  /\ LET q == [r EXCEPT !.probed = @ \cup {a}] IN
              Failed(j, q) /\ q.account = r.account /\ \A e : Reported(r, e) => Reported(q, e)
         /\ LET q == [r EXCEPT !.refreshed = @ \cup {a}] IN
              Failed(j, q) /\ q.account = r.account /\ \A e : Reported(r, e) => Reported(q, e)
         /\ Failed(j, [r EXCEPT !.sanitized = TRUE])
<1>1. r \in Requests
  BY DEF Failed, Kept
<1>2. r.probed \cup {a} \in SUBSET Payers /\ r.refreshed \cup {a} \in SUBSET Payers
  BY <1>1 DEF Requests
<1>3. LET q == [r EXCEPT !.probed = @ \cup {a}] IN q \in Requests /\ Alike(r, q)
  <2>1. [r EXCEPT !.probed = @ \cup {a}] \in Requests
    BY <1>1, <1>2, FieldSet, Zenon
  <2>2. Alike(r, [r EXCEPT !.probed = @ \cup {a}])
    BY <1>1 DEF Alike, Carried, Requests
  <2> QED
    BY <2>1, <2>2
<1>4. LET q == [r EXCEPT !.refreshed = @ \cup {a}] IN q \in Requests /\ Alike(r, q)
  <2>1. [r EXCEPT !.refreshed = @ \cup {a}] \in Requests
    BY <1>1, <1>2, FieldSet, Zenon
  <2>2. Alike(r, [r EXCEPT !.refreshed = @ \cup {a}])
    BY <1>1 DEF Alike, Carried, Requests
  <2> QED
    BY <2>1, <2>2
<1>5. LET q == [r EXCEPT !.sanitized = TRUE] IN q \in Requests /\ Alike(r, q)
  <2>1. [r EXCEPT !.sanitized = TRUE] \in Requests
    BY <1>1, FieldSet, Zenon
  <2>2. Alike(r, [r EXCEPT !.sanitized = TRUE])
    BY <1>1 DEF Alike, Carried, Requests
  <2> QED
    BY <2>1, <2>2
<1>6. \A q \in Requests : Alike(r, q) => Failed(j, q) /\ \A e : Reported(r, e) => Reported(q, e)
  BY AlikeFailed
<1> QED
  BY <1>3, <1>4, <1>5, <1>6, Zenon DEF Alike

LEMMA TellFailed ==
  ASSUME NEW j, NEW r, Kept(j, r), ~r.shown, r.at \in Places, NEW e, Real(e)
  PROVE  Failed(j, Tell(r, e)) /\ Reported(Tell(r, e), e) /\ Tell(r, e).account = r.account
<1>1. LET q == Tell(r, e) IN
        /\ Kept(j, q) /\ Calling(q) /\ Idle(q) /\ q.lastErr # Fine /\ Reported(q, e)
        /\ q.account = r.account /\ q.at = r.at
  BY TellKept
<1> QED
  BY <1>1 DEF Failed

LEMMA HttpKept ==
  ASSUME RequestInv, NEW code \in Nat, NEW mark, HttpError(code, mark)
  PROVE  RequestInv'
<1> DEFINE e == classifyUpstreamHTTPError(code, mark)
           probing == retryAfterAPIKeyRegionRecovery(e)
           r == IF probing THEN [Tell(req, e) EXCEPT !.probed = @ \cup {req.account}] ELSE Tell(req, e)
           refreshing == [r EXCEPT !.refreshed = @ \cup {r.account}]
<1>1. req.at = "sent" /\ journey' = journey
  BY DEF HttpError, Move
<1>2. Kept(journey, req) /\ ~req.shown /\ req.at \in Places /\ Real(e) /\ req.account \in Payers
  BY <1>1, HttpReal DEF RequestInv, Placed, Calling, Kept, Requests
<1>3. Failed(journey, Tell(req, e)) /\ Reported(Tell(req, e), e) /\ Tell(req, e).account = req.account
  BY <1>2, TellFailed, Zenon
<1>4. Failed(journey, r) /\ Reported(r, e) /\ r.account = req.account
  <2>1. LET q == [Tell(req, e) EXCEPT !.probed = @ \cup {req.account}] IN
          Failed(journey, q) /\ q.account = Tell(req, e).account /\ Reported(q, e)
    BY <1>2, <1>3, MarkedFailed, Zenon
  <2> QED
    BY <1>3, <2>1, Zenon
<1>5. \/ req' = BeginCall([r EXCEPT !.region = "candidate"])
      \/ req' = BeginCall(refreshing)
      \/ \E cause \in {"rejected", "blocked", "transport"} :
           LET f == classifyRefreshFailure(cause) IN req' = Return(Tell(refreshing, f), f)
      \/ req' = BeginCall([r EXCEPT !.sanitized = TRUE])
      \/ req' = NextEndpoint(r)
      \/ req' = Return(r, e)
  BY DEF HttpError, Move
<1> HIDE DEF r, e
<1>6. CASE req' = BeginCall([r EXCEPT !.region = "candidate"])
  <2> DEFINE q == [r EXCEPT !.region = "candidate"]
  <2>1. r \in Requests /\ Kept(journey, r) /\ ~r.shown
    BY <1>4 DEF Failed, Kept, Calling
  <2>2. q \in Requests
    BY <2>1, FieldSet, Zenon
  <2>3. /\ q.budget = r.budget /\ q.sent = r.sent /\ q.empties = r.empties
        /\ q.used = r.used /\ q.hop = r.hop /\ q.penalties = r.penalties /\ q.told = r.told
        /\ q.shown = r.shown /\ q.shownAt = r.shownAt /\ q.region = "candidate"
    BY <2>1 DEF Requests
  <2> HIDE DEF q
  <2>4. Kept(journey, q) /\ ~q.shown
    BY <2>1, <2>2, <2>3 DEF Kept, Budgets, Explained
  <2>5. Kept(journey, BeginCall(q)) /\ Placed(BeginCall(q))
    BY <2>4, BeginKept
  <2> QED
    BY <1>1, <1>6, <2>5 DEF RequestInv, q
<1>7. Failed(journey, refreshing)
  BY <1>2, <1>4, MarkedFailed, Zenon
<1>8. CASE req' = BeginCall(refreshing)
  BY <1>1, <1>7, <1>8, FailedMayEnd DEF RequestInv
<1>9. ASSUME NEW cause \in {"rejected", "blocked", "transport"},
             req' = Return(Tell(refreshing, classifyRefreshFailure(cause)), classifyRefreshFailure(cause))
      PROVE  RequestInv'
  <2> DEFINE f == classifyRefreshFailure(cause)
             q == Tell(refreshing, f)
  <2>1. Real(f)
    BY RefreshReal
  <2>2. Kept(journey, refreshing) /\ ~refreshing.shown /\ refreshing.at \in Places
    BY <1>7 DEF Failed, Calling
  <2>3. Kept(journey, q) /\ Reported(q, f)
    <3> HIDE DEF refreshing, f
    <3> QED
      BY <2>1, <2>2, TellFailed, Zenon DEF Failed
  <2> HIDE DEF f, q
  <2>4. Kept(journey, Return(q, f)) /\ Placed(Return(q, f))
    BY <2>1, <2>3, RealReturn
  <2> QED
    BY <1>1, <1>9, <2>4 DEF RequestInv, q, f
<1>10. CASE req' = BeginCall([r EXCEPT !.sanitized = TRUE])
  <2>1. Failed(journey, [r EXCEPT !.sanitized = TRUE])
    BY <1>2, <1>4, MarkedFailed, Zenon
  <2> QED
    BY <1>1, <1>10, <2>1, FailedMayEnd DEF RequestInv
<1>11. CASE req' = NextEndpoint(r)
  BY <1>1, <1>4, <1>11, FailedMayEnd DEF RequestInv
<1>12. CASE req' = Return(r, e)
  BY <1>1, <1>2, <1>4, <1>12, RealReturn DEF RequestInv, Failed
<1> HIDE DEF refreshing
<1> QED
  BY <1>5, <1>6, <1>8, <1>9, <1>10, <1>11, <1>12

(* The same endpoint again. *)
LEMMA RetryKept ==
  ASSUME NEW j, NEW r, Failed(j, r)
  PROVE  LET q == [r EXCEPT !.at = "route", !.tryNo = @ + 1] IN Kept(j, q) /\ Placed(q)
<1> DEFINE q == [r EXCEPT !.at = "route", !.tryNo = @ + 1]
<1>1. r \in Requests
  BY DEF Failed, Kept
<1>2. q \in Requests
  <2>1. "route" \in Places /\ r.tryNo + 1 \in Nat
    BY <1>1 DEF Requests, Places
  <2> QED
    BY <1>1, <2>1, FieldSet, Zenon
<1>3. /\ Carried(r, q) /\ q.at = "route" /\ q.told = r.told /\ q.account = r.account
      /\ q.since = r.since /\ q.lastErr = r.lastErr /\ q.lastAttempt = r.lastAttempt
  BY <1>1 DEF Requests, Carried
<1> HIDE DEF q
<1>4. Kept(j, q)
  BY <1>2, <1>3, CarriedKept DEF Failed
<1>5. Placed(q)
  BY <1>3 DEF Failed, Placed, Calling, Idle, Heard, Carried
<1> QED
  BY <1>4, <1>5 DEF q

(* The first output is the last sending. *)
LEMMA ShownKept ==
  ASSUME NEW j, NEW r, Kept(j, r)
  PROVE  LET q == fallbackOutputTracker(r) IN
         /\ Kept(j, q) /\ q.shown
         /\ \A e : Reported(r, e) => Reported(q, e)
<1> DEFINE q == [r EXCEPT !.shown = TRUE, !.shownAt = r.sent]
<1>1. r \in Requests /\ r.sent \in Nat
  BY DEF Kept, Requests
<1>2. CASE r.shown
  BY <1>2 DEF fallbackOutputTracker
<1>3. CASE ~r.shown
  <2>1. q \in Requests
    BY <1>1, FieldSet, Zenon
  <2>2. /\ q.budget = r.budget /\ q.sent = r.sent /\ q.empties = r.empties
        /\ q.used = r.used /\ q.hop = r.hop /\ q.penalties = r.penalties /\ q.told = r.told
        /\ q.shown = TRUE /\ q.shownAt = r.sent /\ q.region = r.region
        /\ q.account = r.account /\ q.since = r.since
    BY <1>1 DEF Requests
  <2>3. fallbackOutputTracker(r) = q
    BY <1>3 DEF fallbackOutputTracker
  <2> HIDE DEF q
  <2>4. Kept(j, q) /\ q.shown
    BY <2>1, <2>2 DEF Kept, Budgets, Explained
  <2>5. \A e : Reported(r, e) => Reported(q, e)
    BY <2>2 DEF Reported, Heard
  <2> QED
    BY <2>3, <2>4, <2>5
<1> QED
  BY <1>2, <1>3

LEMMA StreamKept ==
  ASSUME RequestInv, NEW cause, NEW emitted \in BOOLEAN, StreamBreaks(cause, emitted)
  PROVE  RequestInv'
<1> DEFINE e == streamFailure(cause, emitted)
           base == Repaired(req, cause)
           said == Tell(base, e)
           r == IF emitted THEN fallbackOutputTracker(said) ELSE said
<1>1. req.at = "sent" /\ journey' = journey
  BY DEF StreamBreaks, Move
<1>2. req \in Requests /\ Kept(journey, req) /\ ~req.shown /\ Real(e)
  BY <1>1, StreamReal DEF RequestInv, Kept, Placed, Calling
<1>3. Kept(journey, base) /\ ~base.shown /\ base.at \in Places
  <2> DEFINE q == [req EXCEPT !.repairs = @ + 1]
  <2>1. q \in Requests
    <3>1. req.repairs + 1 \in Nat
      BY <1>2 DEF Requests
    <3> QED
      BY <1>2, <3>1, FieldSet, Zenon
  <2>2. Carried(req, q) /\ ~q.shown /\ q.at = req.at
    BY <1>2 DEF Requests, Carried
  <2>3. Kept(journey, q)
    BY <1>2, <2>1, <2>2, CarriedKept
  <2>4. req.at \in Places
    BY <1>1 DEF Places
  <2> HIDE DEF q
  <2>5. base = q \/ base = req
    BY DEF Repaired, q
  <2> QED
    BY <1>2, <2>2, <2>3, <2>4, <2>5, Zenon
<1> HIDE DEF base
<1>4. Failed(journey, said) /\ Reported(said, e)
  BY <1>2, <1>3, TellFailed, Zenon
<1>5. /\ Kept(journey, r) /\ Reported(r, e)
      /\ ~emitted => Failed(journey, r)
  <2>1. Kept(journey, said)
    BY <1>4 DEF Failed
  <2>2. Kept(journey, fallbackOutputTracker(said)) /\ Reported(fallbackOutputTracker(said), e)
    BY <1>4, <2>1, ShownKept, Zenon
  <2> HIDE DEF said
  <2> QED
    BY <1>4, <2>1, <2>2
<1>6. \/ req' = Return(r, classifyRequestCancellation)
      \/ req' = Return(r, newRetryBudgetError)
      \/ req' = Return(r, e)
      \/ ~emitted /\ req' = [r EXCEPT !.at = "route", !.tryNo = @ + 1]
      \/ ~emitted /\ req' = NextEndpoint(r)
  <2>1. TryAgain(e, cause, emitted) => ~emitted
    BY DEF TryAgain
  <2>2. isRetryablePreOutputStreamError(e, emitted) => ~emitted
    BY DEF isRetryablePreOutputStreamError
  <2> DEFINE again == [r EXCEPT !.at = "route", !.tryNo = @ + 1]
             mayRetry == /\ cause # "tool stalled" /\ req.tryNo < journey.preOutputRetries
                         /\ isRetryablePreOutputStreamError(e, emitted)
             mayTry == TryAgain(e, cause, emitted)
  <2>4. (mayRetry => ~emitted) /\ (mayTry => ~emitted)
    BY <2>1, <2>2
  <2>5. req' = CASE req.event = "gone" -> Return(r, classifyRequestCancellation)
                 [] req.event = "late" -> Return(r, newRetryBudgetError)
                 [] ~mayTry -> Return(r, e)
                 [] mayRetry -> again
                 [] OTHER -> NextEndpoint(r)
    BY Zenon DEF StreamBreaks, Move, base
  <2> HIDE DEF e, r, again, mayRetry, mayTry
  <2>6. \/ req' = Return(r, classifyRequestCancellation)
        \/ req' = Return(r, newRetryBudgetError)
        \/ req' = Return(r, e)
        \/ mayRetry /\ req' = again
        \/ mayTry /\ req' = NextEndpoint(r)
    BY <2>5
  <2> QED
    BY <2>4, <2>6, Zenon DEF again
<1> HIDE DEF e, r, said
<1>7. CASE req' = Return(r, classifyRequestCancellation) \/ req' = Return(r, newRetryBudgetError)
  BY <1>1, <1>2, <1>5, <1>7, SharedReturn DEF RequestInv
<1>8. CASE req' = Return(r, e)
  BY <1>1, <1>2, <1>5, <1>8, RealReturn DEF RequestInv
<1>9. CASE ~emitted /\ req' = [r EXCEPT !.at = "route", !.tryNo = @ + 1]
  BY <1>1, <1>2, <1>5, <1>9, RetryKept DEF RequestInv
<1>10. CASE ~emitted /\ req' = NextEndpoint(r)
  BY <1>1, <1>2, <1>5, <1>10, FailedMayEnd DEF RequestInv
<1> QED
  BY <1>6, <1>7, <1>8, <1>9, <1>10

LEMMA MinBound ==
  ASSUME NEW a \in Nat, NEW b \in Nat
  PROVE  Min({a, b}) \in Nat /\ Min({a, b}) <= b
<1>1. \E x \in {a, b} : \A y \in {a, b} : x <= y
  OBVIOUS
<1> QED
  BY <1>1 DEF Min

LEMMA EmptyKept ==
  ASSUME RequestInv, EmptyAnswer
  PROVE  RequestInv'
<1> DEFINE base == [req EXCEPT !.empties = Min({@ + 1, EmptyLimit})]
           r == Tell(base, newEmptyResponseError)
<1>1. req.at = "sent" /\ journey' = journey
  BY DEF EmptyAnswer, Move
<1>2. req \in Requests /\ Kept(journey, req) /\ ~req.shown
  BY <1>1 DEF RequestInv, Kept, Placed, Calling
<1>3. Kept(journey, base) /\ ~base.shown /\ base.at \in Places
  <2>1. LET n == Min({req.empties + 1, EmptyLimit}) IN n \in Nat /\ n <= EmptyLimit
    BY <1>2, MinBound, FailoverAssumption DEF Requests
  <2>2. base \in Requests
    BY <1>2, <2>1, FieldSet, Zenon
  <2>3. /\ base.budget = req.budget /\ base.sent = req.sent /\ base.empties <= EmptyLimit
        /\ base.used = req.used /\ base.hop = req.hop /\ base.told = req.told
        /\ base.penalties = req.penalties
        /\ base.shown = req.shown /\ base.shownAt = req.shownAt /\ base.region = req.region
        /\ base.at = req.at
    BY <1>2, <2>1 DEF Requests
  <2> HIDE DEF base
  <2> QED
    BY <1>1, <1>2, <2>2, <2>3 DEF Kept, Budgets, Explained, Places
<1> HIDE DEF base
<1>4. Failed(journey, r)
  BY <1>3, SharedErrors, TellFailed, Zenon
<1>5. \/ req' = Return(r, newEmptyResponseLimitError)
      \/ req' = [r EXCEPT !.at = "route", !.tryNo = @ + 1]
      \/ req' = NextEndpoint(r)
  BY DEF EmptyAnswer, Move, base
<1> HIDE DEF r
<1>6. CASE req' = Return(r, newEmptyResponseLimitError)
  BY <1>1, <1>2, <1>4, <1>6, FailedMayEnd DEF RequestInv
<1>7. CASE req' = [r EXCEPT !.at = "route", !.tryNo = @ + 1]
  BY <1>1, <1>2, <1>4, <1>7, RetryKept DEF RequestInv
<1>8. CASE req' = NextEndpoint(r)
  BY <1>1, <1>2, <1>4, <1>8, FailedMayEnd DEF RequestInv
<1> QED
  BY <1>5, <1>6, <1>7, <1>8

LEMMA SucceedsKept ==
  ASSUME RequestInv, CallSucceeds
  PROVE  RequestInv'
<1> DEFINE r == fallbackOutputTracker(req)
<1>1. req' = Return(r, Fine) /\ journey' = journey
  BY DEF CallSucceeds, Move
<1>2. Kept(journey, r) /\ r.shown
  BY ShownKept DEF RequestInv
<1>3. Fine \in Errors /\ Reported(r, Fine)
  BY FineError DEF Reported, Heard
<1> HIDE DEF r
<1> QED
  BY <1>1, <1>2, <1>3, ReturnKept DEF RequestInv

-----------------------------------------------------------------------------
(* The steps of the fallback and of the account loop. *)
LEMMA FallBackKept ==
  ASSUME RequestInv, FallBack
  PROVE  RequestInv'
<1>1. PICK i \in resolveModelFallback :
        Move("returned", BeginCall([req EXCEPT !.model = journey.rules[i].target,
                                               !.used = @ \cup {i}, !.hop = @ + 1]))
  BY DEF FallBack
<1> DEFINE m == journey.rules[i].target
           r == [req EXCEPT !.model = m, !.used = @ \cup {i}, !.hop = @ + 1]
<1>2. req' = BeginCall(r) /\ journey' = journey
  BY <1>1 DEF Move
<1>3. i \in DOMAIN journey.rules /\ i \notin req.used /\ ~req.shown /\ req.hop < journey.maxHops
  BY DEF resolveModelFallback, modelFallbackMayRetry, Applicable
<1>4. journey \in Journeys /\ Kept(journey, req) /\ req \in Requests
  BY DEF RequestInv, Kept
<1>5. i \in RuleNumbers /\ m \in Models
  BY <1>3, <1>4 DEF RuleNumbers, Models
<1>6. req.hop \in Nat /\ req.used \in SUBSET RuleNumbers /\ journey.maxHops \in Nat
  BY <1>4, FailoverAssumption DEF Requests
<1> HIDE DEF m
<1>7. r \in Requests
  <2>1. req.used \cup {i} \in SUBSET RuleNumbers /\ req.hop + 1 \in Nat
    BY <1>5, <1>6
  <2> QED
    BY <1>4, <1>5, <2>1, FieldSet, Zenon
<1>8. /\ r.budget = req.budget /\ r.sent = req.sent /\ r.empties = req.empties
      /\ r.used = req.used \cup {i} /\ r.hop = req.hop + 1 /\ r.told = req.told
      /\ r.penalties = req.penalties
      /\ r.shown = req.shown /\ r.shownAt = req.shownAt /\ r.region = req.region
  BY <1>4 DEF Requests
<1> HIDE DEF r
<1>9. IsFiniteSet(r.used) /\ Cardinality(r.used) = r.hop /\ r.hop <= journey.maxHops
  <2>1. IsFiniteSet(req.used) /\ Cardinality(req.used) = req.hop
    BY <1>4 DEF Kept, Budgets
  <2>2. IsFiniteSet(req.used \cup {i}) /\ Cardinality(req.used \cup {i}) = Cardinality(req.used) + 1
    BY <1>3, <2>1, FS_AddElement
  <2> QED
    BY <1>3, <1>6, <1>8, <2>1, <2>2
<1>10. Kept(journey, r) /\ ~r.shown
  BY <1>3, <1>4, <1>7, <1>8, <1>9 DEF Kept, Budgets, Explained
<1> QED
  BY <1>2, <1>4, <1>10, BeginKept DEF RequestInv

LEMMA CallReturnsKept ==
  ASSUME RequestInv, CallReturns
  PROVE  RequestInv'
<1> DEFINE q == [req EXCEPT !.at = "judged", !.model = RequestModel]
<1>1. req.at = "returned" /\ req' = q /\ journey' = journey
  BY DEF CallReturns, Move
<1>2. req \in Requests /\ Kept(journey, req) /\ req.region # "candidate" /\ Reported(req, req.err)
  BY <1>1 DEF RequestInv, Kept, Placed
<1>3. q \in Requests
  <2>1. "judged" \in Places /\ RequestModel \in Models
    BY DEF Places, Models
  <2> QED
    BY <1>2, <2>1, FieldSet, Zenon
<1>4. /\ Carried(req, q) /\ q.at = "judged" /\ q.model = RequestModel /\ q.err = req.err
      /\ q.account = req.account /\ q.since = req.since /\ q.told = req.told
  BY <1>2 DEF Requests, Carried
<1> HIDE DEF q
<1>5. Kept(journey, q)
  BY <1>2, <1>3, <1>4, CarriedKept
<1>6. Placed(q)
  BY <1>2, <1>4 DEF Placed, Reported, Heard, Carried
<1> QED
  BY <1>1, <1>5, <1>6 DEF RequestInv

(* Between the calls a request has shown nothing and is for its own model. *)
LEMMA Selecting ==
  ASSUME RequestInv, req.at = "select"
  PROVE  /\ Kept(journey, req) /\ req \in Requests /\ journey \in Journeys
         /\ ~req.shown /\ req.model = RequestModel /\ req.region # "candidate"
BY DEF RequestInv, Kept, Placed

LEMMA NoAttemptKept ==
  ASSUME RequestInv, NoAttemptLeft
  PROVE  RequestInv'
<1>1. req.at = "select" /\ journey' = journey /\ (req' = Finish(req, 504) \/ req' = GiveUp(req, FALSE))
  BY DEF NoAttemptLeft, Move
<1>2. /\ Kept(journey, req) /\ journey \in Journeys
      /\ req.model = RequestModel /\ req.region # "candidate"
  BY <1>1, Selecting
<1>3. Kept(journey, Finish(req, 504)) /\ Placed(Finish(req, 504))
  BY <1>2, FinishKept
<1>4. Kept(journey, GiveUp(req, FALSE)) /\ Placed(GiveUp(req, FALSE))
  BY <1>2, GiveUpKept, Zenon
<1> QED
  BY <1>1, <1>2, <1>3, <1>4 DEF RequestInv

(* The request goes on with the selection. *)
LEMMA SelectKept ==
  ASSUME NEW j, NEW q, Kept(j, q), q.at = "select", ~q.shown, q.model = RequestModel,
         q.region # "candidate"
  PROVE  Placed(q)
BY DEF Placed

LEMMA AcquireKept ==
  ASSUME RequestInv, NEW a \in FailoverAccounts, Acquire(a)
  PROVE  RequestInv'
<1> DEFINE r == [req EXCEPT !.attempts = @ + 1, !.account = a, !.integrity = 0]
           tried(cause) == [r EXCEPT !.excluded = @ \cup {a}, !.lastFailure = PlainError(cause),
                                     !.told = @ \cup {<<a, cause>>}]
           failed(cause) == handleAccountFailureForModel(tried(cause), PlainError(cause))
<1>1. /\ req.at = "select" /\ journey' = journey
      /\ \/ req' = CallKiroAPI(r)
         \/ \E cause \in {"plain: rejected", "plain: limited", "plain: transport"} : req' = failed(cause)
         \/ req' = [failed("plain: canceled") EXCEPT !.event = "gone"]
  BY DEF Acquire, Move
<1>2. /\ Kept(journey, req) /\ req \in Requests /\ journey \in Journeys
      /\ ~req.shown /\ req.model = RequestModel /\ req.region # "candidate"
  BY <1>1, Selecting
<1>3. r \in Requests
  <2>1. req.attempts + 1 \in Nat /\ a \in Payers /\ 0 \in Nat
    BY <1>2 DEF Requests, Payers
  <2> QED
    BY <1>2, <2>1, FieldSet, Zenon
<1>4. /\ Carried(req, r) /\ r.account = a /\ r.at = "select" /\ r.model = RequestModel
      /\ ~r.shown /\ r.region # "candidate"
  BY <1>1, <1>2 DEF Requests, Carried
<1> HIDE DEF r
<1>5. Kept(journey, r)
  BY <1>2, <1>3, <1>4, CarriedKept
<1>6. ASSUME NEW cause \in {"plain: rejected", "plain: limited", "plain: transport", "plain: canceled"}
      PROVE  /\ Kept(journey, failed(cause)) /\ failed(cause).at = "select" /\ ~failed(cause).shown
             /\ failed(cause).model = RequestModel /\ failed(cause).region # "candidate"
  <2> DEFINE e == PlainError(cause)
             q == tried(cause)
  <2>1. e \in Errors /\ e.kind = cause /\ cause \in Kinds
    BY DEF PlainError, Failure, Errors, Kinds
  <2>2. q \in Requests
    <3>1. a \in Payers /\ r.excluded \in SUBSET Payers /\ r.told \in SUBSET (Payers \X Kinds)
      BY <1>3 DEF Requests, Payers
    <3>2. r.excluded \cup {a} \in SUBSET Payers
      BY <3>1
    <3>3. <<a, cause>> \in Payers \X Kinds
      BY <2>1, <3>1
    <3>4. r.told \cup {<<a, cause>>} \in SUBSET (Payers \X Kinds)
      BY <3>1, <3>3, Zenon
    <3> HIDE DEF e
    <3> QED
      BY <1>3, <2>1, <3>2, <3>4, FieldSet, Zenon DEF e
  <2>3. /\ Carried(r, q) /\ q.account = a /\ <<a, cause>> \in q.told
        /\ q.at = r.at /\ q.model = r.model /\ q.region = r.region /\ q.shown = r.shown
    BY <1>3, <1>4 DEF Requests, Carried
  <2> HIDE DEF e, q
  <2>4. Kept(journey, q) /\ Heard(q, e)
    BY <1>5, <2>1, <2>2, <2>3, CarriedKept DEF Heard
  <2>5. LET x == handleAccountFailureForModel(q, e) IN
          /\ Kept(journey, x) /\ x.at = q.at /\ x.model = q.model /\ x.region = q.region
          /\ x.shown = q.shown
    BY <2>1, <2>4, PenaltyKept
  <2> QED
    BY <1>4, <2>3, <2>5 DEF q, e
<1>7. CASE req' = CallKiroAPI(r)
  BY <1>1, <1>2, <1>4, <1>5, <1>7, CallKept DEF RequestInv
<1>8. ASSUME NEW cause \in {"plain: rejected", "plain: limited", "plain: transport"}, req' = failed(cause)
      PROVE  RequestInv'
  <2> HIDE DEF failed
  <2>1. Kept(journey, failed(cause)) /\ Placed(failed(cause))
    BY <1>6, SelectKept
  <2> QED
    BY <1>1, <1>2, <1>8, <2>1 DEF RequestInv
<1>9. CASE req' = [failed("plain: canceled") EXCEPT !.event = "gone"]
  <2> DEFINE x == failed("plain: canceled")
             q == [x EXCEPT !.event = "gone"]
  <2> HIDE DEF failed
  <2>1. /\ Kept(journey, x) /\ x.at = "select" /\ ~x.shown
        /\ x.model = RequestModel /\ x.region # "candidate"
    BY <1>6
  <2> HIDE DEF x
  <2>2. x \in Requests
    BY <2>1 DEF Kept
  <2>3. q \in Requests
    BY <2>2, FieldSet, Zenon
  <2>4. /\ Carried(x, q) /\ q.at = "select" /\ ~q.shown
        /\ q.model = RequestModel /\ q.region # "candidate"
    BY <2>1, <2>2 DEF Requests, Carried
  <2> HIDE DEF q
  <2>5. Kept(journey, q)
    BY <2>1, <2>3, <2>4, CarriedKept
  <2>6. Placed(q)
    BY <2>4, <2>5, SelectKept
  <2> QED
    BY <1>1, <1>2, <1>9, <2>5, <2>6 DEF RequestInv, q, x
<1> HIDE DEF failed
<1> QED
  BY <1>1, <1>7, <1>8, <1>9

LEMMA NoneFreeKept ==
  ASSUME RequestInv, NEW busy \in BOOLEAN, NoneFree(busy)
  PROVE  RequestInv'
<1> DEFINE r == [req EXCEPT !.attempts = @ + 1]
<1>1. /\ req.at = "select" /\ journey' = journey
      /\ req' = nextRound(r) \/ req' = GiveUp(r, busy)
  BY DEF NoneFree, Move
<1>2. /\ Kept(journey, req) /\ req \in Requests /\ journey \in Journeys
      /\ ~req.shown /\ req.model = RequestModel /\ req.region # "candidate"
  BY <1>1, Selecting
<1>3. r \in Requests
  <2>1. req.attempts + 1 \in Nat
    BY <1>2 DEF Requests
  <2> QED
    BY <1>2, <2>1, FieldSet, Zenon
<1>4. /\ Carried(req, r) /\ r.at = "select" /\ r.model = RequestModel
      /\ ~r.shown /\ r.region # "candidate"
  BY <1>1, <1>2 DEF Requests, Carried
<1> HIDE DEF r
<1>5. Kept(journey, r)
  BY <1>2, <1>3, <1>4, CarriedKept
<1>6. CASE req' = nextRound(r)
  <2> DEFINE q == nextRound(r)
  <2>1. q \in Requests
    <3>1. {} \in SUBSET Payers
      OBVIOUS
    <3> QED
      BY <1>3, <3>1, FieldSet, Zenon DEF nextRound
  <2>2. /\ Carried(r, q) /\ q.at = "select" /\ q.model = RequestModel
        /\ ~q.shown /\ q.region # "candidate"
    BY <1>3, <1>4 DEF Requests, Carried, nextRound
  <2> HIDE DEF q
  <2>3. Kept(journey, q)
    BY <1>5, <2>1, <2>2, CarriedKept
  <2>4. Placed(q)
    BY <2>2, <2>3, SelectKept
  <2> QED
    BY <1>1, <1>2, <1>6, <2>3, <2>4 DEF RequestInv, q
<1>7. CASE req' = GiveUp(r, busy)
  <2>1. Kept(journey, GiveUp(r, busy)) /\ Placed(GiveUp(r, busy))
    BY <1>4, <1>5, GiveUpKept
  <2> QED
    BY <1>1, <1>2, <1>7, <2>1 DEF RequestInv
<1> QED
  BY <1>1, <1>6, <1>7

LEMMA JudgeKept ==
  ASSUME RequestInv, Judge
  PROVE  RequestInv'
<1> DEFINE e == IF req.err.kind = "stream_truncated" /\ req.event = "gone"
                THEN PlainError("plain: canceled") ELSE req.err
           told == IF e = req.err THEN req.told ELSE req.told \cup {<<req.account, e.kind>>}
           failed == [req EXCEPT !.lastFailure = e, !.excluded = @ \cup {req.account}, !.told = told]
           r == IF e.kind = "stream_truncated" THEN failed ELSE handleAccountFailureForModel(failed, e)
           again == [req EXCEPT !.integrity = @ + 1]
<1>1. req.at = "judged" /\ journey' = journey
  BY DEF Judge, Move
<1>2. /\ Kept(journey, req) /\ req \in Requests /\ journey \in Journeys
      /\ req.model = RequestModel /\ req.region # "candidate" /\ Heard(req, req.err)
  BY <1>1 DEF RequestInv, Kept, Placed, Reported
<1>3. \/ req' = Finish(req, 200)
      \/ ~req.shown /\ req' = CallKiroAPI(again)
      \/ req' = Finish(r, mapDownstreamError(e))
      \/ req' = GiveUp(r, FALSE)
      \/ ~req.shown /\ req' = [r EXCEPT !.at = "select"]
  <2>1. req' = CASE e = Fine -> Finish(req, 200)
                 [] Replays -> CallKiroAPI(again)
                 [] req.shown -> Finish(r, mapDownstreamError(e))
                 [] ~e.accounts -> GiveUp(r, FALSE)
                 [] OTHER -> [r EXCEPT !.at = "select"]
    BY Zenon DEF Judge, Move
  <2>2. Replays => ~req.shown
    BY DEF Replays
  <2> DEFINE next == [r EXCEPT !.at = "select"]
             mapped == mapDownstreamError(e)
             quit == GiveUp(r, FALSE)
             fine == e = Fine
             replayed == Replays
             seen == req.shown
             mayGoOn == e.accounts
  <2>3. req' = CASE fine -> Finish(req, 200)
                 [] replayed -> CallKiroAPI(again)
                 [] seen -> Finish(r, mapped)
                 [] ~mayGoOn -> quit
                 [] OTHER -> next
    BY <2>1
  <2>4. replayed => ~seen
    BY <2>2
  <2> HIDE DEF e, told, failed, r, again, next, mapped, quit, fine, replayed, seen, mayGoOn
  <2>5. \/ req' = Finish(req, 200)
        \/ replayed /\ req' = CallKiroAPI(again)
        \/ req' = Finish(r, mapped)
        \/ req' = quit
        \/ ~seen /\ req' = next
    BY <2>3
  <2> QED
    BY <2>4, <2>5, Zenon DEF next, mapped, quit, seen
<1>4. e \in Errors /\ e.kind \in Kinds
  <2>1. PlainError("plain: canceled") \in Errors
    BY DEF PlainError, Failure, Errors, Kinds
  <2>2. e \in Errors
    BY <1>2, <2>1 DEF Requests
  <2> QED
    BY <2>2 DEF Errors
<1> HIDE DEF e
<1>5. failed \in Requests
  <2>1. req.account \in Payers /\ req.told \in SUBSET (Payers \X Kinds) /\ req.excluded \in SUBSET Payers
    BY <1>2 DEF Requests
  <2>2. <<req.account, e.kind>> \in Payers \X Kinds
    BY <1>4, <2>1
  <2>3. told \in SUBSET (Payers \X Kinds)
    <3>1. req.told \cup {<<req.account, e.kind>>} \in SUBSET (Payers \X Kinds)
      BY <2>1, <2>2, Zenon
    <3>2. CASE e = req.err
      BY <2>1, <3>2
    <3>3. CASE e # req.err
      BY <3>1, <3>3
    <3> QED
      BY <3>2, <3>3, Zenon
  <2>4. req.excluded \cup {req.account} \in SUBSET Payers
    BY <2>1
  <2> HIDE DEF told
  <2> QED
    BY <1>2, <1>4, <2>3, <2>4, FieldSet, Zenon
<1>6. /\ failed.budget = req.budget /\ failed.sent = req.sent /\ failed.empties = req.empties
      /\ failed.used = req.used /\ failed.hop = req.hop /\ failed.told = told
      /\ failed.penalties = req.penalties
      /\ failed.shown = req.shown /\ failed.shownAt = req.shownAt /\ failed.region = req.region
      /\ failed.model = req.model /\ failed.account = req.account
  BY <1>2 DEF Requests
<1>7. req.told \subseteq told /\ (Blameless(e.kind) \/ <<req.account, e.kind>> \in told)
  BY <1>2 DEF Heard
<1> HIDE DEF failed, told
<1>8. Kept(journey, failed) /\ Heard(failed, e)
  <2>1. Carried(req, failed)
    BY <1>6, <1>7 DEF Carried
  <2>2. Kept(journey, failed)
    BY <1>2, <1>5, <2>1, CarriedKept
  <2> QED
    BY <1>6, <1>7, <2>2 DEF Heard
<1>9. /\ Kept(journey, r) /\ r.model = RequestModel /\ r.region # "candidate" /\ r.shown = req.shown
  <2>1. LET x == handleAccountFailureForModel(failed, e) IN
          /\ Kept(journey, x) /\ x.model = failed.model /\ x.region = failed.region
          /\ x.shown = failed.shown
    BY <1>4, <1>8, PenaltyKept
  <2> QED
    BY <1>2, <1>6, <1>8, <2>1
<1> HIDE DEF r
<1>10. CASE req' = Finish(req, 200)
  BY <1>1, <1>2, <1>10, FinishKept DEF RequestInv
<1>11. CASE ~req.shown /\ req' = CallKiroAPI(again)
  <2>1. again \in Requests
    <3>1. req.integrity + 1 \in Nat
      BY <1>2 DEF Requests
    <3> QED
      BY <1>2, <3>1, FieldSet, Zenon
  <2>2. Carried(req, again)
    BY <1>2 DEF Requests, Carried
  <2> HIDE DEF again
  <2>3. Kept(journey, again) /\ ~again.shown
    BY <1>2, <1>11, <2>1, <2>2, CarriedKept DEF Carried
  <2> QED
    BY <1>1, <1>2, <1>11, <2>3, CallKept DEF RequestInv
<1>12. CASE req' = Finish(r, mapDownstreamError(e))
  BY <1>1, <1>2, <1>4, <1>9, <1>12, StatusShown, FinishKept DEF RequestInv
<1>13. CASE req' = GiveUp(r, FALSE)
  <2>1. Kept(journey, GiveUp(r, FALSE)) /\ Placed(GiveUp(r, FALSE))
    BY <1>9, GiveUpKept, Zenon
  <2> QED
    BY <1>1, <1>2, <1>13, <2>1 DEF RequestInv
<1>14. CASE ~req.shown /\ req' = [r EXCEPT !.at = "select"]
  <2> DEFINE q == [r EXCEPT !.at = "select"]
  <2>1. r \in Requests
    BY <1>9 DEF Kept
  <2>2. q \in Requests
    <3>1. "select" \in Places
      BY DEF Places
    <3> QED
      BY <2>1, <3>1, FieldSet, Zenon
  <2>3. /\ Carried(r, q) /\ q.at = "select" /\ q.model = RequestModel
        /\ ~q.shown /\ q.region # "candidate"
    BY <1>9, <1>14, <2>1 DEF Requests, Carried
  <2> HIDE DEF q
  <2>4. Kept(journey, q)
    BY <1>9, <2>2, <2>3, CarriedKept
  <2>5. Placed(q)
    BY <2>3, <2>4, SelectKept
  <2> QED
    BY <1>1, <1>2, <1>14, <2>4, <2>5 DEF RequestInv, q
<1> HIDE DEF again
<1> QED
  BY <1>3, <1>10, <1>11, <1>12, <1>13, <1>14

LEMMA NewKept ==
  ASSUME NEW j \in Journeys
  PROVE  Kept(j, NewRequest) /\ Placed(NewRequest)
<1>1. NewRequest \in Requests
  BY FineError DEF NewRequest, Requests, Places, Payers, Models
<1>2. Budgets(j, NewRequest)
  BY FailoverAssumption, FS_EmptySet DEF NewRequest, Budgets
<1>3. Explained(NewRequest) /\ Placed(NewRequest)
  BY DEF NewRequest, Explained, Placed
<1> QED
  BY <1>1, <1>2, <1>3 DEF Kept, NewRequest

-----------------------------------------------------------------------------
LEMMA RequestInitially == FailoverInit => RequestInv
BY NewKept DEF FailoverInit, RequestInv

LEMMA RequestNext == RequestInv /\ [FailoverNext]_failoverVars => RequestInv'
<1> SUFFICES ASSUME RequestInv, [FailoverNext]_failoverVars PROVE RequestInv'
  OBVIOUS
<1>a. journey \in Journeys
  BY DEF RequestInv
<1>b. /\ journey.events \subseteq {"late", "tired", "gone"}
      /\ \A h \in journey.http : h[1] \in Nat
      /\ \A s \in journey.streams : s.emitted \subseteq BOOLEAN
  BY <1>a, FailoverAssumption
<1>1. ASSUME NEW event \in journey.events, Disturbed(event) PROVE RequestInv'
  BY <1>1, <1>b, DisturbedKept
<1>2. CASE NoRouteForCall
  BY <1>2, NoRouteKept
<1>3. CASE SkipEndpoint
  BY <1>3, SkipKept
<1>4. CASE Dispatch
  BY <1>4, DispatchKept
<1>5. ASSUME NEW cause \in journey.transport, TransportFails(cause) PROVE RequestInv'
  BY <1>5, TransportKept
<1>6. ASSUME NEW h \in journey.http, HttpError(h[1], h[2]) PROVE RequestInv'
  BY <1>6, <1>b, HttpKept
<1>7. ASSUME NEW s \in journey.streams, NEW emitted \in s.emitted, StreamBreaks(s.cause, emitted)
      PROVE  RequestInv'
  <2>1. emitted \in BOOLEAN
    BY <1>7, <1>b
  <2> QED
    BY <1>7, <2>1, StreamKept
<1>8. CASE EmptyAnswer
  BY <1>8, EmptyKept
<1>9. CASE CallSucceeds
  BY <1>9, SucceedsKept
<1>10. CASE FallBack
  BY <1>10, FallBackKept
<1>11. CASE CallReturns
  BY <1>11, CallReturnsKept
<1>12. CASE NoAttemptLeft
  BY <1>12, NoAttemptKept
<1>13. ASSUME NEW a \in FailoverAccounts, Acquire(a) PROVE RequestInv'
  BY <1>13, AcquireKept
<1>14. ASSUME NEW busy \in BOOLEAN, NoneFree(busy) PROVE RequestInv'
  BY <1>14, NoneFreeKept
<1>15. CASE Judge
  BY <1>15, JudgeKept
<1>16. CASE NextRequest
  BY <1>16, <1>a, NewKept DEF NextRequest, Move, RequestInv
<1>17. CASE UNCHANGED failoverVars
  BY <1>17 DEF RequestInv, failoverVars
<1> QED
  BY <1>1, <1>2, <1>3, <1>4, <1>5, <1>6, <1>7, <1>8, <1>9, <1>10, <1>11, <1>12, <1>13, <1>14,
     <1>15, <1>16, <1>17 DEF FailoverNext

(* For any accounts, settings, answers, fallback rules and interruptions, the      *)
(* levels of retries keep the budgets of the request, nothing is sent after        *)
(* output, an account pays only for what it was heard to say, and the client       *)
(* is told the real failure (account_failover.go, model_fallback.go, kiro.go).     *)
THEOREM FailoverKept == FailoverSpec => []FailoverSafe
<1>1. RequestInv => FailoverSafe
  <2> SUFFICES ASSUME RequestInv PROVE FailoverSafe
    OBVIOUS
  <2>1. BudgetKept
    BY DEF RequestInv, Kept, Budgets, BudgetKept
  <2>2. NoReplay
    BY DEF RequestInv, Kept, Placed, NoReplay
  <2>3. PenaltiesExplained
    BY DEF RequestInv, Kept, Explained, PenaltiesExplained
  <2>4. TruthReported
    BY DEF RequestInv, Kept, Placed, Reported, TruthReported
  <2> QED
    BY <2>1, <2>2, <2>3, <2>4 DEF FailoverSafe
<1> QED
  BY <1>1, RequestInitially, RequestNext, PTL DEF FailoverSpec

-----------------------------------------------------------------------------
(* The gate before the first output.  What a list of items does to what    *)
(* the handler has got, by induction on the list.                          *)
ItemKinds == OutputKinds \cup {"usage", "notice", "complete"}
ItemType == [k : ItemKinds, first : Nat, last : Nat]
GotType == [last : Nat, kinds : SUBSET OutputKinds, complete : BOOLEAN, ordered : BOOLEAN, usage : Nat]

DeliverStep(r, s, f, j) == IF j = 0 THEN r ELSE Received(f[j - 1], s[j])
IsDelivery(r, s, f, n) == f = [j \in 0 .. n |-> DeliverStep(r, s, f, j)]
DeliveryFcn(r, s) == CHOOSE f : IsDelivery(r, s, f, Len(s))

LEMMA DeliveredDef ==
  ASSUME NEW r, NEW s
  PROVE  Delivered(r, s) = DeliveryFcn(r, s)[Len(s)]
BY DEF Delivered, DeliveryFcn, IsDelivery, DeliverStep

LEMMA DeliveryExists ==
  ASSUME NEW r, NEW X, NEW s \in Seq(X)
  PROVE  \A j \in 0 .. Len(s) : DeliveryFcn(r, s)[j] = DeliverStep(r, s, DeliveryFcn(r, s), j)
<1> DEFINE T == {n \in Nat : \E f : IsDelivery(r, s, f, n)}
<1>1. 0 \in T
  <2> DEFINE f == [j \in 0 .. 0 |-> r]
  <2>1. \A j \in 0 .. 0 : DeliverStep(r, s, f, j) = r
    BY DEF DeliverStep
  <2>2. f = [j \in 0 .. 0 |-> DeliverStep(r, s, f, j)]
    BY <2>1, Zenon
  <2> QED
    BY <2>2 DEF IsDelivery
<1>2. ASSUME NEW n \in Nat, n \in T PROVE n + 1 \in T
  <2>1. PICK f : f = [j \in 0 .. n |-> DeliverStep(r, s, f, j)]
    BY <1>2 DEF IsDelivery
  <2> DEFINE g == [j \in 0 .. n + 1 |-> DeliverStep(r, s, f, j)]
  <2>2. \A j \in 0 .. n : g[j] = f[j]
    <3>1. \A j \in 0 .. n : j \in 0 .. n + 1
      OBVIOUS
    <3>2. \A j \in 0 .. n : g[j] = DeliverStep(r, s, f, j)
      BY <3>1
    <3>3. \A j \in 0 .. n : f[j] = DeliverStep(r, s, f, j)
      BY <2>1
    <3> QED
      BY <3>2, <3>3
  <2>3. \A j \in 0 .. n + 1 : j # 0 => j - 1 \in 0 .. n
    OBVIOUS
  <2> HIDE DEF g
  <2>4. \A j \in 0 .. n + 1 : DeliverStep(r, s, f, j) = DeliverStep(r, s, g, j)
    BY <2>2, <2>3 DEF DeliverStep
  <2>5. g = [j \in 0 .. n + 1 |-> DeliverStep(r, s, g, j)]
    BY <2>4, Zenon DEF g
  <2> QED
    BY <2>5 DEF IsDelivery
<1>3. Nat \subseteq T
  <2> HIDE DEF T
  <2> QED
    BY <1>1, <1>2, NatSteps
<1>4. Len(s) \in Nat
  BY LenProperties
<1>5. \E f : IsDelivery(r, s, f, Len(s))
  BY <1>3, <1>4
<1>6. IsDelivery(r, s, DeliveryFcn(r, s), Len(s))
  BY <1>5, Zenon DEF DeliveryFcn
<1> QED
  BY <1>6 DEF IsDelivery

LEMMA DeliveredNothing == ASSUME NEW r PROVE Delivered(r, <<>>) = r
<1>1. <<>> \in Seq(Nat) /\ Len(<<>>) = 0
  BY EmptySeq
<1>2. DeliveryFcn(r, <<>>)[0] = DeliverStep(r, <<>>, DeliveryFcn(r, <<>>), 0)
  <2>1. \A j \in 0 .. Len(<<>>) : DeliveryFcn(r, <<>>)[j] = DeliverStep(r, <<>>, DeliveryFcn(r, <<>>), j)
    BY <1>1, DeliveryExists
  <2>2. 0 \in 0 .. Len(<<>>)
    BY <1>1
  <2> QED
    BY <2>1, <2>2
<1> QED
  BY <1>1, <1>2, DeliveredDef DEF DeliverStep

(* The last item is dispatched last. *)
LEMMA DeliveredLast ==
  ASSUME NEW r, NEW X, NEW s \in Seq(X), NEW i \in X
  PROVE  Delivered(r, Append(s, i)) = Received(Delivered(r, s), i)
<1> DEFINE t == Append(s, i)
           f == DeliveryFcn(r, s)
           g == DeliveryFcn(r, t)
           T == {n \in Nat : n \in 0 .. Len(s) => g[n] = f[n]}
<1>1. /\ t \in Seq(X) /\ Len(t) = Len(s) + 1 /\ t[Len(s) + 1] = i
      /\ \A j \in 1 .. Len(s) : t[j] = s[j]
  BY AppendProperties
<1>2. Len(s) \in Nat
  BY LenProperties
<1>3. \A j \in 0 .. Len(s) : f[j] = DeliverStep(r, s, f, j)
  BY DeliveryExists
<1>4. \A j \in 0 .. Len(s) + 1 : g[j] = DeliverStep(r, t, g, j)
  <2>1. \A j \in 0 .. Len(t) : g[j] = DeliverStep(r, t, g, j)
    BY <1>1, DeliveryExists
  <2> QED
    BY <1>1, <2>1
<1> HIDE DEF t, f, g
<1>5. 0 \in T
  <2>1. 0 \in 0 .. Len(s) /\ 0 \in 0 .. Len(s) + 1
    BY <1>2
  <2>2. f[0] = r /\ g[0] = r
    BY <1>3, <1>4, <2>1 DEF DeliverStep
  <2> QED
    BY <2>2
<1>6. ASSUME NEW n \in Nat, n \in T PROVE n + 1 \in T
  <2> SUFFICES ASSUME n + 1 \in 0 .. Len(s) PROVE g[n + 1] = f[n + 1]
    OBVIOUS
  <2>1. n \in 0 .. Len(s) /\ n + 1 \in 1 .. Len(s) /\ n + 1 \in 0 .. Len(s) + 1 /\ (n + 1) - 1 = n /\ n + 1 # 0
    BY <1>2
  <2>2. f[n + 1] = Received(f[n], s[n + 1])
    BY <1>3, <2>1 DEF DeliverStep
  <2>3. g[n + 1] = Received(g[n], t[n + 1])
    BY <1>4, <2>1 DEF DeliverStep
  <2>4. g[n] = f[n] /\ t[n + 1] = s[n + 1]
    BY <1>1, <1>6, <2>1
  <2> QED
    BY <2>2, <2>3, <2>4
<1>7. Nat \subseteq T
  <2> HIDE DEF T
  <2> QED
    BY <1>5, <1>6, NatSteps
<1>8. g[Len(s)] = f[Len(s)]
  <2>1. Len(s) \in 0 .. Len(s)
    BY <1>2
  <2> QED
    BY <1>2, <1>7, <2>1
<1>9. g[Len(s) + 1] = Received(g[Len(s)], i)
  <2>1. Len(s) + 1 \in 0 .. Len(s) + 1 /\ (Len(s) + 1) - 1 = Len(s) /\ Len(s) + 1 # 0
    BY <1>2
  <2> QED
    BY <1>1, <1>4, <2>1 DEF DeliverStep
<1>10. Delivered(r, t) = g[Len(s) + 1] /\ Delivered(r, s) = f[Len(s)]
  BY <1>1, DeliveredDef DEF f, g
<1> QED
  BY <1>8, <1>9, <1>10 DEF t

LEMMA DeliveredOne ==
  ASSUME NEW r, NEW i
  PROVE  Delivered(r, <<i>>) = Received(r, i)
<1>1. <<>> \in Seq({i}) /\ Append(<<>>, i) = <<i>>
  BY EmptySeq
<1>2. Delivered(r, Append(<<>>, i)) = Received(Delivered(r, <<>>), i)
  BY <1>1, DeliveredLast
<1> QED
  BY <1>1, <1>2, DeliveredNothing

LEMMA ReceivedTypes ==
  ASSUME NEW r \in GotType, NEW i \in ItemType
  PROVE  /\ Received(r, i) \in GotType
         /\ Received(r, i).kinds = r.kinds \cup ({i.k} \cap OutputKinds)
         /\ Received(r, i).complete = (r.complete \/ i.k = "complete")
         /\ Received(r, i).ordered = (r.ordered /\ (i.k \in OutputKinds => i.first = r.last + 1 /\ ~r.complete))
         /\ Received(r, i).last = IF i.k \in OutputKinds THEN i.last ELSE r.last
         /\ Received(r, i).usage = IF i.k = "usage" THEN i.last ELSE r.usage
<1>1. /\ r.last \in Nat /\ r.kinds \in SUBSET OutputKinds /\ r.complete \in BOOLEAN
      /\ r.ordered \in BOOLEAN /\ r.usage \in Nat
      /\ i.k \in ItemKinds /\ i.first \in Nat /\ i.last \in Nat
      /\ r = [last |-> r.last, kinds |-> r.kinds, complete |-> r.complete,
              ordered |-> r.ordered, usage |-> r.usage]
  BY DEF GotType, ItemType
<1>2. CASE i.k \in OutputKinds
  <2>1. i.k \notin {"usage", "complete"}
    BY <1>2 DEF OutputKinds
  <2> DEFINE q == [last |-> i.last, kinds |-> r.kinds \cup {i.k}, complete |-> r.complete,
                   ordered |-> r.ordered /\ i.first = r.last + 1 /\ ~r.complete, usage |-> r.usage]
  <2>2. Received(r, i) = q
    <3>1. Received(r, i) = [r EXCEPT !.last = i.last, !.kinds = @ \cup {i.k},
                                     !.ordered = @ /\ i.first = r.last + 1 /\ ~r.complete]
      BY <1>2, <2>1 DEF Received
    <3> QED
      BY <1>1, <3>1
  <2>3. q.complete = (r.complete \/ i.k = "complete")
    BY <1>1, <2>1
  <2>4. q.ordered = (r.ordered /\ (i.k \in OutputKinds => i.first = r.last + 1 /\ ~r.complete))
    BY <1>2
  <2>5. q \in GotType /\ q.kinds = r.kinds \cup ({i.k} \cap OutputKinds)
    BY <1>1, <1>2 DEF GotType
  <2>6. q.last = i.last /\ q.usage = r.usage
    OBVIOUS
  <2> HIDE DEF q
  <2> QED
    BY <1>2, <2>1, <2>2, <2>3, <2>4, <2>5, <2>6
<1>3. CASE i.k = "complete"
  <2>1. i.k \notin OutputKinds /\ i.k # "usage"
    BY <1>3 DEF OutputKinds
  <2> DEFINE q == [last |-> r.last, kinds |-> r.kinds, complete |-> TRUE,
                   ordered |-> r.ordered, usage |-> r.usage]
  <2>2. Received(r, i) = q
    <3>1. Received(r, i) = [r EXCEPT !.complete = TRUE]
      BY <1>3, <2>1 DEF Received
    <3> QED
      BY <1>1, <3>1
  <2>3. q.complete = (r.complete \/ i.k = "complete")
    BY <1>1, <1>3
  <2>4. q.ordered = (r.ordered /\ (i.k \in OutputKinds => i.first = r.last + 1 /\ ~r.complete))
    BY <1>1, <2>1
  <2>5. q \in GotType /\ q.kinds = r.kinds \cup ({i.k} \cap OutputKinds)
    BY <1>1, <2>1 DEF GotType
  <2>6. q.last = r.last /\ q.usage = r.usage
    OBVIOUS
  <2> HIDE DEF q
  <2> QED
    BY <2>1, <2>2, <2>3, <2>4, <2>5, <2>6
<1>4. CASE i.k = "usage"
  <2>1. i.k \notin OutputKinds /\ i.k # "complete"
    BY <1>4 DEF OutputKinds
  <2> DEFINE q == [last |-> r.last, kinds |-> r.kinds, complete |-> r.complete,
                   ordered |-> r.ordered, usage |-> i.last]
  <2>2. Received(r, i) = q
    <3>1. Received(r, i) = [r EXCEPT !.usage = i.last]
      BY <1>4, <2>1 DEF Received
    <3> QED
      BY <1>1, <3>1
  <2>3. q.complete = (r.complete \/ i.k = "complete")
    BY <1>1, <2>1
  <2>4. q.ordered = (r.ordered /\ (i.k \in OutputKinds => i.first = r.last + 1 /\ ~r.complete))
    BY <1>1, <2>1
  <2>5. q \in GotType /\ q.kinds = r.kinds \cup ({i.k} \cap OutputKinds)
    BY <1>1, <2>1 DEF GotType
  <2>6. q.last = r.last /\ q.usage = i.last
    OBVIOUS
  <2> HIDE DEF q
  <2> QED
    BY <1>4, <2>1, <2>2, <2>3, <2>4, <2>5, <2>6
<1>5. CASE i.k = "notice"
  <2>1. i.k \notin OutputKinds /\ i.k \notin {"complete", "usage"}
    BY <1>5 DEF OutputKinds
  <2>2. Received(r, i) = r
    BY <2>1 DEF Received
  <2>3. r.complete = (r.complete \/ i.k = "complete")
    BY <1>1, <2>1
  <2>4. r.ordered = (r.ordered /\ (i.k \in OutputKinds => i.first = r.last + 1 /\ ~r.complete))
    BY <1>1, <2>1
  <2>5. r.kinds = r.kinds \cup ({i.k} \cap OutputKinds)
    BY <1>1, <2>1
  <2> QED
    BY <2>1, <2>2, <2>3, <2>4, <2>5
<1> QED
  BY <1>1, <1>2, <1>3, <1>4, <1>5 DEF ItemKinds

KindsIn(s) == {s[j].k : j \in 1 .. Len(s)}

LEMMA KindsInLast ==
  ASSUME NEW s \in Seq(ItemType), NEW i \in ItemType
  PROVE  KindsIn(Append(s, i)) = KindsIn(s) \cup {i.k} /\ KindsIn(<<>>) = {}
<1>1. /\ Len(Append(s, i)) = Len(s) + 1 /\ Append(s, i)[Len(s) + 1] = i
      /\ \A j \in 1 .. Len(s) : Append(s, i)[j] = s[j]
  BY AppendProperties
<1>2. Len(s) \in Nat /\ Len(<<>>) = 0
  BY LenProperties, EmptySeq
<1>3. \A j \in 1 .. Len(s) + 1 : j \in 1 .. Len(s) \/ j = Len(s) + 1
  BY <1>2
<1>4. \A j \in 1 .. Len(s) : j \in 1 .. Len(s) + 1
  BY <1>2
<1>5. Len(s) + 1 \in 1 .. Len(s) + 1 /\ 1 .. Len(<<>>) = {}
  BY <1>2
<1> QED
  BY <1>1, <1>3, <1>4, <1>5 DEF KindsIn

Silent(s) == KindsIn(s) \cap (OutputKinds \cup {"complete"}) = {}

(* What the items of a list leave of what was got before. *)
LEMMA DeliveredParts ==
  ASSUME NEW r \in GotType, NEW s \in Seq(ItemType)
  PROVE  /\ Delivered(r, s) \in GotType
         /\ Delivered(r, s).kinds = r.kinds \cup (KindsIn(s) \cap OutputKinds)
         /\ Silent(s) =>
              /\ Delivered(r, s).last = r.last
              /\ Delivered(r, s).complete = r.complete
              /\ Delivered(r, s).ordered = r.ordered
              /\ \A q \in GotType : q.usage = r.usage => Delivered(q, s).usage = Delivered(r, s).usage
<1> DEFINE Ok(l) ==
             /\ Delivered(r, l) \in GotType
             /\ Delivered(r, l).kinds = r.kinds \cup (KindsIn(l) \cap OutputKinds)
             /\ Silent(l) =>
                  /\ Delivered(r, l).last = r.last
                  /\ Delivered(r, l).complete = r.complete
                  /\ Delivered(r, l).ordered = r.ordered
                  /\ \A q \in GotType : /\ Delivered(q, l) \in GotType
                                        /\ q.usage = r.usage => Delivered(q, l).usage = Delivered(r, l).usage
           T == {n \in Nat : \A l \in Seq(ItemType) : Len(l) = n => Ok(l)}
<1>1. Ok(<<>>)
  <2>1. KindsIn(<<>>) = {}
    BY EmptySeq DEF KindsIn
  <2>2. \A q : Delivered(q, <<>>) = q
    BY DeliveredNothing
  <2>3. r.kinds = r.kinds \cup (KindsIn(<<>>) \cap OutputKinds)
    BY <2>1
  <2> QED
    BY <2>2, <2>3
<1>2. 0 \in T
  <2>1. \A l \in Seq(ItemType) : Len(l) = 0 => l = <<>>
    BY EmptySeq
  <2> HIDE DEF Ok
  <2> QED
    BY <1>1, <2>1
<1>3. ASSUME NEW n \in Nat, n \in T PROVE n + 1 \in T
  <2> SUFFICES ASSUME NEW l \in Seq(ItemType), Len(l) = n + 1 PROVE Ok(l)
    BY DEF T
  <2>1. l # <<>>
    BY EmptySeq
  <2>2. PICK t \in Seq(ItemType), x \in ItemType : l = Append(t, x)
    BY <2>1, SequenceEmptyOrAppend
  <2>3. Len(t) = n
    BY <2>2, AppendProperties, LenProperties
  <2>4. Ok(t)
    <3> HIDE DEF Ok
    <3> QED
      BY <1>3, <2>3
  <2>5. KindsIn(l) = KindsIn(t) \cup {x.k}
    BY <2>2, KindsInLast
  <2> DEFINE d == Delivered(r, t)
  <2>6. Delivered(r, l) = Received(d, x)
    BY <2>2, DeliveredLast
  <2>7. d \in GotType
    BY <2>4
  <2> HIDE DEF d
  <2>12. /\ Received(d, x) \in GotType
         /\ Received(d, x).kinds = d.kinds \cup ({x.k} \cap OutputKinds)
         /\ Received(d, x).complete = (d.complete \/ x.k = "complete")
         /\ Received(d, x).last = IF x.k \in OutputKinds THEN x.last ELSE d.last
         /\ Received(d, x).usage = IF x.k = "usage" THEN x.last ELSE d.usage
    BY <2>7, ReceivedTypes
  <2>13. Received(d, x).ordered = (d.ordered /\ (x.k \in OutputKinds => x.first = d.last + 1 /\ ~d.complete))
    BY <2>7, ReceivedTypes
  <2>8. Delivered(r, l) \in GotType
    BY <2>6, <2>12
  <2>9. Delivered(r, l).kinds = r.kinds \cup (KindsIn(l) \cap OutputKinds)
    <3>1. d.kinds = r.kinds \cup (KindsIn(t) \cap OutputKinds)
      BY <2>4 DEF d
    <3> QED
      BY <2>5, <2>6, <2>12, <3>1
  <2>10. ASSUME Silent(l)
         PROVE  /\ Delivered(r, l).last = r.last
                /\ Delivered(r, l).complete = r.complete
                /\ Delivered(r, l).ordered = r.ordered
                /\ \A q \in GotType : /\ Delivered(q, l) \in GotType
                                      /\ q.usage = r.usage => Delivered(q, l).usage = Delivered(r, l).usage
    <3>1. Silent(t) /\ x.k \notin OutputKinds /\ x.k # "complete"
      BY <2>5, <2>10 DEF Silent
    <3>2. d.last = r.last /\ d.complete = r.complete /\ d.ordered = r.ordered
      BY <2>4, <3>1 DEF d
    <3>7. d.complete \in BOOLEAN /\ d.ordered \in BOOLEAN
      BY <2>7 DEF GotType
    <3>3. Delivered(r, l).last = d.last
      BY <2>6, <2>12, <3>1
    <3>4. Delivered(r, l).complete = d.complete
      BY <2>6, <2>12, <3>1, <3>7
    <3>5. Delivered(r, l).ordered = d.ordered
      BY <2>6, <2>13, <3>1, <3>7
    <3>6. ASSUME NEW q \in GotType
          PROVE  /\ Delivered(q, l) \in GotType
                 /\ q.usage = r.usage => Delivered(q, l).usage = Delivered(r, l).usage
      <4> DEFINE e == Delivered(q, t)
      <4>1. e \in GotType /\ (q.usage = r.usage => e.usage = d.usage)
        BY <2>4, <3>1 DEF d
      <4>2. Delivered(q, l) = Received(e, x)
        BY <2>2, DeliveredLast
      <4> HIDE DEF e
      <4>3. /\ Received(e, x) \in GotType
            /\ Received(e, x).usage = IF x.k = "usage" THEN x.last ELSE e.usage
        BY <4>1, ReceivedTypes
      <4> QED
        BY <2>6, <2>12, <4>1, <4>2, <4>3
    <3> QED
      BY <3>2, <3>3, <3>4, <3>5, <3>6
  <2> QED
    BY <2>8, <2>9, <2>10
<1>4. Nat \subseteq T
  <2> HIDE DEF T
  <2> QED
    BY <1>2, <1>3, NatSteps
<1>5. Ok(s)
  <2>1. Len(s) \in Nat
    BY LenProperties
  <2> HIDE DEF Ok
  <2> QED
    BY <1>4, <2>1
<1> QED
  BY <1>5

(* An item that is kept, merged with the one before it or not, does what   *)
(* it would do by itself.                                                  *)
LEMMA AppendPending ==
  ASSUME NEW r \in GotType, NEW s \in Seq(ItemType), NEW i \in ItemType
  PROVE  /\ appendPending(s, i) \in Seq(ItemType)
         /\ KindsIn(appendPending(s, i)) = KindsIn(s) \cup {i.k}
         /\ Delivered(r, appendPending(s, i)).complete = (Delivered(r, s).complete \/ i.k = "complete")
         /\ Delivered(r, appendPending(s, i)).last = IF i.k \in OutputKinds THEN i.last ELSE Delivered(r, s).last
         /\ Delivered(r, appendPending(s, i)).usage = IF i.k = "usage" THEN i.last ELSE Delivered(r, s).usage
         /\ (/\ Delivered(r, s).ordered
             /\ i.k \in OutputKinds => i.first = Delivered(r, s).last + 1 /\ ~Delivered(r, s).complete)
            => Delivered(r, appendPending(s, i)).ordered
<1> DEFINE a == appendPending(s, i)
<1>1. CASE s # <<>> /\ s[Len(s)].k = i.k /\ i.k \in {"text", "thinking", "usage"}
  <2>1. PICK t \in Seq(ItemType), x \in ItemType : s = Append(t, x)
    BY <1>1, SequenceEmptyOrAppend
  <2> DEFINE y == [x EXCEPT !.last = i.last]
  <2>2. /\ Len(s) = Len(t) + 1 /\ s[Len(s)] = x /\ Len(t) \in Nat
        /\ \A j \in 1 .. Len(t) : s[j] = t[j]
    BY <2>1, AppendProperties, LenProperties
  <2>3. y \in ItemType /\ y.k = x.k /\ y.first = x.first /\ y.last = i.last /\ x.k = i.k
    BY <1>1, <2>2 DEF ItemType
  <2>4. a = [s EXCEPT ![Len(s)] = y]
    BY <1>1, <2>2 DEF appendPending
  <2> HIDE DEF y, a
  <2>5. a = Append(t, y)
    <3>1. Len(s) \in 1 .. Len(s)
      BY <2>2
    <3>2. /\ a \in Seq(ItemType) /\ Len(a) = Len(s)
          /\ \A j \in 1 .. Len(s) : a[j] = IF j = Len(s) THEN y ELSE s[j]
      BY <2>3, <2>4, <3>1, ExceptSeq
    <3>3. /\ Append(t, y) \in Seq(ItemType) /\ Len(Append(t, y)) = Len(s)
          /\ \A j \in 1 .. Len(t) : Append(t, y)[j] = t[j]
          /\ Append(t, y)[Len(s)] = y
      BY <2>2, <2>3, AppendProperties
    <3>4. ASSUME NEW j \in 1 .. Len(s) PROVE a[j] = Append(t, y)[j]
      <4>1. j = Len(s) \/ (j # Len(s) /\ j \in 1 .. Len(t))
        BY <2>2
      <4> QED
        BY <2>2, <3>2, <3>3, <4>1
    <3> QED
      BY <3>2, <3>3, <3>4, SeqEqual
  <2> DEFINE e == Delivered(r, t)
  <2>6. e \in GotType
    BY DeliveredParts
  <2>7. Delivered(r, a) = Received(e, y) /\ Delivered(r, s) = Received(e, x)
    BY <2>1, <2>3, <2>5, DeliveredLast
  <2> HIDE DEF e
  <2>8. a \in Seq(ItemType) /\ KindsIn(a) = KindsIn(s) \cup {i.k}
    <3>1. KindsIn(a) = KindsIn(t) \cup {y.k} /\ KindsIn(s) = KindsIn(t) \cup {x.k}
      BY <2>1, <2>3, <2>5, KindsInLast
    <3>2. a \in Seq(ItemType)
      BY <2>3, <2>5, AppendProperties
    <3> QED
      BY <2>3, <3>1, <3>2
  <2>9. i.k # "complete"
    BY <1>1
  <2>10. Delivered(r, a).complete = (Delivered(r, s).complete \/ i.k = "complete")
    <3>1. Received(e, y).complete = (e.complete \/ y.k = "complete")
      BY <2>3, <2>6, ReceivedTypes
    <3>2. Received(e, x).complete = (e.complete \/ x.k = "complete")
      BY <2>6, ReceivedTypes
    <3> QED
      BY <2>3, <2>7, <2>9, <3>1, <3>2
  <2>11. Delivered(r, a).last = IF i.k \in OutputKinds THEN i.last ELSE Delivered(r, s).last
    <3>1. Received(e, y).last = IF y.k \in OutputKinds THEN y.last ELSE e.last
      BY <2>3, <2>6, ReceivedTypes
    <3>2. Received(e, x).last = IF x.k \in OutputKinds THEN x.last ELSE e.last
      BY <2>6, ReceivedTypes
    <3> QED
      BY <2>3, <2>7, <3>1, <3>2
  <2>12. Delivered(r, a).usage = IF i.k = "usage" THEN i.last ELSE Delivered(r, s).usage
    <3>1. Received(e, y).usage = IF y.k = "usage" THEN y.last ELSE e.usage
      BY <2>3, <2>6, ReceivedTypes
    <3>2. Received(e, x).usage = IF x.k = "usage" THEN x.last ELSE e.usage
      BY <2>6, ReceivedTypes
    <3> QED
      BY <2>3, <2>7, <3>1, <3>2
  <2>13. Delivered(r, a).ordered = Delivered(r, s).ordered
    <3>1. Received(e, y).ordered = (e.ordered /\ (y.k \in OutputKinds => y.first = e.last + 1 /\ ~e.complete))
      BY <2>3, <2>6, ReceivedTypes
    <3>2. Received(e, x).ordered = (e.ordered /\ (x.k \in OutputKinds => x.first = e.last + 1 /\ ~e.complete))
      BY <2>6, ReceivedTypes
    <3> QED
      BY <2>3, <2>7, <3>1, <3>2
  <2> QED
    BY <2>8, <2>10, <2>11, <2>12, <2>13 DEF a
<1>2. CASE ~(s # <<>> /\ s[Len(s)].k = i.k /\ i.k \in {"text", "thinking", "usage"})
  <2> DEFINE d == Delivered(r, s)
  <2>1. a = Append(s, i)
    BY <1>2 DEF appendPending
  <2>2. a \in Seq(ItemType) /\ KindsIn(a) = KindsIn(s) \cup {i.k}
    BY <2>1, AppendProperties, KindsInLast
  <2>3. d \in GotType
    BY DeliveredParts
  <2>4. Delivered(r, a) = Received(d, i)
    BY <2>1, DeliveredLast
  <2> HIDE DEF d, a
  <2>5. /\ Received(d, i).complete = (d.complete \/ i.k = "complete")
        /\ Received(d, i).last = IF i.k \in OutputKinds THEN i.last ELSE d.last
        /\ Received(d, i).usage = IF i.k = "usage" THEN i.last ELSE d.usage
    BY <2>3, ReceivedTypes
  <2>6. Received(d, i).ordered = (d.ordered /\ (i.k \in OutputKinds => i.first = d.last + 1 /\ ~d.complete))
    BY <2>3, ReceivedTypes
  <2> QED
    BY <2>2, <2>4, <2>5, <2>6 DEF a, d
<1> QED
  BY <1>1, <1>2

-----------------------------------------------------------------------------
(* The invariant.  What is held will be told in order and without a gap:   *)
(* that is said of what the handler would have got if everything held were *)
(* delivered now.                                                          *)
GateFlags == [strict : BOOLEAN, require : BOOLEAN, defer : BOOLEAN, precommit : BOOLEAN,
              frames : BOOLEAN, allow : BOOLEAN, blank : BOOLEAN]
GateType ==
  [committed : BOOLEAN, activity : BOOLEAN, actionable : BOOLEAN, invalid : BOOLEAN,
   emitted : BOOLEAN, pending : Seq(ItemType), lead : SUBSET {"text", "thinking"},
   words : SUBSET {"word", "preamble", "punct"}, open : BOOLEAN, n : Nat, usages : Nat, noticed : BOOLEAN]

(* q is the request, s the stage, t the tool, g the gate, r what was got. *)
GateTypes(q, s, t, g, r) ==
  /\ q \in GateFlags /\ s \in {"running", "ended"} /\ t \in {"none", "started", "stopped"}
  /\ g \in GateType /\ r \in GotType

HeldBack(q, s, g) ==
  /\ g.committed <=> (q.strict /\ g.actionable)
  /\ (~q.strict \/ g.committed) => g.pending = <<>>
  /\ KindsIn(g.pending) \cap {"use", "start", "delta", "stop"} = {}
  /\ "complete" \in KindsIn(g.pending) => s = "ended"
  /\ q.precommit /\ "thinking" \in KindsIn(g.pending) => "text" \in KindsIn(g.pending)

ToBeGot(s, g, d) ==
  d.ordered /\ d.last = g.n /\ d.usage = g.usages /\ (s = "running" => ~d.complete)

ShownFor(q, g, r) ==
  /\ r.ordered
  /\ ~g.actionable => r.kinds \subseteq (IF q.precommit THEN {"thinking"} ELSE {})
  /\ (q.strict /\ ~g.actionable) => ~r.complete
  /\ g.emitted <=> r.kinds # {}

Promised(q, g, r) ==
  g.committed =>
    \/ r.kinds \cap {"use", "start", "delta"} # {}
    \/ /\ q.require => q.allow
       /\ q.defer => r.complete /\ "preamble" \notin g.words

ToolShown(q, t, g) == q.frames /\ t # "none" => g.actionable

GateOk(q, s, t, g, r) ==
  /\ GateTypes(q, s, t, g, r) /\ HeldBack(q, s, g) /\ ToBeGot(s, g, Delivered(r, g.pending))
  /\ ShownFor(q, g, r) /\ Promised(q, g, r) /\ ToolShown(q, t, g)

GateInv == GateOk(kind, stage, tools, gate, got)

(* An event: its number, and what may come when. *)
Numbered(g, h, i, k) ==
  /\ i \in ItemType /\ i.k = k
  /\ k \in OutputKinds => i.first = g.n + 1 /\ i.last = g.n + 1
  /\ h.n = IF k \in OutputKinds THEN g.n + 1 ELSE g.n
  /\ k = "usage" => i.last = g.usages + 1
  /\ h.usages = IF k = "usage" THEN g.usages + 1 ELSE g.usages

Comes(q, t, k, s2, t2) ==
  /\ k \in ItemKinds
  /\ s2 = IF k = "complete" THEN "ended" ELSE "running"
  /\ k \in {"start", "delta", "stop"} => q.frames
  /\ k = "stop" => t # "none"
  /\ t2 \in {"none", "started", "stopped"} /\ (t2 # "none" => t # "none" \/ k = "start")

LEMMA PendingKinds ==
  ASSUME NEW g \in GateType
  PROVE  g.pending \in Seq(ItemType) /\ KindsIn(g.pending) \subseteq ItemKinds
<1>1. g.pending \in Seq(ItemType)
  BY DEF GateType
<1>2. \A j \in 1 .. Len(g.pending) : g.pending[j] \in ItemType
  BY <1>1, ElementOfSeq
<1> QED
  BY <1>1, <1>2 DEF KindsIn, ItemType

(* An event that goes straight to the handler, because nothing is held back *)
(* from it.                                                                *)
LEMMA PassedOn ==
  ASSUME NEW q, NEW t, NEW g, NEW r, GateOk(q, "running", t, g, r),
         NEW k, NEW s2, NEW t2, Comes(q, t, k, s2, t2),
         NEW h \in GateType, NEW i, Numbered(g, h, i, k),
         ~q.strict \/ g.committed,
         h.pending = g.pending, h.words = g.words, h.committed = g.committed,
         h.emitted = (g.emitted \/ k \in OutputKinds),
         h.actionable = (g.actionable \/ (~q.strict /\ k \in {"text", "thinking", "use", "start", "delta"}))
  PROVE  GateOk(q, s2, t2, h, Received(r, i))
<1> DEFINE u == Received(r, i)
<1>1. /\ q \in GateFlags /\ g \in GateType /\ r \in GotType /\ i \in ItemType /\ i.k = k
      /\ t \in {"none", "started", "stopped"}
  BY DEF GateOk, GateTypes, Numbered
<1>2. /\ g.n \in Nat /\ g.usages \in Nat /\ g.actionable \in BOOLEAN /\ g.committed \in BOOLEAN
      /\ g.emitted \in BOOLEAN /\ h.n \in Nat
      /\ q.strict \in BOOLEAN /\ q.frames \in BOOLEAN /\ q.precommit \in BOOLEAN
      /\ r.kinds \in SUBSET OutputKinds /\ r.complete \in BOOLEAN /\ r.ordered \in BOOLEAN
  BY <1>1 DEF GateFlags, GateType, GotType
<1>3. /\ g.pending = <<>> /\ Delivered(r, g.pending) = r
      /\ r.ordered /\ r.last = g.n /\ r.usage = g.usages /\ ~r.complete
  <2>1. g.pending = <<>>
    BY DEF GateOk, HeldBack
  <2>2. Delivered(r, g.pending) = r
    BY <2>1, DeliveredNothing
  <2>3. ToBeGot("running", g, Delivered(r, g.pending))
    BY DEF GateOk
  <2> QED
    BY <2>1, <2>2, <2>3 DEF ToBeGot
<1>4. /\ u \in GotType
      /\ u.kinds = r.kinds \cup ({k} \cap OutputKinds)
      /\ u.complete = (r.complete \/ k = "complete")
      /\ u.last = IF k \in OutputKinds THEN i.last ELSE r.last
      /\ u.usage = IF k = "usage" THEN i.last ELSE r.usage
  BY <1>1, ReceivedTypes
<1>5. u.ordered = (r.ordered /\ (k \in OutputKinds => i.first = r.last + 1 /\ ~r.complete))
  BY <1>1, ReceivedTypes
<1> HIDE DEF u
<1>6. u.ordered
  BY <1>3, <1>5 DEF Numbered
<1>7. GateTypes(q, s2, t2, h, u)
  BY <1>1, <1>4 DEF Comes, GateTypes
<1>8. HeldBack(q, s2, h)
  <2>1. KindsIn(h.pending) = {}
    BY <1>3, EmptySeq DEF KindsIn
  <2>2. g.committed <=> (q.strict /\ g.actionable)
    BY DEF GateOk, HeldBack
  <2>3. h.committed <=> (q.strict /\ h.actionable)
    BY <1>2, <2>2
  <2> QED
    BY <1>3, <2>1, <2>3 DEF HeldBack
<1>9. ToBeGot(s2, h, Delivered(u, h.pending))
  <2>1. Delivered(u, h.pending) = u
    BY <1>3, DeliveredNothing
  <2>2. u.last = h.n /\ u.usage = h.usages
    BY <1>3, <1>4 DEF Numbered, OutputKinds
  <2>3. s2 = "running" => ~u.complete
    BY <1>3, <1>4 DEF Comes
  <2> QED
    BY <1>6, <2>1, <2>2, <2>3 DEF ToBeGot
<1>10. ShownFor(q, h, u)
  <2>1. /\ ~g.actionable => r.kinds \subseteq (IF q.precommit THEN {"thinking"} ELSE {})
        /\ (q.strict /\ ~g.actionable) => ~r.complete
        /\ g.emitted <=> r.kinds # {}
        /\ g.committed <=> (q.strict /\ g.actionable)
        /\ q.frames /\ t # "none" => g.actionable
    BY DEF GateOk, ShownFor, HeldBack, ToolShown
  <2>2. ~h.actionable => ~g.actionable /\ ~q.strict /\ k \notin OutputKinds
    <3>1. k = "stop" => g.actionable
      BY <2>1 DEF Comes
    <3> QED
      BY <1>2, <2>1, <3>1 DEF OutputKinds
  <2>3. ~h.actionable => u.kinds \subseteq (IF q.precommit THEN {"thinking"} ELSE {})
    BY <1>4, <2>1, <2>2
  <2>4. h.emitted <=> u.kinds # {}
    BY <1>2, <1>4, <2>1
  <2> QED
    BY <1>6, <2>2, <2>3, <2>4 DEF ShownFor
<1>11. Promised(q, h, u)
  <2>1. r.kinds \subseteq u.kinds /\ (r.complete => u.complete)
    BY <1>2, <1>4
  <2> QED
    BY <2>1 DEF GateOk, Promised
<1>12. ToolShown(q, t2, h)
  <2>1. q.frames /\ t # "none" => g.actionable
    BY DEF GateOk, ToolShown
  <2>2. k = "start" => h.actionable
    <3>1. g.committed => g.actionable
      BY DEF GateOk, HeldBack
    <3> QED
      BY <1>2, <3>1
  <2> QED
    BY <1>2, <2>1, <2>2 DEF Comes, ToolShown
<1> QED
  BY <1>7, <1>8, <1>9, <1>10, <1>11, <1>12 DEF GateOk, u

(* Thinking that is shown at once, while nothing visible is held back. *)
LEMMA ShownEarly ==
  ASSUME NEW q, NEW t, NEW g, NEW r, GateOk(q, "running", t, g, r),
         NEW h \in GateType, NEW i, Numbered(g, h, i, "thinking"),
         q.strict, q.precommit, ~g.committed, KindsIn(g.pending) \cap {"use", "text"} = {},
         h.pending = g.pending, h.words = g.words, h.committed = g.committed,
         h.emitted = TRUE, h.actionable = g.actionable
  PROVE  GateOk(q, "running", t, h, Received(r, i))
<1> DEFINE u == Received(r, i)
           p == g.pending
           d == Delivered(r, p)
           e == Delivered(u, p)
<1>1. /\ q \in GateFlags /\ g \in GateType /\ r \in GotType /\ i \in ItemType /\ i.k = "thinking"
      /\ t \in {"none", "started", "stopped"}
  BY DEF GateOk, GateTypes, Numbered
<1>2. /\ g.n \in Nat /\ g.usages \in Nat /\ g.actionable \in BOOLEAN /\ g.committed \in BOOLEAN
      /\ r.kinds \in SUBSET OutputKinds /\ r.complete \in BOOLEAN /\ r.ordered \in BOOLEAN
  BY <1>1 DEF GateType, GotType
<1>3. p \in Seq(ItemType) /\ KindsIn(p) \subseteq ItemKinds
  BY <1>1, PendingKinds
<1>4. HeldBack(q, "running", g) /\ ~g.actionable
  BY <1>2 DEF GateOk, HeldBack
<1>5. Silent(p)
  <2>1. /\ KindsIn(p) \cap {"use", "start", "delta", "stop"} = {}
        /\ "complete" \notin KindsIn(p)
        /\ "thinking" \in KindsIn(p) => "text" \in KindsIn(p)
    BY <1>4 DEF HeldBack
  <2>2. "text" \notin KindsIn(p)
    OBVIOUS
  <2> HIDE DEF p
  <2> QED
    BY <2>1, <2>2 DEF Silent, OutputKinds
<1>6. ToBeGot("running", g, d)
  BY DEF GateOk
<1> HIDE DEF p
<1>7. d.last = r.last /\ d.complete = r.complete /\ d.ordered = r.ordered
  BY <1>1, <1>3, <1>5, DeliveredParts
<1>8. /\ u \in GotType
      /\ u.kinds = r.kinds \cup ({"thinking"} \cap OutputKinds)
      /\ u.complete = (r.complete \/ i.k = "complete")
      /\ u.last = IF i.k \in OutputKinds THEN i.last ELSE r.last
      /\ u.usage = IF i.k = "usage" THEN i.last ELSE r.usage
  BY <1>1, ReceivedTypes
<1>9. u.ordered = (r.ordered /\ (i.k \in OutputKinds => i.first = r.last + 1 /\ ~r.complete))
  BY <1>1, ReceivedTypes
<1> HIDE DEF u
<1>10. /\ u.ordered /\ u.complete = r.complete /\ ~u.complete /\ u.last = h.n /\ u.usage = r.usage
       /\ h.usages = g.usages
  <2>1. r.ordered /\ r.last = g.n /\ ~r.complete
    BY <1>6, <1>7 DEF ToBeGot
  <2>2. i.first = g.n + 1 /\ i.last = g.n + 1 /\ h.n = g.n + 1 /\ h.usages = g.usages
    BY DEF Numbered, OutputKinds
  <2> QED
    BY <1>1, <1>2, <1>8, <1>9, <2>1, <2>2 DEF OutputKinds
<1>11. e.last = u.last /\ e.complete = u.complete /\ e.ordered = u.ordered
  BY <1>3, <1>5, <1>8, DeliveredParts
<1>12. e.usage = d.usage
  <2>1. \A x \in GotType : x.usage = r.usage => Delivered(x, p).usage = Delivered(r, p).usage
    BY <1>1, <1>3, <1>5, DeliveredParts
  <2> QED
    BY <1>8, <1>10, <2>1
<1> HIDE DEF d, e
<1>13. ToBeGot("running", h, e)
  BY <1>6, <1>10, <1>11, <1>12 DEF ToBeGot
<1>14. GateTypes(q, "running", t, h, u)
  BY <1>1, <1>8 DEF GateTypes
<1>15. HeldBack(q, "running", h)
  BY <1>4 DEF HeldBack
<1>16. ShownFor(q, h, u)
  <2>1. r.kinds \subseteq {"thinking"}
    BY <1>4 DEF GateOk, ShownFor
  <2>2. u.kinds = {"thinking"}
    BY <1>8, <2>1 DEF OutputKinds
  <2> QED
    BY <1>10, <2>2 DEF ShownFor
<1>17. Promised(q, h, u)
  BY DEF Promised
<1>18. ToolShown(q, t, h)
  BY DEF GateOk, ToolShown
<1> QED
  BY <1>13, <1>14, <1>15, <1>16, <1>17, <1>18 DEF GateOk, e, u, p

(* What one more held item changes of what is to be got. *)
LEMMA HeldItem ==
  ASSUME NEW q, NEW t, NEW g, NEW r, GateOk(q, "running", t, g, r),
         NEW k, NEW s2, NEW t2, Comes(q, t, k, s2, t2),
         NEW h \in GateType, NEW i, Numbered(g, h, i, k)
  PROVE  LET p == appendPending(g.pending, i)
         IN  /\ p \in Seq(ItemType) /\ KindsIn(p) = KindsIn(g.pending) \cup {k}
             /\ Delivered(r, p) \in GotType
             /\ Delivered(r, p).kinds = r.kinds \cup (KindsIn(p) \cap OutputKinds)
             /\ Delivered(r, p).complete = (k = "complete")
             /\ ToBeGot(s2, h, Delivered(r, p))
<1> DEFINE p == appendPending(g.pending, i)
           d == Delivered(r, g.pending)
           e == Delivered(r, p)
<1>1. /\ g \in GateType /\ r \in GotType /\ i \in ItemType /\ i.k = k
      /\ g.n \in Nat /\ g.usages \in Nat
  BY DEF GateOk, GateTypes, Numbered, GateType
<1>2. g.pending \in Seq(ItemType)
  BY <1>1, PendingKinds
<1>3. d.ordered /\ d.last = g.n /\ d.usage = g.usages /\ ~d.complete
  BY DEF GateOk, ToBeGot
<1>4. d \in GotType /\ d.complete \in BOOLEAN
  <2>1. d \in GotType
    BY <1>1, <1>2, DeliveredParts
  <2> QED
    BY <2>1 DEF GotType
<1>5. /\ p \in Seq(ItemType)
      /\ KindsIn(p) = KindsIn(g.pending) \cup {i.k}
      /\ e.complete = (d.complete \/ i.k = "complete")
      /\ e.last = IF i.k \in OutputKinds THEN i.last ELSE d.last
      /\ e.usage = IF i.k = "usage" THEN i.last ELSE d.usage
      /\ (d.ordered /\ (i.k \in OutputKinds => i.first = d.last + 1 /\ ~d.complete)) => e.ordered
  BY <1>1, <1>2, AppendPending
<1> HIDE DEF p
<1>6. e \in GotType /\ e.kinds = r.kinds \cup (KindsIn(p) \cap OutputKinds)
  BY <1>1, <1>5, DeliveredParts
<1> HIDE DEF d, e
<1>7. e.complete = (k = "complete")
  BY <1>1, <1>3, <1>4, <1>5
<1>8. e.ordered
  <2>1. k \in OutputKinds => i.first = g.n + 1
    BY DEF Numbered
  <2> QED
    BY <1>1, <1>3, <1>5, <2>1
<1>9. e.last = h.n /\ e.usage = h.usages
  <2>1. /\ k \in OutputKinds => i.last = g.n + 1
        /\ h.n = IF k \in OutputKinds THEN g.n + 1 ELSE g.n
        /\ k = "usage" => i.last = g.usages + 1
        /\ h.usages = IF k = "usage" THEN g.usages + 1 ELSE g.usages
    BY DEF Numbered
  <2> QED
    BY <1>1, <1>3, <1>5, <2>1
<1>10. ToBeGot(s2, h, e)
  BY <1>7, <1>8, <1>9 DEF ToBeGot, Comes
<1> QED
  BY <1>1, <1>5, <1>6, <1>7, <1>10 DEF p, e

(* An event that is held back. *)
LEMMA KeptBack ==
  ASSUME NEW q, NEW t, NEW g, NEW r, GateOk(q, "running", t, g, r),
         NEW k, NEW s2, NEW t2, Comes(q, t, k, s2, t2),
         NEW h \in GateType, NEW i, Numbered(g, h, i, k),
         q.strict, ~g.committed, k \notin {"use", "start", "delta"},
         k = "thinking" /\ q.precommit => KindsIn(g.pending) \cap {"use", "text"} # {},
         h.pending = appendPending(g.pending, i), h.committed = g.committed,
         h.emitted = g.emitted, h.actionable = g.actionable
  PROVE  GateOk(q, s2, t2, h, r)
<1> DEFINE p == appendPending(g.pending, i)
<1>1. /\ q \in GateFlags /\ g \in GateType /\ r \in GotType
      /\ g.actionable \in BOOLEAN /\ g.committed \in BOOLEAN /\ q.strict \in BOOLEAN /\ q.frames \in BOOLEAN
  BY DEF GateOk, GateTypes, GateType, GateFlags
<1>2. KindsIn(p) = KindsIn(g.pending) \cup {k} /\ ToBeGot(s2, h, Delivered(r, p))
  BY HeldItem
<1>3. HeldBack(q, "running", g) /\ ~g.actionable
  BY <1>1 DEF GateOk, HeldBack
<1>4. k # "stop"
  BY <1>3 DEF Comes, GateOk, ToolShown
<1> HIDE DEF p
<1>5. HeldBack(q, s2, h)
  <2>1. h.pending = p
    BY DEF p
  <2>2. /\ KindsIn(g.pending) \cap {"use", "start", "delta", "stop"} = {}
        /\ "complete" \notin KindsIn(g.pending)
        /\ q.precommit /\ "thinking" \in KindsIn(g.pending) => "text" \in KindsIn(g.pending)
    BY <1>3 DEF HeldBack
  <2>3. KindsIn(p) \cap {"use", "start", "delta", "stop"} = {}
    BY <1>2, <1>4, <2>2
  <2>4. "complete" \in KindsIn(p) => s2 = "ended"
    BY <1>2, <2>2 DEF Comes
  <2>5. q.precommit /\ "thinking" \in KindsIn(p) => "text" \in KindsIn(p)
    BY <1>2, <2>2
  <2> QED
    BY <1>3, <2>1, <2>3, <2>4, <2>5 DEF HeldBack
<1>6. ShownFor(q, h, r) /\ Promised(q, h, r)
  BY DEF GateOk, ShownFor, Promised
<1>7. ToolShown(q, t2, h)
  BY DEF GateOk, ToolShown, Comes
<1>8. GateTypes(q, s2, t2, h, r)
  BY DEF GateOk, GateTypes, Comes
<1> QED
  BY <1>2, <1>5, <1>6, <1>7, <1>8 DEF GateOk, p

(* An event that is worth an answer releases everything. *)
LEMMA Released ==
  ASSUME NEW q, NEW t, NEW g, NEW r, GateOk(q, "running", t, g, r),
         NEW k, NEW s2, NEW t2, Comes(q, t, k, s2, t2),
         NEW h \in GateType, NEW i, Numbered(g, h, i, k),
         q.strict,
         \/ k \in {"use", "start", "delta"}
         \/ k = "text" /\ ~q.require /\ ~q.defer
         \/ k = "complete" /\ (~q.require \/ q.allow) /\ "preamble" \notin h.words,
         h.pending = <<>>, h.committed = TRUE, h.actionable = TRUE,
         h.emitted = (g.emitted \/ KindsIn(appendPending(g.pending, i)) \cap OutputKinds # {})
  PROVE  GateOk(q, s2, t2, h, Delivered(r, appendPending(g.pending, i)))
<1> DEFINE p == appendPending(g.pending, i)
           e == Delivered(r, p)
<1>1. /\ q \in GateFlags /\ g \in GateType /\ r \in GotType /\ g.emitted \in BOOLEAN
  BY DEF GateOk, GateTypes, GateType
<1>2. /\ KindsIn(p) = KindsIn(g.pending) \cup {k}
      /\ e \in GotType
      /\ e.kinds = r.kinds \cup (KindsIn(p) \cap OutputKinds)
      /\ e.complete = (k = "complete")
      /\ ToBeGot(s2, h, e)
  BY HeldItem
<1>3. h.emitted = (g.emitted \/ KindsIn(p) \cap OutputKinds # {})
  OBVIOUS
<1> HIDE DEF p, e
<1>4. ToBeGot(s2, h, Delivered(e, h.pending)) /\ e.ordered
  <2>1. Delivered(e, h.pending) = e
    BY DeliveredNothing
  <2> QED
    BY <1>2, <2>1 DEF ToBeGot
<1>5. HeldBack(q, s2, h)
  <2>1. KindsIn(h.pending) = {}
    BY EmptySeq DEF KindsIn
  <2> QED
    BY <2>1 DEF HeldBack
<1>6. ShownFor(q, h, e)
  <2>1. g.emitted <=> r.kinds # {}
    BY DEF GateOk, ShownFor
  <2>2. h.emitted <=> e.kinds # {}
    BY <1>1, <1>2, <1>3, <2>1
  <2> QED
    BY <1>4, <2>2 DEF ShownFor
<1>7. Promised(q, h, e)
  <2>1. CASE k \in {"use", "start", "delta"}
    <3>1. k \in e.kinds
      BY <1>2, <2>1 DEF OutputKinds
    <3> QED
      BY <2>1, <3>1 DEF Promised
  <2>2. CASE k = "text" /\ ~q.require /\ ~q.defer
    BY <2>2 DEF Promised
  <2>3. CASE k = "complete" /\ (~q.require \/ q.allow) /\ "preamble" \notin h.words
    BY <1>2, <2>3 DEF Promised
  <2> QED
    BY <2>1, <2>2, <2>3
<1>8. ToolShown(q, t2, h)
  BY DEF ToolShown
<1>9. GateTypes(q, s2, t2, h, e)
  BY <1>2 DEF GateOk, GateTypes, Comes
<1> QED
  BY <1>4, <1>5, <1>6, <1>7, <1>8, <1>9 DEF GateOk, e, p

(* What is not changed by the white space, the activity and the words. *)
SameGate(g, h) ==
  /\ h.pending = g.pending /\ h.committed = g.committed /\ h.emitted = g.emitted
  /\ h.actionable = g.actionable /\ h.words = g.words /\ h.n = g.n /\ h.usages = g.usages

LEMMA SameGateOk ==
  ASSUME NEW q, NEW s, NEW t, NEW g, NEW r, GateOk(q, s, t, g, r),
         NEW h \in GateType, SameGate(g, h),
         NEW s2 \in {"running", "ended"}, s = s2 \/ s2 = "ended",
         NEW t2 \in {"none", "started", "stopped"}, q.frames /\ t2 # "none" => t # "none"
  PROVE  GateOk(q, s2, t2, h, r)
<1>1. GateTypes(q, s2, t2, h, r)
  BY DEF GateOk, GateTypes
<1>2. HeldBack(q, s2, h)
  BY DEF GateOk, HeldBack, SameGate
<1>3. ToBeGot(s2, h, Delivered(r, h.pending))
  BY DEF GateOk, ToBeGot, SameGate
<1>4. ShownFor(q, h, r)
  BY DEF GateOk, ShownFor, SameGate
<1>5. Promised(q, h, r) /\ ToolShown(q, t2, h)
  BY DEF GateOk, Promised, ToolShown, SameGate
<1> QED
  BY <1>1, <1>2, <1>3, <1>4, <1>5 DEF GateOk

(* The numbers an event gets. *)
CountedGate(g, k) ==
  [g EXCEPT !.n = IF k \in OutputKinds THEN @ + 1 ELSE @, !.usages = IF k = "usage" THEN @ + 1 ELSE @]
EventOf(g, k) == IF k = "usage" THEN Item(k, g.usages, g.usages) ELSE Item(k, g.n, g.n)

LEMMA CountedNumbers ==
  ASSUME NEW g \in GateType, NEW k \in ItemKinds
  PROVE  LET c == CountedGate(g, k)
         IN  /\ c \in GateType /\ Numbered(g, c, EventOf(c, k), k)
             /\ c.pending = g.pending /\ c.committed = g.committed /\ c.emitted = g.emitted
             /\ c.actionable = g.actionable /\ c.words = g.words
<1> DEFINE c == CountedGate(g, k)
<1>1. g.n \in Nat /\ g.usages \in Nat
  BY DEF GateType
<1>2. /\ c \in GateType
      /\ c.pending = g.pending /\ c.committed = g.committed /\ c.emitted = g.emitted
      /\ c.actionable = g.actionable /\ c.words = g.words
      /\ c.n = IF k \in OutputKinds THEN g.n + 1 ELSE g.n
      /\ c.usages = IF k = "usage" THEN g.usages + 1 ELSE g.usages
  <2> DEFINE m == IF k \in OutputKinds THEN g.n + 1 ELSE g.n
             v == IF k = "usage" THEN g.usages + 1 ELSE g.usages
  <2>1. m \in Nat /\ v \in Nat
    BY <1>1
  <2>2. c = [g EXCEPT !.n = m, !.usages = v]
    BY DEF CountedGate
  <2> HIDE DEF m, v, c
  <2>3. c \in GateType /\ c.n = m /\ c.usages = v
    BY <2>1, <2>2 DEF GateType
  <2>4. /\ c.pending = g.pending /\ c.committed = g.committed /\ c.emitted = g.emitted
        /\ c.actionable = g.actionable /\ c.words = g.words
    BY <2>2 DEF GateType
  <2> QED
    BY <2>3, <2>4 DEF m, v
<1>3. c.n \in Nat /\ c.usages \in Nat
  BY <1>1, <1>2
<1> HIDE DEF c
<1>4. /\ EventOf(c, k) \in ItemType /\ EventOf(c, k).k = k
      /\ EventOf(c, k).first = EventOf(c, k).last
      /\ EventOf(c, k).last = IF k = "usage" THEN c.usages ELSE c.n
  BY <1>3 DEF EventOf, Item, ItemType
<1>5. Numbered(g, c, EventOf(c, k), k)
  BY <1>1, <1>2, <1>4 DEF Numbered, OutputKinds
<1> QED
  BY <1>2, <1>5 DEF c

LEMMA ProbedGate ==
  ASSUME NEW g \in GateType, NEW tok \in {"word", "preamble", "punct", "open", "close"}
  PROVE  /\ Probed(g, tok) \in GateType
         /\ Probed(g, tok).pending = g.pending /\ Probed(g, tok).committed = g.committed
         /\ Probed(g, tok).emitted = g.emitted /\ Probed(g, tok).actionable = g.actionable
         /\ Probed(g, tok).n = g.n /\ Probed(g, tok).usages = g.usages
<1>1. CASE tok = "open"
  BY <1>1 DEF Probed, GateType
<1>2. CASE tok = "close"
  BY <1>2 DEF Probed, GateType
<1>3. CASE tok \in {"word", "preamble", "punct"}
  <2>1. Probed(g, tok) = IF g.open THEN g ELSE [g EXCEPT !.words = @ \cup {tok}]
    BY <1>3 DEF Probed
  <2> QED
    BY <1>3, <2>1 DEF GateType
<1> QED
  BY <1>1, <1>2, <1>3

LEMMA OutputsAmong ==
  ASSUME NEW s
  PROVE  (\E j \in 1 .. Len(s) : s[j].k \in OutputKinds) <=> KindsIn(s) \cap OutputKinds # {}
BY DEF KindsIn

LEMMA VisiblePending ==
  ASSUME NEW g
  PROVE  hasPendingVisibleOutput(g) <=> KindsIn(g.pending) \cap {"use", "text"} # {}
BY DEF KindsIn, hasPendingVisibleOutput

(* The whole handler of an event. *)
LEMMA EventHandled ==
  ASSUME NEW g0, NEW k, NEW tok, GateOk(kind, "running", tools, g0, got),
         Comes(kind, tools, k, stage', tools'), kind' = kind,
         k = "text" => tok \in {"word", "preamble", "punct", "open", "close"},
         handleEvent(g0, k, tok)
  PROVE  GateInv'
<1> DEFINE g == CountedGate(g0, k)
           i == EventOf(g, k)
           acts == k \in {"text", "thinking", "use", "start", "delta"}
           probed == IF k = "text" THEN Probed(g, tok) ELSE g
           held == [probed EXCEPT !.pending = appendPending(@, i)]
           a == [g EXCEPT !.actionable = @ \/ acts]
           c == [held EXCEPT !.committed = TRUE, !.actionable = TRUE, !.pending = <<>>]
<1>1. /\ \/ ~kind.strict /\ Passes(a, <<i>>)
         \/ /\ kind.strict
            /\ \/ g.committed
               \/ k = "thinking" /\ kind.precommit /\ ~hasPendingVisibleOutput(g)
            /\ Passes(g, <<i>>)
         \/ /\ kind.strict /\ ~g.committed
            /\ ~(k = "thinking" /\ kind.precommit /\ ~hasPendingVisibleOutput(g))
            /\ \/ Commits(held, i) /\ Passes(c, held.pending)
               \/ ~Commits(held, i) /\ gate' = held /\ got' = got
  BY DEF handleEvent, CountedGate, EventOf
<1>2. /\ k \in ItemKinds /\ g0 \in GateType /\ got \in GotType
      /\ stage' = IF k = "complete" THEN "ended" ELSE "running"
  BY DEF Comes, GateOk, GateTypes
<1>3. /\ g \in GateType /\ Numbered(g0, g, i, k)
      /\ g.pending = g0.pending /\ g.committed = g0.committed /\ g.emitted = g0.emitted
      /\ g.actionable = g0.actionable /\ g.words = g0.words
  <2>1. LET x == CountedGate(g0, k)
        IN  /\ x \in GateType /\ Numbered(g0, x, EventOf(x, k), k)
            /\ x.pending = g0.pending /\ x.committed = g0.committed /\ x.emitted = g0.emitted
            /\ x.actionable = g0.actionable /\ x.words = g0.words
    BY <1>2, CountedNumbers
  <2> QED
    BY <2>1
<1> HIDE DEF g
<1>4. i \in ItemType /\ i.k = k
  BY <1>3 DEF Numbered
<1> HIDE DEF i
<1>5. /\ g.pending \in Seq(ItemType) /\ g.committed \in BOOLEAN /\ g.emitted \in BOOLEAN
      /\ g.actionable \in BOOLEAN
  BY <1>3 DEF GateType
<1>6. GateInv' = GateOk(kind, stage', tools', gate', got')
  BY DEF GateInv
<1>7. \A x, l : Passes(x, l) =>
        /\ gate' = [x EXCEPT !.emitted = @ \/ KindsIn(l) \cap OutputKinds # {}]
        /\ got' = Delivered(got, l)
  BY OutputsAmong DEF Passes
<1>8. KindsIn(<<i>>) = {k} /\ Delivered(got, <<i>>) = Received(got, i)
  <2>1. Len(<<i>>) = 1 /\ <<i>>[1] = i
    OBVIOUS
  <2> QED
    BY <1>4, <2>1, DeliveredOne DEF KindsIn
<1>9. {k} \cap OutputKinds # {} <=> k \in OutputKinds
  OBVIOUS
<1>10. CASE ~kind.strict /\ Passes(a, <<i>>)
  <2> DEFINE h == [a EXCEPT !.emitted = @ \/ KindsIn(<<i>>) \cap OutputKinds # {}]
  <2>1. /\ h \in GateType /\ h.pending = g0.pending /\ h.words = g0.words /\ h.committed = g0.committed
        /\ h.n = g.n /\ h.usages = g.usages
    BY <1>3, <1>5 DEF GateType
  <2>2. /\ h.emitted = (g0.emitted \/ k \in OutputKinds)
        /\ h.actionable = (g0.actionable \/ (~kind.strict /\ k \in {"text", "thinking", "use", "start", "delta"}))
    <3>1. h.emitted = (g.emitted \/ KindsIn(<<i>>) \cap OutputKinds # {}) /\ h.actionable = (g.actionable \/ acts)
      BY <1>3 DEF GateType
    <3> HIDE DEF h
    <3> QED
      BY <1>3, <1>5, <1>8, <1>9, <1>10, <3>1
  <2>3. gate' = h /\ got' = Received(got, i)
    BY <1>7, <1>8, <1>10
  <2> HIDE DEF h, a
  <2>4. Numbered(g0, h, i, k)
    BY <1>3, <2>1 DEF Numbered
  <2>5. GateOk(kind, stage', tools', h, Received(got, i))
    BY <1>10, <2>1, <2>2, <2>4, PassedOn
  <2> QED
    BY <1>6, <2>3, <2>5
<1>11. CASE kind.strict /\ g.committed /\ Passes(g, <<i>>)
  <2> DEFINE h == [g EXCEPT !.emitted = @ \/ KindsIn(<<i>>) \cap OutputKinds # {}]
  <2>1. /\ h \in GateType /\ h.pending = g0.pending /\ h.words = g0.words /\ h.committed = g0.committed
        /\ h.n = g.n /\ h.usages = g.usages /\ h.actionable = g0.actionable
        /\ h.emitted = (g.emitted \/ KindsIn(<<i>>) \cap OutputKinds # {})
    BY <1>3, <1>5 DEF GateType
  <2>2. gate' = h /\ got' = Received(got, i)
    BY <1>7, <1>8, <1>11
  <2> HIDE DEF h
  <2>3. /\ h.emitted = (g0.emitted \/ k \in OutputKinds)
        /\ h.actionable = (g0.actionable \/ (~kind.strict /\ k \in {"text", "thinking", "use", "start", "delta"}))
    BY <1>3, <1>5, <1>8, <1>9, <1>11, <2>1
  <2>4. Numbered(g0, h, i, k)
    BY <1>3, <2>1 DEF Numbered
  <2>5. GateOk(kind, stage', tools', h, Received(got, i))
    BY <1>3, <1>11, <2>1, <2>3, <2>4, PassedOn
  <2> QED
    BY <1>6, <2>2, <2>5
<1>12. CASE /\ kind.strict /\ ~g.committed /\ k = "thinking" /\ kind.precommit
            /\ ~hasPendingVisibleOutput(g) /\ Passes(g, <<i>>)
  <2> DEFINE h == [g EXCEPT !.emitted = @ \/ KindsIn(<<i>>) \cap OutputKinds # {}]
  <2>1. /\ h \in GateType /\ h.pending = g0.pending /\ h.words = g0.words /\ h.committed = g0.committed
        /\ h.n = g.n /\ h.usages = g.usages /\ h.actionable = g0.actionable
        /\ h.emitted = (g.emitted \/ KindsIn(<<i>>) \cap OutputKinds # {})
    BY <1>3, <1>5 DEF GateType
  <2>2. gate' = h /\ got' = Received(got, i)
    BY <1>7, <1>8, <1>12
  <2> HIDE DEF h
  <2>3. h.emitted = TRUE
    BY <1>5, <1>8, <1>12, <2>1 DEF OutputKinds
  <2>4. Numbered(g0, h, i, "thinking")
    BY <1>3, <1>12, <2>1 DEF Numbered
  <2>5. KindsIn(g0.pending) \cap {"use", "text"} = {} /\ ~g0.committed
    BY <1>3, <1>12, VisiblePending
  <2>6. GateOk(kind, "running", tools, h, Received(got, i))
    BY <1>12, <2>1, <2>3, <2>4, <2>5, ShownEarly
  <2>7. GateOk(kind, stage', tools', h, Received(got, i))
    <3>1. stage' = "running"
      BY <1>2, <1>12
    <3>2. tools' \in {"none", "started", "stopped"} /\ (tools' # "none" => tools # "none")
      BY <1>12 DEF Comes
    <3>3. SameGate(h, h)
      BY DEF SameGate
    <3> QED
      BY <2>1, <2>6, <3>1, <3>2, <3>3, SameGateOk
  <2> QED
    BY <1>6, <2>2, <2>7
<1>13. ASSUME kind.strict, ~g.committed, ~(k = "thinking" /\ kind.precommit /\ ~hasPendingVisibleOutput(g)),
              \/ Commits(held, i) /\ Passes(c, held.pending)
              \/ ~Commits(held, i) /\ gate' = held /\ got' = got
       PROVE  GateInv'
  <2> DEFINE p == appendPending(g.pending, i)
  <2>1. /\ probed \in GateType /\ probed.pending = g.pending /\ probed.committed = g.committed
        /\ probed.emitted = g.emitted /\ probed.actionable = g.actionable
        /\ probed.n = g.n /\ probed.usages = g.usages
    BY <1>3, ProbedGate
  <2>2. p \in Seq(ItemType) /\ KindsIn(p) = KindsIn(g.pending) \cup {k}
    BY <1>2, <1>4, <1>5, AppendPending
  <2> HIDE DEF probed
  <2>3. /\ held \in GateType /\ held.pending = p /\ held.committed = g.committed
        /\ held.emitted = g.emitted /\ held.actionable = g.actionable
        /\ held.n = g.n /\ held.usages = g.usages
    BY <2>1, <2>2 DEF GateType
  <2> HIDE DEF held, p
  <2>4. p = appendPending(g0.pending, i) /\ ~g0.committed
    BY <1>3, <1>13 DEF p
  <2>5. CASE Commits(held, i) /\ Passes(c, held.pending)
    <3> DEFINE h == [c EXCEPT !.emitted = @ \/ KindsIn(held.pending) \cap OutputKinds # {}]
    <3>1. /\ h \in GateType /\ h.pending = <<>> /\ h.committed = TRUE /\ h.actionable = TRUE
          /\ h.words = held.words /\ h.n = g.n /\ h.usages = g.usages
          /\ h.emitted = (held.emitted \/ KindsIn(held.pending) \cap OutputKinds # {})
      <4>1. <<>> \in Seq(ItemType)
        BY EmptySeq
      <4>2. held.emitted \in BOOLEAN
        BY <2>3 DEF GateType
      <4> QED
        BY <2>3, <4>1, <4>2 DEF GateType
    <3>2. gate' = h /\ got' = Delivered(got, p)
      BY <1>7, <2>3, <2>5
    <3> HIDE DEF h, c
    <3>3. h.emitted = (g0.emitted \/ KindsIn(appendPending(g0.pending, i)) \cap OutputKinds # {})
      BY <1>3, <2>3, <2>4, <3>1
    <3>4. Numbered(g0, h, i, k)
      BY <1>3, <3>1 DEF Numbered
    <3>5. \/ k \in {"use", "start", "delta"}
          \/ k = "text" /\ ~kind.require /\ ~kind.defer
          \/ k = "complete" /\ (~kind.require \/ kind.allow) /\ "preamble" \notin h.words
      BY <1>4, <2>5, <3>1 DEF Commits, isToolExecutionPreamble
    <3>6. GateOk(kind, stage', tools', h, Delivered(got, appendPending(g0.pending, i)))
      BY <1>13, <3>1, <3>3, <3>4, <3>5, Released
    <3> QED
      BY <1>6, <2>4, <3>2, <3>6
  <2>6. CASE ~Commits(held, i) /\ gate' = held /\ got' = got
    <3>1. k \notin {"use", "start", "delta"}
      <4>1. k \in {"start", "delta"} => kind.frames
        BY DEF Comes
      <4> QED
        BY <1>4, <2>6, <4>1 DEF Commits
    <3>2. k = "thinking" /\ kind.precommit => KindsIn(g0.pending) \cap {"use", "text"} # {}
      BY <1>3, <1>13, VisiblePending
    <3>3. Numbered(g0, held, i, k)
      BY <1>3, <2>3 DEF Numbered
    <3>4. GateOk(kind, stage', tools', held, got)
      BY <1>3, <1>13, <2>3, <2>4, <3>1, <3>2, <3>3, KeptBack
    <3> QED
      BY <1>6, <2>6, <3>4
  <2> QED
    BY <1>13, <2>5, <2>6
<1> QED
  BY <1>1, <1>10, <1>11, <1>12, <1>13

LEMMA FreshGate == ASSUME NEW q \in GateFlags PROVE GateOk(q, "running", "none", NewGate, NothingGot)
<1>1. <<>> \in Seq(ItemType) /\ KindsIn(<<>>) = {}
  BY EmptySeq DEF KindsIn
<1>2. NewGate \in GateType /\ NothingGot \in GotType
  BY <1>1 DEF NewGate, NothingGot, GateType, GotType
<1>3. Delivered(NothingGot, <<>>) = NothingGot
  BY DeliveredNothing
<1>4. NewGate.pending = <<>>
  BY DEF NewGate
<1>5. HeldBack(q, "running", NewGate)
  BY <1>1, <1>4 DEF HeldBack, NewGate
<1>6. ToBeGot("running", NewGate, Delivered(NothingGot, NewGate.pending))
  BY <1>3, <1>4 DEF ToBeGot, NewGate, NothingGot
<1>7. ShownFor(q, NewGate, NothingGot)
  BY DEF ShownFor, NewGate, NothingGot
<1>8. Promised(q, NewGate, NothingGot) /\ ToolShown(q, "none", NewGate)
  BY DEF Promised, ToolShown, NewGate
<1> QED
  BY <1>2, <1>5, <1>6, <1>7, <1>8 DEF GateOk, GateTypes

(* Every step of the gate. *)
LEMMA GateStep == GateInv /\ [GateNext]_gateVars => GateInv'
<1> SUFFICES ASSUME GateInv, [GateNext]_gateVars PROVE GateInv'
  OBVIOUS
<1>1. /\ GateOk(kind, stage, tools, gate, got)
      /\ gate \in GateType /\ stage \in {"running", "ended"} /\ tools \in {"none", "started", "stopped"}
      /\ kind \in GateFlags
  BY DEF GateInv, GateOk, GateTypes
<1>2. GateInv' = GateOk(kind', stage', tools', gate', got')
  BY DEF GateInv
<1>3. ASSUME NEW h \in GateType, SameGate(gate, h), gate' = h, got' = got, kind' = kind,
             stage' \in {"running", "ended"}, stage = stage' \/ stage' = "ended",
             tools' \in {"none", "started", "stopped"}, kind.frames /\ tools' # "none" => tools # "none"
      PROVE  GateInv'
  <2>1. GateOk(kind, stage', tools', h, got)
    BY <1>1, <1>3, SameGateOk
  <2> QED
    BY <1>2, <1>3, <2>1
<1>4. ASSUME NEW h \in GateType, SameGate(gate, h), stage = "running", kind' = kind,
             NEW k, NEW tok, handleEvent(h, k, tok), Comes(kind, tools, k, stage', tools'),
             k = "text" => tok \in {"word", "preamble", "punct", "open", "close"}
      PROVE  GateInv'
  <2>1. kind.frames /\ tools # "none" => tools # "none"
    OBVIOUS
  <2>2. GateOk(kind, "running", tools, h, got)
    BY <1>1, <1>4, <2>1, SameGateOk
  <2> QED
    BY <1>4, <2>2, EventHandled
<1>5. gate \in GateType /\ SameGate(gate, gate)
  BY <1>1 DEF SameGate
<1>6. markActivity(gate) \in GateType /\ SameGate(gate, markActivity(gate))
  BY <1>1 DEF markActivity, GateType, SameGate
<1>7. CASE \E k \in {"text", "thinking"} : OnBlank(k)
  <2> PICK k \in {"text", "thinking"} : OnBlank(k)
    BY <1>7
  <2>1. stage = "running" /\ kind' = kind /\ stage' = stage /\ tools' = tools
    BY DEF OnBlank, Room
  <2>2. Comes(kind, tools, k, stage', tools')
    BY <1>1, <2>1 DEF Comes, ItemKinds, OutputKinds
  <2>3. CASE gate' = gate /\ got' = got
    BY <1>1, <1>3, <1>5, <2>1, <2>3
  <2>4. CASE handleEvent(gate, k, "punct")
    BY <1>4, <1>5, <2>1, <2>2, <2>4
  <2>5. CASE gate' = [gate EXCEPT !.lead = @ \cup {k}] /\ got' = got
    <3> DEFINE h == [gate EXCEPT !.lead = @ \cup {k}]
    <3>1. h \in GateType /\ SameGate(gate, h)
      BY <1>1 DEF GateType, SameGate
    <3> HIDE DEF h
    <3> QED
      BY <1>1, <1>3, <2>1, <2>5, <3>1 DEF h
  <2> QED
    BY <2>3, <2>4, <2>5 DEF OnBlank
<1>8. CASE \E k \in {"text", "thinking"}, tok \in {"word", "preamble", "punct", "open", "close"} :
             GateOnText(k, tok)
  <2> PICK k \in {"text", "thinking"}, tok \in {"word", "preamble", "punct", "open", "close"} :
        GateOnText(k, tok)
    BY <1>8
  <2> DEFINE h == [markActivity(gate) EXCEPT !.lead = @ \ {k}]
  <2>1. /\ stage = "running" /\ kind' = kind /\ stage' = stage /\ tools' = tools
        /\ handleEvent(h, k, tok)
    BY DEF GateOnText, Room
  <2>2. Comes(kind, tools, k, stage', tools')
    BY <1>1, <2>1 DEF Comes, ItemKinds, OutputKinds
  <2>3. h \in GateType /\ SameGate(gate, h)
    BY <1>1, <1>6 DEF GateType, SameGate
  <2> HIDE DEF h
  <2> QED
    BY <1>4, <2>1, <2>2, <2>3
<1>9. CASE OnToolUseStart
  <2>1. stage = "running" /\ kind' = kind /\ stage' = stage /\ tools' = "started"
    BY <1>9 DEF OnToolUseStart, Room
  <2>2. CASE kind.frames
    <3>1. handleEvent(markActivity(gate), "start", "")
      BY <1>9, <2>2 DEF OnToolUseStart
    <3>2. Comes(kind, tools, "start", stage', tools')
      BY <2>1, <2>2 DEF Comes, ItemKinds, OutputKinds
    <3> QED
      BY <1>4, <1>6, <2>1, <3>1, <3>2
  <2>3. CASE ~kind.frames
    <3>1. gate' = markActivity(gate) /\ got' = got
      BY <1>9, <2>3 DEF OnToolUseStart
    <3> QED
      BY <1>1, <1>3, <1>6, <2>1, <2>3, <3>1
  <2> QED
    BY <2>2, <2>3
<1>10. CASE OnToolUseDelta
  <2>1. stage = "running" /\ kind' = kind /\ stage' = stage /\ tools' = tools
    BY <1>10 DEF OnToolUseDelta, Room
  <2>2. CASE kind.frames
    <3>1. handleEvent(markActivity(gate), "delta", "")
      BY <1>10, <2>2 DEF OnToolUseDelta
    <3>2. Comes(kind, tools, "delta", stage', tools')
      BY <1>1, <2>1, <2>2 DEF Comes, ItemKinds, OutputKinds
    <3> QED
      BY <1>4, <1>6, <2>1, <3>1, <3>2
  <2>3. CASE ~kind.frames
    <3>1. gate' = markActivity(gate) /\ got' = got
      BY <1>10, <2>3 DEF OnToolUseDelta
    <3> QED
      BY <1>1, <1>3, <1>6, <2>1, <3>1
  <2> QED
    BY <2>2, <2>3
<1>11. CASE OnToolUseStop
  <2>1. stage = "running" /\ kind' = kind /\ stage' = stage /\ tools = "started" /\ tools' = "stopped"
    BY <1>11 DEF OnToolUseStop, Room
  <2>2. CASE kind.frames
    <3>1. handleEvent(gate, "stop", "")
      BY <1>11, <2>2 DEF OnToolUseStop
    <3>2. Comes(kind, tools, "stop", stage', tools')
      BY <2>1, <2>2 DEF Comes, ItemKinds, OutputKinds
    <3> QED
      BY <1>4, <1>5, <2>1, <3>1, <3>2
  <2>3. CASE ~kind.frames
    <3>1. gate' = gate /\ got' = got
      BY <1>11, <2>3 DEF OnToolUseStop
    <3> QED
      BY <1>1, <1>3, <1>5, <2>1, <3>1
  <2> QED
    BY <2>2, <2>3
<1>12. CASE \E b \in BOOLEAN : GateOnToolUse(b)
  <2> PICK b \in BOOLEAN : GateOnToolUse(b)
    BY <1>12
  <2>1. stage = "running" /\ kind' = kind /\ stage' = stage /\ tools' = "none"
    BY DEF GateOnToolUse, Room
  <2>2. CASE b
    <3>1. handleEvent(markActivity(gate), "use", "")
      BY <2>2 DEF GateOnToolUse
    <3>2. Comes(kind, tools, "use", stage', tools')
      BY <2>1 DEF Comes, ItemKinds, OutputKinds
    <3> QED
      BY <1>4, <1>6, <2>1, <3>1, <3>2
  <2>3. CASE ~b
    <3> DEFINE h == [markActivity(gate) EXCEPT !.invalid = @ \/ gate.actionable]
    <3>1. gate' = h /\ got' = got
      BY <2>3 DEF GateOnToolUse
    <3>2. h \in GateType /\ SameGate(gate, h)
      BY <1>1, <1>6 DEF GateType, SameGate
    <3> HIDE DEF h
    <3> QED
      BY <1>1, <1>3, <2>1, <3>1, <3>2
  <2> QED
    BY <2>2, <2>3
<1>13. CASE OnUsage
  <2>1. stage = "running" /\ kind' = kind /\ stage' = stage /\ tools' = tools /\ handleEvent(gate, "usage", "")
    BY <1>13 DEF OnUsage
  <2>2. Comes(kind, tools, "usage", stage', tools')
    BY <1>1, <2>1 DEF Comes, ItemKinds, OutputKinds
  <2> QED
    BY <1>4, <1>5, <2>1, <2>2
<1>14. CASE OnNotice
  <2> DEFINE h == [gate EXCEPT !.noticed = TRUE]
  <2>1. stage = "running" /\ kind' = kind /\ stage' = stage /\ tools' = tools /\ handleEvent(h, "notice", "")
    BY <1>14 DEF OnNotice
  <2>2. Comes(kind, tools, "notice", stage', tools')
    BY <1>1, <2>1 DEF Comes, ItemKinds, OutputKinds
  <2>3. h \in GateType /\ SameGate(gate, h)
    BY <1>1 DEF GateType, SameGate
  <2> HIDE DEF h
  <2> QED
    BY <1>4, <2>1, <2>2, <2>3
<1>15. CASE OnComplete
  <2>1. /\ stage = "running" /\ kind' = kind /\ stage' = "ended" /\ tools' = tools
        /\ handleEvent(gate, "complete", "")
    BY <1>15 DEF OnComplete
  <2>2. Comes(kind, tools, "complete", stage', tools')
    BY <1>1, <2>1 DEF Comes, ItemKinds, OutputKinds
  <2> QED
    BY <1>4, <1>5, <2>1, <2>2
<1>16. CASE StreamFails
  <2>1. kind' = kind /\ stage' = "ended" /\ tools' = tools /\ gate' = gate /\ got' = got
    BY <1>16 DEF StreamFails
  <2> QED
    BY <1>1, <1>3, <1>5, <2>1
<1>17. CASE NextCall
  BY <1>1, <1>2, <1>17, FreshGate DEF NextCall
<1>18. CASE UNCHANGED gateVars
  <2>1. kind' = kind /\ stage' = stage /\ tools' = tools /\ gate' = gate /\ got' = got
    BY <1>18 DEF gateVars
  <2> QED
    BY <1>1, <1>2, <2>1
<1> QED
  BY <1>7, <1>8, <1>9, <1>10, <1>11, <1>12, <1>13, <1>14, <1>15, <1>16, <1>17, <1>18 DEF GateNext

LEMMA GateImplies == GateInv => GateSafe
<1> SUFFICES ASSUME GateInv PROVE GateSafe
  OBVIOUS
<1>1. /\ HeldBack(kind, stage, gate) /\ ToBeGot(stage, gate, Delivered(got, gate.pending))
      /\ ShownFor(kind, gate, got) /\ Promised(kind, gate, got)
      /\ kind \in GateFlags /\ gate \in GateType
  BY DEF GateInv, GateOk, GateTypes
<1>2. (gate.committed \/ ~kind.strict) => gate.pending = <<>>
  BY <1>1 DEF HeldBack
<1>3. gate.pending = <<>> => got.last = gate.n /\ got.usage = gate.usages
  BY <1>1, DeliveredNothing DEF ToBeGot
<1>4. ReleasedInOrder
  BY <1>1, <1>2, <1>3 DEF ReleasedInOrder, ShownFor
<1>5. RetryLosesNothing
  BY <1>1 DEF RetryLosesNothing, ShownFor
<1>6. ToolPromiseKept
  BY <1>1 DEF ToolPromiseKept, Promised
<1>7. LastUsageCounts
  <2>1. got.complete => gate.committed \/ ~kind.strict
    BY <1>1 DEF ShownFor, HeldBack
  <2> QED
    BY <1>2, <1>3, <2>1 DEF LastUsageCounts
<1> QED
  BY <1>4, <1>5, <1>6, <1>7 DEF GateSafe

(* For any requests and any number of events: the gate hands on what the   *)
(* decoder said in order, once and without a gap; a call that is made again *)
(* has shown the client nothing it could act on; a promised tool call and  *)
(* the last usage are not lost.                                            *)
THEOREM GateKept == GateSpec => []GateSafe
<1>1. GateInit => GateInv
  BY FreshGate, GateAssumption DEF GateInit, GateInv, GateFlags
<1>2. GateInv /\ [GateNext]_gateVars => GateInv'
  BY GateStep
<1>3. GateInv => GateSafe
  BY GateImplies
<1> QED
  BY <1>1, <1>2, <1>3, PTL DEF GateSpec
=============================================================================
