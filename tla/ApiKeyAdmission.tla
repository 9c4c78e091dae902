---------------------------- MODULE ApiKeyAdmission ----------------------------
(***************************************************************************)
(* Rate limits and the concurrency queue of one API key:                   *)
(* proxy/api_admission.go and its callers in proxy/handler.go.  Keys share *)
(* nothing but the manager's mutex, so one key is the general case.  Every *)
(* critical section of apiKeyAdmissionManager.mu is one action.            *)
(*                                                                         *)
(* authenticate hands each request a copy of its ApiKeyEntry, and the      *)
(* request keeps using those limits whatever the operator changes          *)
(* meanwhile: limits[r] is that copy.  windowStarted is abstracted to      *)
(* "elapsed": a minute has gone by since the window started and nobody has *)
(* looked at it.  A reservation made in an earlier window is never         *)
(* subtracted from this one, which is what reserved[r] = 0 says of it.     *)
(***************************************************************************)
EXTENDS Integers, FiniteSets, FiniteSetsExt

CONSTANTS
  Requests,      \* request goroutines presenting the key
  Limits,        \* limit settings the operator may give the key
  Amounts,       \* token counts: estimates and final usage
  MaxTokens,     \* bound on the tokens charged in a window
  MaxRequests    \* requests beyond which the count tells nothing apart

LimitType ==
  [requestsPerMinute : Nat, tokensPerMinute : Nat, maxConcurrency : Nat,
   queueCapacity : Nat]

ASSUME AdmissionAssumption ==
  /\ IsFiniteSet(Requests)
  /\ Limits \subseteq LimitType
  /\ Limits # {}
  /\ Amounts \subseteq Nat
  /\ MaxTokens \in Nat
  /\ MaxRequests \in Nat
  /\ \A l \in Limits : l.requestsPerMinute <= MaxRequests

VARIABLES
  entry,      \* the key's limits in config
  requests,   \* apiKeyAdmissionState.requests
  tokens,     \* .tokens
  inFlight,   \* .inFlight
  waiting,    \* .waiting
  elapsed,    \* the window is over and has not been reset
  pc,         \* where each request is
  limits,     \* the entry it authenticated with
  reserved,   \* lease.reservedTokens, if reserved in the current window
  finalized   \* lease.tokensFinalized

window == <<requests, tokens, elapsed, reserved>>
vars ==
  <<entry, requests, tokens, inFlight, waiting, elapsed, pc, limits,
    reserved, finalized>>

PCs ==
  {"idle",       \* no request
   "admit",      \* authenticated, about to look for a slot
   "parked",     \* in the queue, in select on notify, timer and context
   "woken",      \* the notify channel it holds has been closed
   "leaving",    \* the timer or the context fired, cancelWait not run yet
   "leased",     \* holds a lease, no tokens reserved yet
   "calling",    \* past the reservation
   "refused",    \* over the token budget, lease not released yet
   "unlimited"}  \* no limit configured: runs without a lease

Queued(r) == pc[r] \in {"parked", "woken", "leaving"}
Leased == {r \in Requests : pc[r] \in {"leased", "calling", "refused"}}

Init ==
  /\ entry \in Limits
  /\ requests = 0 /\ tokens = 0 /\ inFlight = 0 /\ waiting = 0
  /\ elapsed = FALSE
  /\ pc = [r \in Requests |-> "idle"]
  /\ limits = [r \in Requests |-> entry]
  /\ reserved = [r \in Requests |-> 0]
  /\ finalized = [r \in Requests |-> FALSE]

-----------------------------------------------------------------------------
(* resetAdmissionWindow: the counters as the critical section sees them.    *)
Requests0 == IF elapsed THEN 0 ELSE requests
Tokens0 == IF elapsed THEN 0 ELSE tokens
Reserved0 == IF elapsed THEN [r \in Requests |-> 0] ELSE reserved

(* A visit that looks at the window and charges nothing. *)
Rewindow ==
  /\ elapsed' = FALSE
  /\ requests' = Requests0
  /\ tokens' = Tokens0
  /\ reserved' = Reserved0

(* waiting after r's place in the queue is given up. *)
WithoutPlace(r) == IF Queued(r) /\ waiting > 0 THEN waiting - 1 ELSE waiting

(* authenticate, and Acquire's early return for a key without limits. *)
Unlimited(l) ==
  l.requestsPerMinute = 0 /\ l.tokensPerMinute = 0 /\ l.maxConcurrency = 0

Arrive(r) ==
  /\ pc[r] = "idle"
  /\ limits' = [limits EXCEPT ![r] = entry]
  /\ pc' = [pc EXCEPT ![r] = IF Unlimited(entry) THEN "unlimited" ELSE "admit"]
  /\ UNCHANGED <<entry, inFlight, waiting, finalized, window>>

(* One turn of Acquire's loop: the first one, or one after a wake-up. *)
AtLoop(r) == pc[r] \in {"admit", "woken"}

RateBlocked(r) ==
  /\ limits[r].requestsPerMinute > 0
  /\ Requests0 >= limits[r].requestsPerMinute

SlotFree_offByOne(r) ==
  limits[r].maxConcurrency = 0 \/ inFlight <= limits[r].maxConcurrency

SlotFree(r) ==
  limits[r].maxConcurrency = 0 \/ inFlight < limits[r].maxConcurrency

QueueFull(r) ==
  \/ limits[r].queueCapacity = 0
  \/ ~Queued(r) /\ waiting >= limits[r].queueCapacity

RateLimited_keepsPlace(r) ==
  /\ AtLoop(r) /\ RateBlocked(r)
  /\ Rewindow
  /\ pc' = [pc EXCEPT ![r] = "idle"]
  /\ UNCHANGED <<entry, inFlight, waiting, limits, finalized>>

RateLimited(r) ==
  /\ AtLoop(r) /\ RateBlocked(r)
  /\ Rewindow
  /\ waiting' = WithoutPlace(r)
  /\ pc' = [pc EXCEPT ![r] = "idle"]
  /\ UNCHANGED <<entry, inFlight, limits, finalized>>

Grant(r) ==
  /\ AtLoop(r) /\ ~RateBlocked(r) /\ SlotFree(r)
  /\ elapsed' = FALSE
  /\ tokens' = Tokens0
  /\ reserved' = Reserved0
  /\ requests' = IF Requests0 < MaxRequests THEN Requests0 + 1 ELSE MaxRequests
  /\ waiting' = WithoutPlace(r)
  /\ inFlight' = inFlight + 1
  /\ pc' = [pc EXCEPT ![r] = "leased"]
  /\ UNCHANGED <<entry, limits, finalized>>

Refuse(r) ==
  /\ AtLoop(r) /\ ~RateBlocked(r) /\ ~SlotFree(r) /\ QueueFull(r)
  /\ Rewindow
  /\ pc' = [pc EXCEPT ![r] = "idle"]
  /\ UNCHANGED <<entry, inFlight, waiting, limits, finalized>>

(* The channel is read under the lock, so a Release after it is not missed. *)
Park(r) ==
  /\ AtLoop(r) /\ ~RateBlocked(r) /\ ~SlotFree(r) /\ ~QueueFull(r)
  /\ Rewindow
  /\ waiting' = IF Queued(r) THEN waiting ELSE waiting + 1
  /\ pc' = [pc EXCEPT ![r] = "parked"]
  /\ UNCHANGED <<entry, inFlight, limits, finalized>>

(* The queue timer or the client's context; select may prefer either to a   *)
(* notify channel that is closed too.                                       *)
GiveUp(r) ==
  /\ pc[r] \in {"parked", "woken"}
  /\ pc' = [pc EXCEPT ![r] = "leaving"]
  /\ UNCHANGED <<entry, requests, tokens, inFlight, waiting, elapsed, limits,
                 reserved, finalized>>

cancelWait(r) ==
  /\ pc[r] = "leaving"
  /\ waiting' = WithoutPlace(r)
  /\ pc' = [pc EXCEPT ![r] = "idle"]
  /\ UNCHANGED <<entry, inFlight, limits, finalized, window>>

-----------------------------------------------------------------------------
(* Tokens.  n is the estimate of the request's input tokens; a request that *)
(* may not reserve them is answered 429 and releases its lease.             *)
Reserves(r, n) == n > 0 /\ limits[r].tokensPerMinute > 0

ReserveTokens(r, n) ==
  /\ pc[r] = "leased" /\ Reserves(r, n)
  /\ Tokens0 + n <= limits[r].tokensPerMinute
  /\ elapsed' = FALSE
  /\ requests' = Requests0
  /\ tokens' = Tokens0 + n
  /\ reserved' = [Reserved0 EXCEPT ![r] = @ + n]
  /\ pc' = [pc EXCEPT ![r] = "calling"]
  /\ UNCHANGED <<entry, inFlight, waiting, limits, finalized>>

ReserveNothing(r, n) ==
  /\ pc[r] = "leased" /\ ~Reserves(r, n)
  /\ pc' = [pc EXCEPT ![r] = "calling"]
  /\ UNCHANGED <<entry, inFlight, waiting, limits, finalized, window>>

TokensExceeded_leaks(r, n) ==
  /\ pc[r] = "leased" /\ Reserves(r, n)
  /\ Tokens0 + n > limits[r].tokensPerMinute
  /\ Rewindow
  /\ pc' = [pc EXCEPT ![r] = "idle"]
  /\ UNCHANGED <<entry, inFlight, waiting, limits, finalized>>

TokensExceeded(r, n) ==
  /\ pc[r] = "leased" /\ Reserves(r, n)
  /\ Tokens0 + n > limits[r].tokensPerMinute
  /\ Rewindow
  /\ pc' = [pc EXCEPT ![r] = "refused"]
  /\ UNCHANGED <<entry, inFlight, waiting, limits, finalized>>

(* What the lease reserved in this window is replaced by what it used. *)
Settled(r, n) ==
  LET total == Tokens0 + n - Reserved0[r] IN IF total < 0 THEN 0 ELSE total

ReconcileTokens_twice(r, n) ==
  /\ pc[r] = "calling" /\ limits[r].tokensPerMinute > 0
  /\ Settled(r, n) <= MaxTokens
  /\ elapsed' = FALSE
  /\ requests' = Requests0
  /\ tokens' = Settled(r, n)
  /\ reserved' = Reserved0
  /\ finalized' = [finalized EXCEPT ![r] = TRUE]
  /\ UNCHANGED <<entry, inFlight, waiting, pc, limits>>

ReconcileTokens(r, n) ==
  /\ pc[r] = "calling" /\ limits[r].tokensPerMinute > 0 /\ ~finalized[r]
  /\ Settled(r, n) <= MaxTokens
  /\ elapsed' = FALSE
  /\ requests' = Requests0
  /\ tokens' = Settled(r, n)
  /\ reserved' = Reserved0
  /\ finalized' = [finalized EXCEPT ![r] = TRUE]
  /\ UNCHANGED <<entry, inFlight, waiting, pc, limits>>

Woken_one ==
  LET asleep == {q \in Requests : pc[q] = "parked"}
  IN  IF asleep = {} THEN pc
      ELSE [pc EXCEPT ![CHOOSE q \in asleep : TRUE] = "woken"]

(* Release, the lease's deferred end: closing notify wakes every waiter.    *)
Woken == [q \in Requests |-> IF pc[q] = "parked" THEN "woken" ELSE pc[q]]

Release(r) ==
  /\ r \in Leased
  /\ inFlight' = IF inFlight > 0 THEN inFlight - 1 ELSE inFlight
  /\ pc' = [Woken EXCEPT ![r] = "idle"]
  /\ reserved' = [reserved EXCEPT ![r] = 0]
  /\ finalized' = [finalized EXCEPT ![r] = FALSE]
  /\ UNCHANGED <<entry, requests, tokens, waiting, elapsed, limits>>

UnlimitedEnds(r) ==
  /\ pc[r] = "unlimited"
  /\ pc' = [pc EXCEPT ![r] = "idle"]
  /\ UNCHANGED <<entry, inFlight, waiting, limits, finalized, window>>

-----------------------------------------------------------------------------
MinutePasses ==
  /\ ~elapsed
  /\ elapsed' = TRUE
  /\ UNCHANGED <<entry, requests, tokens, inFlight, waiting, pc, limits,
                 reserved, finalized>>

UpdateApiKey(l) ==
  /\ entry # l
  /\ entry' = l
  /\ UNCHANGED <<inFlight, waiting, pc, limits, finalized, window>>

Step(r) ==
  \/ Arrive(r) \/ RateLimited(r) \/ Grant(r) \/ Refuse(r) \/ Park(r)
  \/ GiveUp(r) \/ cancelWait(r)
  \/ \E n \in Amounts :
       ReserveTokens(r, n) \/ ReserveNothing(r, n) \/ TokensExceeded(r, n)
         \/ ReconcileTokens(r, n)
  \/ Release(r) \/ UnlimitedEnds(r)

Next ==
  \/ \E r \in Requests : Step(r)
  \/ MinutePasses
  \/ \E l \in Limits : UpdateApiKey(l)

Spec == Init /\ [][Next]_vars

-----------------------------------------------------------------------------
(* Properties. *)

(* No counter of the key goes negative, and the request count of a window   *)
(* stays within what the limits tell apart.                                 *)
TypeOK ==
  /\ entry \in Limits
  /\ requests \in 0 .. MaxRequests
  /\ tokens \in Nat
  /\ inFlight \in Nat
  /\ waiting \in Nat
  /\ elapsed \in BOOLEAN
  /\ pc \in [Requests -> PCs]
  /\ limits \in [Requests -> Limits]
  /\ reserved \in [Requests -> Nat]
  /\ finalized \in [Requests -> BOOLEAN]

(* inFlight is the number of leases out: a refused reservation, a failed    *)
(* call and a cancelled client all give theirs back, once.                  *)
LeaseConservation == inFlight = Cardinality(Leased)

(* waiting is the number of requests in the queue: timing out, being        *)
(* cancelled, rate limited or admitted each give up exactly one place.      *)
QueueConservation == waiting = Cardinality({r \in Requests : Queued(r)})

(* Whatever mixture of old and new limits requests were admitted under, in  *)
(* any group of requests running together one was admitted under a limit    *)
(* with room for the whole group: MaxConcurrency is never exceeded by more  *)
(* than the operator's own changes explain.                                 *)
HoldersWithinLimits ==
  \A S \in SUBSET Leased :
    S # {} => \E r \in S : \/ limits[r].maxConcurrency = 0
                           \/ Cardinality(S) <= limits[r].maxConcurrency

(* A request sleeps only while there is no slot for it: no Release between  *)
(* its last look at inFlight and its select goes unnoticed.                 *)
NoLostWakeup ==
  \A r \in Requests : pc[r] = "parked" => ~SlotFree(r)

Unsettled == {r \in Leased : ~finalized[r]}

(* The window is charged at least what the requests that are still running  *)
(* reserved in it: settling or ending one request never refunds tokens of   *)
(* another, whichever window it reserved in.                                *)
ReservationsCovered ==
  MapThenSumSet(LAMBDA r : reserved[r], Unsettled) <= tokens
(* The books of a key always match its requests: every lease and every queue *)
(* place is counted once and given back once, and nobody sleeps beside a     *)
(* free slot (Acquire, Release, api_admission.go).                           *)
AdmissionAccounted == LeaseConservation /\ QueueConservation /\ NoLostWakeup
=============================================================================
