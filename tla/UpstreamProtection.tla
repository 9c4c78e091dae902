-------------------------- MODULE UpstreamProtection --------------------------
(***************************************************************************)
(* Local upstream protection of the account pool (pool/protection.go):     *)
(* concurrency slots per account, per account and model and per profile    *)
(* and model, the 429 circuit of each account/model and profile/model key, *)
(* session affinity, and the bounded queue of requests that wait for a     *)
(* slot.  A request is one goroutine of proxy/handler.go (or               *)
(* responses_handler.go, websearch.go, model_health.go) running the loop   *)
(*    acquire; ensure token; call upstream; report; release; retry.        *)
(* Every critical section of AccountPool.mu is one action.  An operation    *)
(* reads the settings before it takes the lock: read[r] are the ones the    *)
(* next operation of r works with, which an operator may have replaced by   *)
(* the time the lock is held.                                               *)
(* A definition named D_x is D with the defect x: it is not part of the    *)
(* specification, and shows that a property of the runs can fail.          *)
(*                                                                         *)
(* Time.  A cooldown is the number of ticks that remain until              *)
(* cooldownUntil: NoTime is Go's zero time, 0 a deadline that has passed.  *)
(* Tick lets time pass for every key at once.                              *)
(*                                                                         *)
(* Accounts.  Which accounts are routable for a request (enabled, not      *)
(* cooling, token valid, model supported, not excluded by an earlier       *)
(* attempt) is decided by pool/account.go; here it is any set of accounts. *)
(***************************************************************************)
EXTENDS Integers, FiniteSets

CONSTANTS
  Requests,        \* request goroutines
  Accounts,        \* account ids
  Models,          \* normalised model keys
  SearchModel,     \* webSearchEndpointRouteModel; in Models if searches run
  Profiles,        \* profile ARNs
  NoProfile,       \* the empty profile ARN
  ProfileArn,      \* [Accounts -> Profiles \cup {NoProfile}]
  MaxConcurrency,  \* [Accounts -> Nat]: Account.MaxConcurrency, 0 = not set
  Routes,          \* session route keys
  Null,            \* no route, no model, no account, no owner
  Configs,         \* names of the protection settings an operator may save
  Settings,        \* [Configs -> ConfigType]: what they say
  Updates,         \* [Configs -> SUBSET Configs]: what may replace each of them
  RetryAfters,     \* Retry-After values of a 429, 0 = header absent
  MaxRetryAfter,   \* the 24 h cap of a Retry-After
  MaxRateLimits    \* bound on consecutive 429s of one account/model

NoTime == -1

(* UpstreamProtectionConfig after normalizeUpstreamProtectionLocked: every *)
(* limit, cooldown and capacity is positive, MaxRateLimitCooldownMs is at  *)
(* least RateLimitCooldownMs; an absent override is 0.                     *)
ConfigType ==
  [enabled : BOOLEAN, hard : BOOLEAN,
   maxAccount : Nat \ {0}, softAccount : Nat \ {0},
   maxModel : Nat \ {0}, softModel : Nat \ {0},
   perModel : [Models -> Nat], perProfileModel : [Profiles \X Models -> Nat],
   cooldown : Nat \ {0}, maxCooldown : Nat \ {0},
   affinityMax : Nat \ {0}, queueCapacity : Nat \ {0}]

ASSUME ConfigAssumption ==
  /\ Settings \in [Configs -> ConfigType]
  /\ Updates \in [Configs -> SUBSET Configs]
  /\ \A c \in Configs : Settings[c].maxCooldown >= Settings[c].cooldown

ASSUME ConstantAssumption ==
  /\ IsFiniteSet(Requests)
  /\ NoProfile \notin Profiles
  /\ ProfileArn \in [Accounts -> Profiles \cup {NoProfile}]
  /\ MaxConcurrency \in [Accounts -> Nat]
  /\ Null \notin Requests \cup Accounts \cup Models \cup Routes
  /\ RetryAfters \subseteq Nat
  /\ MaxRetryAfter \in Nat \ {0}
  /\ MaxRateLimits \in Nat \ {0}

VARIABLES
  up,               \* the saved protection settings
  read,             \* [Requests -> Configs]: what GetUpstreamProtectionConfig
                    \* gives, or gave, the next operation of each request
  accountUpstream,  \* [Accounts -> Nat]: slots in use per account
  upstream,         \* [Accounts \X Models -> upstreamRuntimeState]
  profiles,         \* [Profiles \X Models -> upstreamRuntimeState]
  affinity,         \* [Routes -> EntryType]: the account bound to each route
  seenBefore,       \* <<x, y>>: the lastSeen of route x is before that of y
  waitingRequests,  \* length of the availability queue
  pc,               \* where each request goroutine is
  call              \* what each request has chosen and holds

affinityVars == <<affinity, seenBefore>>

vars == <<up, read, accountUpstream, upstream, profiles, affinity, seenBefore,
          waitingRequests, pc, call>>

-----------------------------------------------------------------------------
(* upstreamRuntimeState; a key that is absent from the map reads as ZeroState. *)
StateType ==
  [inFlight : Nat, rateLimitCount : Nat, cooldown : Nat \cup {NoTime},
   lastCooldown : Nat, halfOpenProbe : BOOLEAN]

ZeroState ==
  [inFlight |-> 0, rateLimitCount |-> 0, cooldown |-> NoTime,
   lastCooldown |-> 0, halfOpenProbe |-> FALSE]

(* accountConcurrencyLimit, accountModelLimit, profileLimit. *)
SoftOrHard(c, hard, soft) == IF ~c.hard /\ soft < hard THEN soft ELSE hard

accountConcurrencyLimit(c, a) ==
  SoftOrHard(c, IF MaxConcurrency[a] > 0 THEN MaxConcurrency[a] ELSE c.maxAccount,
             c.softAccount)

accountModelLimit(c, m) ==
  SoftOrHard(c, IF c.perModel[m] > 0 THEN c.perModel[m] ELSE c.maxModel,
             c.softModel)

profileLimit(c, p, m) == IF p = NoProfile THEN 0 ELSE c.perProfileModel[<<p, m>>]

(* stateBusy: a probe in flight, a running cooldown or a full key. *)
Cooling(s) == s.cooldown > 0

stateBusy_offByOne(s, limit) == s.halfOpenProbe \/ Cooling(s) \/ s.inFlight > limit

stateBusy(s, limit) == s.halfOpenProbe \/ Cooling(s) \/ s.inFlight >= limit

(* tryAcquireSlotLocked, its three checks. *)
SlotBusy(c, a, m) ==
  \/ accountUpstream[a] >= accountConcurrencyLimit(c, a)
  \/ /\ profileLimit(c, ProfileArn[a], m) > 0
     /\ stateBusy(profiles[<<ProfileArn[a], m>>], profileLimit(c, ProfileArn[a], m))
  \/ stateBusy(upstream[<<a, m>>], accountModelLimit(c, m))

(* activateHalfOpenProbe, then inFlight++. *)
IsHalfOpen(s) == s.rateLimitCount > 0 /\ s.cooldown = 0

activateHalfOpenProbe(s) ==
  IF IsHalfOpen(s) THEN [s EXCEPT !.cooldown = NoTime, !.halfOpenProbe = TRUE] ELSE s

Admit(s) == [activateHalfOpenProbe(s) EXCEPT !.inFlight = @ + 1]

(* inFlight-- (never below zero) and reopenAbandonedHalfOpenProbe; an idle *)
(* key is deleted from its map.                                            *)
Reopened_never(c, s) == s

Reopened(c, s) ==
  IF s.halfOpenProbe /\ s.rateLimitCount > 0
  THEN [s EXCEPT !.halfOpenProbe = FALSE,
                 !.cooldown = IF s.lastCooldown > 0 THEN s.lastCooldown
                                                    ELSE c.cooldown]
  ELSE s

protectionStateIdle(s) ==
  s.inFlight = 0 /\ s.cooldown = NoTime /\ s.rateLimitCount = 0 /\ ~s.halfOpenProbe

Released_noFloor(c, s) ==
  LET t == Reopened(c, [s EXCEPT !.inFlight = @ - 1])
  IN  IF protectionStateIdle(t) THEN ZeroState ELSE t

Released(c, s) ==
  LET t == Reopened(c, [s EXCEPT !.inFlight = IF @ > 0 THEN @ - 1 ELSE @])
  IN  IF protectionStateIdle(t) THEN ZeroState ELSE t

closeProtectionCircuit_dropsSlots(s) == ZeroState

closeProtectionCircuit(s) == [ZeroState EXCEPT !.inFlight = s.inFlight]

(* applyProtectionCooldown: exponential from the base, capped; a longer    *)
(* Retry-After replaces it; without one, up to a tenth (at least one tick) *)
(* of jitter is added below the cap.                                       *)
Smaller(x, y) == IF x < y THEN x ELSE y

Backoff(c, count) ==
  LET doubled == c.cooldown * 2 ^ (count - 1)
  IN  IF count = 1 THEN c.cooldown
      ELSE IF doubled \in 1 .. c.maxCooldown THEN doubled ELSE c.maxCooldown

Cooldowns(c, count, retryAfter) ==
  LET base   == Backoff(c, count)
      jitter == IF base \div 10 < 1 THEN 1 ELSE base \div 10
  IN  IF retryAfter > base THEN {Smaller(retryAfter, MaxRetryAfter)}
      ELSE IF retryAfter > 0 \/ base >= c.maxCooldown THEN {base}
      ELSE {Smaller(base + j, c.maxCooldown) : j \in 0 .. jitter}

applyProtectionCooldown(s, d) ==
  [inFlight |-> s.inFlight, rateLimitCount |-> s.rateLimitCount + 1,
   cooldown |-> d, lastCooldown |-> d, halfOpenProbe |-> FALSE]

-----------------------------------------------------------------------------
(* Route affinity: affinity[routeKey] = {accountID, lastSeen}.  An entry    *)
(* records its owner, the guard whose routeSeen equals lastSeen; the order  *)
(* of the lastSeen times is the relation seenBefore.                        *)
EntryType == [acct : Accounts \cup {Null}, owner : Requests \cup {Null}]
NoEntry == [acct |-> Null, owner |-> Null]

Bound(aff) == {x \in Routes : aff[x].acct # Null}
BoundTo(aff, route) == IF route \in Bound(aff) THEN {aff[route].acct} ELSE {}
Without(aff, gone) == [x \in Routes |-> IF x \in gone THEN NoEntry ELSE aff[x]]
Oldest(aff) ==
  {x \in Bound(aff) : \A y \in Bound(aff) \ {x} : <<x, y>> \in seenBefore}

(* rememberRouteAffinityLocked: at the limit a new route evicts the oldest. *)
Newest(aff) ==
  {x \in Bound(aff) : \A y \in Bound(aff) \ {x} : <<y, x>> \in seenBefore}

rememberRouteAffinity_noEviction(c, aff, route, a, r) ==
  IF route = Null THEN aff
  ELSE [aff EXCEPT ![route] = [acct |-> a, owner |-> r]]

rememberRouteAffinity_evictsNewest(c, aff, route, a, r) ==
  LET full == Cardinality(Bound(aff)) >= c.affinityMax /\ route \notin Bound(aff)
      kept == IF full THEN Without(aff, Newest(aff)) ELSE aff
  IN  IF route = Null THEN aff
      ELSE [kept EXCEPT ![route] = [acct |-> a, owner |-> r]]

rememberRouteAffinity(c, aff, route, a, r) ==
  LET full == Cardinality(Bound(aff)) >= c.affinityMax /\ route \notin Bound(aff)
      kept == IF full THEN Without(aff, Oldest(aff)) ELSE aff
  IN  IF route = Null THEN aff
      ELSE [kept EXCEPT ![route] = [acct |-> a, owner |-> r]]

(* The route's lastSeen becomes the latest. *)
SeenNow(route) ==
  IF route = Null THEN seenBefore
  ELSE {p \in seenBefore : p[1] # route} \cup {<<x, route>> : x \in Routes \ {route}}

-----------------------------------------------------------------------------
(* Requests. *)
PCs == {"idle", "select", "refused", "queued", "woken", "backoff",
        "calling", "returned", "reported", "failed"}

(* model: the key the slot is acquired under; okModel: the key a success    *)
(* is reported under (Null: never reported); guarded: holds an unreleased   *)
(* UpstreamRequestGuard; probe, counted: whether that guard was admitted as *)
(* the half-open probe of its account/model, and counted by its profile.    *)
CallType ==
  [model : Models \cup {Null}, okModel : Models \cup {Null},
   route : Routes \cup {Null}, acct : Accounts \cup {Null},
   guarded : BOOLEAN, probe : BOOLEAN, counted : BOOLEAN]

NoCall ==
  [model |-> Null, okModel |-> Null, route |-> Null, acct |-> Null,
   guarded |-> FALSE, probe |-> FALSE, counted |-> FALSE]

WithSlot(c, a, guarded, probe, counted) ==
  [model |-> c.model, okModel |-> c.okModel, route |-> c.route, acct |-> a,
   guarded |-> guarded, probe |-> probe, counted |-> counted]

Unguarded(c, a) == WithSlot(c, a, FALSE, FALSE, FALSE)

InQueue(r) == pc[r] \in {"queued", "woken"}

(* signalAvailabilityLocked: every queued request holds the channel that is *)
(* closed; without waiters there is nobody to wake.                         *)
Signalled(p) == [r \in Requests |-> IF p[r] = "queued" THEN "woken" ELSE p[r]]

slotVars == <<accountUpstream, upstream, profiles>>

(* The next operation of r reads the settings: to acquire, to wait, to      *)
(* release a guard that is not nil, to report a success or a 429.           *)
Reads(r) ==
  \/ pc[r] \in {"select", "refused"}
  \/ pc[r] \in {"calling", "returned", "reported"} /\ call[r].guarded
  \/ pc[r] \in {"calling", "failed"} /\ call[r].okModel # Null

(* The settings the operation of r works with. *)
upOf(r) == Settings[read[r]]

(* A step of r: its next operation reads the settings now or later. *)
ReadsNext(r) == up' = up /\ read' = [read EXCEPT ![r] = up]

Init ==
  /\ up \in Configs
  /\ read = [r \in Requests |-> up]
  /\ accountUpstream = [a \in Accounts |-> 0]
  /\ upstream = [k \in Accounts \X Models |-> ZeroState]
  /\ profiles = [k \in Profiles \X Models |-> ZeroState]
  /\ affinity = [x \in Routes |-> NoEntry]
  /\ seenBefore = {}
  /\ waitingRequests = 0
  /\ pc = [r \in Requests |-> "idle"]
  /\ call = [r \in Requests |-> NoCall]

(* A client request (success reported under its own model), a capability    *)
(* health probe (never reported, model_health.go) or a web search, which    *)
(* acquires under SearchModel and reports under the client's model.         *)
Start(r) ==
  /\ pc[r] = "idle"
  /\ \E m \in Models, ok \in Models \cup {Null}, route \in Routes \cup {Null} :
       /\ IF m = SearchModel THEN ok \notin {SearchModel, Null} /\ route = Null
                             ELSE ok \in {m, Null}
       /\ call' = [call EXCEPT ![r] =
                     [model |-> m, okModel |-> ok, route |-> route, acct |-> Null,
                      guarded |-> FALSE, probe |-> FALSE, counted |-> FALSE]]
  /\ pc' = [pc EXCEPT ![r] = "select"]
  /\ ReadsNext(r)
  /\ UNCHANGED <<slotVars, affinityVars, waitingRequests>>

(* pruneRouteAffinityLocked drops the bindings older than the TTL: with a   *)
(* binding, every older one.                                                *)
Expired(gone) ==
  /\ gone \subseteq Bound(affinity)
  /\ \A x \in gone : \A y \in Bound(affinity) : <<y, x>> \in seenBefore => y \in gone

Pruned == {Without(affinity, gone) : gone \in {g \in SUBSET Routes : Expired(g)}}

(* AcquireForModel gives r a slot of account a. *)
TakeSlot(r, a, aff) ==
  LET m == call[r].model
      p == ProfileArn[a]
      counted == profileLimit(upOf(r), p, m) > 0
  IN  /\ accountUpstream' = [accountUpstream EXCEPT ![a] = @ + 1]
      /\ upstream' = [upstream EXCEPT ![<<a, m>>] = Admit(@)]
      /\ profiles' = IF counted THEN [profiles EXCEPT ![<<p, m>>] = Admit(@)] ELSE profiles
      /\ affinity' = rememberRouteAffinity(upOf(r), aff, call[r].route, a, r)
      /\ seenBefore' = SeenNow(call[r].route)
      /\ call' = [call EXCEPT ![r] = WithSlot(@, a, TRUE, IsHalfOpen(upstream[<<a, m>>]), counted)]
      /\ pc' = [pc EXCEPT ![r] = "calling"]

(* AcquireForModel with protection enabled.  The account of a live binding  *)
(* comes first when it is ready; otherwise the first candidate in routing   *)
(* order with a free slot (any order is possible).  When no candidate is    *)
(* ready the candidates are the accounts that may refresh their token.      *)
AcquireForModel(r) ==
  /\ pc[r] = "select"
  /\ upOf(r).enabled
  /\ \E candidates \in SUBSET Accounts, ready \in BOOLEAN, aff \in Pruned :
       LET free  == {a \in candidates : ~SlotBusy(upOf(r), a, call[r].model)}
           bound == IF ready THEN free \cap BoundTo(aff, call[r].route) ELSE {}
       IN  IF free # {}
           THEN \E a \in (IF bound # {} THEN bound ELSE free) : TakeSlot(r, a, aff)
           ELSE /\ pc' = [pc EXCEPT ![r] = "refused"]
                /\ affinity' = aff
                /\ UNCHANGED <<slotVars, seenBefore, call>>
  /\ ReadsNext(r)
  /\ UNCHANGED waitingRequests

(* AcquireForModel with protection disabled: an account and a nil guard. *)
AcquireUnprotected(r) ==
  /\ pc[r] = "select"
  /\ ~upOf(r).enabled
  /\ \/ \E a \in Accounts : /\ call' = [call EXCEPT ![r] = Unguarded(@, a)]
                            /\ pc' = [pc EXCEPT ![r] = "calling"]
     \/ /\ pc' = [pc EXCEPT ![r] = "refused"]
        /\ UNCHANGED call
  /\ ReadsNext(r)
  /\ UNCHANGED <<slotVars, affinityVars, waitingRequests>>

(* releaseUpstreamSlot, on the three counters of r's guard.  The profile    *)
(* counter is decremented whether or not the guard was counted by it.       *)
ReleaseSlot_onlyIfLimited(r) ==
  LET a == call[r].acct
      m == call[r].model
      p == ProfileArn[a]
  IN  /\ accountUpstream' = [accountUpstream EXCEPT ![a] = IF @ > 0 THEN @ - 1 ELSE @]
      /\ upstream' = [upstream EXCEPT ![<<a, m>>] = Released(upOf(r), @)]
      /\ profiles' = IF profileLimit(upOf(r), p, m) = 0 THEN profiles
                     ELSE [profiles EXCEPT ![<<p, m>>] = Released(upOf(r), @)]

ReleaseSlot(r) ==
  LET a == call[r].acct
      m == call[r].model
      p == ProfileArn[a]
  IN  /\ accountUpstream' = [accountUpstream EXCEPT ![a] = IF @ > 0 THEN @ - 1 ELSE @]
      /\ upstream' = [upstream EXCEPT ![<<a, m>>] = Released(upOf(r), @)]
      /\ profiles' = IF p = NoProfile THEN profiles
                     ELSE [profiles EXCEPT ![<<p, m>>] = Released(upOf(r), @)]

(* Once released, a guard can no longer forget the binding it wrote. *)
Disowned(r) == [x \in Routes |-> IF affinity[x].owner = r
                                 THEN [affinity[x] EXCEPT !.owner = Null] ELSE affinity[x]]

(* UpstreamRequestGuard.Release after the call: a reported success ends the *)
(* request, a failure goes on to handleAccountFailureForModel, a health     *)
(* probe ends.  A nil guard releases nothing.                               *)
Release(r) ==
  /\ pc[r] \in {"calling", "returned", "reported"}
  /\ call' = [call EXCEPT ![r] = IF pc[r] = "reported" THEN NoCall
                                                       ELSE Unguarded(@, @.acct)]
  /\ LET returned == [pc EXCEPT ![r] = IF @ = "reported" THEN "idle" ELSE "failed"]
     IN  IF call[r].guarded
         THEN /\ ReleaseSlot(r)
              /\ affinity' = Disowned(r)
              /\ pc' = Signalled(returned)
         ELSE /\ pc' = returned
              /\ UNCHANGED <<slotVars, affinity>>
  /\ ReadsNext(r)
  /\ UNCHANGED <<seenBefore, waitingRequests>>

(* A failed tool call forgets the binding its own guard wrote; the call may *)
(* then be retried with the same guard (runKiroWithIntegrityRetry).         *)
ForgetAffinity_anyOwner(r) ==
  /\ pc[r] = "calling"
  /\ call[r].guarded
  /\ affinity' = Without(affinity, {x \in Routes : /\ x = call[r].route
                                                   /\ affinity[x].acct = call[r].acct})
  /\ pc' = [pc EXCEPT ![r] = "returned"]
  /\ ReadsNext(r)
  /\ UNCHANGED <<slotVars, seenBefore, waitingRequests, call>>

ForgetAffinity(r) ==
  /\ pc[r] = "calling"
  /\ call[r].guarded
  /\ affinity' = Without(affinity, {x \in Routes : /\ x = call[r].route
                                                   /\ affinity[x].acct = call[r].acct
                                                   /\ affinity[x].owner = r})
  /\ pc' = [pc EXCEPT ![r] = "returned"]
  /\ ReadsNext(r)
  /\ UNCHANGED <<slotVars, seenBefore, waitingRequests, call>>

(* runKiroWithIntegrityRetry: call the same account again, same guard. *)
RetryCall(r) ==
  /\ pc[r] = "returned"
  /\ pc' = [pc EXCEPT ![r] = "calling"]
  /\ ReadsNext(r)
  /\ UNCHANGED <<slotVars, affinityVars, waitingRequests, call>>

(* RecordUpstreamSuccess, before Release; a no-op when protection is off. *)
RecordUpstreamSuccess(r) ==
  LET a == call[r].acct
      m == call[r].okModel
      p == ProfileArn[a]
  IN  /\ pc[r] = "calling"
      /\ m # Null
      /\ IF upOf(r).enabled
         THEN /\ upstream' = [upstream EXCEPT ![<<a, m>>] = closeProtectionCircuit(@)]
              /\ profiles' = IF p = NoProfile THEN profiles
                             ELSE [profiles EXCEPT ![<<p, m>>] = closeProtectionCircuit(@)]
              /\ pc' = Signalled([pc EXCEPT ![r] = "reported"])
         ELSE /\ pc' = [pc EXCEPT ![r] = "reported"]
              /\ UNCHANGED <<upstream, profiles>>
      /\ ReadsNext(r)
      /\ UNCHANGED <<accountUpstream, affinityVars, waitingRequests, call>>

(* RecordUpstreamRateLimitedWithRetryAfter, after Release: opens the        *)
(* account/model key, and the profile/model key when it has a limit, and    *)
(* drops every binding to the account.  The request retries elsewhere.      *)
RecordUpstreamRateLimited(r) ==
  LET a == call[r].acct
      m == call[r].model
      p == ProfileArn[a]
  IN  /\ pc[r] = "failed"
      /\ call[r].okModel # Null
      /\ upOf(r).enabled
      /\ upstream[<<a, m>>].rateLimitCount < MaxRateLimits
      /\ \E ra \in RetryAfters :
           /\ \E d \in Cooldowns(upOf(r), upstream[<<a, m>>].rateLimitCount + 1, ra) :
                upstream' = [upstream EXCEPT ![<<a, m>>] = applyProtectionCooldown(@, d)]
           /\ IF profileLimit(upOf(r), p, m) > 0
              THEN /\ profiles[<<p, m>>].rateLimitCount < MaxRateLimits
                   /\ \E d \in Cooldowns(upOf(r), profiles[<<p, m>>].rateLimitCount + 1, ra) :
                        profiles' = [profiles EXCEPT ![<<p, m>>] = applyProtectionCooldown(@, d)]
              ELSE UNCHANGED profiles
      /\ affinity' = Without(affinity, {x \in Routes : affinity[x].acct = a})
      /\ call' = [call EXCEPT ![r] = Unguarded(@, Null)]
      /\ pc' = Signalled([pc EXCEPT ![r] = "select"])
      /\ ReadsNext(r)
      /\ UNCHANGED <<accountUpstream, seenBefore, waitingRequests>>

(* Any other failure, one recorded on the account only, or a 429 that       *)
(* protection is not there to record: retry with another account, or end.   *)
OtherFailure(r) ==
  /\ pc[r] = "failed"
  /\ \/ /\ pc' = [pc EXCEPT ![r] = "select"]
        /\ call' = [call EXCEPT ![r] = Unguarded(@, Null)]
     \/ /\ pc' = [pc EXCEPT ![r] = "idle"]
        /\ call' = [call EXCEPT ![r] = NoCall]
  /\ ReadsNext(r)
  /\ UNCHANGED <<slotVars, affinityVars, waitingRequests>>

-----------------------------------------------------------------------------
(* WaitForAvailabilityWithStatus: join the bounded queue, or be refused by  *)
(* it; with protection disabled just sleep.                                 *)
JoinQueue(r) ==
  /\ pc[r] = "refused"
  /\ \/ /\ upOf(r).enabled
        /\ waitingRequests < upOf(r).queueCapacity
        /\ waitingRequests' = waitingRequests + 1
        /\ pc' = [pc EXCEPT ![r] = "queued"]
     \/ /\ ~upOf(r).enabled
        /\ pc' = [pc EXCEPT ![r] = "backoff"]
        /\ UNCHANGED waitingRequests
  /\ ReadsNext(r)
  /\ UNCHANGED <<slotVars, affinityVars, call>>

(* The queue is full, attempts are exhausted, the selection deadline passed *)
(* or the client is gone: the request ends without an account.              *)
GiveUp(r) ==
  /\ pc[r] \in {"select", "refused", "backoff"}
  /\ pc' = [pc EXCEPT ![r] = "idle"]
  /\ call' = [call EXCEPT ![r] = NoCall]
  /\ ReadsNext(r)
  /\ UNCHANGED <<slotVars, affinityVars, waitingRequests>>

(* The wait ends, by wake-up or timer (the request sleeps out the rest of   *)
(* its delay before it selects again) or by cancellation.                   *)
LeaveQueue_cancelLeaks(r) ==
  /\ InQueue(r)
  /\ \/ /\ waitingRequests' = waitingRequests - 1
        /\ pc' = [pc EXCEPT ![r] = "backoff"]
        /\ UNCHANGED call
     \/ /\ pc' = [pc EXCEPT ![r] = "idle"]
        /\ call' = [call EXCEPT ![r] = NoCall]
        /\ UNCHANGED waitingRequests
  /\ ReadsNext(r)
  /\ UNCHANGED <<slotVars, affinityVars>>

LeaveQueue_noTimer(r) ==
  /\ pc[r] = "woken"
  /\ waitingRequests' = waitingRequests - 1
  /\ pc' = [pc EXCEPT ![r] = "backoff"]
  /\ ReadsNext(r)
  /\ UNCHANGED <<slotVars, affinityVars, call>>

LeaveQueue(r) ==
  /\ InQueue(r)
  /\ waitingRequests' = IF waitingRequests > 0 THEN waitingRequests - 1 ELSE waitingRequests
  /\ \/ /\ pc' = [pc EXCEPT ![r] = "backoff"]
        /\ UNCHANGED call
     \/ /\ pc' = [pc EXCEPT ![r] = "idle"]
        /\ call' = [call EXCEPT ![r] = NoCall]
  /\ ReadsNext(r)
  /\ UNCHANGED <<slotVars, affinityVars>>

(* nextRound: the delay is over, select again. *)
NextRound(r) ==
  /\ pc[r] = "backoff"
  /\ pc' = [pc EXCEPT ![r] = "select"]
  /\ ReadsNext(r)
  /\ UNCHANGED <<slotVars, affinityVars, waitingRequests, call>>

(* apiUpdateUpstreamProtection saves the settings: operations that have     *)
(* read the old ones, and wait for the lock, go on with those.              *)
UpdateUpstreamProtection ==
  /\ up' \in Updates[up]
  /\ \E late \in SUBSET {r \in Requests : Reads(r)} :
       /\ \A r \in Requests : Reads(r) /\ read[r] # up => r \in late
       /\ read' = [r \in Requests |-> IF r \in late THEN read[r] ELSE up']
  /\ UNCHANGED <<slotVars, affinityVars, waitingRequests, pc, call>>

(* NotifyAvailability, after the save; pool/account.go broadcasts as well   *)
(* whenever an account changes, so the queue may be woken at any time.      *)
NotifyAvailability ==
  /\ \E r \in Requests : pc[r] = "queued"
  /\ pc' = Signalled(pc)
  /\ UNCHANGED <<up, read, slotVars, affinityVars, waitingRequests, call>>

Aged(s) == IF Cooling(s) THEN [s EXCEPT !.cooldown = @ - 1] ELSE s

Tick ==
  /\ \/ \E k \in DOMAIN upstream : Cooling(upstream[k])
     \/ \E k \in DOMAIN profiles : Cooling(profiles[k])
  /\ upstream' = [k \in DOMAIN upstream |-> Aged(upstream[k])]
  /\ profiles' = [k \in DOMAIN profiles |-> Aged(profiles[k])]
  /\ UNCHANGED <<up, read, accountUpstream, affinityVars, waitingRequests, pc, call>>

RequestStep(r) ==
  \/ Start(r) \/ AcquireForModel(r) \/ AcquireUnprotected(r) \/ ForgetAffinity(r) \/ RetryCall(r)
  \/ RecordUpstreamSuccess(r) \/ Release(r)
  \/ RecordUpstreamRateLimited(r) \/ OtherFailure(r)
  \/ JoinQueue(r) \/ GiveUp(r) \/ LeaveQueue(r) \/ NextRound(r)

Next ==
  \/ \E r \in Requests : RequestStep(r)
  \/ UpdateUpstreamProtection
  \/ NotifyAvailability
  \/ Tick

(* Upstream calls end (they carry first-token, idle and total timeouts),    *)
(* released requests are accounted for, queue timers fire and time passes.  *)
(* Nothing forces clients to send requests or operators to save settings.   *)
Fairness ==
  /\ \A r \in Requests : /\ WF_vars(Release(r))
                         /\ WF_vars(OtherFailure(r) \/ RecordUpstreamRateLimited(r))
                         /\ WF_vars(LeaveQueue(r))
  /\ WF_vars(Tick)

Spec == Init /\ [][Next]_vars

FairSpec == Spec /\ Fairness

-----------------------------------------------------------------------------
(* Properties. *)
Holders(a) == {r \in Requests : call[r].guarded /\ call[r].acct = a}
ModelHolders(a, m) == {r \in Holders(a) : call[r].model = m}
ProfileHolders(p, m) ==
  {r \in Requests : /\ call[r].guarded
                    /\ ProfileArn[call[r].acct] = p
                    /\ call[r].model = m}

(* Every record keeps its type; limits, counters and cooldowns are natural  *)
(* numbers (or the zero time), so no release or tick drives one negative.   *)
TypeOK ==
  /\ up \in Configs
  /\ read \in [Requests -> Configs]
  /\ accountUpstream \in [Accounts -> Nat]
  /\ upstream \in [Accounts \X Models -> StateType]
  /\ profiles \in [Profiles \X Models -> StateType]
  /\ affinity \in [Routes -> EntryType]
  /\ seenBefore \subseteq Routes \X Routes
  /\ waitingRequests \in Nat
  /\ pc \in [Requests -> PCs]
  /\ call \in [Requests -> CallType]

(* Slots are neither leaked nor released twice: whatever the interleaving   *)
(* of acquires, successes, 429s, releases and settings changes, the         *)
(* counters of an account and of an account/model equal the number of       *)
(* guards still to be released.                                             *)
SlotConservation ==
  /\ \A a \in Accounts : accountUpstream[a] = Cardinality(Holders(a))
  /\ \A a \in Accounts, m \in Models :
       upstream[<<a, m>>].inFlight = Cardinality(ModelHolders(a, m))

(* Slots are counted right in every state of the right type: no release of  *)
(* any interleaving drives a counter below the guards still out, nor below  *)
(* zero (releaseUpstreamSlot, closeProtectionCircuit).                      *)
SlotsSafe == TypeOK /\ SlotConservation

(* The availability queue's counter equals the requests inside the wait, so *)
(* capacity freed by a wake-up, a timeout or a cancellation is never lost.  *)
QueueConservation == waitingRequests = Cardinality({r \in Requests : InQueue(r)})

(* A half-open flag always has a request in flight whose release clears it: *)
(* no key can stay busy behind a probe that no longer exists.               *)
ProbeHasHolder ==
  /\ \A a \in Accounts, m \in Models :
       upstream[<<a, m>>].halfOpenProbe => ModelHolders(a, m) # {}
  /\ \A p \in Profiles, m \in Models :
       profiles[<<p, m>>].halfOpenProbe => ProfileHolders(p, m) # {}

(* A profile counter never exceeds the guards on that profile and model,    *)
(* even when its limit is added, removed or changed with requests in        *)
(* flight: a settings change cannot wedge the profile.                      *)
ProfileNeverOvercounts ==
  \A p \in Profiles, m \in Models :
    profiles[<<p, m>>].inFlight <= Cardinality(ProfileHolders(p, m))

(* What requests leave behind is accounted for: the wait queue, the profile *)
(* counters and the probe flags all belong to requests that still exist     *)
(* (WaitForAvailability, releaseUpstreamSlot, activateHalfOpenProbe).       *)
GuardsAccounted == QueueConservation /\ ProfileNeverOvercounts /\ ProbeHasHolder

Admitted(r, a, m) ==
  /\ ~call[r].guarded /\ call'[r].guarded
  /\ call'[r].acct = a /\ call'[r].model = m

(* A request is admitted only within the limits of the settings its         *)
(* AcquireForModel read, counted over the guards really outstanding, also   *)
(* right after an operator lowered the limits below the load in flight.     *)
(* These are settings that were in force at some moment since the request's *)
(* previous step; they need not be the current ones, since the code reads   *)
(* them before it takes the lock.                                           *)
AdmissionWithinLimits ==
  [][\A r \in Requests, a \in Accounts, m \in Models :
       Admitted(r, a, m) =>
         /\ Cardinality(Holders(a)') <= accountConcurrencyLimit(upOf(r), a)
         /\ Cardinality(ModelHolders(a, m)') <= accountModelLimit(upOf(r), m)]_vars

CountedHolders(p, m) == {r \in ProfileHolders(p, m) : call[r].counted}

(* The same for the profile override, over the guards it counted.           *)
ProfileAdmissionWithinLimit ==
  [][\A r \in Requests, a \in Accounts, m \in Models :
       (Admitted(r, a, m) /\ call'[r].counted) =>
         Cardinality(CountedHolders(ProfileArn[a], m)')
           <= profileLimit(upOf(r), ProfileArn[a], m)]_vars

(* At most one request at a time is the half-open probe of an account and   *)
(* model ("TestCircuitBreakerAllowsOnlyOneHalfOpenProbe").                  *)
SingleHalfOpenProbe ==
  \A a \in Accounts, m \in Models :
    Cardinality({r \in ModelHolders(a, m) : call[r].probe}) <= 1

(* A guard's delayed ForgetAffinity never erases a binding written by       *)
(* another request, including one for the same route and account.           *)
ForgetsOnlyOwnBinding ==
  [][\A x \in Routes, r, q \in Requests :
       (r # q /\ pc[r] = "calling" /\ pc'[r] = "returned" /\ affinity[x].owner = q)
          => affinity'[x] = affinity[x]]_vars

(* A binding that is written makes room only at the cost of the oldest      *)
(* ones: whatever expires or is evicted by the admission was last used      *)
(* before everything that stays, the binding being refreshed is never       *)
(* evicted, and the table does not grow past the limit of the settings      *)
(* (rememberRouteAffinityLocked, pruneRouteAffinityLocked).                 *)
Binds(r) == pc[r] = "select" /\ pc'[r] = "calling" /\ call'[r].guarded /\ call[r].route # Null

AffinityEvictsOldest ==
  [][\A r \in Requests : Binds(r) =>
       LET kept == (Bound(affinity) \cap Bound(affinity')) \ {call[r].route}
           gone == Bound(affinity) \ Bound(affinity')
       IN  /\ call[r].route \in Bound(affinity')
           /\ gone \X kept \subseteq seenBefore
           /\ \/ Cardinality(Bound(affinity')) <= upOf(r).affinityMax
              \/ Cardinality(Bound(affinity')) <= Cardinality(Bound(affinity))]_vars

(* No key stays closed to traffic behind a half-open probe forever.         *)
ProbeResolved ==
  \A a \in Accounts, m \in Models :
    upstream[<<a, m>>].halfOpenProbe ~> ~upstream[<<a, m>>].halfOpenProbe

(* A request never waits in the availability queue forever.                 *)
QueueDrains == \A r \in Requests : InQueue(r) ~> ~InQueue(r)
=============================================================================
