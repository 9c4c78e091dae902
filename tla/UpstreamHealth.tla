---------------------------- MODULE UpstreamHealth ----------------------------
(***************************************************************************)
(* The shared network circuits of proxy/upstream_health.go (one per        *)
(* endpoint scope and one per outbound proxy) and the way one upstream     *)
(* call of proxy/kiro.go, callKiroAPISingleModel, takes and gives back its *)
(* admissions.  A frame <<c, d>> is the d-th nested invocation of          *)
(* callKiroAPISingleModel by the request goroutine c: after a token        *)
(* refresh, a history fallback or a region recovery the function calls     *)
(* itself while the outer invocation still holds its proxy admission.      *)
(* Every critical section of upstreamHealthRegistry.mu is one action.      *)
(*                                                                         *)
(* Time is as in UpstreamProtection: a cooldown is the number of ticks to  *)
(* cooldownUntil, NoTime its zero value, 0 a deadline that has passed.     *)
(* Latencies, labels and totals are statistics and are left out.           *)
(* consecutiveFailures matters up to the threshold and openCount up to the *)
(* longest cooldown, so both stop there.                                   *)
(***************************************************************************)
EXTENDS Integers, FiniteSets

CONSTANTS
  Calls,           \* request goroutines
  MaxDepth,        \* nested invocations: refresh, fallback, region recovery
  Endpoints,       \* endpoint circuit scopes
  Proxies,         \* outbound proxy URLs
  None,            \* no endpoint, no proxy (a direct connection)
  MaxEntries,      \* maxCircuitRuntimeEntries
  Threshold,       \* EndpointFailureThreshold, ProxyFailureThreshold
  BaseCooldown,    \* their circuit cooldowns
  MaxCooldown,     \* the 15 minute cap
  MaxOpenCount,    \* openCount from which the cooldown no longer grows
  MaxAttempts,     \* endpoints times attempts per endpoint of one invocation
  MaxAbandoned     \* bound on the admissions of a route never given back

NoTime == -1

Keys == Endpoints \cup Proxies
Frames == Calls \X (1 .. MaxDepth)

ASSUME HealthAssumption ==
  /\ IsFiniteSet(Calls) /\ IsFiniteSet(Keys)
  /\ Endpoints \cap Proxies = {} /\ None \notin Keys
  /\ MaxDepth \in Nat \ {0} /\ MaxEntries \in Nat \ {0}
  /\ Threshold \in [Keys -> Nat \ {0}]
  /\ BaseCooldown \in Nat \ {0} /\ MaxCooldown \in Nat \ {0}
  /\ MaxOpenCount \in 1 .. 5 /\ MaxAttempts \in Nat \ {0} /\ MaxAbandoned \in Nat

VARIABLES
  circuit,   \* [Keys -> circuitRuntimeState]: both maps of the registry
  framePc,        \* [Frames -> where the invocation is]
  lease,     \* [Frames -> what the invocation was admitted to and learnt]
  abandoned  \* history: [Keys -> admissions that were never ended]

healthVars == <<circuit, framePc, lease, abandoned>>

StateType ==
  [present : BOOLEAN, failures : Nat, openCount : 0 .. MaxOpenCount,
   cooldown : Nat \cup {NoTime}, probe : BOOLEAN, inFlight : Nat]

(* A key that is not in its map. *)
Absent ==
  [present |-> FALSE, failures |-> 0, openCount |-> 0,
   cooldown |-> NoTime, probe |-> FALSE, inFlight |-> 0]

FramePCs == {"idle", "route", "sending", "responded", "nested", "return"}

(* proxyOk and proxyFailed are proxyTransportSucceeded and                  *)
(* proxyTransportFailed, left the attempts left in the endpoint loop.       *)
LeaseType ==
  [proxy : Proxies \cup {None}, ep : Endpoints \cup {None},
   proxyOk : BOOLEAN, proxyFailed : BOOLEAN, left : 0 .. MaxAttempts]

NoLease ==
  [proxy |-> None, ep |-> None, proxyOk |-> FALSE, proxyFailed |-> FALSE,
   left |-> MaxAttempts]

SameMap(k) == IF k \in Endpoints THEN Endpoints ELSE Proxies

Present(map) == {k \in map : circuit[k].present}

Cooling(s) == s.cooldown > 0

-----------------------------------------------------------------------------
(* begin: a new key of a full map evicts an idle one (the least recently    *)
(* used; here any).  An entry whose cooldown has passed goes only when it   *)
(* has not been accessed for an hour.                                       *)
Evictable_busyToo(k) == circuit[k].present /\ ~circuit[k].probe /\ ~Cooling(circuit[k])

Evictable(k) ==
  /\ circuit[k].present
  /\ ~circuit[k].probe /\ circuit[k].inFlight = 0
  /\ ~Cooling(circuit[k])

Closed(k) == circuit[k].cooldown = NoTime

NeedsRoom(k) == ~circuit[k].present /\ Cardinality(Present(SameMap(k))) >= MaxEntries

(* What begin may evict for k; {None}: nothing has to go.                     *)
Victims(k) == IF NeedsRoom(k) THEN {v \in SameMap(k) : Evictable(v)} ELSE {None}

(* begin may find no room: every entry protects a route (an idle entry that *)
(* is not closed may still be too recent to be evicted).                    *)
NoRoom(k) == NeedsRoom(k) /\ ~\E v \in SameMap(k) : Evictable(v) /\ Closed(v)

Refused(s) == Cooling(s) \/ (s.cooldown = 0 /\ s.probe)

Entered(s) == [s EXCEPT !.present = TRUE]

Admitted(s) ==
  [present |-> TRUE, failures |-> s.failures, openCount |-> s.openCount,
   cooldown |-> s.cooldown, probe |-> s.probe \/ s.cooldown # NoTime,
   inFlight |-> s.inFlight + 1]

Evict(c, v) == IF v = None THEN c ELSE [c EXCEPT ![v] = Absent]

(* begin(k) refuses: no room, or an open circuit, or a probe under way. *)
BeginRefused(k) ==
  \/ NoRoom(k) /\ UNCHANGED circuit
  \/ \E v \in Victims(k) :
       /\ Refused(circuit[k])
       /\ circuit' = [Evict(circuit, v) EXCEPT ![k] = Entered(@)]

BeginAdmitted(k) ==
  \E v \in Victims(k) :
    /\ ~Refused(circuit[k])
    /\ circuit' = [Evict(circuit, v) EXCEPT ![k] = Admitted(@)]

-----------------------------------------------------------------------------
(* success, failure and release of one admission; an absent key is left     *)
(* alone.                                                                   *)
OneLess(n) == IF n > 0 THEN n - 1 ELSE 0

Success(s) ==
  IF s.present THEN [Absent EXCEPT !.present = TRUE, !.inFlight = OneLess(s.inFlight)] ELSE s

(* 1 << min(openCount - 1, 4) *)
Multiplier == <<1, 2, 4, 8, 16>>

Backoff(count) ==
  LET d == BaseCooldown * Multiplier[IF count < 5 THEN count ELSE 5]
  IN  IF d > MaxCooldown THEN MaxCooldown ELSE d

Failure_extends(s, threshold) ==
  LET count == IF s.openCount < MaxOpenCount THEN s.openCount + 1 ELSE MaxOpenCount
  IN  IF ~s.present THEN s
      ELSE IF s.probe \/ s.failures + 1 >= threshold
      THEN [present |-> TRUE, failures |-> 0, openCount |-> count,
            cooldown |-> Backoff(count), probe |-> FALSE, inFlight |-> OneLess(s.inFlight)]
      ELSE [present |-> TRUE, failures |-> s.failures + 1, openCount |-> s.openCount,
            cooldown |-> s.cooldown, probe |-> FALSE, inFlight |-> OneLess(s.inFlight)]

Failure(s, threshold) ==
  LET count  == IF s.openCount < MaxOpenCount THEN s.openCount + 1 ELSE MaxOpenCount
      failed == IF s.failures < threshold THEN s.failures + 1 ELSE threshold
  IN  IF ~s.present THEN s
      ELSE IF s.probe \/ (~Cooling(s) /\ failed >= threshold)
      THEN [present |-> TRUE, failures |-> 0, openCount |-> count,
            cooldown |-> Backoff(count), probe |-> FALSE, inFlight |-> OneLess(s.inFlight)]
      ELSE [present |-> TRUE, failures |-> failed, openCount |-> s.openCount,
            cooldown |-> s.cooldown, probe |-> FALSE, inFlight |-> OneLess(s.inFlight)]

ReleaseAdmission_keepsProbe(s) ==
  IF s.present THEN [s EXCEPT !.inFlight = OneLess(@)] ELSE s

ReleaseAdmission(s) ==
  IF s.present THEN [s EXCEPT !.probe = FALSE, !.inFlight = OneLess(@)] ELSE s

Outcomes == {"success", "failure", "release"}

Ended(k, outcome) ==
  CASE outcome = "success" -> Success(circuit[k])
    [] outcome = "failure" -> Failure(circuit[k], Threshold[k])
    [] outcome = "release" -> ReleaseAdmission(circuit[k])

-----------------------------------------------------------------------------
HealthInit ==
  /\ circuit = [k \in Keys |-> Absent]
  /\ framePc = [f \in Frames |-> "idle"]
  /\ lease = [f \in Frames |-> NoLease]
  /\ abandoned = [k \in Keys |-> 0]

(* A call starts, or its enclosing invocation has just called it. *)
MayStart(f) ==
  /\ framePc[f] = "idle"
  /\ f[2] > 1 => framePc[<<f[1], f[2] - 1>>] = "nested"

(* The invocation is over: its caller resumes. *)
Popped(p, f) ==
  [g \in Frames |-> IF g = f THEN "idle"
                    ELSE IF g[1] = f[1] /\ g[2] = f[2] - 1 THEN "return"
                    ELSE p[g]]

(* The account's proxy; a nested call is for the same account. *)
Outer(f) == <<f[1], f[2] - 1>>

ProxyOf(f) == IF f[2] = 1 THEN Proxies \cup {None} ELSE {lease[Outer(f)].proxy}

(* beginProxy, for a call through an outbound proxy. *)
BeginProxy(f) ==
  /\ MayStart(f)
  /\ \E k \in ProxyOf(f) :
       \/ /\ k = None
          /\ framePc' = [framePc EXCEPT ![f] = "route"]
          /\ UNCHANGED <<circuit, lease>>
       \/ /\ k # None
          /\ BeginRefused(k)
          /\ framePc' = Popped(framePc, f)
          /\ UNCHANGED lease
       \/ /\ k # None
          /\ BeginAdmitted(k)
          /\ lease' = [lease EXCEPT ![f] =
                         [proxy |-> k, ep |-> None, proxyOk |-> FALSE, proxyFailed |-> FALSE,
                          left |-> MaxAttempts]]
          /\ framePc' = [framePc EXCEPT ![f] = "route"]
  /\ UNCHANGED abandoned

(* The endpoint loop: the next endpoint is admitted or skipped. *)
BeginEndpoint(f) ==
  /\ framePc[f] = "route"
  /\ lease[f].left > 0
  /\ \E k \in Endpoints :
       \/ /\ BeginRefused(k)
          /\ lease' = [lease EXCEPT ![f].left = @ - 1]
          /\ UNCHANGED framePc
       \/ /\ BeginAdmitted(k)
          /\ lease' = [lease EXCEPT ![f] =
                         [proxy |-> @.proxy, ep |-> k, proxyOk |-> @.proxyOk,
                          proxyFailed |-> @.proxyFailed,
                          left |-> @.left - 1]]
          /\ framePc' = [framePc EXCEPT ![f] = "sending"]
  /\ UNCHANGED abandoned

(* No endpoint is left, or the request context ended between attempts. *)
LoopEnds(f) ==
  /\ framePc[f] = "route"
  /\ framePc' = [framePc EXCEPT ![f] = "return"]
  /\ UNCHANGED <<circuit, lease, abandoned>>

(* client.Do returned a response. *)
Respond(f) ==
  /\ framePc[f] = "sending"
  /\ lease' = [lease EXCEPT ![f].proxyOk = TRUE]
  /\ framePc' = [framePc EXCEPT ![f] = "responded"]
  /\ UNCHANGED <<circuit, abandoned>>

EndEndpoint(f, outcome) ==
  circuit' = [circuit EXCEPT ![lease[f].ep] = Ended(lease[f].ep, outcome)]

WithoutEndpoint(l, failed) ==
  [proxy |-> l.proxy, ep |-> None, proxyOk |-> l.proxyOk,
   proxyFailed |-> l.proxyFailed \/ failed, left |-> l.left]

(* Without a response: the retry budget is used up or the request cannot be *)
(* built (release), or a transport error, which the circuit counts          *)
(* (failure) or not (release).  Try another endpoint or return.             *)
SendFails(f) ==
  /\ framePc[f] = "sending"
  /\ \E outcome \in {"failure", "release"} :
       /\ EndEndpoint(f, outcome)
       /\ lease' = [lease EXCEPT ![f] = WithoutEndpoint(@, outcome = "failure")]
  /\ \E next \in {"route", "return"} : framePc' = [framePc EXCEPT ![f] = next]
  /\ UNCHANGED abandoned

(* client.Do failed because the client is gone, or with a local             *)
(* configuration error: return without releasing the endpoint.              *)
Abandon(f) ==
  /\ framePc[f] = "sending"
  /\ abandoned[lease[f].ep] < MaxAbandoned
  /\ abandoned' = [abandoned EXCEPT ![lease[f].ep] = @ + 1]
  /\ lease' = [lease EXCEPT ![f] = WithoutEndpoint(@, FALSE)]
  /\ framePc' = [framePc EXCEPT ![f] = "return"]
  /\ UNCHANGED circuit

(* An HTTP error (success unless it is a 502, 503 or 504), a finished       *)
(* stream (success), a broken one (success once output was delivered,       *)
(* failure or release before), an empty or canceled one (release).          *)
ResponseEnds(f) ==
  /\ framePc[f] = "responded"
  /\ \E outcome \in Outcomes : EndEndpoint(f, outcome)
  /\ lease' = [lease EXCEPT ![f] = WithoutEndpoint(@, FALSE)]
  /\ \E next \in {"route", "return"} : framePc' = [framePc EXCEPT ![f] = next]
  /\ UNCHANGED abandoned

(* An HTTP error is repaired and the call repeated by a nested invocation:  *)
(* token refresh and history fallback end the endpoint admission before,    *)
(* region recovery keeps it until the nested call is over.                  *)
Recurse(f) ==
  /\ f[2] < MaxDepth
  /\ framePc[f] = "responded"
  /\ \/ /\ \E outcome \in {"success", "failure"} : EndEndpoint(f, outcome)
        /\ lease' = [lease EXCEPT ![f] = WithoutEndpoint(@, FALSE)]
     \/ UNCHANGED <<circuit, lease>>
  /\ framePc' = [framePc EXCEPT ![f] = "nested"]
  /\ UNCHANGED abandoned

(* The nested call of a region recovery is over: releaseEndpoint. *)
ReleaseAfterNested(f) ==
  /\ framePc[f] = "return"
  /\ lease[f].ep # None
  /\ EndEndpoint(f, "release")
  /\ lease' = [lease EXCEPT ![f] = WithoutEndpoint(@, FALSE)]
  /\ UNCHANGED <<framePc, abandoned>>

(* The deferred end of the proxy admission. *)
ProxyOutcome(l) ==
  IF l.proxyOk THEN "success" ELSE IF l.proxyFailed THEN "failure" ELSE "release"

Return(f) ==
  /\ framePc[f] = "return"
  /\ lease[f].ep = None
  /\ IF lease[f].proxy = None THEN UNCHANGED circuit
     ELSE circuit' = [circuit EXCEPT ![lease[f].proxy] =
                        Ended(lease[f].proxy, ProxyOutcome(lease[f]))]
  /\ lease' = [lease EXCEPT ![f] = NoLease]
  /\ framePc' = Popped(framePc, f)
  /\ UNCHANGED abandoned

Aged(s) == IF Cooling(s) THEN [s EXCEPT !.cooldown = @ - 1] ELSE s

Tick ==
  /\ \E k \in Keys : Cooling(circuit[k])
  /\ circuit' = [k \in Keys |-> Aged(circuit[k])]
  /\ UNCHANGED <<framePc, lease, abandoned>>

FrameStep(f) ==
  \/ BeginProxy(f) \/ BeginEndpoint(f) \/ LoopEnds(f)
  \/ Respond(f) \/ SendFails(f) \/ Abandon(f) \/ ResponseEnds(f)
  \/ Recurse(f) \/ ReleaseAfterNested(f) \/ Return(f)

HealthNext == (\E f \in Frames : FrameStep(f)) \/ Tick

HealthSpec == HealthInit /\ [][HealthNext]_healthVars

(* Upstream requests carry timeouts, and the endpoint loop, the deferred    *)
(* ends and the nested calls are straight-line code.                        *)
HealthFairness ==
  /\ \A f \in Frames :
       /\ WF_healthVars(LoopEnds(f))
       /\ WF_healthVars(Respond(f) \/ SendFails(f) \/ Abandon(f))
       /\ WF_healthVars(ResponseEnds(f) \/ Recurse(f))
       /\ WF_healthVars(ReleaseAfterNested(f) \/ Return(f))
       /\ WF_healthVars(framePc[f] = "idle" /\ f[2] > 1 /\ BeginProxy(f))
  /\ WF_healthVars(Tick)

HealthFairSpec == HealthSpec /\ HealthFairness

-----------------------------------------------------------------------------
(* Properties. *)

(* A circuit's counters and cooldown stay in range: ending an admission     *)
(* more often than it began would drive inFlight below zero.                *)
HealthTypeOK ==
  /\ circuit \in [Keys -> StateType]
  /\ framePc \in [Frames -> FramePCs]
  /\ lease \in [Frames -> LeaseType]
  /\ abandoned \in [Keys -> 0 .. MaxAbandoned]

Leases(k) == {f \in Frames : k \in {lease[f].proxy, lease[f].ep}}

(* inFlight is the number of admissions out, and of those that no return    *)
(* path of callKiroAPISingleModel will ever end: an entry in use is never   *)
(* evicted to make room, and no success, failure or release ends another    *)
(* request's admission.                                                     *)
LeasesCounted ==
  \A k \in Keys : circuit[k].inFlight = Cardinality(Leases(k)) + abandoned[k]

(* The registry stays within maxCircuitRuntimeEntries per map. *)
RegistryBounded ==
  /\ Cardinality(Present(Endpoints)) <= MaxEntries
  /\ Cardinality(Present(Proxies)) <= MaxEntries

(* A half-open probe has an invocation that will end it, whichever of the   *)
(* loop's exits, retries and nested calls it takes, unless it left by one   *)
(* of the two returns that end nothing.                                     *)
ProbeHasCall ==
  \A k \in Keys : circuit[k].probe => Leases(k) # {} \/ abandoned[k] > 0

(* The circuits as a whole: admissions are counted, the registry is         *)
(* bounded, and a probe has a call that ends it.                            *)
CircuitsSafe == HealthTypeOK /\ LeasesCounted /\ RegistryBounded /\ ProbeHasCall

(* Requests admitted before a circuit opened and failing after it do not    *)
(* prolong its cooldown.                                                    *)
CooldownNotExtended ==
  [][\A k \in Keys : Cooling(circuit[k]) => circuit'[k].cooldown <= circuit[k].cooldown]_healthVars

(* A route is not held by a half-open probe forever: the probe ends, and    *)
(* with it the refusals of everybody else ("canceled probe not released",   *)
(* TestCircuitConcurrentHalfOpenAllowsOneProbe).                            *)
ProbeResolved == \A k \in Keys : circuit[k].probe ~> ~circuit[k].probe
=============================================================================
