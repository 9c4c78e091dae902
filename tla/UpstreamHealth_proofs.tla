------------------------ MODULE UpstreamHealth_proofs ------------------------
(***************************************************************************)
(* Proofs about what is known of the upstream, in two parts.               *)
(* UpstreamHealth: the circuits, for every set of calls, endpoints and     *)
(* proxies, every depth of nesting and every limit of the registry.        *)
(* EndpointRoutes: what an account has learnt, in memory and on disk, for  *)
(* every set of accounts and endpoints and every limit of its tables.      *)
(***************************************************************************)
EXTENDS UpstreamHealth, EndpointRoutes, DataLemmas, FiniteSetTheorems, TLAPS

(* What an invocation holds, by where it is: nothing before it began, an    *)
(* endpoint while it sends or reads a response, none in the endpoint loop.  *)
LeaseInv ==
  \A f \in Frames :
    /\ framePc[f] = "idle" => lease[f] = NoLease
    /\ framePc[f] \in {"sending", "responded"} => lease[f].ep \in Endpoints
    /\ framePc[f] = "route" => lease[f].ep = None

TypeInv == HealthTypeOK /\ LeaseInv

-----------------------------------------------------------------------------
(* The types of what the operations of a circuit return. *)
LEMMA NotAKey == None \notin Endpoints /\ None \notin Proxies
BY HealthAssumption DEF Keys

LEMMA AbsentType == Absent \in StateType
BY HealthAssumption DEF Absent, StateType

LEMMA NoLeaseType == NoLease \in LeaseType
BY HealthAssumption DEF NoLease, LeaseType

LEMMA BackoffType == \A n \in 1 .. MaxOpenCount : Backoff(n) \in Nat
<1> SUFFICES ASSUME NEW n \in 1 .. MaxOpenCount PROVE Backoff(n) \in Nat
  OBVIOUS
<1> DEFINE i == IF n < 5 THEN n ELSE 5
<1>1. i \in 1 .. 5
  BY HealthAssumption
<1>2. Multiplier[i] \in Nat
  BY <1>1 DEF Multiplier
<1> HIDE DEF i
<1>3. BaseCooldown * Multiplier[i] \in Nat
  BY <1>2, HealthAssumption
<1> QED
  BY <1>3, HealthAssumption DEF Backoff, i

LEMMA OneLessType == \A n \in Nat : OneLess(n) \in Nat
BY DEF OneLess

LEMMA SuccessIs ==
  ASSUME NEW s \in StateType, s.present
  PROVE  Success(s) = [present |-> TRUE, failures |-> 0, openCount |-> 0,
                       cooldown |-> NoTime, probe |-> FALSE, inFlight |-> OneLess(s.inFlight)]
BY DEF Success, Absent, StateType

LEMMA ReleaseIs ==
  ASSUME NEW s \in StateType, s.present
  PROVE  ReleaseAdmission(s) =
           [present |-> TRUE, failures |-> s.failures, openCount |-> s.openCount,
            cooldown |-> s.cooldown, probe |-> FALSE, inFlight |-> OneLess(s.inFlight)]
BY DEF ReleaseAdmission, StateType

LEMMA SuccessType == \A s \in StateType : Success(s) \in StateType
<1> SUFFICES ASSUME NEW s \in StateType PROVE Success(s) \in StateType
  OBVIOUS
<1>1. CASE s.present
  <2>1. OneLess(s.inFlight) \in Nat /\ 0 \in 0 .. MaxOpenCount
    BY OneLessType, HealthAssumption DEF StateType
  <2>2. [present |-> TRUE, failures |-> 0, openCount |-> 0, cooldown |-> NoTime,
         probe |-> FALSE, inFlight |-> OneLess(s.inFlight)] \in StateType
    BY <2>1 DEF StateType
  <2> QED
    BY <1>1, <2>2, SuccessIs
<1>2. CASE ~s.present
  BY <1>2 DEF Success
<1> QED
  BY <1>1, <1>2

LEMMA ReleaseType == \A s \in StateType : ReleaseAdmission(s) \in StateType
<1> SUFFICES ASSUME NEW s \in StateType PROVE ReleaseAdmission(s) \in StateType
  OBVIOUS
<1>1. CASE s.present
  <2>1. OneLess(s.inFlight) \in Nat
    BY OneLessType DEF StateType
  <2>2. [present |-> TRUE, failures |-> s.failures, openCount |-> s.openCount,
         cooldown |-> s.cooldown, probe |-> FALSE,
         inFlight |-> OneLess(s.inFlight)] \in StateType
    BY <2>1 DEF StateType
  <2> QED
    BY <1>1, <2>2, ReleaseIs
<1>2. CASE ~s.present
  BY <1>2 DEF ReleaseAdmission
<1> QED
  BY <1>1, <1>2

LEMMA FailureType ==
  ASSUME NEW s \in StateType, NEW t \in Nat \ {0}
  PROVE  Failure(s, t) \in StateType
<1> DEFINE count == IF s.openCount < MaxOpenCount THEN s.openCount + 1 ELSE MaxOpenCount
<1>1. count \in 1 .. MaxOpenCount /\ count \in 0 .. MaxOpenCount
  BY HealthAssumption DEF StateType
<1>2. Backoff(count) \in Nat
  BY <1>1, BackoffType
<1>3. OneLess(s.inFlight) \in Nat
  BY DEF OneLess, StateType
<1>4. s.failures \in Nat /\ s.openCount \in 0 .. MaxOpenCount
      /\ s.cooldown \in Nat \cup {NoTime}
  BY DEF StateType
<1> HIDE DEF count
<1>5. [present |-> TRUE, failures |-> 0, openCount |-> count, cooldown |-> Backoff(count),
       probe |-> FALSE, inFlight |-> OneLess(s.inFlight)] \in StateType
  BY <1>1, <1>2, <1>3 DEF StateType
<1>6. \A n \in Nat :
        [present |-> TRUE, failures |-> n, openCount |-> s.openCount,
         cooldown |-> s.cooldown, probe |-> FALSE,
         inFlight |-> OneLess(s.inFlight)] \in StateType
  BY <1>3, <1>4 DEF StateType
<1>7. (IF s.failures < t THEN s.failures + 1 ELSE t) \in Nat
  BY <1>4
<1> QED
  BY <1>5, <1>6, <1>7 DEF Failure, count

LEMMA EndedType ==
  ASSUME HealthTypeOK, NEW k \in Keys, NEW o \in Outcomes
  PROVE  Ended(k, o) \in StateType
<1>1. circuit[k] \in StateType /\ Threshold[k] \in Nat \ {0}
  BY HealthAssumption DEF HealthTypeOK
<1> QED
  BY <1>1, SuccessType, FailureType, ReleaseType DEF Ended, Outcomes

LEMMA EnteredType == \A s \in StateType : Entered(s) \in StateType
BY DEF Entered, StateType

LEMMA AdmittedType == \A s \in StateType : Admitted(s) \in StateType
BY DEF Admitted, StateType

LEMMA AgedType == \A s \in StateType : Aged(s) \in StateType
BY DEF Aged, Cooling, StateType, NoTime

(* A victim is another entry of the same map, idle and not cooling. *)
LEMMA VictimFacts ==
  ASSUME HealthTypeOK, NEW k \in Keys, NEW v \in Victims(k)
  PROVE  \/ v = None /\ ~NeedsRoom(k)
         \/ /\ v \in SameMap(k) /\ v \in Keys /\ v # k /\ v # None
            /\ NeedsRoom(k) /\ Evictable(v)
BY HealthAssumption DEF Victims, NeedsRoom, Evictable, SameMap, Keys

(* What begin does to k and, by eviction, to the others. *)
Began(k, s) ==
  /\ circuit' \in [Keys -> StateType]
  /\ circuit'[k] = s
  /\ \A j \in Keys : j # k => circuit'[j] = circuit[j] \/ (Evictable(j) /\ circuit'[j] = Absent)

LEMMA EvictBegan ==
  ASSUME HealthTypeOK, NEW k \in Keys, NEW v \in Victims(k), NEW s \in StateType,
         circuit' = [Evict(circuit, v) EXCEPT ![k] = s]
  PROVE  Began(k, s)
<1>1. CASE v = None
  BY <1>1 DEF Evict, Began, HealthTypeOK
<1>2. CASE v # None
  <2>1. v \in Keys /\ v # k /\ Evictable(v)
    BY <1>2, VictimFacts
  <2> QED
    BY <1>2, <2>1, AbsentType DEF Evict, Began, HealthTypeOK
<1> QED
  BY <1>1, <1>2

LEMMA EvictSame ==
  ASSUME HealthTypeOK, NEW k \in Keys, NEW v \in Victims(k)
  PROVE  Evict(circuit, v)[k] = circuit[k]
BY VictimFacts DEF Evict, HealthTypeOK

LEMMA AdmittedBegan ==
  ASSUME HealthTypeOK, NEW k \in Keys, BeginAdmitted(k)
  PROVE  ~Refused(circuit[k]) /\ Began(k, Admitted(circuit[k]))
<1>1. PICK v \in Victims(k) :
        /\ ~Refused(circuit[k])
        /\ circuit' = [Evict(circuit, v) EXCEPT ![k] = Admitted(@)]
  BY DEF BeginAdmitted
<1>2. circuit' = [Evict(circuit, v) EXCEPT ![k] = Admitted(circuit[k])]
  BY <1>1, EvictSame
<1>3. Admitted(circuit[k]) \in StateType
  BY AdmittedType DEF HealthTypeOK
<1> QED
  BY <1>1, <1>2, <1>3, EvictBegan

LEMMA RefusedBegan ==
  ASSUME HealthTypeOK, NEW k \in Keys, BeginRefused(k)
  PROVE  UNCHANGED circuit \/ (Refused(circuit[k]) /\ Began(k, Entered(circuit[k])))
<1>1. CASE UNCHANGED circuit
  BY <1>1
<1>2. ASSUME NEW v \in Victims(k), Refused(circuit[k]),
             circuit' = [Evict(circuit, v) EXCEPT ![k] = Entered(@)]
      PROVE  Refused(circuit[k]) /\ Began(k, Entered(circuit[k]))
  <2>1. circuit' = [Evict(circuit, v) EXCEPT ![k] = Entered(circuit[k])]
    BY <1>2, EvictSame
  <2>2. Entered(circuit[k]) \in StateType
    BY EnteredType DEF HealthTypeOK
  <2> QED
    BY <1>2, <2>1, <2>2, EvictBegan
<1> QED
  BY <1>1, <1>2 DEF BeginRefused

-----------------------------------------------------------------------------
(* Frames, and what a pop does to them. *)
LEMMA FrameFacts ==
  ASSUME NEW f \in Frames
  PROVE  /\ f[1] \in Calls /\ f[2] \in 1 .. MaxDepth /\ f[2] \in Nat
         /\ f[2] # 1 => Outer(f) \in Frames
BY HealthAssumption DEF Frames, Outer

LEMMA ProxyOfType ==
  ASSUME HealthTypeOK, NEW f \in Frames, NEW k \in ProxyOf(f)
  PROVE  k = None \/ (k \in Proxies /\ k \in Keys)
<1>1. \A g \in Frames : lease[g].proxy \in Proxies \cup {None}
  BY DEF HealthTypeOK, LeaseType
<1> QED
  BY <1>1, FrameFacts DEF ProxyOf, Keys

LEMMA PoppedFacts ==
  ASSUME HealthTypeOK, NEW f \in Frames
  PROVE  /\ Popped(framePc, f) \in [Frames -> FramePCs]
         /\ Popped(framePc, f)[f] = "idle"
         /\ \A g \in Frames : g # f => Popped(framePc, f)[g] \in {framePc[g], "return"}
BY DEF HealthTypeOK, Popped, FramePCs

LEMMA WithoutEndpointType ==
  ASSUME NEW l \in LeaseType, NEW failed \in BOOLEAN
  PROVE  /\ WithoutEndpoint(l, failed) \in LeaseType
         /\ WithoutEndpoint(l, failed).ep = None
         /\ WithoutEndpoint(l, failed).proxy = l.proxy
BY DEF WithoutEndpoint, LeaseType

(* The endpoint of f is given back: the lease loses it and f moves on. *)
LEMMA EndpointGiven ==
  ASSUME TypeInv, NEW f \in Frames, NEW failed \in BOOLEAN,
         NEW to \in {"route", "return", "nested"},
         lease' = [lease EXCEPT ![f] = WithoutEndpoint(@, failed)],
         framePc' = [framePc EXCEPT ![f] = to]
  PROVE  framePc' \in [Frames -> FramePCs] /\ lease' \in [Frames -> LeaseType] /\ LeaseInv'
<1>1. lease[f] \in LeaseType
  BY DEF TypeInv, HealthTypeOK
<1>2. /\ WithoutEndpoint(lease[f], failed) \in LeaseType
      /\ WithoutEndpoint(lease[f], failed).ep = None
  BY <1>1, WithoutEndpointType
<1>3. framePc' \in [Frames -> FramePCs] /\ lease' \in [Frames -> LeaseType]
  BY <1>2 DEF TypeInv, HealthTypeOK, FramePCs
<1>4. LeaseInv'
  BY <1>2 DEF TypeInv, HealthTypeOK, LeaseInv
<1> QED
  BY <1>3, <1>4

LEMMA EndpointEnded ==
  ASSUME HealthTypeOK, NEW f \in Frames, lease[f].ep \in Endpoints, NEW o \in Outcomes,
         EndEndpoint(f, o)
  PROVE  circuit' \in [Keys -> StateType]
<1>1. lease[f].ep \in Keys
  BY DEF Keys
<1> QED
  BY <1>1, EndedType DEF EndEndpoint, HealthTypeOK

LEMMA BeginProxyTypes ==
  ASSUME TypeInv, NEW f \in Frames, BeginProxy(f)
  PROVE  TypeInv'
<1> USE DEF TypeInv
<1>1. PICK k \in ProxyOf(f) :
        \/ /\ k = None
           /\ framePc' = [framePc EXCEPT ![f] = "route"]
           /\ UNCHANGED <<circuit, lease>>
        \/ /\ k # None
           /\ BeginRefused(k)
           /\ framePc' = Popped(framePc, f)
           /\ UNCHANGED lease
        \/ /\ k # None
           /\ BeginAdmitted(k)
           /\ lease' = [lease EXCEPT ![f] =
                          [proxy |-> k, ep |-> None, proxyOk |-> FALSE,
                           proxyFailed |-> FALSE, left |-> MaxAttempts]]
           /\ framePc' = [framePc EXCEPT ![f] = "route"]
  BY DEF BeginProxy
<1>2. k = None \/ (k \in Proxies /\ k \in Keys)
  BY ProxyOfType
<1>3. framePc[f] = "idle" /\ lease[f] = NoLease /\ abandoned' = abandoned
  BY DEF BeginProxy, MayStart, LeaseInv
<1>4. CASE k = None
  <2>1. /\ framePc' = [framePc EXCEPT ![f] = "route"]
        /\ UNCHANGED <<circuit, lease>>
    BY <1>1, <1>4
  <2> QED
    BY <1>3, <2>1 DEF HealthTypeOK, LeaseInv, FramePCs, NoLease
<1>5. CASE k # None /\ BeginRefused(k) /\ framePc' = Popped(framePc, f) /\ UNCHANGED lease
  <2>1. circuit' \in [Keys -> StateType]
    BY <1>2, <1>5, RefusedBegan DEF Began, HealthTypeOK
  <2>2. LeaseInv'
    BY <1>3, <1>5, PoppedFacts DEF LeaseInv
  <2> QED
    BY <1>3, <1>5, <2>1, <2>2, PoppedFacts DEF HealthTypeOK
<1>6. CASE /\ k # None
           /\ BeginAdmitted(k)
           /\ lease' = [lease EXCEPT ![f] =
                          [proxy |-> k, ep |-> None, proxyOk |-> FALSE,
                           proxyFailed |-> FALSE, left |-> MaxAttempts]]
           /\ framePc' = [framePc EXCEPT ![f] = "route"]
  <2>1. circuit' \in [Keys -> StateType]
    BY <1>2, <1>6, AdmittedBegan DEF Began
  <2>2. [proxy |-> k, ep |-> None, proxyOk |-> FALSE, proxyFailed |-> FALSE,
         left |-> MaxAttempts] \in LeaseType
    BY <1>2, <1>6, HealthAssumption DEF LeaseType
  <2>3. lease' \in [Frames -> LeaseType] /\ framePc' \in [Frames -> FramePCs]
    BY <1>6, <2>2 DEF HealthTypeOK, FramePCs
  <2>4. LeaseInv'
    BY <1>6 DEF LeaseInv, HealthTypeOK
  <2> QED
    BY <1>3, <2>1, <2>3, <2>4 DEF HealthTypeOK
<1> QED
  BY <1>1, <1>4, <1>5, <1>6

LEMMA BeginEndpointTypes ==
  ASSUME TypeInv, NEW f \in Frames, BeginEndpoint(f)
  PROVE  TypeInv'
<1> USE DEF TypeInv
<1>1. /\ framePc[f] = "route" /\ lease[f] \in LeaseType
      /\ lease[f].ep = None /\ abandoned' = abandoned
      /\ lease[f].left - 1 \in 0 .. MaxAttempts
  BY HealthAssumption DEF BeginEndpoint, HealthTypeOK, LeaseInv, LeaseType
<1>2. ASSUME NEW k \in Endpoints, BeginRefused(k),
             lease' = [lease EXCEPT ![f].left = @ - 1], UNCHANGED framePc
      PROVE  TypeInv'
  <2>1. k \in Keys
    BY DEF Keys
  <2>2. circuit' \in [Keys -> StateType]
    BY <1>2, <2>1, RefusedBegan DEF Began, HealthTypeOK
  <2>3. lease' \in [Frames -> LeaseType] /\ lease'[f].ep = None
    BY <1>1, <1>2 DEF HealthTypeOK, LeaseType
  <2>4. LeaseInv'
    BY <1>1, <1>2, <2>3 DEF HealthTypeOK, LeaseInv
  <2> QED
    BY <1>1, <1>2, <2>2, <2>3, <2>4 DEF HealthTypeOK
<1>3. ASSUME NEW k \in Endpoints, BeginAdmitted(k),
             lease' = [lease EXCEPT ![f] =
                         [proxy |-> @.proxy, ep |-> k, proxyOk |-> @.proxyOk,
                          proxyFailed |-> @.proxyFailed, left |-> @.left - 1]],
             framePc' = [framePc EXCEPT ![f] = "sending"]
      PROVE  TypeInv'
  <2>1. k \in Keys
    BY DEF Keys
  <2>2. circuit' \in [Keys -> StateType]
    BY <1>3, <2>1, AdmittedBegan DEF Began
  <2>3. lease' \in [Frames -> LeaseType] /\ lease'[f].ep = k
    BY <1>1, <1>3 DEF HealthTypeOK, LeaseType
  <2>4. framePc' \in [Frames -> FramePCs] /\ LeaseInv'
    BY <1>3, <2>3 DEF HealthTypeOK, FramePCs, LeaseInv
  <2> QED
    BY <1>1, <2>2, <2>3, <2>4 DEF HealthTypeOK
<1> QED
  BY <1>2, <1>3 DEF BeginEndpoint

LEMMA FrameTypes ==
  ASSUME TypeInv, NEW f \in Frames, FrameStep(f)
  PROVE  TypeInv'
<1> USE DEF TypeInv
<1>1. CASE BeginProxy(f)
  BY <1>1, BeginProxyTypes
<1>2. CASE BeginEndpoint(f)
  BY <1>2, BeginEndpointTypes
<1>3. CASE LoopEnds(f)
  BY <1>3 DEF LoopEnds, HealthTypeOK, FramePCs, LeaseInv
<1>4. CASE Respond(f)
  <2>1. lease[f] \in LeaseType /\ lease[f].ep \in Endpoints
    BY <1>4 DEF Respond, HealthTypeOK, LeaseInv
  <2>2. lease' \in [Frames -> LeaseType] /\ lease'[f].ep = lease[f].ep
    BY <1>4, <2>1 DEF Respond, HealthTypeOK, LeaseType
  <2>3. framePc' \in [Frames -> FramePCs] /\ LeaseInv'
    BY <1>4, <2>1, <2>2 DEF Respond, HealthTypeOK, FramePCs, LeaseInv
  <2> QED
    BY <1>4, <2>2, <2>3 DEF Respond, HealthTypeOK
<1>5. CASE SendFails(f)
  <2>1. lease[f].ep \in Endpoints
    BY <1>5 DEF SendFails, LeaseInv
  <2>2. PICK o \in {"failure", "release"} :
          /\ EndEndpoint(f, o)
          /\ lease' = [lease EXCEPT ![f] = WithoutEndpoint(@, o = "failure")]
    BY <1>5 DEF SendFails
  <2>3. circuit' \in [Keys -> StateType]
    BY <2>1, <2>2, EndpointEnded DEF Outcomes
  <2>4. PICK n \in {"route", "return"} : framePc' = [framePc EXCEPT ![f] = n]
    BY <1>5 DEF SendFails
  <2>5. framePc' \in [Frames -> FramePCs] /\ lease' \in [Frames -> LeaseType] /\ LeaseInv'
    <3>1. CASE o = "failure"
      <4>1. lease' = [lease EXCEPT ![f] = WithoutEndpoint(@, TRUE)]
        BY <2>2, <3>1
      <4> QED
        BY <2>4, <4>1, EndpointGiven
    <3>2. CASE o # "failure"
      <4>1. lease' = [lease EXCEPT ![f] = WithoutEndpoint(@, FALSE)]
        BY <2>2, <3>2
      <4> QED
        BY <2>4, <4>1, EndpointGiven
    <3> QED
      BY <3>1, <3>2
  <2> QED
    BY <1>5, <2>3, <2>5 DEF SendFails, HealthTypeOK
<1>6. CASE Abandon(f)
  <2>1. lease[f].ep \in Keys
    BY <1>6 DEF Abandon, LeaseInv, Keys
  <2>2. abandoned' \in [Keys -> 0 .. MaxAbandoned]
    BY <1>6, <2>1, HealthAssumption DEF Abandon, HealthTypeOK
  <2>3. framePc' \in [Frames -> FramePCs] /\ lease' \in [Frames -> LeaseType] /\ LeaseInv'
    BY <1>6, EndpointGiven DEF Abandon
  <2> QED
    BY <1>6, <2>2, <2>3 DEF Abandon, HealthTypeOK
<1>7. CASE ResponseEnds(f)
  <2>1. lease[f].ep \in Endpoints
    BY <1>7 DEF ResponseEnds, LeaseInv
  <2>2. circuit' \in [Keys -> StateType]
    BY <1>7, <2>1, EndpointEnded DEF ResponseEnds
  <2>3. framePc' \in [Frames -> FramePCs] /\ lease' \in [Frames -> LeaseType] /\ LeaseInv'
    BY <1>7, EndpointGiven DEF ResponseEnds
  <2> QED
    BY <1>7, <2>2, <2>3 DEF ResponseEnds, HealthTypeOK
<1>8. CASE Recurse(f)
  <2>1. lease[f].ep \in Endpoints
    BY <1>8 DEF Recurse, LeaseInv
  <2>2. CASE UNCHANGED <<circuit, lease>>
    BY <1>8, <2>2 DEF Recurse, HealthTypeOK, FramePCs, LeaseInv
  <2>3. CASE /\ \E o \in {"success", "failure"} : EndEndpoint(f, o)
             /\ lease' = [lease EXCEPT ![f] = WithoutEndpoint(@, FALSE)]
    <3>1. circuit' \in [Keys -> StateType]
      BY <2>1, <2>3, EndpointEnded DEF Outcomes
    <3>2. framePc' \in [Frames -> FramePCs] /\ lease' \in [Frames -> LeaseType] /\ LeaseInv'
      BY <1>8, <2>3, EndpointGiven DEF Recurse
    <3> QED
      BY <1>8, <3>1, <3>2 DEF Recurse, HealthTypeOK
  <2> QED
    BY <1>8, <2>2, <2>3 DEF Recurse
<1>9. CASE ReleaseAfterNested(f)
  <2>1. lease[f].ep \in Endpoints
    BY <1>9 DEF ReleaseAfterNested, HealthTypeOK, LeaseType
  <2>2. circuit' \in [Keys -> StateType]
    BY <1>9, <2>1, EndpointEnded DEF ReleaseAfterNested, Outcomes
  <2>3. framePc' = [framePc EXCEPT ![f] = "return"]
    BY <1>9 DEF ReleaseAfterNested, HealthTypeOK
  <2>4. framePc' \in [Frames -> FramePCs] /\ lease' \in [Frames -> LeaseType] /\ LeaseInv'
    BY <1>9, <2>3, EndpointGiven DEF ReleaseAfterNested
  <2> QED
    BY <1>9, <2>2, <2>4 DEF ReleaseAfterNested, HealthTypeOK
<1>10. CASE Return(f)
  <2>1. circuit' \in [Keys -> StateType]
    <3>1. CASE lease[f].proxy = None
      BY <1>10, <3>1 DEF Return, HealthTypeOK
    <3>2. CASE lease[f].proxy # None
      <4>1. lease[f].proxy \in Keys
        BY <3>2 DEF HealthTypeOK, LeaseType, Keys
      <4>2. ProxyOutcome(lease[f]) \in Outcomes
        BY DEF ProxyOutcome, Outcomes
      <4>3. Ended(lease[f].proxy, ProxyOutcome(lease[f])) \in StateType
        BY <4>1, <4>2, EndedType
      <4> QED
        BY <1>10, <3>2, <4>3 DEF Return, HealthTypeOK
    <3> QED
      BY <3>1, <3>2
  <2>2. lease' \in [Frames -> LeaseType]
    BY <1>10, NoLeaseType DEF Return, HealthTypeOK
  <2>3. framePc' \in [Frames -> FramePCs]
    BY <1>10, PoppedFacts DEF Return
  <2>4. LeaseInv'
    <3> SUFFICES ASSUME NEW g \in Frames
                 PROVE  /\ framePc'[g] = "idle" => lease'[g] = NoLease
                        /\ framePc'[g] \in {"sending", "responded"} => lease'[g].ep \in Endpoints
                        /\ framePc'[g] = "route" => lease'[g].ep = None
      BY DEF LeaseInv
    <3>1. CASE g = f
      BY <1>10, <3>1, PoppedFacts DEF Return, HealthTypeOK
    <3>2. CASE g # f
      <4>1. lease'[g] = lease[g] /\ framePc'[g] \in {framePc[g], "return"}
        BY <1>10, <3>2, PoppedFacts DEF Return, HealthTypeOK
      <4> QED
        BY <4>1 DEF LeaseInv
    <3> QED
      BY <3>1, <3>2
  <2> QED
    BY <1>10, <2>1, <2>2, <2>3, <2>4 DEF Return, HealthTypeOK
<1> QED
  BY <1>1, <1>2, <1>3, <1>4, <1>5, <1>6, <1>7, <1>8, <1>9, <1>10 DEF FrameStep

LEMMA TypeNext == TypeInv /\ [HealthNext]_healthVars => TypeInv'
<1> SUFFICES ASSUME TypeInv, [HealthNext]_healthVars PROVE TypeInv'
  OBVIOUS
<1>1. CASE Tick
  BY <1>1, AgedType DEF Tick, TypeInv, HealthTypeOK, LeaseInv
<1>2. CASE UNCHANGED healthVars
  BY <1>2 DEF healthVars, TypeInv, HealthTypeOK, LeaseInv
<1> QED
  BY <1>1, <1>2, FrameTypes DEF HealthNext

LEMMA TypeInit == HealthInit => TypeInv
BY AbsentType, NoLeaseType, HealthAssumption
DEF HealthInit, TypeInv, HealthTypeOK, LeaseInv, FramePCs

(* Counters and cooldowns of a circuit stay in range, whichever of the      *)
(* exits of callKiroAPISingleModel end its admissions.                      *)
THEOREM HealthTypes == HealthSpec => []HealthTypeOK
BY TypeInit, TypeNext, PTL DEF HealthSpec, TypeInv

-----------------------------------------------------------------------------
(* The invariant of one circuit.  An entry that is not in its map has the   *)
(* zero state, so that no admission of it can be out; a probe is under way  *)
(* only when the cooldown has passed.                                       *)
KeyInv(k) ==
  /\ circuit[k].inFlight = Cardinality(Leases(k)) + abandoned[k]
  /\ circuit[k].present \/ circuit[k] = Absent
  /\ circuit[k].probe => circuit[k].cooldown = 0
  /\ circuit[k].probe => Leases(k) # {} \/ abandoned[k] > 0

KeysInv == \A k \in Keys : KeyInv(k)

LEMMA LeasesFinite ==
  ASSUME NEW k
  PROVE  IsFiniteSet(Leases(k)) /\ Cardinality(Leases(k)) \in Nat
<1>1. IsFiniteSet(1 .. MaxDepth)
  BY HealthAssumption, FS_Interval
<1>2. IsFiniteSet(Frames)
  BY <1>1, HealthAssumption, FS_Product DEF Frames
<1>3. Leases(k) \subseteq Frames
  BY DEF Leases
<1> QED
  BY <1>2, <1>3, FS_Subset, FS_CardinalityType

LEMMA KeyTypes ==
  ASSUME HealthTypeOK, NEW k \in Keys
  PROVE  /\ circuit[k] \in StateType /\ circuit[k].inFlight \in Nat
         /\ circuit[k].present \in BOOLEAN /\ circuit[k].probe \in BOOLEAN
         /\ circuit[k].cooldown \in Nat \cup {NoTime} /\ abandoned[k] \in Nat
BY HealthAssumption DEF HealthTypeOK, StateType

(* f holds the lease l after the step. *)
LEMMA LeaseMoved ==
  ASSUME HealthTypeOK, NEW f \in Frames, NEW l, lease' = [lease EXCEPT ![f] = l], NEW k
  PROVE  /\ k \in {l.proxy, l.ep} => Leases(k)' = Leases(k) \cup {f}
         /\ k \notin {l.proxy, l.ep} => Leases(k)' = Leases(k) \ {f}
         /\ f \in Leases(k) <=> k \in {lease[f].proxy, lease[f].ep}
BY DEF HealthTypeOK, Leases

LEMMA KeyKept ==
  ASSUME NEW k \in Keys, KeyInv(k), circuit'[k] = circuit[k],
         abandoned'[k] = abandoned[k], Leases(k)' = Leases(k)
  PROVE  KeyInv(k)'
BY DEF KeyInv

LEMMA KeyEvicted ==
  ASSUME HealthTypeOK, NEW k \in Keys, KeyInv(k), Evictable(k), circuit'[k] = Absent,
         abandoned'[k] = abandoned[k], Leases(k)' = Leases(k)
  PROVE  KeyInv(k)'
BY DEF KeyInv, Evictable, Absent

LEMMA KeyEntered ==
  ASSUME HealthTypeOK, NEW k \in Keys, KeyInv(k), circuit'[k] = Entered(circuit[k]),
         abandoned'[k] = abandoned[k], Leases(k)' = Leases(k)
  PROVE  KeyInv(k)'
<1>1. /\ Entered(circuit[k]).present
      /\ Entered(circuit[k]).inFlight = circuit[k].inFlight
      /\ Entered(circuit[k]).probe = circuit[k].probe
      /\ Entered(circuit[k]).cooldown = circuit[k].cooldown
  BY DEF HealthTypeOK, StateType, Entered
<1> QED
  BY <1>1 DEF KeyInv

LEMMA KeyTaken ==
  ASSUME HealthTypeOK, NEW k \in Keys, KeyInv(k), NEW f, f \notin Leases(k),
         ~Refused(circuit[k]), circuit'[k] = Admitted(circuit[k]),
         abandoned'[k] = abandoned[k], Leases(k)' = Leases(k) \cup {f}
  PROVE  KeyInv(k)'
<1>1. /\ Admitted(circuit[k]).present
      /\ Admitted(circuit[k]).inFlight = circuit[k].inFlight + 1
      /\ Admitted(circuit[k]).cooldown = circuit[k].cooldown
      /\ Admitted(circuit[k]).probe = (circuit[k].probe \/ circuit[k].cooldown # NoTime)
  BY DEF Admitted
<1>2. circuit[k].cooldown \in {NoTime, 0}
  BY KeyTypes DEF Refused, Cooling
<1>3. Cardinality(Leases(k)') = Cardinality(Leases(k)) + 1
  BY LeasesFinite, FS_AddElement
<1>4. Leases(k)' # {}
  OBVIOUS
<1>5. circuit'[k].inFlight = Cardinality(Leases(k)') + abandoned'[k]
  BY <1>1, <1>3, LeasesFinite, KeyTypes DEF KeyInv
<1>6. circuit'[k].probe => circuit'[k].cooldown = 0
  BY <1>1, <1>2 DEF KeyInv
<1> QED
  BY <1>1, <1>4, <1>5, <1>6 DEF KeyInv

(* An admission of a present entry ends, in any of the three ways. *)
LEMMA EndedFacts ==
  ASSUME HealthTypeOK, NEW k \in Keys, circuit[k].present, NEW o \in Outcomes
  PROVE  /\ Ended(k, o).present
         /\ Ended(k, o).inFlight = OneLess(circuit[k].inFlight)
         /\ Ended(k, o).probe = FALSE
         /\ Cooling(circuit[k]) /\ ~circuit[k].probe
              => Ended(k, o).cooldown \in {circuit[k].cooldown, NoTime}
<1>1. circuit[k] \in StateType
  BY KeyTypes
<1>2. CASE o = "success"
  <2>1. Ended(k, o) = Success(circuit[k])
    BY <1>2 DEF Ended
  <2> QED
    BY <1>1, <2>1, SuccessIs
<1>3. CASE o = "failure"
  <2>1. Ended(k, o) = Failure(circuit[k], Threshold[k])
    BY <1>3 DEF Ended
  <2> QED
    BY <2>1 DEF Failure
<1>4. CASE o = "release"
  <2>1. Ended(k, o) = ReleaseAdmission(circuit[k])
    BY <1>4 DEF Ended
  <2> QED
    BY <1>1, <2>1, ReleaseIs
<1> QED
  BY <1>2, <1>3, <1>4 DEF Outcomes

LEMMA LeaseCounts ==
  ASSUME HealthTypeOK, NEW k \in Keys, KeyInv(k), NEW f, f \in Leases(k),
         Leases(k)' = Leases(k) \ {f}
  PROVE  /\ circuit[k].inFlight > 0 /\ circuit[k].present
         /\ Cardinality(Leases(k)') = Cardinality(Leases(k)) - 1
<1>1. Cardinality(Leases(k)') = Cardinality(Leases(k)) - 1
  BY LeasesFinite, FS_RemoveElement
<1>2. Cardinality(Leases(k)) # 0
  BY LeasesFinite, FS_EmptySet
<1>3. circuit[k].inFlight > 0
  BY <1>2, LeasesFinite, KeyTypes DEF KeyInv
<1> QED
  BY <1>1, <1>3 DEF KeyInv, Absent

LEMMA KeyGiven ==
  ASSUME HealthTypeOK, NEW k \in Keys, KeyInv(k), NEW f, f \in Leases(k),
         NEW o \in Outcomes, circuit'[k] = Ended(k, o),
         abandoned'[k] = abandoned[k], Leases(k)' = Leases(k) \ {f}
  PROVE  KeyInv(k)'
<1>1. /\ circuit[k].inFlight > 0 /\ circuit[k].present
      /\ Cardinality(Leases(k)') = Cardinality(Leases(k)) - 1
  BY LeaseCounts
<1>2. /\ circuit'[k].present /\ circuit'[k].probe = FALSE
      /\ circuit'[k].inFlight = circuit[k].inFlight - 1
  BY <1>1, EndedFacts DEF OneLess
<1>3. circuit'[k].inFlight = Cardinality(Leases(k)') + abandoned'[k]
  BY <1>1, <1>2, LeasesFinite, KeyTypes DEF KeyInv
<1> QED
  BY <1>2, <1>3 DEF KeyInv

LEMMA KeyAbandoned ==
  ASSUME HealthTypeOK, NEW k \in Keys, KeyInv(k), NEW f, f \in Leases(k),
         circuit'[k] = circuit[k], abandoned'[k] = abandoned[k] + 1,
         Leases(k)' = Leases(k) \ {f}
  PROVE  KeyInv(k)'
<1>1. Cardinality(Leases(k)') = Cardinality(Leases(k)) - 1
  BY LeaseCounts
<1>2. circuit'[k].inFlight = Cardinality(Leases(k)') + abandoned'[k]
  BY <1>1, LeasesFinite, KeyTypes DEF KeyInv
<1>3. abandoned'[k] > 0
  BY KeyTypes
<1> QED
  BY <1>2, <1>3 DEF KeyInv

-----------------------------------------------------------------------------
(* The steps of an invocation, on the invariant of every circuit. *)
LEMMA LeaseEndpoints ==
  ASSUME HealthTypeOK, NEW f \in Frames
  PROVE  /\ lease[f].proxy \in Proxies \cup {None}
         /\ lease[f].ep \in Endpoints \cup {None}
BY DEF HealthTypeOK, LeaseType

(* begin admits f to key, which is not yet in the lease. *)
LEMMA KeysTaken ==
  ASSUME TypeInv, KeysInv, NEW f \in Frames, NEW key \in Keys, BeginAdmitted(key),
         key \notin {lease[f].proxy, lease[f].ep}, NEW l,
         lease' = [lease EXCEPT ![f] = l], abandoned' = abandoned,
         \A k \in Keys : k \in {l.proxy, l.ep} <=> k \in {lease[f].proxy, lease[f].ep, key}
  PROVE  KeysInv'
<1> SUFFICES ASSUME NEW k \in Keys PROVE KeyInv(k)'
  BY DEF KeysInv
<1>1. KeyInv(k)
  BY DEF KeysInv
<1>2. ~Refused(circuit[key]) /\ Began(key, Admitted(circuit[key]))
  BY AdmittedBegan DEF TypeInv
<1>3. CASE k = key
  <2>1. Leases(k)' = Leases(k) \cup {f} /\ f \notin Leases(k)
    BY <1>3, LeaseMoved DEF TypeInv
  <2> QED
    BY <1>1, <1>2, <1>3, <2>1, KeyTaken DEF Began, TypeInv
<1>4. CASE k # key
  <2>1. Leases(k)' = Leases(k)
    <3>1. CASE k \in {l.proxy, l.ep}
      <4>1. Leases(k)' = Leases(k) \cup {f} /\ f \in Leases(k)
        BY <1>4, <3>1, LeaseMoved DEF TypeInv
      <4> QED
        BY <4>1
    <3>2. CASE k \notin {l.proxy, l.ep}
      <4>1. Leases(k)' = Leases(k) \ {f} /\ f \notin Leases(k)
        BY <1>4, <3>2, LeaseMoved DEF TypeInv
      <4> QED
        BY <4>1
    <3> QED
      BY <3>1, <3>2
  <2>2. circuit'[k] = circuit[k] \/ (Evictable(k) /\ circuit'[k] = Absent)
    BY <1>2, <1>4 DEF Began
  <2> QED
    BY <1>1, <2>1, <2>2, KeyKept, KeyEvicted DEF TypeInv
<1> QED
  BY <1>3, <1>4

(* begin refuses, perhaps after it has made room; nobody's lease changes. *)
LEMMA KeysRefused ==
  ASSUME TypeInv, KeysInv, NEW key \in Keys, BeginRefused(key), abandoned' = abandoned,
         \A k \in Keys : Leases(k)' = Leases(k)
  PROVE  KeysInv'
<1> SUFFICES ASSUME NEW k \in Keys PROVE KeyInv(k)'
  BY DEF KeysInv
<1>1. KeyInv(k) /\ Leases(k)' = Leases(k)
  BY DEF KeysInv
<1>2. CASE UNCHANGED circuit
  BY <1>1, <1>2, KeyKept
<1>3. CASE Began(key, Entered(circuit[key]))
  BY <1>1, <1>3, KeyKept, KeyEvicted, KeyEntered DEF Began, TypeInv
<1> QED
  BY <1>2, <1>3, RefusedBegan DEF TypeInv

(* f ends its admission to key and drops it from its lease. *)
LEMMA KeysGiven ==
  ASSUME TypeInv, KeysInv, NEW f \in Frames, NEW key \in Keys, NEW o \in Outcomes,
         circuit' = [circuit EXCEPT ![key] = Ended(key, o)],
         key \in {lease[f].proxy, lease[f].ep}, NEW l,
         lease' = [lease EXCEPT ![f] = l], abandoned' = abandoned,
         \A k \in Keys : k \in {l.proxy, l.ep} <=> k \in {lease[f].proxy, lease[f].ep} \ {key}
  PROVE  KeysInv'
<1> SUFFICES ASSUME NEW k \in Keys PROVE KeyInv(k)'
  BY DEF KeysInv
<1>1. KeyInv(k)
  BY DEF KeysInv
<1>2. CASE k = key
  <2>1. Leases(k)' = Leases(k) \ {f} /\ f \in Leases(k)
    BY <1>2, LeaseMoved DEF TypeInv
  <2>2. circuit'[k] = Ended(k, o)
    BY <1>2 DEF TypeInv, HealthTypeOK
  <2> QED
    BY <1>1, <2>1, <2>2, KeyGiven DEF TypeInv
<1>3. CASE k # key
  <2>1. Leases(k)' = Leases(k)
    <3>1. CASE k \in {l.proxy, l.ep}
      <4>1. Leases(k)' = Leases(k) \cup {f} /\ f \in Leases(k)
        BY <1>3, <3>1, LeaseMoved DEF TypeInv
      <4> QED
        BY <4>1
    <3>2. CASE k \notin {l.proxy, l.ep}
      <4>1. Leases(k)' = Leases(k) \ {f} /\ f \notin Leases(k)
        BY <1>3, <3>2, LeaseMoved DEF TypeInv
      <4> QED
        BY <4>1
    <3> QED
      BY <3>1, <3>2
  <2>2. circuit'[k] = circuit[k]
    BY <1>3 DEF TypeInv, HealthTypeOK
  <2> QED
    BY <1>1, <2>1, <2>2, KeyKept
<1> QED
  BY <1>2, <1>3

LEMMA KeysUntouched ==
  ASSUME TypeInv, KeysInv, UNCHANGED <<circuit, lease, abandoned>>
  PROVE  KeysInv'
BY KeyKept DEF KeysInv, Leases

(* EndEndpoint, with the endpoint dropped from the lease. *)
LEMMA EndpointEnds ==
  ASSUME TypeInv, KeysInv, NEW f \in Frames, lease[f].ep \in Endpoints, NEW o \in Outcomes,
         EndEndpoint(f, o), NEW failed \in BOOLEAN,
         lease' = [lease EXCEPT ![f] = WithoutEndpoint(@, failed)], abandoned' = abandoned
  PROVE  KeysInv'
<1> DEFINE l == WithoutEndpoint(lease[f], failed)
           key == lease[f].ep
<1>1. key \in Keys
  BY DEF Keys
<1>2. lease' = [lease EXCEPT ![f] = l]
  OBVIOUS
<1>3. l.ep = None /\ l.proxy = lease[f].proxy
  BY DEF WithoutEndpoint
<1>4. circuit' = [circuit EXCEPT ![key] = Ended(key, o)]
  BY DEF EndEndpoint
<1>5. lease[f].proxy # key
  BY LeaseEndpoints, HealthAssumption, NotAKey DEF TypeInv
<1> HIDE DEF l
<1>6. \A k \in Keys : k \in {l.proxy, l.ep} <=> k \in {lease[f].proxy, lease[f].ep} \ {key}
  BY <1>3, <1>5, NotAKey DEF Keys
<1> QED
  BY <1>1, <1>2, <1>4, <1>6, KeysGiven

LEMMA BeginProxyKeys ==
  ASSUME TypeInv, KeysInv, NEW f \in Frames, BeginProxy(f)
  PROVE  KeysInv'
<1>1. framePc[f] = "idle" /\ lease[f] = NoLease /\ abandoned' = abandoned
  BY DEF BeginProxy, MayStart, TypeInv, LeaseInv
<1>2. ASSUME NEW k \in ProxyOf(f), k # None, BeginRefused(k), UNCHANGED lease PROVE KeysInv'
  <2>1. k \in Keys
    BY <1>2, ProxyOfType DEF TypeInv
  <2>2. \A j \in Keys : Leases(j)' = Leases(j)
    BY <1>2 DEF Leases
  <2> QED
    BY <1>1, <1>2, <2>1, <2>2, KeysRefused
<1>3. ASSUME NEW k \in ProxyOf(f), k # None, BeginAdmitted(k),
             lease' = [lease EXCEPT ![f] =
                         [proxy |-> k, ep |-> None, proxyOk |-> FALSE,
                          proxyFailed |-> FALSE, left |-> MaxAttempts]]
      PROVE  KeysInv'
  <2> DEFINE l == [proxy |-> k, ep |-> None, proxyOk |-> FALSE,
                   proxyFailed |-> FALSE, left |-> MaxAttempts]
  <2>1. k \in Keys /\ k \notin {lease[f].proxy, lease[f].ep}
    BY <1>1, <1>3, ProxyOfType DEF TypeInv, NoLease
  <2>2. l.proxy = k /\ l.ep = None /\ lease' = [lease EXCEPT ![f] = l]
    BY <1>3
  <2> HIDE DEF l
  <2>3. \A j \in Keys : j \in {l.proxy, l.ep} <=> j \in {lease[f].proxy, lease[f].ep, k}
    BY <1>1, <2>1, <2>2, HealthAssumption DEF NoLease
  <2> QED
    BY <1>1, <1>3, <2>1, <2>2, <2>3, KeysTaken
<1>4. CASE UNCHANGED <<circuit, lease>>
  BY <1>1, <1>4, KeysUntouched
<1> QED
  BY <1>2, <1>3, <1>4 DEF BeginProxy

LEMMA BeginEndpointKeys ==
  ASSUME TypeInv, KeysInv, NEW f \in Frames, BeginEndpoint(f)
  PROVE  KeysInv'
<1>1. lease[f] \in LeaseType /\ lease[f].ep = None /\ abandoned' = abandoned
  BY DEF BeginEndpoint, TypeInv, HealthTypeOK, LeaseInv
<1>2. ASSUME NEW k \in Endpoints, BeginRefused(k),
             lease' = [lease EXCEPT ![f].left = @ - 1]
      PROVE  KeysInv'
  <2>1. \A g \in Frames : lease'[g].proxy = lease[g].proxy /\ lease'[g].ep = lease[g].ep
    BY <1>1, <1>2 DEF TypeInv, HealthTypeOK, LeaseType
  <2>2. \A j \in Keys : Leases(j)' = Leases(j)
    BY <2>1 DEF Leases
  <2>3. k \in Keys
    BY DEF Keys
  <2> QED
    BY <1>1, <1>2, <2>2, <2>3, KeysRefused
<1>3. ASSUME NEW k \in Endpoints, BeginAdmitted(k),
             lease' = [lease EXCEPT ![f] =
                         [proxy |-> @.proxy, ep |-> k, proxyOk |-> @.proxyOk,
                          proxyFailed |-> @.proxyFailed, left |-> @.left - 1]]
      PROVE  KeysInv'
  <2> DEFINE l == [proxy |-> lease[f].proxy, ep |-> k, proxyOk |-> lease[f].proxyOk,
                   proxyFailed |-> lease[f].proxyFailed, left |-> lease[f].left - 1]
  <2>1. k \in Keys /\ k \notin {lease[f].proxy, lease[f].ep}
    BY <1>1, LeaseEndpoints, NotAKey, HealthAssumption DEF TypeInv, Keys
  <2>2. l.proxy = lease[f].proxy /\ l.ep = k /\ lease' = [lease EXCEPT ![f] = l]
    BY <1>3
  <2> HIDE DEF l
  <2>3. \A j \in Keys : j \in {l.proxy, l.ep} <=> j \in {lease[f].proxy, lease[f].ep, k}
    BY <1>1, <2>2, HealthAssumption
  <2> QED
    BY <1>1, <1>3, <2>1, <2>2, <2>3, KeysTaken
<1> QED
  BY <1>2, <1>3 DEF BeginEndpoint

LEMMA FrameKeys ==
  ASSUME TypeInv, KeysInv, NEW f \in Frames, FrameStep(f)
  PROVE  KeysInv'
<1>1. CASE BeginProxy(f)
  BY <1>1, BeginProxyKeys
<1>2. CASE BeginEndpoint(f)
  BY <1>2, BeginEndpointKeys
<1>3. CASE LoopEnds(f)
  BY <1>3, KeysUntouched DEF LoopEnds
<1>4. CASE Respond(f)
  <2>1. \A g \in Frames : lease'[g].proxy = lease[g].proxy /\ lease'[g].ep = lease[g].ep
    BY <1>4 DEF Respond, TypeInv, HealthTypeOK, LeaseType
  <2>2. \A j \in Keys : Leases(j)' = Leases(j)
    BY <2>1 DEF Leases
  <2> QED
    BY <1>4, <2>2, KeyKept DEF Respond, KeysInv
<1>5. CASE SendFails(f)
  <2>1. lease[f].ep \in Endpoints
    BY <1>5 DEF SendFails, TypeInv, LeaseInv
  <2>2. PICK o \in {"failure", "release"} :
          /\ EndEndpoint(f, o)
          /\ lease' = [lease EXCEPT ![f] = WithoutEndpoint(@, o = "failure")]
    BY <1>5 DEF SendFails
  <2>3. o \in Outcomes /\ abandoned' = abandoned
    BY <1>5, <2>2 DEF Outcomes, SendFails
  <2>4. CASE o = "failure"
    <3>1. lease' = [lease EXCEPT ![f] = WithoutEndpoint(@, TRUE)]
      BY <2>2, <2>4
    <3> QED
      BY <2>1, <2>2, <2>3, <3>1, EndpointEnds
  <2>5. CASE o # "failure"
    <3>1. lease' = [lease EXCEPT ![f] = WithoutEndpoint(@, FALSE)]
      BY <2>2, <2>5
    <3> QED
      BY <2>1, <2>2, <2>3, <3>1, EndpointEnds
  <2> QED
    BY <2>4, <2>5
<1>6. CASE Abandon(f)
  <2> DEFINE key == lease[f].ep
             l == WithoutEndpoint(lease[f], FALSE)
  <2>1. key \in Endpoints /\ key \in Keys
    BY <1>6 DEF Abandon, TypeInv, LeaseInv, Keys
  <2>2. lease[f].proxy # key
    BY <2>1, LeaseEndpoints, HealthAssumption, NotAKey DEF TypeInv
  <2>3. lease' = [lease EXCEPT ![f] = l] /\ l.ep = None /\ l.proxy = lease[f].proxy
    BY <1>6 DEF Abandon, WithoutEndpoint
  <2> HIDE DEF l
  <2> SUFFICES ASSUME NEW k \in Keys PROVE KeyInv(k)'
    BY DEF KeysInv
  <2>4. KeyInv(k)
    BY DEF KeysInv
  <2>5. CASE k = key
    <3>1. Leases(k)' = Leases(k) \ {f} /\ f \in Leases(k)
      BY <2>1, <2>2, <2>3, <2>5, LeaseMoved, NotAKey DEF TypeInv
    <3>2. circuit'[k] = circuit[k] /\ abandoned'[k] = abandoned[k] + 1
      BY <1>6, <2>5 DEF Abandon, TypeInv, HealthTypeOK
    <3> QED
      BY <2>4, <3>1, <3>2, KeyAbandoned DEF TypeInv
  <2>6. CASE k # key
    <3>1. circuit'[k] = circuit[k] /\ abandoned'[k] = abandoned[k]
      BY <1>6, <2>6 DEF Abandon, TypeInv, HealthTypeOK
    <3>2. Leases(k)' = Leases(k)
      <4>1. CASE k = lease[f].proxy
        <5>1. Leases(k)' = Leases(k) \cup {f} /\ f \in Leases(k)
          BY <2>3, <4>1, LeaseMoved DEF TypeInv
        <5> QED
          BY <5>1
      <4>2. CASE k # lease[f].proxy
        <5>0. k \notin {l.proxy, l.ep} /\ k \notin {lease[f].proxy, lease[f].ep}
          BY <2>3, <2>6, <4>2, HealthAssumption
        <5>1. Leases(k)' = Leases(k) \ {f} /\ f \notin Leases(k)
          BY <2>3, <5>0, LeaseMoved DEF TypeInv
        <5> QED
          BY <5>1
      <4> QED
        BY <4>1, <4>2
    <3> QED
      BY <2>4, <3>1, <3>2, KeyKept
  <2> QED
    BY <2>5, <2>6
<1>7. CASE ResponseEnds(f)
  <2>1. lease[f].ep \in Endpoints
    BY <1>7 DEF ResponseEnds, TypeInv, LeaseInv
  <2> QED
    BY <1>7, <2>1, EndpointEnds DEF ResponseEnds
<1>8. CASE Recurse(f)
  <2>1. lease[f].ep \in Endpoints /\ abandoned' = abandoned
    BY <1>8 DEF Recurse, TypeInv, LeaseInv
  <2>2. CASE UNCHANGED <<circuit, lease>>
    BY <2>1, <2>2, KeysUntouched
  <2>3. CASE /\ \E o \in {"success", "failure"} : EndEndpoint(f, o)
             /\ lease' = [lease EXCEPT ![f] = WithoutEndpoint(@, FALSE)]
    <3>1. PICK o \in Outcomes : EndEndpoint(f, o)
      BY <2>3 DEF Outcomes
    <3> QED
      BY <2>1, <2>3, <3>1, EndpointEnds
  <2> QED
    BY <1>8, <2>2, <2>3 DEF Recurse
<1>9. CASE ReleaseAfterNested(f)
  <2>1. lease[f].ep \in Endpoints /\ "release" \in Outcomes
    BY <1>9 DEF ReleaseAfterNested, TypeInv, HealthTypeOK, LeaseType, Outcomes
  <2> QED
    BY <1>9, <2>1, EndpointEnds DEF ReleaseAfterNested
<1>10. CASE Return(f)
  <2>1. lease[f].ep = None /\ lease' = [lease EXCEPT ![f] = NoLease] /\ abandoned' = abandoned
    BY <1>10 DEF Return
  <2>2. NoLease.proxy = None /\ NoLease.ep = None
    BY DEF NoLease
  <2>3. CASE lease[f].proxy = None
    <3>1. circuit' = circuit
      BY <1>10, <2>3 DEF Return
    <3>2. ASSUME NEW k \in Keys PROVE Leases(k)' = Leases(k)
      <4>1. Leases(k)' = Leases(k) \ {f} /\ f \notin Leases(k)
        BY <2>1, <2>2, <2>3, LeaseMoved, HealthAssumption DEF TypeInv
      <4> QED
        BY <4>1
    <3> QED
      BY <2>1, <3>1, <3>2, KeyKept DEF KeysInv
  <2>4. CASE lease[f].proxy # None
    <3>1. lease[f].proxy \in Keys
      BY <2>4, LeaseEndpoints DEF TypeInv, Keys
    <3>2. ProxyOutcome(lease[f]) \in Outcomes
      BY DEF ProxyOutcome, Outcomes
    <3>3. circuit' = [circuit EXCEPT ![lease[f].proxy] =
                        Ended(lease[f].proxy, ProxyOutcome(lease[f]))]
      BY <1>10, <2>4 DEF Return
    <3>4. \A k \in Keys : k \in {NoLease.proxy, NoLease.ep}
                          <=> k \in {lease[f].proxy, lease[f].ep} \ {lease[f].proxy}
      BY <2>1, <2>2, HealthAssumption
    <3> QED
      BY <2>1, <3>1, <3>2, <3>3, <3>4, KeysGiven
  <2> QED
    BY <2>3, <2>4
<1> QED
  BY <1>1, <1>2, <1>3, <1>4, <1>5, <1>6, <1>7, <1>8, <1>9, <1>10 DEF FrameStep

LEMMA AgedFacts ==
  ASSUME NEW s \in StateType
  PROVE  /\ Aged(s).present = s.present /\ Aged(s).inFlight = s.inFlight
         /\ Aged(s).probe = s.probe
         /\ s.cooldown = 0 => Aged(s).cooldown = 0
         /\ s = Absent => Aged(s) = Absent
         /\ Cooling(s) => Aged(s).cooldown = s.cooldown - 1
<1>1. CASE Cooling(s)
  <2>1. Aged(s) = [s EXCEPT !.cooldown = @ - 1]
    BY <1>1 DEF Aged
  <2>2. s.cooldown > 0 /\ s # Absent
    BY <1>1 DEF Cooling, Absent, NoTime
  <2> QED
    BY <1>1, <2>1, <2>2 DEF StateType
<1>2. CASE ~Cooling(s)
  BY <1>2 DEF Aged
<1> QED
  BY <1>1, <1>2

LEMMA KeysNext == TypeInv /\ KeysInv /\ [HealthNext]_healthVars => KeysInv'
<1> SUFFICES ASSUME TypeInv, KeysInv, [HealthNext]_healthVars PROVE KeysInv'
  OBVIOUS
<1>1. CASE Tick
  <2> SUFFICES ASSUME NEW k \in Keys PROVE KeyInv(k)'
    BY DEF KeysInv
  <2>1. circuit'[k] = Aged(circuit[k]) /\ circuit[k] \in StateType
    BY <1>1 DEF Tick, TypeInv, HealthTypeOK
  <2>2. Leases(k)' = Leases(k) /\ abandoned' = abandoned
    BY <1>1 DEF Tick, Leases
  <2>3. KeyInv(k)
    BY DEF KeysInv
  <2> QED
    BY <2>1, <2>2, <2>3, AgedFacts DEF KeyInv
<1>2. CASE UNCHANGED healthVars
  BY <1>2, KeysUntouched DEF healthVars
<1> QED
  BY <1>1, <1>2, FrameKeys DEF HealthNext

LEMMA KeysInit == HealthInit => KeysInv
<1> SUFFICES ASSUME HealthInit, NEW k \in Keys PROVE KeyInv(k)
  BY DEF KeysInv
<1>1. Leases(k) = {}
  BY HealthAssumption DEF HealthInit, Leases, NoLease
<1> QED
  BY <1>1, FS_EmptySet DEF HealthInit, KeyInv, Absent

-----------------------------------------------------------------------------
(* The registry's bound: only begin adds an entry. *)
LEMMA PresentFinite ==
  ASSUME NEW map \in {Endpoints, Proxies}
  PROVE  IsFiniteSet(Present(map)) /\ Cardinality(Present(map)) \in Nat
<1>1. Present(map) \subseteq Keys
  BY DEF Present, Keys
<1> QED
  BY <1>1, HealthAssumption, FS_Subset, FS_CardinalityType

LEMMA BoundKept ==
  ASSUME NEW map \in {Endpoints, Proxies}, Cardinality(Present(map)) <= MaxEntries,
         \A k \in map : circuit'[k].present <=> circuit[k].present
  PROVE  Cardinality(Present(map)') <= MaxEntries
<1>1. Present(map)' = Present(map)
  BY DEF Present
<1> QED
  BY <1>1

(* begin puts an entry s for k in its map, after the eviction of v. *)
LEMMA BoundBegan ==
  ASSUME HealthTypeOK, NEW k \in Keys, NEW v \in Victims(k), NEW s \in StateType, s.present,
         circuit' = [Evict(circuit, v) EXCEPT ![k] = s],
         NEW map \in {Endpoints, Proxies}, Cardinality(Present(map)) <= MaxEntries
  PROVE  Cardinality(Present(map)') <= MaxEntries
<1>m. map \subseteq Keys
  BY DEF Keys
<1>f. IsFiniteSet(Present(map)) /\ Cardinality(Present(map)) \in Nat /\ MaxEntries \in Nat
  BY PresentFinite, HealthAssumption
<1>1. CASE map # SameMap(k)
  <2>1. k \notin map
    BY <1>1, HealthAssumption DEF SameMap, Keys
  <2>2. v = None \/ v \notin map
    BY <1>1, VictimFacts, HealthAssumption DEF SameMap, Keys
  <2>3. \A j \in map : circuit'[j] = circuit[j]
    BY <2>1, <2>2, <1>m DEF Evict, HealthTypeOK
  <2> QED
    BY <2>3, BoundKept
<1>2. CASE map = SameMap(k)
  <2>1. k \in map
    BY <1>2 DEF SameMap, Keys
  <2>2. CASE v = None
    <3>1. \A j \in map : circuit'[j].present <=> j = k \/ circuit[j].present
      BY <2>2, <1>m DEF Evict, HealthTypeOK
    <3>2. CASE circuit[k].present
      BY <3>1, <3>2, BoundKept
    <3>3. CASE ~circuit[k].present
      <4>1. Present(map)' = Present(map) \cup {k} /\ k \notin Present(map)
        BY <2>1, <3>1, <3>3 DEF Present
      <4>2. Cardinality(Present(map)) < MaxEntries
        BY <1>2, <1>f, <2>2, <3>3, VictimFacts DEF NeedsRoom
      <4>3. Cardinality(Present(map)') = Cardinality(Present(map)) + 1
        BY <1>f, <4>1, FS_AddElement
      <4> QED
        BY <1>f, <4>2, <4>3
    <3> QED
      BY <3>2, <3>3
  <2>3. CASE v # None
    <3>1. v \in map /\ v # k /\ circuit[v].present /\ ~circuit[k].present
      BY <1>2, <2>3, VictimFacts DEF NeedsRoom, Evictable
    <3>2. \A j \in map : circuit'[j].present <=> j = k \/ (j # v /\ circuit[j].present)
      BY <2>3, <3>1, <1>m DEF Evict, HealthTypeOK, Absent
    <3> DEFINE rest == Present(map) \ {v}
    <3>3. v \in Present(map) /\ k \notin rest /\ Present(map)' = rest \cup {k}
      BY <2>1, <3>1, <3>2 DEF Present
    <3>4. IsFiniteSet(rest) /\ Cardinality(rest) = Cardinality(Present(map)) - 1
      BY <1>f, <3>3, FS_RemoveElement
    <3> HIDE DEF rest
    <3>5. Cardinality(Present(map)') = Cardinality(rest) + 1
      BY <3>3, <3>4, FS_AddElement
    <3> QED
      BY <1>f, <3>4, <3>5
  <2> QED
    BY <2>2, <2>3
<1> QED
  BY <1>1, <1>2

LEMMA BoundBegin ==
  ASSUME HealthTypeOK, NEW k \in Keys, BeginRefused(k) \/ BeginAdmitted(k),
         NEW map \in {Endpoints, Proxies}, Cardinality(Present(map)) <= MaxEntries
  PROVE  Cardinality(Present(map)') <= MaxEntries
<1>1. CASE UNCHANGED circuit
  BY <1>1, BoundKept
<1>2. ASSUME NEW v \in Victims(k), circuit' = [Evict(circuit, v) EXCEPT ![k] = Entered(@)]
      PROVE  Cardinality(Present(map)') <= MaxEntries
  <2>1. circuit' = [Evict(circuit, v) EXCEPT ![k] = Entered(circuit[k])]
    BY <1>2, EvictSame
  <2>2. Entered(circuit[k]) \in StateType /\ Entered(circuit[k]).present
    BY EnteredType DEF HealthTypeOK, Entered, StateType
  <2> QED
    BY <2>1, <2>2, BoundBegan
<1>3. ASSUME NEW v \in Victims(k), circuit' = [Evict(circuit, v) EXCEPT ![k] = Admitted(@)]
      PROVE  Cardinality(Present(map)') <= MaxEntries
  <2>1. circuit' = [Evict(circuit, v) EXCEPT ![k] = Admitted(circuit[k])]
    BY <1>3, EvictSame
  <2>2. Admitted(circuit[k]) \in StateType /\ Admitted(circuit[k]).present
    BY AdmittedType DEF HealthTypeOK, Admitted
  <2> QED
    BY <2>1, <2>2, BoundBegan
<1> QED
  BY <1>1, <1>2, <1>3 DEF BeginRefused, BeginAdmitted

(* Ending an admission neither adds nor removes an entry. *)
LEMMA EndedPresent ==
  ASSUME HealthTypeOK, NEW k \in Keys, NEW o \in Outcomes
  PROVE  Ended(k, o).present <=> circuit[k].present
<1>1. CASE circuit[k].present
  BY <1>1, EndedFacts
<1>2. CASE ~circuit[k].present
  BY <1>2 DEF Ended, Outcomes, Success, Failure, ReleaseAdmission
<1> QED
  BY <1>1, <1>2

(* Every step of the circuits is a begin of some key, the end of an         *)
(* admission of some key, the passing of time, or leaves them alone.        *)
LEMMA CircuitSteps ==
  ASSUME TypeInv, [HealthNext]_healthVars
  PROVE  \/ \E k \in Keys : BeginRefused(k) \/ BeginAdmitted(k)
         \/ \E k \in Keys, o \in Outcomes : circuit' = [circuit EXCEPT ![k] = Ended(k, o)]
         \/ circuit' = [k \in Keys |-> Aged(circuit[k])]
         \/ circuit' = circuit
<1> DEFINE Goal ==
      \/ \E k \in Keys : BeginRefused(k) \/ BeginAdmitted(k)
      \/ \E k \in Keys, o \in Outcomes : circuit' = [circuit EXCEPT ![k] = Ended(k, o)]
      \/ circuit' = [k \in Keys |-> Aged(circuit[k])]
      \/ circuit' = circuit
<1> SUFFICES Goal
  OBVIOUS
<1>0. ASSUME NEW f \in Frames, lease[f].ep \in Endpoints, NEW o \in Outcomes,
             EndEndpoint(f, o)
      PROVE  Goal
  BY <1>0 DEF EndEndpoint, Keys
<1>1. ASSUME NEW f \in Frames, BeginProxy(f) PROVE Goal
  BY <1>1, ProxyOfType DEF BeginProxy, TypeInv
<1>2. ASSUME NEW f \in Frames, BeginEndpoint(f) PROVE Goal
  BY <1>2 DEF BeginEndpoint, Keys
<1>3. ASSUME NEW f \in Frames, LoopEnds(f) \/ Respond(f) \/ Abandon(f) PROVE Goal
  BY <1>3 DEF LoopEnds, Respond, Abandon
<1>4. ASSUME NEW f \in Frames, SendFails(f) \/ ResponseEnds(f) \/ Recurse(f) PROVE Goal
  <2>1. lease[f].ep \in Endpoints
    BY <1>4 DEF SendFails, ResponseEnds, Recurse, TypeInv, LeaseInv
  <2>2. circuit' = circuit \/ \E o \in Outcomes : EndEndpoint(f, o)
    BY <1>4 DEF SendFails, ResponseEnds, Recurse, Outcomes
  <2> QED
    BY <1>0, <2>1, <2>2
<1>5. ASSUME NEW f \in Frames, ReleaseAfterNested(f) PROVE Goal
  <2>1. lease[f].ep \in Endpoints /\ "release" \in Outcomes
    BY <1>5 DEF ReleaseAfterNested, TypeInv, HealthTypeOK, LeaseType, Outcomes
  <2> QED
    BY <1>0, <1>5, <2>1 DEF ReleaseAfterNested
<1>6. ASSUME NEW f \in Frames, Return(f) PROVE Goal
  <2>1. CASE lease[f].proxy = None
    BY <1>6, <2>1 DEF Return
  <2>2. CASE lease[f].proxy # None
    <3>1. lease[f].proxy \in Keys /\ ProxyOutcome(lease[f]) \in Outcomes
      BY <2>2, LeaseEndpoints DEF TypeInv, Keys, ProxyOutcome, Outcomes
    <3> QED
      BY <1>6, <2>2, <3>1 DEF Return
  <2> QED
    BY <2>1, <2>2
<1>7. CASE Tick
  BY <1>7 DEF Tick
<1>8. CASE UNCHANGED healthVars
  BY <1>8 DEF healthVars
<1> QED
  BY <1>1, <1>2, <1>3, <1>4, <1>5, <1>6, <1>7, <1>8 DEF HealthNext, FrameStep

LEMMA BoundNext == TypeInv /\ RegistryBounded /\ [HealthNext]_healthVars => RegistryBounded'
<1> SUFFICES ASSUME TypeInv, RegistryBounded, [HealthNext]_healthVars,
                    NEW map \in {Endpoints, Proxies}
             PROVE  Cardinality(Present(map)') <= MaxEntries
  BY DEF RegistryBounded
<1>0. Cardinality(Present(map)) <= MaxEntries /\ map \subseteq Keys /\ HealthTypeOK
  BY DEF RegistryBounded, Keys, TypeInv
<1>1. ASSUME NEW k \in Keys, BeginRefused(k) \/ BeginAdmitted(k)
      PROVE  Cardinality(Present(map)') <= MaxEntries
  BY <1>0, <1>1, BoundBegin
<1>2. ASSUME NEW k \in Keys, NEW o \in Outcomes, circuit' = [circuit EXCEPT ![k] = Ended(k, o)]
      PROVE  Cardinality(Present(map)') <= MaxEntries
  <2>1. \A j \in map : circuit'[j].present <=> circuit[j].present
    BY <1>0, <1>2, EndedPresent DEF HealthTypeOK
  <2> QED
    BY <1>0, <2>1, BoundKept
<1>3. CASE circuit' = [k \in Keys |-> Aged(circuit[k])]
  <2>1. \A j \in map : circuit'[j].present <=> circuit[j].present
    BY <1>0, <1>3, AgedFacts DEF HealthTypeOK
  <2> QED
    BY <1>0, <2>1, BoundKept
<1>4. CASE circuit' = circuit
  BY <1>0, <1>4, BoundKept
<1> QED
  BY <1>1, <1>2, <1>3, <1>4, CircuitSteps

LEMMA BoundInit == HealthInit => RegistryBounded
<1> SUFFICES ASSUME HealthInit PROVE RegistryBounded
  OBVIOUS
<1>1. Present(Endpoints) = {} /\ Present(Proxies) = {}
  BY DEF HealthInit, Present, Absent, Keys
<1> QED
  BY <1>1, FS_EmptySet, HealthAssumption DEF RegistryBounded

(* Every admission to a circuit is counted until it ends, no entry in use   *)
(* is evicted, the registry keeps to its limit, and a half-open probe has   *)
(* an invocation that will end it, whatever nesting, retries and early      *)
(* returns the calls take.                                                  *)
THEOREM CircuitsKept == HealthSpec => []CircuitsSafe
<1>1. TypeInv /\ KeysInv /\ RegistryBounded => CircuitsSafe
  BY DEF TypeInv, KeysInv, KeyInv, CircuitsSafe, LeasesCounted, ProbeHasCall
<1> QED
  BY <1>1, TypeInit, TypeNext, KeysInit, KeysNext, BoundInit, BoundNext, PTL DEF HealthSpec

(* No failure that arrives while a circuit cools down prolongs it; this     *)
(* rests on the fact that no probe is under way during a cooldown.          *)
THEOREM CooldownsEnd == HealthSpec => CooldownNotExtended
<1>1. ASSUME TypeInv, KeysInv, [HealthNext]_healthVars, NEW k \in Keys, Cooling(circuit[k])
      PROVE  circuit'[k].cooldown <= circuit[k].cooldown
  <2>0. /\ HealthTypeOK /\ circuit[k] \in StateType /\ circuit[k].cooldown \in Nat
        /\ circuit[k].cooldown > 0 /\ ~circuit[k].probe /\ circuit[k].present
    BY <1>1, KeyTypes DEF TypeInv, KeysInv, KeyInv, Cooling, NoTime, Absent
  <2>1. ASSUME NEW j \in Keys, BeginRefused(j) \/ BeginAdmitted(j)
        PROVE  circuit'[k].cooldown = circuit[k].cooldown
    <3>1. ASSUME NEW s, Began(j, s), s \in {Entered(circuit[j]), Admitted(circuit[j])}
          PROVE  circuit'[k].cooldown = circuit[k].cooldown
      <4>1. CASE j = k
        BY <2>0, <3>1, <4>1 DEF Began, Entered, Admitted, StateType
      <4>2. CASE j # k
        BY <1>1, <3>1, <4>2 DEF Began, Evictable
      <4> QED
        BY <4>1, <4>2
    <3> QED
      BY <2>0, <2>1, <3>1, AdmittedBegan, RefusedBegan
  <2>2. ASSUME NEW j \in Keys, NEW o \in Outcomes, circuit' = [circuit EXCEPT ![j] = Ended(j, o)]
        PROVE  circuit'[k].cooldown \in {circuit[k].cooldown, NoTime}
    BY <1>1, <2>0, <2>2, EndedFacts DEF HealthTypeOK
  <2>3. CASE circuit' = [j \in Keys |-> Aged(circuit[j])]
    BY <1>1, <2>0, <2>3, AgedFacts
  <2> QED
    BY <1>1, <2>0, <2>1, <2>2, <2>3, CircuitSteps DEF NoTime
<1>2. TypeInv /\ KeysInv /\ [HealthNext]_healthVars
      => [\A k \in Keys : Cooling(circuit[k])
            => circuit'[k].cooldown <= circuit[k].cooldown]_healthVars
  BY <1>1
<1> QED
  BY <1>2, TypeInit, TypeNext, KeysInit, KeysNext, PTL DEF HealthSpec, CooldownNotExtended

-----------------------------------------------------------------------------
(* EndpointRoutes: what an entry of a table may be.  Only a preference of   *)
(* an endpoint lasts, and none for longer than RouteAffinityTTL from now.   *)
RouteType == [fails : Nat, until : Int, access : Int]
PrefType == [e : RouteEndpoints \cup {NoEndpoint}, expires : Int, persisted : Nat, access : Int]

PrefBounded(f, now) == f.expires <= now + RouteTTL /\ (f.e = NoEndpoint => f.expires = 0 /\ f.persisted = 0)

\* No endpoint is both cooling and preferred in these tables.
Apart(maps) ==
  \A p \in Pairs, e \in RouteEndpoints : maps.prefs[p].e = e => maps.routes[<<p, e>>] = NoRoute

Sound(maps, now) ==
  /\ maps.routes \in [RouteKeys -> RouteType] /\ maps.prefs \in [Pairs -> PrefType]
  /\ \A p \in Pairs : PrefBounded(maps.prefs[p], now)
  /\ Apart(maps)

Known(D, f, none) == {k \in D : f[k] # none}
RoutesKnown(f) == Known(RouteKeys, f, NoRoute)
PrefsKnown(f) == Known(Pairs, f, NoPref)
Within(maps, limit) ==
  Cardinality(RoutesKnown(maps.routes)) <= limit /\ Cardinality(PrefsKnown(maps.prefs)) <= limit

Tables(maps, now, limit) == Sound(maps, now) /\ Within(maps, limit)

InMemory == [routes |-> routes, prefs |-> prefs]

RoutesTypeOK ==
  /\ rclock \in Nat /\ rclock > 0
  /\ owed \in {0, 1} /\ handle \in BOOLEAN /\ rtimers \in Nat /\ rsavers \in Nat
  /\ handle => rtimers > 0
  /\ rscene \in RouteScenes
  /\ Tables(InMemory, rclock, rscene.limit) /\ Tables(rfile, rclock, rscene.limit)
  /\ rimage # NoSave => Tables(rimage, rclock, rscene.limit)

(* What is on disk of a preferred endpoint never lasts longer than what is  *)
(* in memory, and what a preference is known to last on disk, it does, now  *)
(* and after the save that is under way.                                    *)
Behind(f, g) ==
  /\ f.e = g.e => f.expires <= g.expires
  /\ g.persisted > 0 => f.e = g.e /\ g.persisted <= f.expires

BehindInv ==
  \A p \in Pairs : /\ Behind(rfile.prefs[p], prefs[p])
                   /\ rimage # NoSave => Behind(rimage.prefs[p], prefs[p])

(* These tables say what the ones in memory say. *)
SameRoute(f, g, now) ==
  /\ f.until > now <=> g.until > now
  /\ g.until > now => f.until = g.until /\ f.fails = g.fails
SamePref(f, g, now) ==
  /\ g.expires > now => f.e = g.e /\ 2 * f.expires >= 2 * g.expires - RouteTTL
  /\ f.expires > now => g.e = f.e
Agree(maps, mem, now) ==
  /\ \A k \in RouteKeys : SameRoute(maps.routes[k], mem.routes[k], now)
  /\ \A p \in Pairs : SamePref(maps.prefs[p], mem.prefs[p], now)

(* When no save is to come, the copy that is being written is up to date,   *)
(* and the file if there is none and the last write did not fail.           *)
AgreeInv ==
  owed = 0 /\ rtimers = 0 /\ rsavers = 0 =>
    /\ rimage # NoSave => Agree(rimage, InMemory, rclock)
    /\ rimage = NoSave /\ ~saveMissed => Agree(rfile, InMemory, rclock)

RoutesInv == RoutesTypeOK /\ BehindInv /\ AgreeInv

-----------------------------------------------------------------------------
(* Tables from which entries were dropped are as sound.                     *)
Thinner(a, b) ==
  /\ a.routes \in [RouteKeys -> RouteType] /\ a.prefs \in [Pairs -> PrefType]
  /\ \A k \in RouteKeys : a.routes[k] \in {b.routes[k], NoRoute}
  /\ \A p \in Pairs : a.prefs[p] \in {b.prefs[p], NoPref}

LEMMA NothingTypes == NoRoute \in RouteType /\ NoPref \in PrefType
BY DEF NoRoute, NoPref, RouteType, PrefType

LEMMA ThinnerSound ==
  ASSUME NEW a, NEW b, NEW now \in Nat, Sound(b, now), Thinner(a, b)
  PROVE  Sound(a, now)
<1>1. \A p \in Pairs : PrefBounded(a.prefs[p], now)
  <2> SUFFICES ASSUME NEW p \in Pairs PROVE PrefBounded(a.prefs[p], now)
    OBVIOUS
  <2>1. CASE a.prefs[p] = NoPref
    BY <2>1, RouteTimes DEF PrefBounded, NoPref
  <2>2. CASE a.prefs[p] = b.prefs[p]
    BY <2>2 DEF Sound
  <2> QED
    BY <2>1, <2>2 DEF Thinner
<1>2. Apart(a)
  <2> SUFFICES ASSUME NEW p \in Pairs, NEW e \in RouteEndpoints, a.prefs[p].e = e
               PROVE  a.routes[<<p, e>>] = NoRoute
    BY DEF Apart
  <2>1. a.prefs[p] = b.prefs[p]
    BY RouteTables DEF Thinner, NoPref
  <2>2. b.routes[<<p, e>>] = NoRoute
    BY <2>1 DEF Sound, Apart
  <2>3. <<p, e>> \in RouteKeys
    BY DEF RouteKeys
  <2> QED
    BY <2>2, <2>3 DEF Thinner
<1> QED
  BY <1>1, <1>2 DEF Sound, Thinner

(* The tables are finite: an entry more is one more, fewer are no more.     *)
LEMMA TablesFinite == IsFiniteSet(RouteKeys) /\ IsFiniteSet(Pairs)
BY RouteTables, FS_Product, Zenon DEF RouteKeys

LEMMA FewerKnown ==
  ASSUME NEW S, NEW T, IsFiniteSet(T), S \subseteq T
  PROVE  Cardinality(S) <= Cardinality(T)
BY FS_Subset

LEMMA OneMoreKnown ==
  ASSUME NEW S, NEW T, NEW x, IsFiniteSet(T), S \subseteq T \cup {x}
  PROVE  Cardinality(S) <= Cardinality(T) + 1
<1>1. IsFiniteSet(T \cup {x}) /\ Cardinality(T \cup {x}) <= Cardinality(T) + 1
  <2>1. /\ IsFiniteSet(T \cup {x})
        /\ Cardinality(T \cup {x}) = (IF x \in T THEN Cardinality(T) ELSE Cardinality(T) + 1)
    BY FS_AddElement
  <2>2. Cardinality(T) \in Nat
    BY FS_CardinalityType
  <2> QED
    BY <2>1, <2>2
<1>2. Cardinality(S) <= Cardinality(T \cup {x})
  BY <1>1, FS_Subset
<1>3. Cardinality(S) \in Nat /\ Cardinality(T) \in Nat /\ Cardinality(T \cup {x}) \in Nat
  BY <1>1, FS_Subset, FS_CardinalityType
<1> QED
  BY <1>1, <1>2, <1>3

(* After an eviction the table keeps to its limit, if one entry at most was *)
(* too many; nothing is evicted from a table that keeps to it.              *)
LEMMA Evicted ==
  ASSUME NEW f, NEW none, NEW g, g \in Evictions(f, none), NEW D, D = DOMAIN f,
         IsFiniteSet(D), rscene.limit \in Nat,
         Cardinality(Known(D, f, none)) <= rscene.limit + 1
  PROVE  /\ g = f \/ \E k \in D : g = [f EXCEPT ![k] = none]
         /\ Cardinality(Known(D, g, none)) <= rscene.limit
         /\ Cardinality(Known(D, f, none)) <= rscene.limit => g = f
<1> DEFINE there == Known(D, f, none)
           left == Known(D, g, none)
<1>1. IsFiniteSet(there) /\ Cardinality(there) \in Nat
  BY FS_Subset, FS_CardinalityType DEF Known
<1>2. g \in (IF Cardinality(there) <= rscene.limit THEN {f}
             ELSE {[f EXCEPT ![k] = none] : k \in Oldest(f, there)})
  BY DEF Evictions, Known
<1>3. CASE Cardinality(there) <= rscene.limit
  BY <1>2, <1>3
<1>4. CASE ~(Cardinality(there) <= rscene.limit)
  <2>1. PICK k \in Oldest(f, there) : g = [f EXCEPT ![k] = none]
    BY <1>2, <1>4
  <2>2. k \in there /\ k \in D
    BY <2>1 DEF Oldest, Known
  <2>4. left = there \ {k}
    BY <2>1, <2>2 DEF Known
  <2>5. Cardinality(left) = Cardinality(there) - 1
    BY <1>1, <2>2, <2>4, FS_RemoveElement
  <2>6. Cardinality(left) <= rscene.limit
    BY <1>1, <2>5
  <2> QED
    BY <1>4, <2>1, <2>2, <2>6
<1> QED
  BY <1>3, <1>4

(* What expired is dropped, and a preference that is left runs. *)
LEMMA Pruned ==
  ASSUME NEW maps, rclock \in Nat, Sound(maps, rclock)
  PROVE  /\ Thinner(pruneExpiredLocked(maps), maps)
         /\ \A k \in RouteKeys : maps.routes[k].until > rclock =>
              pruneExpiredLocked(maps).routes[k] = maps.routes[k]
         /\ \A p \in Pairs : pruneExpiredLocked(maps).prefs[p] =
              (IF maps.prefs[p].expires > rclock THEN maps.prefs[p] ELSE NoPref)
<1> DEFINE d == pruneExpiredLocked(maps)
<1>1. \A k \in RouteKeys : maps.routes[k] \in RouteType
  BY DEF Sound
<1>2. \A p \in Pairs : maps.prefs[p] \in PrefType
  BY DEF Sound
<1>3. \A p \in Pairs : maps.prefs[p].expires \in Int
  BY <1>2 DEF PrefType
<1>4. \A k \in RouteKeys : maps.routes[k].until \in Int /\ maps.routes[k].access \in Int
  BY <1>1 DEF RouteType
<1>5. d.routes \in [RouteKeys -> RouteType]
  BY <1>1, NothingTypes DEF pruneExpiredLocked
<1>6. d.prefs \in [Pairs -> PrefType]
  BY <1>2, NothingTypes DEF pruneExpiredLocked
<1>7. \A k \in RouteKeys :
        /\ d.routes[k] \in {maps.routes[k], NoRoute}
        /\ maps.routes[k].until > rclock => d.routes[k] = maps.routes[k]
  BY <1>4 DEF pruneExpiredLocked
<1>8. \A p \in Pairs :
        d.prefs[p] = (IF maps.prefs[p].expires > rclock THEN maps.prefs[p] ELSE NoPref)
  BY <1>3 DEF pruneExpiredLocked
<1> HIDE DEF d
<1> QED
  BY <1>5, <1>6, <1>7, <1>8 DEF Thinner, d

(* How long an endpoint cools is a whole number of ticks. *)
LEMMA CooldownWhole ==
  ASSUME NEW kind, NEW n \in Nat, n > 0, NEW retryAfter \in Int
  PROVE  Cooldown(kind, n, retryAfter) \in Int
<1>1. 2 ^ (n - 1) \in Int
  <2>1. n - 1 \in Nat
    OBVIOUS
  <2> QED
    BY <2>1
<1>2. BaseCool * 2 ^ (n - 1) \in Int
  BY <1>1, RouteTimes
<1>3. Doubled(n) \in Int
  <2> DEFINE x == BaseCool * 2 ^ (n - 1)
  <2>1. x \in Int /\ MaxCool \in Int /\ Doubled(n) = Min({x, MaxCool})
    BY <1>2, RouteTimes DEF Doubled
  <2> HIDE DEF x
  <2> QED
    BY <2>1 DEF Min
<1> DEFINE y == CASE kind = "quota" -> MaxCool [] kind = "refused" -> RouteTTL [] OTHER -> Doubled(n)
<1>4. y \in Int
  BY <1>3, RouteTimes
<1>5. Cooldown(kind, n, retryAfter) = Max({y, retryAfter})
  BY DEF Cooldown
<1> HIDE DEF y
<1> QED
  BY <1>4, <1>5 DEF Max

(* The tables in memory, entry by entry. *)
LEMMA MemoryTypes ==
  ASSUME RoutesTypeOK
  PROVE  /\ rclock \in Nat /\ rclock > 0 /\ rscene.limit \in Nat
         /\ routes \in [RouteKeys -> RouteType] /\ prefs \in [Pairs -> PrefType]
         /\ \A p \in Pairs : PrefBounded(prefs[p], rclock)
         /\ Cardinality(RoutesKnown(routes)) <= rscene.limit
         /\ Cardinality(PrefsKnown(prefs)) <= rscene.limit
         /\ Cardinality(RoutesKnown(routes)) \in Nat /\ Cardinality(PrefsKnown(prefs)) \in Nat
         /\ IsFiniteSet(RoutesKnown(routes)) /\ IsFiniteSet(PrefsKnown(prefs))
<1>1. rscene.limit \in Nat
  BY RouteTables DEF RoutesTypeOK
<1>2. IsFiniteSet(RoutesKnown(routes)) /\ IsFiniteSet(PrefsKnown(prefs))
  BY TablesFinite, FS_Subset DEF RoutesKnown, PrefsKnown, Known
<1>3. Cardinality(RoutesKnown(routes)) \in Nat /\ Cardinality(PrefsKnown(prefs)) \in Nat
  BY <1>2, FS_CardinalityType
<1> QED
  BY <1>1, <1>2, <1>3 DEF RoutesTypeOK, Tables, Sound, Within, InMemory

(* A change of one entry of each table, with the eviction that follows it,  *)
(* leaves tables that keep to their limits and are sound if the change was. *)
LEMMA LimitsEnforced ==
  ASSUME RoutesTypeOK, NEW maps, Sound(maps, rclock), NEW x, NEW y,
         RoutesKnown(maps.routes) \subseteq RoutesKnown(routes) \cup {x},
         PrefsKnown(maps.prefs) \subseteq PrefsKnown(prefs) \cup {y},
         enforceLimitsLocked(maps)
  PROVE  /\ Thinner([routes |-> routes', prefs |-> prefs'], maps)
         /\ Tables([routes |-> routes', prefs |-> prefs'], rclock, rscene.limit)
         /\ RoutesKnown(maps.routes) \subseteq RoutesKnown(routes) => routes' = maps.routes
         /\ PrefsKnown(maps.prefs) \subseteq PrefsKnown(prefs) => prefs' = maps.prefs
<1> DEFINE m == [routes |-> routes', prefs |-> prefs']
<1>1. maps.routes \in [RouteKeys -> RouteType] /\ maps.prefs \in [Pairs -> PrefType]
  BY DEF Sound
<1>2. /\ Cardinality(RoutesKnown(maps.routes)) <= rscene.limit + 1
      /\ RoutesKnown(maps.routes) \subseteq RoutesKnown(routes) =>
           Cardinality(RoutesKnown(maps.routes)) <= rscene.limit
  <2>1. Cardinality(RoutesKnown(maps.routes)) <= Cardinality(RoutesKnown(routes)) + 1
    BY MemoryTypes, OneMoreKnown
  <2>2. RoutesKnown(maps.routes) \subseteq RoutesKnown(routes) =>
          Cardinality(RoutesKnown(maps.routes)) <= Cardinality(RoutesKnown(routes))
    BY MemoryTypes, FewerKnown
  <2>3. Cardinality(RoutesKnown(maps.routes)) \in Nat
    BY TablesFinite, FS_Subset, FS_CardinalityType DEF RoutesKnown, Known
  <2> QED
    BY <2>1, <2>2, <2>3, MemoryTypes
<1>3. /\ Cardinality(PrefsKnown(maps.prefs)) <= rscene.limit + 1
      /\ PrefsKnown(maps.prefs) \subseteq PrefsKnown(prefs) =>
           Cardinality(PrefsKnown(maps.prefs)) <= rscene.limit
  <2>1. Cardinality(PrefsKnown(maps.prefs)) <= Cardinality(PrefsKnown(prefs)) + 1
    BY MemoryTypes, OneMoreKnown
  <2>2. PrefsKnown(maps.prefs) \subseteq PrefsKnown(prefs) =>
          Cardinality(PrefsKnown(maps.prefs)) <= Cardinality(PrefsKnown(prefs))
    BY MemoryTypes, FewerKnown
  <2>3. Cardinality(PrefsKnown(maps.prefs)) \in Nat
    BY TablesFinite, FS_Subset, FS_CardinalityType DEF PrefsKnown, Known
  <2> QED
    BY <2>1, <2>2, <2>3, MemoryTypes
<1>4. /\ routes' \in [RouteKeys -> RouteType]
      /\ \A k \in RouteKeys : routes'[k] \in {maps.routes[k], NoRoute}
      /\ Cardinality(RoutesKnown(routes')) <= rscene.limit
      /\ RoutesKnown(maps.routes) \subseteq RoutesKnown(routes) => routes' = maps.routes
  <2>1. routes' \in Evictions(maps.routes, NoRoute)
    BY DEF enforceLimitsLocked
  <2>2. /\ rscene.limit \in Nat /\ IsFiniteSet(RouteKeys) /\ NoRoute \in RouteType
        /\ RouteKeys = DOMAIN maps.routes
        /\ Cardinality(Known(RouteKeys, maps.routes, NoRoute)) <= rscene.limit + 1
    BY <1>1, <1>2, TablesFinite, NothingTypes, MemoryTypes DEF RoutesKnown
  <2> DEFINE f == maps.routes
             g == routes'
  <2> HIDE DEF f, g
  <2>3. /\ g = f \/ \E k \in RouteKeys : g = [f EXCEPT ![k] = NoRoute]
        /\ Cardinality(Known(RouteKeys, g, NoRoute)) <= rscene.limit
        /\ Cardinality(Known(RouteKeys, f, NoRoute)) <= rscene.limit => g = f
    BY <2>1, <2>2, Evicted DEF f, g
  <2>4. Known(RouteKeys, g, NoRoute) = RoutesKnown(g) /\ Known(RouteKeys, f, NoRoute) = RoutesKnown(f)
    BY DEF RoutesKnown
  <2>5. /\ Cardinality(RoutesKnown(g)) <= rscene.limit
        /\ Cardinality(RoutesKnown(f)) <= rscene.limit => g = f
    BY <2>3, <2>4
  <2>6. f \in [RouteKeys -> RouteType]
    BY <1>1 DEF f
  <2>7. g \in [RouteKeys -> RouteType] /\ \A k \in RouteKeys : g[k] \in {f[k], NoRoute}
    BY <2>2, <2>3, <2>6
  <2> QED
    BY <1>2, <2>3, <2>5, <2>7 DEF f, g
<1>5. /\ prefs' \in [Pairs -> PrefType]
      /\ \A p \in Pairs : prefs'[p] \in {maps.prefs[p], NoPref}
      /\ Cardinality(PrefsKnown(prefs')) <= rscene.limit
      /\ PrefsKnown(maps.prefs) \subseteq PrefsKnown(prefs) => prefs' = maps.prefs
  <2>1. prefs' \in Evictions(maps.prefs, NoPref)
    BY DEF enforceLimitsLocked
  <2>2. /\ rscene.limit \in Nat /\ IsFiniteSet(Pairs) /\ NoPref \in PrefType
        /\ Pairs = DOMAIN maps.prefs
        /\ Cardinality(Known(Pairs, maps.prefs, NoPref)) <= rscene.limit + 1
    BY <1>1, <1>3, TablesFinite, NothingTypes, MemoryTypes DEF PrefsKnown
  <2> DEFINE f == maps.prefs
             g == prefs'
  <2> HIDE DEF f, g
  <2>3. /\ g = f \/ \E k \in Pairs : g = [f EXCEPT ![k] = NoPref]
        /\ Cardinality(Known(Pairs, g, NoPref)) <= rscene.limit
        /\ Cardinality(Known(Pairs, f, NoPref)) <= rscene.limit => g = f
    BY <2>1, <2>2, Evicted DEF f, g
  <2>4. Known(Pairs, g, NoPref) = PrefsKnown(g) /\ Known(Pairs, f, NoPref) = PrefsKnown(f)
    BY DEF PrefsKnown
  <2>5. /\ Cardinality(PrefsKnown(g)) <= rscene.limit
        /\ Cardinality(PrefsKnown(f)) <= rscene.limit => g = f
    BY <2>3, <2>4
  <2>6. f \in [Pairs -> PrefType]
    BY <1>1 DEF f
  <2>7. g \in [Pairs -> PrefType] /\ \A k \in Pairs : g[k] \in {f[k], NoPref}
    BY <2>2, <2>3, <2>6
  <2> QED
    BY <1>3, <2>3, <2>5, <2>7 DEF f, g
<1>6. m.routes = routes' /\ m.prefs = prefs'
  OBVIOUS
<1> HIDE DEF m
<1>7. Thinner(m, maps)
  BY <1>4, <1>5, <1>6 DEF Thinner
<1>8. Sound(m, rclock)
  BY <1>7, ThinnerSound, MemoryTypes
<1>9. Tables(m, rclock, rscene.limit)
  BY <1>4, <1>5, <1>6, <1>8 DEF Tables, Within
<1> QED
  BY <1>4, <1>5, <1>7, <1>9 DEF m

LEMMA NothingKnown ==
  /\ EmptyRoutes.routes = [k \in RouteKeys |-> NoRoute] /\ EmptyRoutes.prefs = [p \in Pairs |-> NoPref]
  /\ \A limit \in Nat, now \in Nat : Tables(EmptyRoutes, now, limit)
<1>1. EmptyRoutes.routes = [k \in RouteKeys |-> NoRoute] /\ EmptyRoutes.prefs = [p \in Pairs |-> NoPref]
  BY DEF EmptyRoutes
<1>2. EmptyRoutes.routes \in [RouteKeys -> RouteType] /\ EmptyRoutes.prefs \in [Pairs -> PrefType]
  BY <1>1, NothingTypes
<1>3. RoutesKnown(EmptyRoutes.routes) = {} /\ PrefsKnown(EmptyRoutes.prefs) = {}
  BY <1>1 DEF RoutesKnown, PrefsKnown, Known
<1>4. Cardinality(RoutesKnown(EmptyRoutes.routes)) = 0 /\ Cardinality(PrefsKnown(EmptyRoutes.prefs)) = 0
  BY <1>3, FS_EmptySet
<1>5. \A now \in Nat : \A p \in Pairs : PrefBounded(EmptyRoutes.prefs[p], now)
  BY <1>1, RouteTimes DEF PrefBounded, NoPref
<1>6. Apart(EmptyRoutes)
  <2>1. \A p \in Pairs, e \in RouteEndpoints : <<p, e>> \in RouteKeys
    BY DEF RouteKeys
  <2> QED
    BY <1>1, <2>1 DEF Apart
<1> QED
  BY <1>1, <1>2, <1>4, <1>5, <1>6 DEF Tables, Sound, Within

LEMMA RoutesInvInit == RoutesInit => RoutesInv
<1> SUFFICES ASSUME RoutesInit PROVE RoutesInv
  OBVIOUS
<1>1. rscene.limit \in Nat /\ rclock = 1 /\ rimage = NoSave /\ rfile = EmptyRoutes
  BY RouteTables DEF RoutesInit
<1>2. InMemory = EmptyRoutes
  BY DEF RoutesInit, InMemory, EmptyRoutes
<1>3. Tables(EmptyRoutes, rclock, rscene.limit)
  BY <1>1, NothingKnown
<1>4. RoutesTypeOK
  <2>1. Tables(InMemory, rclock, rscene.limit) /\ Tables(rfile, rclock, rscene.limit)
    BY <1>1, <1>2, <1>3
  <2>2. owed = 0 /\ handle = FALSE /\ rtimers = 0 /\ rsavers = 0 /\ rscene \in RouteScenes
    BY DEF RoutesInit
  <2>3. rclock \in Nat /\ rclock > 0 /\ owed \in {0, 1} /\ rtimers \in Nat /\ rsavers \in Nat
    BY <1>1, <2>2
  <2>4. handle \in BOOLEAN /\ (handle => rtimers > 0)
    BY <2>2, Zenon
  <2> QED
    BY <1>1, <2>1, <2>2, <2>3, <2>4, Zenon DEF RoutesTypeOK
<1>5. BehindInv
  BY <1>1, NothingKnown DEF RoutesInit, BehindInv, Behind, NoPref
<1>6. Agree(rfile, InMemory, rclock)
  BY <1>1, <1>2, NothingKnown DEF Agree, SameRoute, SamePref, NoRoute, NoPref
<1> QED
  BY <1>1, <1>4, <1>5, <1>6 DEF RoutesInv, AgreeInv

-----------------------------------------------------------------------------
(* The tables in memory after each change. *)
MemoryNext == [routes |-> routes', prefs |-> prefs']

LEMMA FailureTables ==
  ASSUME RoutesTypeOK, NEW p \in Pairs, NEW e \in RouteEndpoints, NEW f \in rscene.failures,
         recordFailure(p, e, f.kind, f.retryAfter)
  PROVE  /\ Tables(MemoryNext, rclock, rscene.limit)
         /\ \A q \in Pairs : prefs'[q] \in {prefs[q], NoPref}
<1> DEFINE n == routes[<<p, e>>].fails + 1
           r == [fails |-> n, until |-> rclock + Cooldown(f.kind, n, f.retryAfter), access |-> rclock]
           maps == [routes |-> [routes EXCEPT ![<<p, e>>] = r],
                    prefs |-> [prefs EXCEPT ![p] = Forget(p, e)]]
<1>1. <<p, e>> \in RouteKeys
  BY DEF RouteKeys
<1>2. r \in RouteType
  <2>1. n \in Nat /\ n > 0
    BY <1>1, MemoryTypes DEF RouteType
  <2>2. f.retryAfter \in Int
    BY RouteTables DEF RoutesTypeOK
  <2> HIDE DEF n
  <2>3. Cooldown(f.kind, n, f.retryAfter) \in Int
    BY <2>1, <2>2, CooldownWhole
  <2> QED
    BY <2>1, <2>3, MemoryTypes DEF RouteType
<1>3. enforceLimitsLocked(maps)
  BY DEF recordFailure
<1> HIDE DEF r, n
<1>4. Forget(p, e) \in PrefType /\ Forget(p, e) \in {prefs[p], NoPref} /\ Forget(p, e).e # e
  BY NothingTypes, MemoryTypes, RouteTables DEF Forget, NoPref
<1>5. /\ maps.routes = [routes EXCEPT ![<<p, e>>] = r]
      /\ maps.prefs = [prefs EXCEPT ![p] = Forget(p, e)]
  OBVIOUS
<1> HIDE DEF maps
<1>6. maps.routes \in [RouteKeys -> RouteType] /\ maps.prefs \in [Pairs -> PrefType]
  BY <1>1, <1>2, <1>4, <1>5, MemoryTypes
<1>7. \A q \in Pairs : maps.prefs[q] \in {prefs[q], NoPref}
  BY <1>4, <1>5, MemoryTypes
<1>8. \A q \in Pairs : PrefBounded(maps.prefs[q], rclock)
  <2>1. PrefBounded(NoPref, rclock)
    BY MemoryTypes, RouteTimes DEF PrefBounded, NoPref
  <2> QED
    BY <1>7, <2>1, MemoryTypes
<1>9. Apart(maps)
  <2> SUFFICES ASSUME NEW q \in Pairs, NEW d \in RouteEndpoints, maps.prefs[q].e = d
               PROVE  maps.routes[<<q, d>>] = NoRoute
    BY DEF Apart
  <2>1. maps.prefs[q] = prefs[q]
    BY <1>7, RouteTables DEF NoPref
  <2>2. routes[<<q, d>>] = NoRoute
    BY <2>1 DEF RoutesTypeOK, Tables, Sound, Apart, InMemory
  <2>3. <<q, d>> # <<p, e>>
    BY <1>4, <1>5, MemoryTypes
  <2>4. <<q, d>> \in RouteKeys
    BY DEF RouteKeys
  <2> QED
    BY <1>5, <2>2, <2>3, <2>4, MemoryTypes
<1>10. Sound(maps, rclock)
  BY <1>6, <1>8, <1>9 DEF Sound
<1>11. RoutesKnown(maps.routes) \subseteq RoutesKnown(routes) \cup {<<p, e>>}
  BY <1>5, MemoryTypes DEF RoutesKnown, Known
<1>12. PrefsKnown(maps.prefs) \subseteq PrefsKnown(prefs) \cup {p}
  BY <1>7 DEF PrefsKnown, Known
<1>13. Tables(MemoryNext, rclock, rscene.limit) /\ Thinner(MemoryNext, maps)
  BY <1>3, <1>10, <1>11, <1>12, LimitsEnforced DEF MemoryNext
<1>14. \A q \in Pairs : prefs'[q] \in {maps.prefs[q], NoPref}
  BY <1>13 DEF Thinner, MemoryNext
<1> QED
  BY <1>7, <1>13, <1>14

(* A success makes one preference, of an endpoint that does not cool, and   *)
(* drops what expired; when it asks for no save, nothing else was dropped.  *)
Preferred(p, e) ==
  [e |-> e, expires |-> rclock + RouteTTL,
   persisted |-> IF prefs[p].e = e THEN prefs[p].persisted ELSE 0, access |-> rclock]

LEMMA SuccessTables ==
  ASSUME RoutesTypeOK, NEW p \in Pairs, NEW e \in RouteEndpoints, recordSuccess(p, e)
  PROVE  /\ Tables(MemoryNext, rclock, rscene.limit)
         /\ \A q \in Pairs \ {p} : prefs'[q] \in {prefs[q], NoPref}
         /\ prefs'[p] \in {Preferred(p, e), NoPref}
         /\ prefs[p].e = e =>
              /\ \A k \in RouteKeys : routes'[k] \in {routes[k], NoRoute}
              /\ \A k \in RouteKeys : routes[k].until > rclock => routes'[k] = routes[k]
              /\ \A q \in Pairs \ {p} : prefs[q].expires > rclock => prefs'[q] = prefs[q]
              /\ prefs'[p] = Preferred(p, e)
<1> DEFINE w == Preferred(p, e)
           raw == [routes |-> [routes EXCEPT ![<<p, e>>] = NoRoute], prefs |-> [prefs EXCEPT ![p] = w]]
           maps == pruneExpiredLocked(raw)
<1>1. <<p, e>> \in RouteKeys
  BY DEF RouteKeys
<1>2. enforceLimitsLocked(maps)
  BY DEF recordSuccess, Preferred
<1>3. w \in PrefType /\ w.e = e /\ w.expires = rclock + RouteTTL /\ w # NoPref
  <2>1. (IF prefs[p].e = e THEN prefs[p].persisted ELSE 0) \in Nat
    BY MemoryTypes DEF PrefType
  <2>2. rclock \in Int /\ rclock + RouteTTL \in Int /\ e # NoEndpoint
    BY MemoryTypes, RouteTimes, RouteTables
  <2> QED
    BY <2>1, <2>2 DEF Preferred, PrefType, NoPref
<1> HIDE DEF w
<1>4. /\ raw.routes = [routes EXCEPT ![<<p, e>>] = NoRoute]
      /\ raw.prefs = [prefs EXCEPT ![p] = w]
  OBVIOUS
<1> HIDE DEF raw
<1>5. raw.routes \in [RouteKeys -> RouteType] /\ raw.prefs \in [Pairs -> PrefType]
  BY <1>1, <1>3, <1>4, MemoryTypes, NothingTypes
<1>6. \A q \in Pairs : PrefBounded(raw.prefs[q], rclock)
  <2>1. PrefBounded(w, rclock)
    BY <1>3, RouteTables, RouteTimes, MemoryTypes DEF PrefBounded
  <2> QED
    BY <1>4, <2>1, MemoryTypes
<1>7. \A k \in RouteKeys : raw.routes[k] \in {routes[k], NoRoute}
  BY <1>1, <1>4, MemoryTypes
<1>8. Apart(raw)
  <2> SUFFICES ASSUME NEW q \in Pairs, NEW d \in RouteEndpoints, raw.prefs[q].e = d
               PROVE  raw.routes[<<q, d>>] = NoRoute
    BY DEF Apart
  <2>1. <<q, d>> \in RouteKeys
    BY DEF RouteKeys
  <2>2. CASE q = p
    BY <1>3, <1>4, <2>1, <2>2, MemoryTypes
  <2>3. CASE q # p
    <3>1. prefs[q].e = d
      BY <1>4, <2>3, MemoryTypes
    <3>2. routes[<<q, d>>] = NoRoute
      BY <3>1 DEF RoutesTypeOK, Tables, Sound, Apart, InMemory
    <3> QED
      BY <1>7, <2>1, <3>2
  <2> QED
    BY <2>2, <2>3
<1>9. Sound(raw, rclock)
  BY <1>5, <1>6, <1>8 DEF Sound
<1>10. /\ Thinner(maps, raw)
       /\ \A k \in RouteKeys : raw.routes[k].until > rclock => maps.routes[k] = raw.routes[k]
       /\ \A q \in Pairs : maps.prefs[q] = (IF raw.prefs[q].expires > rclock THEN raw.prefs[q] ELSE NoPref)
  BY <1>9, Pruned, MemoryTypes
<1> HIDE DEF maps
<1>11. Sound(maps, rclock)
  BY <1>9, <1>10, ThinnerSound, MemoryTypes
<1>12. \A k \in RouteKeys : maps.routes[k] \in {routes[k], NoRoute}
  BY <1>7, <1>10 DEF Thinner
<1>13. /\ maps.prefs[p] = w
       /\ \A q \in Pairs \ {p} : maps.prefs[q] = (IF prefs[q].expires > rclock THEN prefs[q] ELSE NoPref)
  BY <1>3, <1>4, <1>10, MemoryTypes, RouteTimes
<1>14. RoutesKnown(maps.routes) \subseteq RoutesKnown(routes)
  BY <1>12 DEF RoutesKnown, Known
<1>15. PrefsKnown(maps.prefs) \subseteq PrefsKnown(prefs) \cup {p}
  BY <1>13 DEF PrefsKnown, Known
<1>16. /\ Tables(MemoryNext, rclock, rscene.limit) /\ Thinner(MemoryNext, maps)
       /\ routes' = maps.routes
       /\ PrefsKnown(maps.prefs) \subseteq PrefsKnown(prefs) => prefs' = maps.prefs
  BY <1>2, <1>11, <1>14, <1>15, LimitsEnforced DEF MemoryNext
<1>17. \A q \in Pairs : prefs'[q] \in {maps.prefs[q], NoPref}
  BY <1>16 DEF Thinner, MemoryNext
<1>18. ASSUME prefs[p].e = e
       PROVE  /\ \A k \in RouteKeys : routes[k].until > rclock => routes'[k] = routes[k]
              /\ prefs' = maps.prefs
  <2>1. routes[<<p, e>>] = NoRoute
    BY <1>18 DEF RoutesTypeOK, Tables, Sound, Apart, InMemory
  <2>2. \A k \in RouteKeys : raw.routes[k] = routes[k]
    BY <1>1, <1>4, <2>1, MemoryTypes
  <2>3. prefs[p] # NoPref
    BY <1>18, RouteTables DEF NoPref
  <2>4. PrefsKnown(maps.prefs) \subseteq PrefsKnown(prefs)
    BY <1>15, <2>3 DEF PrefsKnown, Known
  <2> QED
    BY <1>10, <1>16, <2>2, <2>4
<1> QED
  BY <1>12, <1>13, <1>16, <1>17, <1>18 DEF w

(* Tables with nothing new in them keep to their limits. *)
LEMMA FewerTables ==
  ASSUME RoutesTypeOK, \A k \in RouteKeys : routes[k] = NoRoute => routes'[k] = NoRoute,
         \A q \in Pairs : prefs[q] = NoPref => prefs'[q] = NoPref
  PROVE  Within(MemoryNext, rscene.limit)
<1>1. RoutesKnown(routes') \subseteq RoutesKnown(routes) /\ PrefsKnown(prefs') \subseteq PrefsKnown(prefs)
  BY DEF RoutesKnown, PrefsKnown, Known
<1>2. /\ Cardinality(RoutesKnown(routes')) <= Cardinality(RoutesKnown(routes))
      /\ Cardinality(PrefsKnown(prefs')) <= Cardinality(PrefsKnown(prefs))
  BY <1>1, FewerKnown, MemoryTypes
<1>3. Cardinality(RoutesKnown(routes')) \in Nat /\ Cardinality(PrefsKnown(prefs')) \in Nat
  BY <1>1, FS_Subset, FS_CardinalityType, MemoryTypes
<1> QED
  BY <1>2, <1>3, MemoryTypes DEF Within, MemoryNext

LEMMA DroppedTables ==
  ASSUME RoutesTypeOK,
         routes' \in [RouteKeys -> RouteType], \A k \in RouteKeys : routes'[k] \in {routes[k], NoRoute},
         prefs' \in [Pairs -> PrefType], \A q \in Pairs : prefs'[q] \in {prefs[q], NoPref}
  PROVE  Tables(MemoryNext, rclock, rscene.limit)
<1>1. Thinner(MemoryNext, InMemory)
  BY DEF Thinner, MemoryNext, InMemory
<1>2. Sound(InMemory, rclock)
  BY DEF RoutesTypeOK, Tables
<1> QED
  BY <1>1, <1>2, ThinnerSound, FewerTables, MemoryTypes DEF Tables

LEMMA ClearTables ==
  ASSUME RoutesTypeOK, NEW p \in Pairs, NEW e \in RouteEndpoints, clearFailure(p, e)
  PROVE  Tables(MemoryNext, rclock, rscene.limit)
<1>1. routes' \in [RouteKeys -> RouteType] /\ \A k \in RouteKeys : routes'[k] \in {routes[k], NoRoute}
  BY MemoryTypes, NothingTypes DEF clearFailure, RouteKeys
<1>2. prefs' \in [Pairs -> PrefType] /\ \A q \in Pairs : prefs'[q] \in {prefs[q], NoPref}
  BY MemoryTypes DEF clearFailure
<1> QED
  BY <1>1, <1>2, DroppedTables

LEMMA ForgetTables ==
  ASSUME RoutesTypeOK, NEW p \in Pairs, forgetAccount(p)
  PROVE  /\ Tables(MemoryNext, rclock, rscene.limit)
         /\ \A q \in Pairs : prefs'[q] \in {prefs[q], NoPref}
<1>1. routes' \in [RouteKeys -> RouteType] /\ \A k \in RouteKeys : routes'[k] \in {routes[k], NoRoute}
  BY MemoryTypes, NothingTypes DEF forgetAccount
<1>2. prefs' \in [Pairs -> PrefType] /\ \A q \in Pairs : prefs'[q] \in {prefs[q], NoPref}
  BY MemoryTypes, NothingTypes DEF forgetAccount
<1> QED
  BY <1>1, <1>2, DroppedTables

\* The tables without what expired.
Fresh == pruneExpiredLocked(InMemory)

LEMMA FreshTables ==
  ASSUME RoutesTypeOK
  PROVE  /\ Fresh.routes \in [RouteKeys -> RouteType] /\ Fresh.prefs \in [Pairs -> PrefType]
         /\ \A k \in RouteKeys : Fresh.routes[k] \in {routes[k], NoRoute}
         /\ \A k \in RouteKeys : routes[k].until > rclock => Fresh.routes[k] = routes[k]
         /\ \A p \in Pairs : Fresh.prefs[p] = (IF prefs[p].expires > rclock THEN prefs[p] ELSE NoPref)
<1>1. Sound(InMemory, rclock) /\ InMemory.routes = routes /\ InMemory.prefs = prefs
  BY DEF RoutesTypeOK, Tables, InMemory
<1> QED
  BY <1>1, Pruned, MemoryTypes DEF Fresh, Thinner

(* An endpoint that cools and a preference are touched, the rest is pruned. *)
LEMMA SelectTables ==
  ASSUME RoutesTypeOK, NEW p \in Pairs, Select(p)
  PROVE  /\ Tables(MemoryNext, rclock, rscene.limit)
         /\ \A k \in RouteKeys : routes[k].until > rclock =>
              routes'[k].until = routes[k].until /\ routes'[k].fails = routes[k].fails
         /\ \A k \in RouteKeys : ~(routes[k].until > rclock) => ~(routes'[k].until > rclock)
         /\ \A q \in Pairs :
              \/ prefs[q].expires > rclock /\ prefs'[q] \in {prefs[q], [prefs[q] EXCEPT !.access = rclock]}
              \/ ~(prefs[q].expires > rclock) /\ prefs'[q] = NoPref
<1> DEFINE At(r) == [r EXCEPT !.access = rclock]
<1>1. /\ \A r \in RouteType : At(r) \in RouteType /\ At(r).until = r.until /\ At(r).fails = r.fails
      /\ \A r \in PrefType : /\ At(r) \in PrefType /\ At(r).e = r.e
                             /\ At(r).expires = r.expires /\ At(r).persisted = r.persisted
  BY MemoryTypes DEF RouteType, PrefType
<1>2. routes' = [k \in RouteKeys |-> IF k[1] = p /\ CoolingRoute(k) THEN At(routes[k]) ELSE Fresh.routes[k]]
  BY DEF Select, Fresh, InMemory
<1>3. prefs' = [Fresh.prefs EXCEPT ![p] = IF Fresh.prefs[p] = NoPref THEN Fresh.prefs[p] ELSE At(Fresh.prefs[p])]
  BY DEF Select, Fresh, InMemory
<1> HIDE DEF At
<1>4. routes' \in [RouteKeys -> RouteType]
  BY <1>1, <1>2, FreshTables, MemoryTypes
<1>5. \A k \in RouteKeys :
        /\ routes'[k] \in {routes[k], NoRoute, At(routes[k])}
        /\ routes[k].until > rclock => routes'[k] \in {routes[k], At(routes[k])}
        /\ ~(routes[k].until > rclock) => routes'[k] \in {routes[k], NoRoute}
  BY <1>2, FreshTables DEF CoolingRoute
<1>6. prefs' \in [Pairs -> PrefType]
  BY <1>1, <1>3, FreshTables
<1>7. \A q \in Pairs :
        \/ prefs[q].expires > rclock /\ prefs'[q] \in {prefs[q], At(prefs[q])}
        \/ ~(prefs[q].expires > rclock) /\ prefs'[q] = NoPref
  BY <1>3, FreshTables
<1>8. \A k \in RouteKeys : routes[k] = NoRoute => routes'[k] = NoRoute
  BY <1>5, MemoryTypes DEF NoRoute
<1>9. \A q \in Pairs : prefs[q] = NoPref => prefs'[q] = NoPref
  BY <1>7, MemoryTypes DEF NoPref
<1>10. \A q \in Pairs : prefs'[q] = NoPref \/ (prefs'[q].e = prefs[q].e /\ PrefBounded(prefs'[q], rclock))
  BY <1>1, <1>7, MemoryTypes DEF PrefBounded
<1>11. \A q \in Pairs : PrefBounded(prefs'[q], rclock)
  <2>1. PrefBounded(NoPref, rclock)
    BY MemoryTypes, RouteTimes DEF PrefBounded, NoPref
  <2> QED
    BY <1>10, <2>1
<1>12. Apart(MemoryNext)
  <2> SUFFICES ASSUME NEW q \in Pairs, NEW d \in RouteEndpoints, prefs'[q].e = d
               PROVE  routes'[<<q, d>>] = NoRoute
    BY DEF Apart, MemoryNext
  <2>1. prefs[q].e = d
    BY <1>10, RouteTables DEF NoPref
  <2>2. routes[<<q, d>>] = NoRoute
    BY <2>1 DEF RoutesTypeOK, Tables, Sound, Apart, InMemory
  <2> QED
    BY <1>8, <2>2 DEF RouteKeys
<1>13. Within(MemoryNext, rscene.limit)
  BY <1>8, <1>9, FewerTables
<1>14. Tables(MemoryNext, rclock, rscene.limit)
  BY <1>4, <1>6, <1>11, <1>12, <1>13 DEF Tables, Sound, MemoryNext
<1>15. \A k \in RouteKeys : ~(routes[k].until > rclock) => ~(routes'[k].until > rclock)
  BY <1>5, MemoryTypes DEF NoRoute
<1>16. \A k \in RouteKeys : routes[k].until > rclock =>
              routes'[k].until = routes[k].until /\ routes'[k].fails = routes[k].fails
  BY <1>1, <1>5, MemoryTypes
<1> QED
  BY <1>7, <1>14, <1>15, <1>16 DEF At

(* The copy a save makes is as sound, and says what the tables say. *)
LEMMA ImageTables ==
  ASSUME RoutesTypeOK, BeginSaveRoutes
  PROVE  /\ Tables(MemoryNext, rclock, rscene.limit) /\ Tables(rimage', rclock, rscene.limit)
         /\ routes' = Fresh.routes /\ prefs' = Fresh.prefs
         /\ \A k \in RouteKeys : SameRoute(rimage'.routes[k], routes'[k], rclock)
         /\ \A p \in Pairs : rimage'.prefs[p].e = prefs'[p].e /\ rimage'.prefs[p].expires = prefs'[p].expires
<1>1. routes' = Fresh.routes /\ prefs' = Fresh.prefs /\ rimage' = Persisted(Fresh)
  BY DEF BeginSaveRoutes, Fresh, InMemory
<1>2. /\ routes' \in [RouteKeys -> RouteType] /\ \A k \in RouteKeys : routes'[k] \in {routes[k], NoRoute}
      /\ prefs' \in [Pairs -> PrefType] /\ \A q \in Pairs : prefs'[q] \in {prefs[q], NoPref}
  BY <1>1, FreshTables
<1>3. Tables(MemoryNext, rclock, rscene.limit)
  BY <1>2, DroppedTables
<1> DEFINE Bare(r) == [r EXCEPT !.access = 0]
           Plain(r) == [r EXCEPT !.persisted = 0, !.access = 0]
           i == Persisted(Fresh)
           m == [routes |-> routes', prefs |-> prefs']
<1>4. \A k \in RouteKeys :
        i.routes[k] = (IF routes'[k].until > rclock THEN Bare(routes'[k]) ELSE NoRoute)
  BY <1>1 DEF Persisted
<1>5. \A p \in Pairs : i.prefs[p] = Plain(prefs'[p])
  BY <1>1 DEF Persisted
<1>6. \A r \in RouteType : /\ Bare(r) \in RouteType
                           /\ Bare(r).until = r.until
                           /\ Bare(r).fails = r.fails
  BY DEF RouteType
<1>7. \A r \in PrefType : /\ Plain(r) \in PrefType
                          /\ Plain(r).e = r.e
                          /\ Plain(r).expires = r.expires
                          /\ Plain(r).persisted = 0
  <2> TAKE r \in PrefType
  <2> DEFINE d == [r EXCEPT !.persisted = 0]
             g == [d EXCEPT !.access = 0]
  <2>1. d \in PrefType /\ d.e = r.e /\ d.expires = r.expires /\ d.persisted = 0
    BY DEF PrefType
  <2> HIDE DEF d
  <2>2. g \in PrefType /\ g.e = d.e /\ g.expires = d.expires /\ g.persisted = d.persisted
    BY <2>1 DEF PrefType
  <2> QED
    BY <2>1, <2>2 DEF d
<1>8. i.routes \in [RouteKeys -> RouteType] /\ i.prefs \in [Pairs -> PrefType]
  <2>1. i.routes = [k \in RouteKeys |->
          IF routes'[k].until > rclock THEN Bare(routes'[k]) ELSE NoRoute]
    BY <1>1 DEF Persisted
  <2>2. i.prefs = [p \in Pairs |-> Plain(prefs'[p])]
    BY <1>1 DEF Persisted
  <2>3. \A p \in Pairs : Plain(prefs'[p]) \in PrefType
    BY <1>2, <1>7
  <2>4. \A k \in RouteKeys :
          (IF routes'[k].until > rclock THEN Bare(routes'[k]) ELSE NoRoute) \in RouteType
    BY <1>2, <1>6, NothingTypes
  <2> HIDE DEF i
  <2> QED
    BY <2>1, <2>2, <2>3, <2>4
<1>s. NoPref = Plain(NoPref) /\ NoRoute.until = 0
  <2>1. [NoPref EXCEPT !.persisted = 0] = NoPref
    BY DEF NoPref
  <2>2. [NoPref EXCEPT !.access = 0] = NoPref
    BY DEF NoPref
  <2> QED
    BY <2>1, <2>2 DEF NoRoute
<1> HIDE DEF i, Bare, Plain
<1>9. \A k \in RouteKeys : SameRoute(i.routes[k], routes'[k], rclock)
  <2> TAKE k \in RouteKeys
  <2>1. CASE routes'[k].until > rclock
    <3>1. i.routes[k].until = routes'[k].until /\ i.routes[k].fails = routes'[k].fails
      BY <1>2, <1>4, <1>6, <2>1
    <3> QED
      BY <2>1, <3>1 DEF SameRoute
  <2>2. CASE ~(routes'[k].until > rclock)
    <3>1. i.routes[k].until = 0
      BY <1>4, <1>s, <2>2
    <3> QED
      BY <2>2, <3>1, MemoryTypes DEF SameRoute
  <2> QED
    BY <2>1, <2>2
<1>10. \A p \in Pairs : /\ i.prefs[p].e = prefs'[p].e /\ i.prefs[p].expires = prefs'[p].expires
                        /\ i.prefs[p].persisted = 0
  BY <1>2, <1>5, <1>7
<1>11. \A k \in RouteKeys : routes'[k] = NoRoute => i.routes[k] = NoRoute
  BY <1>4, <1>s, MemoryTypes
<1>12. \A p \in Pairs : prefs'[p] = NoPref => i.prefs[p] = NoPref
  BY <1>5, <1>s
<1>13. Sound(m, rclock) /\ m.routes = routes' /\ m.prefs = prefs'
  BY <1>3 DEF Tables, MemoryNext
<1>14. \A p \in Pairs : PrefBounded(i.prefs[p], rclock)
  BY <1>10, <1>13 DEF Sound, PrefBounded
<1>15. Apart(i)
  BY <1>10, <1>11, <1>13 DEF Sound, Apart, RouteKeys
<1>16. Within(i, rscene.limit)
  <2>1. RoutesKnown(i.routes) \subseteq RoutesKnown(routes') /\ PrefsKnown(i.prefs) \subseteq PrefsKnown(prefs')
    BY <1>11, <1>12 DEF RoutesKnown, PrefsKnown, Known
  <2>2. IsFiniteSet(RoutesKnown(routes')) /\ IsFiniteSet(PrefsKnown(prefs'))
    BY TablesFinite, FS_Subset DEF RoutesKnown, PrefsKnown, Known
  <2>3. /\ Cardinality(RoutesKnown(i.routes)) <= Cardinality(RoutesKnown(routes'))
        /\ Cardinality(PrefsKnown(i.prefs)) <= Cardinality(PrefsKnown(prefs'))
    BY <2>1, <2>2, FewerKnown
  <2>4. /\ Cardinality(RoutesKnown(i.routes)) \in Nat /\ Cardinality(PrefsKnown(i.prefs)) \in Nat
        /\ Cardinality(RoutesKnown(routes')) \in Nat /\ Cardinality(PrefsKnown(prefs')) \in Nat
    BY <2>1, <2>2, FS_Subset, FS_CardinalityType
  <2>5. Cardinality(RoutesKnown(routes')) <= rscene.limit /\ Cardinality(PrefsKnown(prefs')) <= rscene.limit
    BY <1>3 DEF Tables, Within, MemoryNext
  <2> QED
    BY <2>3, <2>4, <2>5, MemoryTypes DEF Within
<1>17. Tables(i, rclock, rscene.limit)
  BY <1>8, <1>14, <1>15, <1>16 DEF Tables, Sound
<1> QED
  BY <1>1, <1>3, <1>9, <1>10, <1>17 DEF i

(* What is loaded is what the file has that did not expire. *)
LEMMA LoadedTables ==
  ASSUME RoutesTypeOK, load
  PROVE  /\ Tables(MemoryNext, rclock, rscene.limit)
         /\ \A k \in RouteKeys : SameRoute(rfile.routes[k], routes'[k], rclock)
         /\ \A p \in Pairs :
              \/ /\ rfile.prefs[p].expires > rclock /\ prefs'[p].e = rfile.prefs[p].e
                 /\ prefs'[p].expires = rfile.prefs[p].expires
                 /\ prefs'[p].persisted = rfile.prefs[p].expires
              \/ ~(rfile.prefs[p].expires > rclock) /\ prefs'[p] = NoPref
<1> DEFINE At(r) == [r EXCEPT !.access = rclock]
           Back(r) == [r EXCEPT !.persisted = r.expires, !.access = rclock]
           d == [routes |-> routes', prefs |-> prefs']
<1>1. /\ rfile.routes \in [RouteKeys -> RouteType] /\ rfile.prefs \in [Pairs -> PrefType]
      /\ Apart(rfile) /\ Within(rfile, rscene.limit)
      /\ \A p \in Pairs : PrefBounded(rfile.prefs[p], rclock)
  BY DEF RoutesTypeOK, Tables, Sound
<1>2. \A r \in RouteType : At(r) \in RouteType /\ At(r).until = r.until /\ At(r).fails = r.fails
  BY MemoryTypes DEF RouteType
<1>3. \A r \in PrefType : r.expires > rclock =>
        Back(r) \in PrefType /\ Back(r).e = r.e /\ Back(r).expires = r.expires /\ Back(r).persisted = r.expires
  <2> SUFFICES ASSUME NEW r \in PrefType, r.expires > rclock
               PROVE  Back(r) \in PrefType /\ Back(r).e = r.e /\ Back(r).expires = r.expires
                      /\ Back(r).persisted = r.expires
    OBVIOUS
  <2> DEFINE b == [r EXCEPT !.persisted = r.expires]
             c == [b EXCEPT !.access = rclock]
  <2>1. r.expires \in Nat
    BY MemoryTypes DEF PrefType
  <2>2. b \in PrefType /\ b.e = r.e /\ b.expires = r.expires /\ b.persisted = r.expires
    BY <2>1 DEF PrefType
  <2> HIDE DEF b
  <2>3. c \in PrefType /\ c.e = b.e /\ c.expires = b.expires /\ c.persisted = b.persisted
    BY <2>2, MemoryTypes DEF PrefType
  <2> QED
    BY <2>2, <2>3 DEF b
<1>4. routes' = [k \in RouteKeys |-> IF rfile.routes[k].until > rclock THEN At(rfile.routes[k]) ELSE NoRoute]
  BY DEF load
<1>5. prefs' = [p \in Pairs |-> IF rfile.prefs[p].expires > rclock THEN Back(rfile.prefs[p]) ELSE NoPref]
  BY DEF load
<1> HIDE DEF At, Back
<1>6. routes' \in [RouteKeys -> RouteType] /\ prefs' \in [Pairs -> PrefType]
  BY <1>1, <1>2, <1>3, <1>4, <1>5, NothingTypes
<1>7. \A k \in RouteKeys : SameRoute(rfile.routes[k], routes'[k], rclock)
  BY <1>1, <1>2, <1>4, MemoryTypes DEF SameRoute, NoRoute
<1>8. \A p \in Pairs :
              \/ /\ rfile.prefs[p].expires > rclock /\ prefs'[p].e = rfile.prefs[p].e
                 /\ prefs'[p].expires = rfile.prefs[p].expires
                 /\ prefs'[p].persisted = rfile.prefs[p].expires
              \/ ~(rfile.prefs[p].expires > rclock) /\ prefs'[p] = NoPref
  BY <1>1, <1>3, <1>5
<1>9. \A k \in RouteKeys : rfile.routes[k] = NoRoute => routes'[k] = NoRoute
  BY <1>4, MemoryTypes DEF NoRoute
<1>10. \A p \in Pairs : rfile.prefs[p] = NoPref => prefs'[p] = NoPref
  BY <1>8, MemoryTypes DEF NoPref
<1>11. \A p \in Pairs : PrefBounded(prefs'[p], rclock)
  <2>1. PrefBounded(NoPref, rclock)
    BY MemoryTypes, RouteTimes DEF PrefBounded, NoPref
  <2> QED
    BY <1>1, <1>8, <2>1, MemoryTypes DEF PrefBounded
<1>12. Apart(d)
  <2> SUFFICES ASSUME NEW p \in Pairs, NEW e \in RouteEndpoints, prefs'[p].e = e
               PROVE  routes'[<<p, e>>] = NoRoute
    BY DEF Apart
  <2>1. rfile.prefs[p].e = e
    BY <1>8, RouteTables DEF NoPref
  <2> QED
    BY <1>1, <1>9, <2>1 DEF Apart, RouteKeys
<1>13. Within(d, rscene.limit)
  <2>1. /\ RoutesKnown(routes') \subseteq RoutesKnown(rfile.routes)
        /\ PrefsKnown(prefs') \subseteq PrefsKnown(rfile.prefs)
    BY <1>9, <1>10 DEF RoutesKnown, PrefsKnown, Known
  <2>2. IsFiniteSet(RoutesKnown(rfile.routes)) /\ IsFiniteSet(PrefsKnown(rfile.prefs))
    BY TablesFinite, FS_Subset DEF RoutesKnown, PrefsKnown, Known
  <2>3. /\ Cardinality(RoutesKnown(routes')) <= Cardinality(RoutesKnown(rfile.routes))
        /\ Cardinality(PrefsKnown(prefs')) <= Cardinality(PrefsKnown(rfile.prefs))
    BY <2>1, <2>2, FewerKnown
  <2>4. /\ Cardinality(RoutesKnown(routes')) \in Nat /\ Cardinality(PrefsKnown(prefs')) \in Nat
        /\ Cardinality(RoutesKnown(rfile.routes)) \in Nat /\ Cardinality(PrefsKnown(rfile.prefs)) \in Nat
    BY <2>1, <2>2, FS_Subset, FS_CardinalityType
  <2> QED
    BY <1>1, <2>3, <2>4, MemoryTypes DEF Within
<1>14. Tables(d, rclock, rscene.limit)
  BY <1>6, <1>11, <1>12, <1>13 DEF Tables, Sound
<1> QED
  BY <1>7, <1>8, <1>14 DEF MemoryNext

-----------------------------------------------------------------------------
(* The types, and tables that are sound and keep to their limits, in memory *)
(* and on disk.                                                             *)
LEMMA StoredLater ==
  ASSUME NEW maps, NEW now \in Nat, NEW limit, Tables(maps, now, limit)
  PROVE  Tables(maps, now + 1, limit)
<1>1. \A p \in Pairs : maps.prefs[p].expires \in Int
  BY DEF Tables, Sound, PrefType
<1>2. \A p \in Pairs : PrefBounded(maps.prefs[p], now + 1)
  BY <1>1, RouteTimes DEF Tables, Sound, PrefBounded
<1> QED
  BY <1>2 DEF Tables, Sound

(* Preferences that only know more about the file are as sound. *)
LEMMA WrittenTables ==
  ASSUME RoutesTypeOK, RoutesWritten
  PROVE  /\ Tables(MemoryNext, rclock, rscene.limit)
         /\ \A p \in Pairs : /\ prefs'[p].e = prefs[p].e /\ prefs'[p].expires = prefs[p].expires
                             /\ prefs'[p].persisted = Learnt(p)
<1>1. \A p \in Pairs : Learnt(p) \in Nat
  <2> TAKE p \in Pairs
  <2>1. prefs[p].persisted \in Nat
    BY MemoryTypes DEF PrefType
  <2>2. rimage.prefs[p].expires \in Int
    BY DEF RoutesTypeOK, Tables, Sound, PrefType, RoutesWritten
  <2>3. \A x \in Int, y \in Nat : Max({x, y}) \in Nat
    BY DEF Max
  <2> QED
    BY <2>1, <2>2, <2>3 DEF Learnt
<1>2. prefs' = [p \in Pairs |-> [prefs[p] EXCEPT !.persisted = Learnt(p)]] /\ routes' = routes
  BY DEF RoutesWritten
<1>3. prefs' \in [Pairs -> PrefType] /\ \A p \in Pairs : prefs'[p] \in PrefType
  BY <1>1, <1>2, MemoryTypes DEF PrefType
<1>4. \A p \in Pairs : /\ prefs'[p].e = prefs[p].e /\ prefs'[p].expires = prefs[p].expires
                       /\ prefs'[p].persisted = Learnt(p)
  BY <1>2, MemoryTypes DEF PrefType
<1>5. \A p \in Pairs : prefs[p].e = NoEndpoint => Learnt(p) = 0 
  <2> SUFFICES ASSUME NEW p \in Pairs, prefs[p].e = NoEndpoint PROVE Learnt(p) = 0
    OBVIOUS
  <2>1. prefs[p].persisted = 0
    BY MemoryTypes DEF PrefBounded
  <2>2. rimage.prefs[p].e = NoEndpoint => rimage.prefs[p].expires = 0
    BY DEF RoutesTypeOK, Tables, Sound, PrefBounded, RoutesWritten
  <2>3. Max({0, 0}) = 0
    BY DEF Max
  <2> QED
    BY <2>1, <2>2, <2>3 DEF Learnt
<1>6. \A p \in Pairs : PrefBounded(prefs'[p], rclock)
  BY <1>4, <1>5, MemoryTypes DEF PrefBounded
<1>7. Apart(MemoryNext)
  BY <1>2, <1>4 DEF Apart, MemoryNext, RoutesTypeOK, Tables, Sound, InMemory
<1>8. \A p \in Pairs : prefs[p] = NoPref => prefs'[p] = NoPref
  <2> SUFFICES ASSUME NEW p \in Pairs, prefs[p] = NoPref PROVE prefs'[p] = NoPref
    OBVIOUS
  <2>1. Learnt(p) = 0
    BY <1>5 DEF NoPref
  <2> QED
    BY <1>2, <2>1 DEF NoPref
<1>9. Within(MemoryNext, rscene.limit)
  BY <1>2, <1>8, FewerTables
<1>10. routes' \in [RouteKeys -> RouteType]
  BY <1>2, MemoryTypes
<1> QED
  BY <1>3, <1>4, <1>6, <1>7, <1>9, <1>10 DEF Tables, Sound, MemoryNext

LEMMA RoutesTypeNext == RoutesTypeOK /\ [RoutesNext]_routeVars => RoutesTypeOK'
<1> SUFFICES ASSUME RoutesTypeOK, [RoutesNext]_routeVars PROVE RoutesTypeOK'
  OBVIOUS
<1> DEFINE Counts == /\ owed' \in {0, 1} /\ handle' \in BOOLEAN /\ rtimers' \in Nat /\ rsavers' \in Nat
                     /\ handle' => rtimers' > 0
           Disk == /\ Tables(rfile', rclock', rscene'.limit)
                   /\ rimage' # NoSave => Tables(rimage', rclock', rscene'.limit)
           Ok == /\ rclock' \in Nat /\ rclock' > 0 /\ rscene' \in RouteScenes
                 /\ Counts /\ Disk /\ Tables(MemoryNext, rclock', rscene'.limit)
<1>a. InMemory' = MemoryNext
  BY DEF InMemory, MemoryNext
<1>b. Ok => RoutesTypeOK'
  BY <1>a DEF RoutesTypeOK, Ok, Counts, Disk
<1>c. /\ rclock \in Nat /\ rclock > 0 /\ rscene \in RouteScenes
      /\ owed \in {0, 1} /\ handle \in BOOLEAN /\ rtimers \in Nat /\ rsavers \in Nat
      /\ handle => rtimers > 0
      /\ Tables(InMemory, rclock, rscene.limit) /\ Tables(rfile, rclock, rscene.limit)
      /\ rimage # NoSave => Tables(rimage, rclock, rscene.limit)
  BY DEF RoutesTypeOK
<1> HIDE DEF Ok, Counts, Disk
<1>d. ASSUME UNCHANGED rwriter, owed' \in {0, 1} PROVE Counts
  BY <1>c, <1>d DEF rwriter, Counts
<1>e. ASSUME UNCHANGED <<rfile, rimage, rclock, rscene>> PROVE Disk
  BY <1>c, <1>e DEF Disk
<1>f. ASSUME UNCHANGED <<routes, prefs, rclock, rscene>>
      PROVE  Tables(MemoryNext, rclock', rscene'.limit)
  BY <1>c, <1>f DEF MemoryNext, InMemory
<1>1. ASSUME NEW p \in Pairs, NEW e \in RouteEndpoints, NEW f \in rscene.failures,
             recordFailure(p, e, f.kind, f.retryAfter)
      PROVE  Ok
  <2>1. UNCHANGED <<rclock, rwriter, rscene>> /\ owed' = 1
    BY <1>1 DEF recordFailure
  <2>2. Tables(MemoryNext, rclock, rscene.limit)
    BY <1>1, FailureTables
  <2>3. Counts /\ Disk
    BY <1>d, <1>e, <2>1 DEF rwriter
  <2> QED
    BY <1>c, <2>1, <2>2, <2>3 DEF Ok
<1>2. ASSUME NEW p \in Pairs, NEW e \in RouteEndpoints, recordSuccess(p, e) PROVE Ok
  <2>1. UNCHANGED <<rclock, rwriter, rscene>> /\ owed' \in {0, 1}
    BY <1>2 DEF recordSuccess
  <2>2. Tables(MemoryNext, rclock, rscene.limit)
    BY <1>2, SuccessTables
  <2>3. Counts /\ Disk
    BY <1>d, <1>e, <2>1 DEF rwriter
  <2> QED
    BY <1>c, <2>1, <2>2, <2>3 DEF Ok
<1>3. ASSUME NEW p \in Pairs, NEW e \in RouteEndpoints, clearFailure(p, e) PROVE Ok
  <2>1. UNCHANGED <<rclock, rwriter, rscene>> /\ owed' = 1
    BY <1>3 DEF clearFailure
  <2>2. Tables(MemoryNext, rclock, rscene.limit)
    BY <1>3, ClearTables
  <2>3. Counts /\ Disk
    BY <1>d, <1>e, <2>1 DEF rwriter
  <2> QED
    BY <1>c, <2>1, <2>2, <2>3 DEF Ok
<1>4. ASSUME NEW p \in Pairs, forgetAccount(p) PROVE Ok
  <2>1. UNCHANGED <<rclock, rwriter, rscene>> /\ owed' = 1
    BY <1>4 DEF forgetAccount
  <2>2. Tables(MemoryNext, rclock, rscene.limit)
    BY <1>4, ForgetTables
  <2>3. Counts /\ Disk
    BY <1>d, <1>e, <2>1 DEF rwriter
  <2> QED
    BY <1>c, <2>1, <2>2, <2>3 DEF Ok
<1>5. ASSUME NEW p \in Pairs, Select(p) PROVE Ok
  <2>1. UNCHANGED <<rclock, owed, rwriter, rscene>>
    BY <1>5 DEF Select
  <2>2. Tables(MemoryNext, rclock, rscene.limit)
    BY <1>5, SelectTables
  <2>3. Counts /\ Disk
    BY <1>c, <1>d, <1>e, <2>1 DEF rwriter
  <2> QED
    BY <1>c, <2>1, <2>2, <2>3 DEF Ok
<1>6. ASSUME scheduleSave PROVE Ok
  <2>1. UNCHANGED <<rclock, routes, prefs, rimage, rfile, rscene>>
    BY <1>6 DEF scheduleSave
  <2>2. Counts
    <3>1. owed' = 0 /\ rsavers' = rsavers
      BY <1>6 DEF scheduleSave
    <3>2. owed' \in {0, 1} /\ rsavers' \in Nat
      BY <1>c, <3>1
    <3>3. CASE handle
      <4>1. handle' = handle /\ rtimers' = rtimers
        BY <1>6, <3>3, Zenon DEF scheduleSave
      <4> QED
        BY <1>c, <3>2, <4>1, Zenon DEF Counts
    <3>4. CASE ~handle
      <4>1. handle' = TRUE /\ rtimers' = rtimers + 1
        BY <1>6, <3>4, Zenon DEF scheduleSave
      <4>2. rtimers' \in Nat /\ rtimers' > 0
        BY <1>c, <4>1
      <4> QED
        BY <3>2, <4>1, <4>2, Zenon DEF Counts
    <3> QED
      BY <3>3, <3>4
  <2> QED
    BY <1>c, <1>e, <1>f, <2>1, <2>2 DEF Ok
<1>7. ASSUME SaveTimerFires PROVE Ok
  <2>1. UNCHANGED <<rclock, routes, prefs, rimage, rfile, rscene>>
    BY <1>7 DEF SaveTimerFires
  <2>2. Counts
    <3>1. handle' = FALSE /\ owed' = owed
      BY <1>7, Zenon DEF SaveTimerFires
    <3>2. rtimers > 0 /\ rtimers' = rtimers - 1 /\ rsavers' = rsavers + 1
      BY <1>7 DEF SaveTimerFires
    <3>3. rtimers' \in Nat /\ rsavers' \in Nat
      BY <1>c, <3>2
    <3> QED
      BY <1>c, <3>1, <3>3, Zenon DEF Counts
  <2> QED
    BY <1>c, <1>e, <1>f, <2>1, <2>2 DEF Ok
<1>8. ASSUME flush PROVE Ok
  <2>1. UNCHANGED <<rclock, routes, prefs, rimage, rfile, rscene>>
    BY <1>8 DEF flush
  <2>2. Counts
    <3>1. handle' = FALSE /\ owed' = owed
      BY <1>8, Zenon DEF flush
    <3>2. rsavers' = rsavers + 1 /\ (rtimers' = rtimers \/ (handle /\ rtimers' = rtimers - 1))
      BY <1>8 DEF flush
    <3>3. rtimers' = rtimers \/ (rtimers > 0 /\ rtimers' = rtimers - 1)
      BY <1>c, <3>2, Zenon
    <3>4. rtimers' \in Nat /\ rsavers' \in Nat
      BY <1>c, <3>2, <3>3
    <3> QED
      BY <1>c, <3>1, <3>4, Zenon DEF Counts
  <2> QED
    BY <1>c, <1>e, <1>f, <2>1, <2>2 DEF Ok
<1>9. ASSUME BeginSaveRoutes PROVE Ok
  <2>1. UNCHANGED <<rclock, owed, handle, rtimers, rfile, rscene>> /\ rsavers' = rsavers - 1 /\ rsavers > 0
    BY <1>9 DEF BeginSaveRoutes
  <2>2. Counts
    BY <1>c, <2>1 DEF Counts
  <2>3. Tables(MemoryNext, rclock, rscene.limit) /\ Tables(rimage', rclock, rscene.limit)
    BY <1>9, ImageTables
  <2>4. Disk
    BY <1>c, <2>1, <2>3 DEF Disk
  <2> QED
    BY <1>c, <2>1, <2>2, <2>3, <2>4 DEF Ok
<1>10. ASSUME RoutesWritten PROVE Ok
  <2>1. /\ UNCHANGED <<rclock, owed, handle, rtimers, rsavers, rscene>>
        /\ rimage' = NoSave /\ rimage # NoSave /\ rfile' = rimage
    BY <1>10 DEF RoutesWritten
  <2>2. Counts
    BY <1>c, <2>1 DEF Counts
  <2>3. Tables(MemoryNext, rclock, rscene.limit)
    BY <1>10, WrittenTables
  <2>4. Disk
    BY <1>c, <2>1 DEF Disk
  <2> QED
    BY <1>c, <2>1, <2>2, <2>3, <2>4 DEF Ok
<1>11. ASSUME RoutesNotWritten PROVE Ok
  <2>1. /\ UNCHANGED <<rclock, routes, prefs, owed, handle, rtimers, rsavers, rfile, rscene>>
        /\ rimage' = NoSave
    BY <1>11 DEF RoutesNotWritten
  <2>2. Counts
    BY <1>c, <2>1 DEF Counts
  <2>3. Disk
    BY <1>c, <2>1 DEF Disk
  <2> QED
    BY <1>c, <1>f, <2>1, <2>2, <2>3 DEF Ok
<1>12. ASSUME RestartRoutes PROVE Ok
  <2>1. /\ UNCHANGED <<rclock, rfile, rscene>> /\ rimage' = NoSave
        /\ owed' = 0 /\ handle' = FALSE /\ rtimers' = 0 /\ rsavers' = 0
    BY <1>12 DEF RestartRoutes
  <2>2. owed' \in {0, 1} /\ rtimers' \in Nat /\ rsavers' \in Nat
    BY <2>1
  <2>3. Counts
    BY <2>1, <2>2, Zenon DEF Counts
  <2>4. Tables(MemoryNext, rclock, rscene.limit)
    BY <1>12, LoadedTables DEF RestartRoutes
  <2>5. Disk
    BY <1>c, <2>1 DEF Disk
  <2> QED
    BY <1>c, <2>1, <2>3, <2>4, <2>5 DEF Ok
<1>13. ASSUME RouteTick PROVE Ok
  <2>1. UNCHANGED <<routes, prefs, owed, rwriter, rscene>> /\ rclock' = rclock + 1
    BY <1>13 DEF RouteTick
  <2>2. Counts
    BY <1>c, <1>d, <2>1
  <2>3. UNCHANGED <<rfile, rimage, routes, prefs, rscene>> 
    BY <2>1 DEF rwriter
  <2>4. Tables(InMemory, rclock + 1, rscene.limit) /\ Tables(rfile, rclock + 1, rscene.limit)
    BY <1>c, StoredLater
  <2>5. rimage # NoSave => Tables(rimage, rclock + 1, rscene.limit)
    BY <1>c, StoredLater
  <2>6. MemoryNext = InMemory
    BY <2>3 DEF MemoryNext, InMemory
  <2>7. Disk
    BY <2>1, <2>3, <2>4, <2>5 DEF Disk
  <2>8. rclock' \in Nat /\ rclock' > 0
    BY <1>c, <2>1
  <2> QED
    BY <1>c, <2>1, <2>2, <2>3, <2>4, <2>6, <2>7, <2>8 DEF Ok
<1>14. ASSUME UNCHANGED routeVars PROVE Ok
  <2>1. UNCHANGED <<rclock, routes, prefs, owed, rwriter, rimage, rfile, rscene>>
    BY <1>14 DEF routeVars, rwriter
  <2> QED
    BY <1>c, <1>d, <1>e, <1>f, <2>1 DEF Ok
<1> QED
  BY <1>b, <1>1, <1>2, <1>3, <1>4, <1>5, <1>6, <1>7, <1>8, <1>9, <1>10, <1>11, <1>12, <1>13, <1>14
  DEF RoutesNext

-----------------------------------------------------------------------------
(* What a preference is known to last on disk, it does. *)
LEMMA BehindNext == RoutesTypeOK /\ BehindInv /\ [RoutesNext]_routeVars => BehindInv'
<1> SUFFICES ASSUME RoutesTypeOK, BehindInv, [RoutesNext]_routeVars PROVE BehindInv'
  OBVIOUS
<1>a. /\ \A p \in Pairs : /\ prefs[p] \in PrefType /\ PrefBounded(prefs[p], rclock)
                          /\ rfile.prefs[p] \in PrefType /\ PrefBounded(rfile.prefs[p], rclock)
                          /\ Behind(rfile.prefs[p], prefs[p])
      /\ rimage # NoSave =>
           \A p \in Pairs : /\ rimage.prefs[p] \in PrefType /\ PrefBounded(rimage.prefs[p], rclock)
                            /\ Behind(rimage.prefs[p], prefs[p])
  BY DEF RoutesTypeOK, BehindInv, Tables, Sound, InMemory
\* What is on disk is behind nothing, and behind a preference made now.
<1>b. ASSUME NEW f \in PrefType, PrefBounded(f, rclock) PROVE Behind(f, NoPref)
  BY <1>b DEF Behind, NoPref, PrefBounded, PrefType
<1>c. ASSUME UNCHANGED <<rfile, rimage>>, \A p \in Pairs : prefs'[p] \in {prefs[p], NoPref}
      PROVE  BehindInv'
  BY <1>a, <1>b, <1>c DEF BehindInv
<1>1. ASSUME NEW p \in Pairs, NEW e \in RouteEndpoints, NEW f \in rscene.failures,
             recordFailure(p, e, f.kind, f.retryAfter)
      PROVE  BehindInv'
  <2>1. UNCHANGED <<rfile, rimage>>
    BY <1>1 DEF recordFailure, rwriter
  <2> QED
    BY <1>1, <1>c, <2>1, FailureTables
<1>2. ASSUME NEW p \in Pairs, NEW e \in RouteEndpoints, recordSuccess(p, e) PROVE BehindInv'
  <2>1. UNCHANGED <<rfile, rimage>>
    BY <1>2 DEF recordSuccess, rwriter
  <2>2. /\ \A q \in Pairs \ {p} : prefs'[q] \in {prefs[q], NoPref}
        /\ prefs'[p] \in {Preferred(p, e), NoPref}
    BY <1>2, SuccessTables
  <2>3. ASSUME NEW f \in PrefType, PrefBounded(f, rclock), Behind(f, prefs[p])
        PROVE  Behind(f, Preferred(p, e))
    <3>1. prefs[p].persisted \in Nat
      BY <1>a DEF PrefType
    <3>2. f.expires <= rclock + RouteTTL
      BY <2>3 DEF PrefBounded
    <3> DEFINE g == Preferred(p, e)
    <3>3. /\ g.e = e /\ g.expires = rclock + RouteTTL
          /\ g.persisted = (IF prefs[p].e = e THEN prefs[p].persisted ELSE 0)
      BY DEF Preferred
    <3> HIDE DEF g
    <3>4. Behind(f, g)
      BY <2>3, <3>1, <3>2, <3>3 DEF Behind
    <3> QED
      BY <3>4 DEF g
  <2> QED
    BY <1>a, <1>b, <2>1, <2>2, <2>3 DEF BehindInv
<1>3. ASSUME NEW p \in Pairs, NEW e \in RouteEndpoints, clearFailure(p, e) PROVE BehindInv'
  BY <1>3, <1>c DEF clearFailure, rwriter
<1>4. ASSUME NEW p \in Pairs, forgetAccount(p) PROVE BehindInv'
  <2>1. UNCHANGED <<rfile, rimage>>
    BY <1>4 DEF forgetAccount, rwriter
  <2> QED
    BY <1>4, <1>c, <2>1, ForgetTables
<1>5. ASSUME NEW p \in Pairs, Select(p) PROVE BehindInv'
  <2>1. UNCHANGED <<rfile, rimage>>
    BY <1>5 DEF Select, rwriter
  <2> DEFINE At(r) == [r EXCEPT !.access = rclock]
  <2>2. \A q \in Pairs : prefs'[q] \in {prefs[q], At(prefs[q]), NoPref}
    BY <1>5, SelectTables
  <2>3. \A q \in Pairs : /\ At(prefs[q]).e = prefs[q].e
                         /\ At(prefs[q]).expires = prefs[q].expires
                         /\ At(prefs[q]).persisted = prefs[q].persisted
    BY <1>a DEF PrefType
  <2> HIDE DEF At
  <2>4. \A q \in Pairs :
          \/ prefs'[q] = NoPref
          \/ /\ prefs'[q].e = prefs[q].e /\ prefs'[q].expires = prefs[q].expires
             /\ prefs'[q].persisted = prefs[q].persisted
    BY <2>2, <2>3
  <2>5. ASSUME NEW f, NEW q \in Pairs, f \in PrefType, PrefBounded(f, rclock), Behind(f, prefs[q])
        PROVE  Behind(f, prefs'[q])
    <3>1. CASE prefs'[q] = NoPref
      BY <1>b, <2>5, <3>1
    <3>2. CASE prefs'[q] # NoPref
      BY <2>4, <2>5, <3>2 DEF Behind
    <3> QED
      BY <3>1, <3>2
  <2> QED
    BY <1>a, <2>1, <2>5 DEF BehindInv
<1>6. CASE scheduleSave \/ SaveTimerFires \/ flush \/ RouteTick \/ UNCHANGED routeVars
  <2>1. UNCHANGED <<rfile, rimage, prefs>>
    BY <1>6 DEF scheduleSave, SaveTimerFires, flush, RouteTick, routeVars, rwriter
  <2> QED
    BY <1>c, <2>1
<1>7. CASE BeginSaveRoutes
  <2>1. /\ rfile' = rfile
        /\ \A p \in Pairs : prefs'[p] \in {prefs[p], NoPref}
    BY <1>7, ImageTables, FreshTables DEF BeginSaveRoutes
  <2>2. \A p \in Pairs : Behind(rfile'.prefs[p], prefs'[p]) /\ prefs'[p].expires \in Int
    BY <1>a, <1>b, <2>1, NothingTypes DEF PrefType
  <2>3. \A p \in Pairs : rimage'.prefs[p].e = prefs'[p].e /\ rimage'.prefs[p].expires = prefs'[p].expires
    BY <1>7, ImageTables
  <2>4. \A p \in Pairs : prefs'[p].persisted \in Nat /\ rfile'.prefs[p].expires \in Int
    BY <1>a, <2>1, NothingTypes DEF PrefType
  <2>5. \A p \in Pairs : Behind(rimage'.prefs[p], prefs'[p])
    BY <2>2, <2>3, <2>4 DEF Behind
  <2> QED
    BY <2>2, <2>5 DEF BehindInv
<1>8. CASE RoutesWritten
  <2>1. rimage # NoSave /\ rimage' = NoSave /\ rfile' = rimage
    BY <1>8 DEF RoutesWritten
  <2>2. \A p \in Pairs : /\ prefs'[p].e = prefs[p].e /\ prefs'[p].expires = prefs[p].expires
                         /\ prefs'[p].persisted = Learnt(p)
    BY <1>8, WrittenTables
  <2>3. \A p \in Pairs : Behind(rimage.prefs[p], prefs'[p])
    <3> TAKE p \in Pairs
    <3>1. /\ Behind(rimage.prefs[p], prefs[p]) /\ rimage.prefs[p].expires \in Int
          /\ prefs[p].persisted \in Nat /\ PrefBounded(rimage.prefs[p], rclock)
      BY <1>a, <2>1 DEF PrefType
    <3>2. \A x \in Int, y \in Nat : Max({x, y}) = IF x > y THEN x ELSE y
      BY DEF Max
    <3>3. CASE rimage.prefs[p] # NoPref /\ prefs[p].e = rimage.prefs[p].e
      <4>1. Learnt(p) <= rimage.prefs[p].expires \/ Learnt(p) = 0
        BY <3>1, <3>2, <3>3 DEF Learnt, Behind
      <4> QED
        BY <2>2, <3>1, <3>3, <4>1 DEF Behind
    <3>4. CASE ~(rimage.prefs[p] # NoPref /\ prefs[p].e = rimage.prefs[p].e)
      <4>1. Learnt(p) = prefs[p].persisted
        BY <3>4 DEF Learnt
      <4> QED
        BY <2>2, <3>1, <4>1 DEF Behind
    <3> QED
      BY <3>3, <3>4
  <2> QED
    BY <2>1, <2>3 DEF BehindInv
<1>9. CASE RoutesNotWritten
  BY <1>9, <1>a DEF RoutesNotWritten, BehindInv
<1>10. CASE RestartRoutes
  <2>1. rfile' = rfile /\ rimage' = NoSave
    BY <1>10 DEF RestartRoutes
  <2>2. \A p \in Pairs :
              \/ /\ rfile.prefs[p].expires > rclock /\ prefs'[p].e = rfile.prefs[p].e
                 /\ prefs'[p].expires = rfile.prefs[p].expires
                 /\ prefs'[p].persisted = rfile.prefs[p].expires
              \/ ~(rfile.prefs[p].expires > rclock) /\ prefs'[p] = NoPref
    BY <1>10, LoadedTables DEF RestartRoutes
  <2>3. \A p \in Pairs : rfile.prefs[p].expires \in Int
    BY <1>a DEF PrefType
  <2>4. \A p \in Pairs : Behind(rfile.prefs[p], prefs'[p])
    <3> TAKE p \in Pairs
    <3>1. CASE prefs'[p] = NoPref
      BY <1>a, <1>b, <3>1
    <3>2. CASE prefs'[p] # NoPref
      BY <2>2, <2>3, <3>2 DEF Behind
    <3> QED
      BY <3>1, <3>2
  <2> QED
    BY <2>1, <2>4 DEF BehindInv
<1> QED
  BY <1>1, <1>2, <1>3, <1>4, <1>5, <1>6, <1>7, <1>8, <1>9, <1>10 DEF RoutesNext

-----------------------------------------------------------------------------
(* What is on disk says what the tables say, when no save is to come. *)
Quiet == owed = 0 /\ rtimers = 0 /\ rsavers = 0

(* A step that keeps every cooldown and every live preference, but for those *)
(* a success made last longer, keeps what is on disk in agreement.           *)
LEMMA AgreeKept ==
  ASSUME RoutesTypeOK, NEW maps, Sound(maps, rclock), Agree(maps, InMemory, rclock),
         \A p \in Pairs : Behind(maps.prefs[p], prefs[p]),
         NEW now \in Nat, now >= rclock, NEW m,
         \A k \in RouteKeys : routes[k].until > rclock =>
           m.routes[k].until = routes[k].until /\ m.routes[k].fails = routes[k].fails,
         \A k \in RouteKeys : ~(routes[k].until > rclock) => ~(m.routes[k].until > rclock),
         \A k \in RouteKeys : m.routes[k].until \in Int,
         \A p \in Pairs :
           \/ m.prefs[p].e = prefs[p].e /\ m.prefs[p].expires = prefs[p].expires
           \/ ~(prefs[p].expires > rclock) /\ m.prefs[p] = NoPref
           \/ /\ m.prefs[p].e = prefs[p].e /\ m.prefs[p].expires = rclock + RouteTTL
              /\ prefs[p].persisted > rclock + RouteTTL \div 2
  PROVE  Agree(maps, m, now)
<1>1. \A k \in RouteKeys : maps.routes[k] \in RouteType /\ SameRoute(maps.routes[k], routes[k], rclock)
  BY DEF Sound, Agree, InMemory
<1>2. \A k \in RouteKeys : SameRoute(maps.routes[k], m.routes[k], now)
  <2> TAKE k \in RouteKeys
  <2>1. maps.routes[k].until \in Int /\ routes[k].until \in Int
    BY <1>1, MemoryTypes DEF RouteType
  <2>2. CASE routes[k].until > rclock
    BY <1>1, <2>1, <2>2, MemoryTypes DEF SameRoute
  <2>3. CASE ~(routes[k].until > rclock)
    BY <1>1, <2>1, <2>3, MemoryTypes DEF SameRoute
  <2> QED
    BY <2>2, <2>3
<1>3. \A p \in Pairs : SamePref(maps.prefs[p], m.prefs[p], now)
  <2> TAKE p \in Pairs
  <2> DEFINE f == maps.prefs[p]
             g == prefs[p]
             h == m.prefs[p]
  <2>1. /\ f.expires \in Int /\ g.expires \in Int /\ g.persisted \in Nat
        /\ rclock \in Nat /\ PrefBounded(f, rclock)
    BY MemoryTypes DEF Sound, PrefType
  <2>2. SamePref(f, g, rclock) /\ Behind(f, g)
    BY DEF Agree, InMemory
  <2>3. NoPref.expires = 0
    BY DEF NoPref
  <2>4. \/ h.e = g.e /\ h.expires = g.expires
        \/ ~(g.expires > rclock) /\ h = NoPref
        \/ h.e = g.e /\ h.expires = rclock + RouteTTL /\ g.persisted > rclock + RouteTTL \div 2
    OBVIOUS
  <2> HIDE DEF f, g, h
  <2>5. ASSUME h.e = g.e /\ h.expires = g.expires
        PROVE  SamePref(f, h, now)
    BY <2>1, <2>2, <2>5 DEF SamePref
  <2>6. ASSUME ~(g.expires > rclock) /\ h = NoPref
        PROVE  SamePref(f, h, now)
    BY <2>1, <2>2, <2>3, <2>6 DEF SamePref, Behind
  <2>7. ASSUME h.e = g.e /\ h.expires = rclock + RouteTTL /\ g.persisted > rclock + RouteTTL \div 2
        PROVE  SamePref(f, h, now)
    <3>1. RouteTTL \div 2 \in Nat /\ 2 * (RouteTTL \div 2) >= RouteTTL - 1
      BY RouteTimes
    <3>2. g.persisted > 0
      BY <2>1, <2>7, <3>1
    <3>3. f.e = g.e /\ f.expires >= g.persisted
      BY <2>1, <2>2, <3>2 DEF Behind
    <3>4. 2 * f.expires >= 2 * h.expires - RouteTTL
      BY <2>1, <2>7, <3>1, <3>3, RouteTimes
    <3> QED
      BY <2>7, <3>3, <3>4 DEF SamePref
  <2> QED
    BY <2>4, <2>5, <2>6, <2>7 DEF f, h
<1> QED
  BY <1>2, <1>3 DEF Agree

LEMMA AgreeNext == RoutesTypeOK /\ BehindInv /\ AgreeInv /\ [RoutesNext]_routeVars => AgreeInv'
<1> SUFFICES ASSUME RoutesTypeOK, BehindInv, AgreeInv, [RoutesNext]_routeVars PROVE AgreeInv'
  OBVIOUS
<1>a. InMemory' = MemoryNext
  BY DEF InMemory, MemoryNext
<1>b. /\ Sound(rfile, rclock) /\ \A p \in Pairs : Behind(rfile.prefs[p], prefs[p])
      /\ rimage # NoSave => Sound(rimage, rclock) /\ \A p \in Pairs : Behind(rimage.prefs[p], prefs[p])
  BY DEF RoutesTypeOK, BehindInv, Tables
<1>c. ~Quiet' => AgreeInv'
  BY DEF AgreeInv, Quiet
<1>d. Quiet => /\ rimage # NoSave => Agree(rimage, InMemory, rclock)
               /\ rimage = NoSave /\ ~saveMissed => Agree(rfile, InMemory, rclock)
  BY DEF AgreeInv, Quiet
\* A step that touches neither the file nor its copy.
<1>e. ASSUME Quiet' => Quiet, UNCHANGED <<rimage, rfile, saveMissed>>,
             \A maps : Sound(maps, rclock) /\ Agree(maps, InMemory, rclock)
                       /\ (\A p \in Pairs : Behind(maps.prefs[p], prefs[p]))
                       /\ Quiet'
                         => Agree(maps, MemoryNext, rclock')
      PROVE  AgreeInv'
  <2> SUFFICES ASSUME Quiet'
               PROVE  /\ rimage' # NoSave => Agree(rimage', MemoryNext, rclock')
                      /\ rimage' = NoSave /\ ~saveMissed' => Agree(rfile', MemoryNext, rclock')
    BY <1>a DEF AgreeInv, Quiet
  <2>1. rimage' = rimage /\ rfile' = rfile /\ saveMissed' = saveMissed
    BY <1>e
  <2>2. Quiet
    BY <1>e
  <2>3. CASE rimage # NoSave
    <3>1. Agree(rimage, MemoryNext, rclock')
      BY <1>b, <1>d, <1>e, <2>2, <2>3
    <3> QED
      BY <2>1, <2>3, <3>1
  <2>4. CASE rimage = NoSave /\ ~saveMissed
    <3>1. Agree(rfile, MemoryNext, rclock')
      BY <1>b, <1>d, <1>e, <2>2, <2>4
    <3> QED
      BY <2>1, <2>4, <3>1
  <2> QED
    BY <2>1, <2>3, <2>4
<1>1. ASSUME NEW p \in Pairs, NEW e \in RouteEndpoints, NEW f \in rscene.failures,
             recordFailure(p, e, f.kind, f.retryAfter)
      PROVE  AgreeInv'
  BY <1>1, <1>c DEF recordFailure, Quiet
<1>2. ASSUME NEW p \in Pairs, NEW e \in RouteEndpoints, recordSuccess(p, e) PROVE AgreeInv'
  <2>1. /\ UNCHANGED <<rclock, rwriter>> /\ owed = 0
        /\ owed' = 0 => prefs[p].e = e /\ ~(prefs[p].persisted <= rclock + RouteTTL \div 2)
    BY <1>2 DEF recordSuccess, MustSave, Reports
  <2>2. prefs[p].persisted \in Nat /\ RouteTTL \div 2 \in Nat /\ rclock \in Nat
    BY MemoryTypes, RouteTimes DEF PrefType
  <2>3. CASE owed' = 0
    <3>1. prefs[p].e = e /\ prefs[p].persisted > rclock + RouteTTL \div 2
      BY <2>1, <2>2, <2>3
    <3>2. /\ Tables(MemoryNext, rclock, rscene.limit)
          /\ \A q \in Pairs \ {p} : prefs'[q] \in {prefs[q], NoPref}
          /\ \A k \in RouteKeys : routes'[k] \in {routes[k], NoRoute}
          /\ \A k \in RouteKeys : routes[k].until > rclock => routes'[k] = routes[k]
          /\ \A q \in Pairs \ {p} : prefs[q].expires > rclock => prefs'[q] = prefs[q]
          /\ prefs'[p] = Preferred(p, e)
      BY <1>2, <3>1, SuccessTables
    <3>3. \A k \in RouteKeys : routes'[k].until \in Int
      BY <3>2 DEF Tables, Sound, MemoryNext, RouteType
    <3>4. \A k \in RouteKeys : routes[k].until > rclock =>
            routes'[k].until = routes[k].until /\ routes'[k].fails = routes[k].fails
      BY <3>2
    <3>5. \A k \in RouteKeys : ~(routes[k].until > rclock) => ~(routes'[k].until > rclock)
      BY <3>2, MemoryTypes DEF NoRoute
    <3>6. prefs'[p].e = prefs[p].e /\ prefs'[p].expires = rclock + RouteTTL
      BY <3>1, <3>2 DEF Preferred
    <3>7. \A q \in Pairs :
           \/ prefs'[q].e = prefs[q].e /\ prefs'[q].expires = prefs[q].expires
           \/ ~(prefs[q].expires > rclock) /\ prefs'[q] = NoPref
           \/ /\ prefs'[q].e = prefs[q].e /\ prefs'[q].expires = rclock + RouteTTL
              /\ prefs[q].persisted > rclock + RouteTTL \div 2
      BY <3>1, <3>2, <3>6
    <3>8. MemoryNext.routes = routes' /\ MemoryNext.prefs = prefs'
      BY DEF MemoryNext
    <3>9. \A maps : Sound(maps, rclock) /\ Agree(maps, InMemory, rclock)
                    /\ (\A q \in Pairs : Behind(maps.prefs[q], prefs[q]))
                      => Agree(maps, MemoryNext, rclock)
      BY <2>2, <3>3, <3>4, <3>5, <3>7, <3>8, AgreeKept
    <3>10. Quiet' => Quiet
      BY <2>1 DEF Quiet, rwriter
    <3> QED
      BY <1>e, <2>1, <3>9, <3>10 DEF rwriter
  <2>4. CASE owed' # 0
    BY <1>c, <2>4 DEF Quiet
  <2> QED
    BY <2>3, <2>4
<1>3. ASSUME NEW p \in Pairs, NEW e \in RouteEndpoints, clearFailure(p, e) PROVE AgreeInv'
  BY <1>3, <1>c DEF clearFailure, Quiet
<1>4. ASSUME NEW p \in Pairs, forgetAccount(p) PROVE AgreeInv'
  BY <1>4, <1>c DEF forgetAccount, Quiet
<1>5. ASSUME NEW p \in Pairs, Select(p) PROVE AgreeInv'
  <2>1. UNCHANGED <<rclock, rwriter, owed>>
    BY <1>5 DEF Select
  <2>2. /\ Tables(MemoryNext, rclock, rscene.limit)
        /\ \A k \in RouteKeys : routes[k].until > rclock =>
              routes'[k].until = routes[k].until /\ routes'[k].fails = routes[k].fails
        /\ \A k \in RouteKeys : ~(routes[k].until > rclock) => ~(routes'[k].until > rclock)
        /\ \A q \in Pairs :
              \/ prefs[q].expires > rclock /\ prefs'[q] \in {prefs[q], [prefs[q] EXCEPT !.access = rclock]}
              \/ ~(prefs[q].expires > rclock) /\ prefs'[q] = NoPref
    BY <1>5, SelectTables
  <2>3. \A q \in Pairs : /\ [prefs[q] EXCEPT !.access = rclock].e = prefs[q].e
                         /\ [prefs[q] EXCEPT !.access = rclock].expires = prefs[q].expires
    BY MemoryTypes DEF PrefType
  <2>4. \A q \in Pairs :
           \/ prefs'[q].e = prefs[q].e /\ prefs'[q].expires = prefs[q].expires
           \/ ~(prefs[q].expires > rclock) /\ prefs'[q] = NoPref
    <3> TAKE q \in Pairs
    <3>1. CASE prefs'[q] = [prefs[q] EXCEPT !.access = rclock]
      BY <2>3, <3>1
    <3> QED
      BY <2>2, <3>1
  <2>5. \A k \in RouteKeys : routes'[k].until \in Int
    BY <2>2 DEF Tables, Sound, MemoryNext, RouteType
  <2>6. MemoryNext.routes = routes' /\ MemoryNext.prefs = prefs'
    BY DEF MemoryNext
  <2>7. \A maps : Sound(maps, rclock) /\ Agree(maps, InMemory, rclock)
                  /\ (\A q \in Pairs : Behind(maps.prefs[q], prefs[q]))
                    => Agree(maps, MemoryNext, rclock)
    BY <2>2, <2>4, <2>5, <2>6, AgreeKept, MemoryTypes
  <2>8. Quiet' => Quiet
    BY <2>1 DEF Quiet, rwriter
  <2> QED
    BY <1>e, <2>1, <2>7, <2>8 DEF rwriter
<1>6. CASE scheduleSave
  <2>1. (handle /\ rtimers' = rtimers) \/ rtimers' = rtimers + 1
    BY <1>6 DEF scheduleSave
  <2>2. rtimers \in Nat /\ (handle => rtimers > 0)
    BY DEF RoutesTypeOK
  <2>3. rtimers' # 0
    BY <2>1, <2>2
  <2> QED
    BY <1>c, <2>3 DEF Quiet
<1>7. CASE SaveTimerFires \/ flush
  <2>1. rsavers' = rsavers + 1 /\ rsavers \in Nat
    BY <1>7 DEF SaveTimerFires, flush, RoutesTypeOK
  <2> QED
    BY <1>c, <2>1 DEF Quiet
<1>8. CASE BeginSaveRoutes
  <2>1. /\ Tables(rimage', rclock, rscene.limit) /\ rclock' = rclock
        /\ \A k \in RouteKeys : SameRoute(rimage'.routes[k], routes'[k], rclock)
        /\ \A p \in Pairs : rimage'.prefs[p].e = prefs'[p].e /\ rimage'.prefs[p].expires = prefs'[p].expires
    BY <1>8, ImageTables DEF BeginSaveRoutes
  <2>2. \A p \in Pairs : rimage'.prefs[p].expires \in Int
    BY <2>1 DEF Tables, Sound, PrefType
  <2>3. \A p \in Pairs : SamePref(rimage'.prefs[p], prefs'[p], rclock)
    BY <2>1, <2>2, RouteTimes DEF SamePref
  <2>4. Agree(rimage', MemoryNext, rclock')
    BY <2>1, <2>3 DEF Agree, MemoryNext
  <2>5. rimage' = NoSave => Pairs = {}
    <3>1. DOMAIN rimage'.prefs = Pairs
      BY <2>1 DEF Tables, Sound
    <3>2. rimage' = NoSave => rimage'.prefs = <<>>
      BY DEF NoSave
    <3> QED
      BY <3>1, <3>2
  <2>6. Pairs = {} => Agree(rfile', MemoryNext, rclock')
    BY DEF Agree, RouteKeys
  <2> QED
    BY <1>a, <2>4, <2>5, <2>6 DEF AgreeInv
<1>9. CASE RoutesWritten
  <2>1. /\ UNCHANGED <<rclock, routes, owed, rtimers, rsavers>>
        /\ rimage # NoSave /\ rimage' = NoSave /\ rfile' = rimage
    BY <1>9 DEF RoutesWritten
  <2>2. \A p \in Pairs : prefs'[p].e = prefs[p].e /\ prefs'[p].expires = prefs[p].expires
    BY <1>9, WrittenTables
  <2>3. \A k \in RouteKeys : routes[k].until \in Int
    BY MemoryTypes DEF RouteType
  <2>4. MemoryNext.routes = routes /\ MemoryNext.prefs = prefs'
    BY <2>1 DEF MemoryNext
  <2>5. Quiet => Agree(rimage, MemoryNext, rclock)
    BY <1>b, <1>d, <2>1, <2>2, <2>3, <2>4, AgreeKept, MemoryTypes
  <2> QED
    BY <1>a, <2>1, <2>5 DEF AgreeInv, Quiet
<1>10. CASE RoutesNotWritten
  BY <1>10 DEF RoutesNotWritten, AgreeInv
<1>11. CASE RestartRoutes
  <2>1. rimage' = NoSave /\ rfile' = rfile /\ rclock' = rclock
    BY <1>11 DEF RestartRoutes
  <2>2. /\ \A k \in RouteKeys : SameRoute(rfile.routes[k], routes'[k], rclock)
        /\ \A p \in Pairs :
              \/ /\ rfile.prefs[p].expires > rclock /\ prefs'[p].e = rfile.prefs[p].e
                 /\ prefs'[p].expires = rfile.prefs[p].expires
              \/ ~(rfile.prefs[p].expires > rclock) /\ prefs'[p] = NoPref
    BY <1>11, LoadedTables DEF RestartRoutes
  <2>3. \A p \in Pairs : rfile.prefs[p].expires \in Int
    BY <1>b DEF Sound, PrefType
  <2>4. \A p \in Pairs : SamePref(rfile.prefs[p], prefs'[p], rclock)
    BY <2>2, <2>3, MemoryTypes, RouteTimes DEF SamePref, NoPref
  <2>5. Agree(rfile', MemoryNext, rclock')
    BY <2>1, <2>2, <2>4 DEF Agree, MemoryNext
  <2> QED
    BY <1>a, <2>1, <2>5 DEF AgreeInv
<1>12. CASE RouteTick
  <2>1. UNCHANGED <<routes, prefs, owed, rwriter>> /\ rclock' = rclock + 1
    BY <1>12 DEF RouteTick
  <2>2. \A k \in RouteKeys : routes[k].until \in Int
    BY MemoryTypes DEF RouteType
  <2>3. MemoryNext.routes = routes /\ MemoryNext.prefs = prefs
    BY <2>1 DEF MemoryNext
  <2>4. rclock' \in Nat /\ rclock' >= rclock
    BY <2>1, MemoryTypes
  <2>5. \A maps : Sound(maps, rclock) /\ Agree(maps, InMemory, rclock)
                  /\ (\A q \in Pairs : Behind(maps.prefs[q], prefs[q]))
                    => Agree(maps, MemoryNext, rclock')
    BY <2>2, <2>3, <2>4, AgreeKept
  <2>6. Quiet' => Quiet
    BY <2>1 DEF Quiet, rwriter
  <2> QED
    BY <1>e, <2>1, <2>5, <2>6 DEF rwriter
<1>13. CASE UNCHANGED routeVars
  BY <1>13 DEF routeVars, AgreeInv, InMemory
<1> QED
  BY <1>1, <1>2, <1>3, <1>4, <1>5, <1>6, <1>7, <1>8, <1>9, <1>10, <1>11, <1>12, <1>13 DEF RoutesNext

(* The endpoint a success has made preferred is offered first. *)
LEMMA PreferredFirst ==
  ASSUME RoutesTypeOK, NEW p \in Pairs, LivePref(prefs, p)
  PROVE  Offered(p) # <<>> /\ Head(Offered(p)) = prefs[p].e
<1> DEFINE order == SetToSeq(RouteEndpoints)
           e == prefs[p].e
           rest == Sublist(order, RouteEndpoints \ {e})
           ordered == <<e>> \o rest
           able == {x \in RouteEndpoints : ~CoolingRoute(<<p, x>>)}
           ready == Sublist(ordered, able)
<1>1. prefs[p].expires > rclock /\ e \in RouteEndpoints
  <2>1. prefs[p].expires > rclock /\ prefs[p] \in PrefType /\ PrefBounded(prefs[p], rclock)
    BY MemoryTypes DEF LivePref
  <2>2. prefs[p].e # NoEndpoint
    BY <2>1, MemoryTypes DEF PrefBounded
  <2> QED
    BY <2>1, <2>2 DEF PrefType
<1>2. order \in Seq(RouteEndpoints) /\ ToSet(order) = RouteEndpoints
  BY RouteTables, ListOfSet
<1>3. rest \in Seq(RouteEndpoints)
  BY <1>2, SublistMembers
<1>4. moveEndpointFirst(order, e) = ordered
  BY <1>1, <1>2 DEF moveEndpointFirst
<1>5. e \in able
  <2>1. routes[<<p, e>>] = NoRoute
    BY <1>1 DEF RoutesTypeOK, Tables, Sound, Apart, InMemory
  <2> QED
    BY <1>1, <2>1, MemoryTypes DEF CoolingRoute, NoRoute
<1> HIDE DEF rest, e
<1>6. ordered \in Seq(RouteEndpoints) /\ Len(ordered) > 0 /\ ordered[1] = e
  <2>1. <<e>> \in Seq(RouteEndpoints) /\ Len(<<e>>) = 1 /\ <<e>>[1] = e
    BY <1>1
  <2>2. /\ ordered \in Seq(RouteEndpoints) /\ Len(ordered) = Len(<<e>>) + Len(rest)
        /\ ordered[1] = <<e>>[1]
    BY <1>3, <2>1, ConcatProperties
  <2>3. Len(rest) \in Nat
    BY <1>3, LenProperties
  <2> QED
    BY <2>1, <2>2, <2>3
<1> HIDE DEF ordered, able
<1>7. ready # <<>> /\ ready[1] = e
  BY <1>5, <1>6, SublistMembers
<1>8. Offered(p) = ready
  BY <1>1, <1>4, <1>7 DEF Offered, availableEndpoints, able, e, order
<1> HIDE DEF ready
<1>9. Head(ready) = ready[1]
  OBVIOUS
<1> QED
  BY <1>7, <1>8, <1>9 DEF e

LEMMA CoolingAgrees ==
  ASSUME Agree(rfile, InMemory, rclock)
  PROVE  CoolingOf(routes) = CoolingOf(rfile.routes)
<1>1. \A k \in RouteKeys : SameRoute(rfile.routes[k], routes[k], rclock)
  BY DEF Agree, InMemory
<1>2. {k \in RouteKeys : routes[k].until > rclock} = {k \in RouteKeys : rfile.routes[k].until > rclock}
  BY <1>1 DEF SameRoute
<1>3. \A k \in RouteKeys : routes[k].until > rclock =>
        <<k, routes[k].fails, routes[k].until>> = <<k, rfile.routes[k].fails, rfile.routes[k].until>>
  BY <1>1 DEF SameRoute
<1> QED
  BY <1>2, <1>3 DEF CoolingOf

(* What an account has learnt about its endpoints survives a restart, and   *)
(* never contradicts itself: whatever fails, is selected, is forgotten or   *)
(* saved in any order, for any number of accounts, endpoints and entries    *)
(* (account_endpoint_routes.go).                                            *)
THEOREM RoutesKept == RoutesSpec => []RoutesSafe
<1>1. RoutesInv /\ [RoutesNext]_routeVars => RoutesInv'
  BY RoutesTypeNext, BehindNext, AgreeNext DEF RoutesInv
<1>2. RoutesInv => RoutesSafe
  <2> SUFFICES ASSUME RoutesInv PROVE RoutesSafe
    OBVIOUS
  <2>1. RoutesTypeOK /\ AgreeInv
    BY DEF RoutesInv
  <2>2. ASSUME ~RouteSavePending, ~saveMissed PROVE Agree(rfile, InMemory, rclock)
    <3>1. owed = 0 /\ rtimers = 0 /\ rsavers = 0 /\ rimage = NoSave
      BY <2>1, <2>2 DEF RouteSavePending, RoutesTypeOK
    <3> QED
      BY <2>1, <2>2, <3>1 DEF AgreeInv
  <2>3. ~RouteSavePending /\ ~saveMissed =>
       /\ CoolingOf(routes) = CoolingOf(rfile.routes)
       /\ \A p \in Pairs :
            /\ LivePref(prefs, p) => /\ rfile.prefs[p].e = prefs[p].e
                                    /\ 2 * rfile.prefs[p].expires >= 2 * prefs[p].expires - RouteTTL
            /\ LivePref(rfile.prefs, p) => prefs[p].e = rfile.prefs[p].e
    BY <2>2, CoolingAgrees DEF Agree, SamePref, LivePref, InMemory
  <2>4. \A p \in Pairs, e \in RouteEndpoints :
         /\ prefs[p].e = e => routes[<<p, e>>] = NoRoute
         /\ rfile.prefs[p].e = e => rfile.routes[<<p, e>>] = NoRoute
    BY <2>1 DEF RoutesTypeOK, Tables, Sound, Apart, InMemory
  <2>5. \A p \in Pairs : LivePref(prefs, p) => Offered(p) # <<>> /\ Head(Offered(p)) = prefs[p].e
    BY <2>1, PreferredFirst
  <2>6. /\ Cardinality({k \in RouteKeys : routes[k] # NoRoute}) <= rscene.limit
        /\ Cardinality({p \in Pairs : prefs[p] # NoPref}) <= rscene.limit
    BY <2>1, MemoryTypes DEF RoutesKnown, PrefsKnown, Known
  <2> QED
    BY <2>3, <2>4, <2>5, <2>6 DEF RoutesSafe
<1> QED
  BY <1>1, <1>2, RoutesInvInit, PTL DEF RoutesSpec
=============================================================================
