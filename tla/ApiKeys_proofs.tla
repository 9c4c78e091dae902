---------------------------- MODULE ApiKeys_proofs ----------------------------
(***************************************************************************)
(* Proofs about the API keys: ApiKeyAdmission, for every set of requests   *)
(* and of limits; ApiKeyStore, for any key values, identifiers, clients,   *)
(* administrators and quotas; and ResponsesStore, for any file names,      *)
(* owners, sizes, limits and number of failed system calls.                *)
(***************************************************************************)
EXTENDS ApiKeyAdmission, ApiKeyStore, ResponsesStore, DataLemmas, FiniteSetTheorems, TLAPS

-----------------------------------------------------------------------------
(* Admission. *)
Waiters == {r \in Requests : Queued(r)}

-----------------------------------------------------------------------------
LEMMA LimitFacts ==
  ASSUME NEW l \in Limits
  PROVE  /\ l.requestsPerMinute \in Nat
         /\ l.tokensPerMinute \in Nat
         /\ l.maxConcurrency \in Nat
         /\ l.queueCapacity \in Nat
BY AdmissionAssumption DEF LimitType

LEMMA WindowType ==
  ASSUME TypeOK
  PROVE  /\ Requests0 \in 0 .. MaxRequests
         /\ Tokens0 \in Nat
         /\ Reserved0 \in [Requests -> Nat]
BY AdmissionAssumption DEF TypeOK, Requests0, Tokens0, Reserved0

LEMMA TypeNext == TypeOK /\ [Next]_vars => TypeOK'
<1> SUFFICES ASSUME TypeOK, [Next]_vars PROVE TypeOK'
  OBVIOUS
<1> USE DEF TypeOK
<1>w. /\ Requests0 \in 0 .. MaxRequests
      /\ Tokens0 \in Nat
      /\ Reserved0 \in [Requests -> Nat]
  BY WindowType
<1>a. MaxRequests \in Nat /\ Amounts \subseteq Nat
  BY AdmissionAssumption
<1>p. ASSUME NEW r \in Requests PROVE WithoutPlace(r) \in Nat
  BY DEF WithoutPlace
<1> HIDE DEF Requests0, Tokens0, Reserved0
<1>1. ASSUME NEW r \in Requests, Arrive(r) PROVE TypeOK'
  BY <1>1 DEF Arrive, window, PCs
<1>2. ASSUME NEW r \in Requests, RateLimited(r) PROVE TypeOK'
  BY <1>2, <1>w, <1>p DEF RateLimited, Rewindow, PCs
<1>3. ASSUME NEW r \in Requests, Grant(r) PROVE TypeOK'
  <2>1. requests' \in 0 .. MaxRequests
    BY <1>3, <1>w, <1>a DEF Grant
  <2>2. waiting' \in Nat /\ inFlight' \in Nat /\ pc' \in [Requests -> PCs]
    BY <1>3, <1>p DEF Grant, PCs
  <2> QED
    BY <1>3, <1>w, <2>1, <2>2 DEF Grant
<1>4. ASSUME NEW r \in Requests, Refuse(r) PROVE TypeOK'
  BY <1>4, <1>w DEF Refuse, Rewindow, PCs
<1>5. ASSUME NEW r \in Requests, Park(r) PROVE TypeOK'
  <2>1. waiting' \in Nat
    BY <1>5 DEF Park
  <2>2. pc' \in [Requests -> PCs]
    BY <1>5 DEF Park, PCs
  <2> QED
    BY <1>5, <1>w, <2>1, <2>2 DEF Park, Rewindow
<1>6. ASSUME NEW r \in Requests, GiveUp(r) PROVE TypeOK'
  BY <1>6 DEF GiveUp, PCs
<1>7. ASSUME NEW r \in Requests, cancelWait(r) PROVE TypeOK'
  BY <1>7, <1>p DEF cancelWait, window, PCs
<1>8. ASSUME NEW r \in Requests, NEW n \in Amounts, ReserveTokens(r, n) PROVE TypeOK'
  <2>1. reserved' \in [Requests -> Nat] /\ tokens' \in Nat
    BY <1>8, <1>w, <1>a DEF ReserveTokens
  <2> QED
    BY <1>8, <1>w, <2>1 DEF ReserveTokens, PCs
<1>9. ASSUME NEW r \in Requests, NEW n \in Amounts, ReserveNothing(r, n) PROVE TypeOK'
  BY <1>9 DEF ReserveNothing, window, PCs
<1>10. ASSUME NEW r \in Requests, NEW n \in Amounts, TokensExceeded(r, n) PROVE TypeOK'
  BY <1>10, <1>w DEF TokensExceeded, Rewindow, PCs
<1>11. ASSUME NEW r \in Requests, NEW n \in Amounts, ReconcileTokens(r, n) PROVE TypeOK'
  <2>1. Settled(r, n) \in Nat
    BY <1>w, <1>a DEF Settled
  <2> QED
    BY <1>11, <1>w, <2>1 DEF ReconcileTokens
<1>12. ASSUME NEW r \in Requests, Release(r) PROVE TypeOK'
  <2>1. pc' \in [Requests -> PCs]
    BY <1>12 DEF Release, Woken, PCs
  <2> QED
    BY <1>12, <2>1 DEF Release
<1>13. ASSUME NEW r \in Requests, UnlimitedEnds(r) PROVE TypeOK'
  BY <1>13 DEF UnlimitedEnds, window, PCs
<1>14. CASE MinutePasses
  BY <1>14 DEF MinutePasses
<1>15. ASSUME NEW l \in Limits, UpdateApiKey(l) PROVE TypeOK'
  BY <1>15 DEF UpdateApiKey, window
<1>16. CASE UNCHANGED vars
  BY <1>16 DEF vars
<1> QED
  BY <1>1, <1>2, <1>3, <1>4, <1>5, <1>6, <1>7, <1>8, <1>9, <1>10, <1>11, <1>12,
     <1>13, <1>14, <1>15, <1>16 DEF Next, Step

LEMMA TypeInit == Init => TypeOK
<1> SUFFICES ASSUME Init PROVE TypeOK
  OBVIOUS
<1>1. MaxRequests \in Nat /\ requests \in 0 .. MaxRequests
  BY AdmissionAssumption DEF Init
<1>2. limits \in [Requests -> Limits] /\ pc \in [Requests -> PCs]
  BY DEF Init, PCs
<1> QED
  BY <1>1, <1>2 DEF Init, TypeOK

(* The state of the key and of its requests always has its type: counters   *)
(* never go below zero whatever order requests end in.                      *)
THEOREM AdmissionTypes == Spec => []TypeOK
BY TypeInit, TypeNext, PTL DEF Spec

-----------------------------------------------------------------------------
(* How a step changes the set of leases and the set of queued requests.     *)
LEMMA FiniteParts ==
  /\ IsFiniteSet(Leased) /\ Cardinality(Leased) \in Nat
  /\ IsFiniteSet(Waiters) /\ Cardinality(Waiters) \in Nat
<1>1. IsFiniteSet(Leased)
  BY AdmissionAssumption, FS_Subset DEF Leased
<1>2. IsFiniteSet(Waiters)
  BY AdmissionAssumption, FS_Subset DEF Waiters
<1> QED
  BY <1>1, <1>2, FS_CardinalityType

(* Moving one request between control points that are outside a part of     *)
(* the state, or both inside it, leaves that part alone.                    *)
LEMMA Moved ==
  ASSUME TypeOK, NEW r \in Requests, NEW to \in PCs, pc' = [pc EXCEPT ![r] = to]
  PROVE  /\ to \in {"leased", "calling", "refused"} => Leased' = Leased \cup {r}
         /\ to \notin {"leased", "calling", "refused"} => Leased' = Leased \ {r}
         /\ to \in {"parked", "woken", "leaving"} => Waiters' = Waiters \cup {r}
         /\ to \notin {"parked", "woken", "leaving"} => Waiters' = Waiters \ {r}
BY DEF TypeOK, Leased, Waiters, Queued

LEMMA WokenParts ==
  ASSUME TypeOK, NEW r \in Requests, r \in Leased, pc' = [Woken EXCEPT ![r] = "idle"]
  PROVE  /\ Leased' = Leased \ {r}
         /\ Waiters' = Waiters
BY DEF TypeOK, Leased, Waiters, Queued, Woken

LEMMA Counts ==
  ASSUME NEW S, IsFiniteSet(S), NEW x
  PROVE  /\ Cardinality(S) \in Nat
         /\ x \notin S => Cardinality(S \cup {x}) = Cardinality(S) + 1
         /\ x \in S => Cardinality(S \ {x}) = Cardinality(S) - 1
         /\ x \in S => S \cup {x} = S /\ Cardinality(S) > 0
         /\ x \notin S => S \ {x} = S
<1>1. x \in S => Cardinality(S) # 0
  BY FS_EmptySet
<1> QED
  BY <1>1, FS_CardinalityType, FS_AddElement, FS_RemoveElement

(* A request only queues under an entry with a queue: without it the        *)
(* refusal after a wake-up would have to give up a place.                   *)
QueuedHasQueue == \A r \in Requests : Queued(r) => limits[r].queueCapacity # 0

(* The inductive invariant behind the two conservation laws.                *)
Conserved ==
  /\ LeaseConservation
  /\ QueueConservation
  /\ QueuedHasQueue

LEMMA QueuedNext == TypeOK /\ QueuedHasQueue /\ [Next]_vars => QueuedHasQueue'
<1> SUFFICES ASSUME TypeOK, QueuedHasQueue, [Next]_vars, NEW q \in Requests, Queued(q)'
             PROVE  limits'[q].queueCapacity # 0
  BY DEF QueuedHasQueue
<1> USE DEF TypeOK, Queued, QueuedHasQueue
<1>1. ASSUME NEW r \in Requests, Park(r) PROVE limits'[q].queueCapacity # 0
  <2>1. limits' = limits
    BY <1>1 DEF Park
  <2>2. CASE q = r
    BY <1>1, <2>1, <2>2 DEF Park, QueueFull
  <2>3. CASE q # r
    BY <1>1, <2>1, <2>3 DEF Park
  <2> QED
    BY <2>2, <2>3
<1>2. ASSUME NEW r \in Requests, Arrive(r) PROVE limits'[q].queueCapacity # 0
  BY <1>2 DEF Arrive
<1>3. ASSUME NEW r \in Requests,
             RateLimited(r) \/ Grant(r) \/ Refuse(r) \/ GiveUp(r) \/ cancelWait(r)
               \/ UnlimitedEnds(r)
      PROVE  limits'[q].queueCapacity # 0
  BY <1>3 DEF RateLimited, Grant, Refuse, GiveUp, cancelWait, UnlimitedEnds
<1>4. ASSUME NEW r \in Requests, NEW n \in Amounts,
             ReserveTokens(r, n) \/ ReserveNothing(r, n) \/ TokensExceeded(r, n)
               \/ ReconcileTokens(r, n)
      PROVE  limits'[q].queueCapacity # 0
  BY <1>4 DEF ReserveTokens, ReserveNothing, TokensExceeded, ReconcileTokens
<1>5. ASSUME NEW r \in Requests, Release(r) PROVE limits'[q].queueCapacity # 0
  BY <1>5 DEF Release, Woken
<1>6. CASE MinutePasses \/ (\E l \in Limits : UpdateApiKey(l)) \/ UNCHANGED vars
  BY <1>6 DEF MinutePasses, UpdateApiKey, vars
<1> QED
  BY <1>1, <1>2, <1>3, <1>4, <1>5, <1>6 DEF Next, Step

LEMMA ConservedNext == TypeOK /\ Conserved /\ [Next]_vars => Conserved'
<1> SUFFICES ASSUME TypeOK, Conserved, [Next]_vars PROVE Conserved'
  OBVIOUS
<1>c. inFlight = Cardinality(Leased) /\ waiting = Cardinality(Waiters)
  BY DEF Conserved, LeaseConservation, QueueConservation, Waiters
<1>d. QueuedHasQueue /\ QueuedHasQueue'
  BY QueuedNext DEF Conserved
<1>q. inFlight' = Cardinality(Leased') /\ waiting' = Cardinality(Waiters') => Conserved'
  BY <1>d DEF Conserved, LeaseConservation, QueueConservation, Waiters
<1>l. ASSUME NEW r \in Requests
      PROVE  /\ Cardinality(Leased) \in Nat
             /\ r \notin Leased => Cardinality(Leased \cup {r}) = inFlight + 1
             /\ r \in Leased => Cardinality(Leased \ {r}) = inFlight - 1 /\ inFlight > 0
             /\ r \in Leased => Leased \cup {r} = Leased
             /\ r \notin Leased => Leased \ {r} = Leased
  BY <1>c, FiniteParts, Counts
<1>v. ASSUME NEW r \in Requests
      PROVE  /\ Cardinality(Waiters) \in Nat
             /\ r \notin Waiters => Cardinality(Waiters \cup {r}) = waiting + 1
             /\ r \in Waiters => Cardinality(Waiters \ {r}) = waiting - 1 /\ waiting > 0
             /\ r \in Waiters => Waiters \cup {r} = Waiters
             /\ r \notin Waiters => Waiters \ {r} = Waiters
  BY <1>c, FiniteParts, Counts
<1>m. ASSUME NEW r \in Requests
      PROVE  /\ r \in Leased <=> pc[r] \in {"leased", "calling", "refused"}
             /\ r \in Waiters <=> pc[r] \in {"parked", "woken", "leaving"}
             /\ r \in Waiters <=> Queued(r)
  BY DEF Leased, Waiters, Queued
<1>p. ASSUME NEW r \in Requests PROVE WithoutPlace(r) = Cardinality(Waiters \ {r})
  BY <1>c, <1>v, <1>m DEF WithoutPlace
<1>1. ASSUME NEW r \in Requests, Arrive(r) PROVE Conserved'
  <2>1. PICK to \in {"admit", "unlimited"} : pc' = [pc EXCEPT ![r] = to]
    BY <1>1 DEF Arrive
  <2>2. Leased' = Leased \ {r} /\ Waiters' = Waiters \ {r}
    BY <2>1, Moved DEF PCs
  <2> QED
    BY <1>1, <1>c, <1>q, <1>l, <1>v, <1>m, <2>2 DEF Arrive
<1>2. ASSUME NEW r \in Requests, RateLimited(r) PROVE Conserved'
  <2>1. Leased' = Leased \ {r} /\ Waiters' = Waiters \ {r}
    BY <1>2, Moved DEF RateLimited, PCs
  <2>2. r \notin Leased
    BY <1>2, <1>m DEF RateLimited, AtLoop
  <2> QED
    BY <1>2, <1>c, <1>q, <1>l, <1>p, <2>1, <2>2 DEF RateLimited
<1>3. ASSUME NEW r \in Requests, Grant(r) PROVE Conserved'
  <2>1. Leased' = Leased \cup {r} /\ Waiters' = Waiters \ {r}
    BY <1>3, Moved DEF Grant, PCs
  <2>2. r \notin Leased
    BY <1>3, <1>m DEF Grant, AtLoop
  <2> QED
    BY <1>3, <1>c, <1>q, <1>l, <1>p, <2>1, <2>2 DEF Grant
<1>4. ASSUME NEW r \in Requests, Refuse(r) PROVE Conserved'
  <2>1. Leased' = Leased \ {r} /\ Waiters' = Waiters \ {r}
    BY <1>4, Moved DEF Refuse, PCs
  <2>2. r \notin Leased
    BY <1>4, <1>m DEF Refuse, AtLoop
  <2>3. r \notin Waiters
    BY <1>4, <1>m, <1>d DEF Refuse, QueueFull, QueuedHasQueue
  <2> QED
    BY <1>4, <1>c, <1>q, <1>l, <1>v, <2>1, <2>2, <2>3 DEF Refuse
<1>5. ASSUME NEW r \in Requests, Park(r) PROVE Conserved'
  <2>1. Leased' = Leased \ {r} /\ Waiters' = Waiters \cup {r}
    BY <1>5, Moved DEF Park, PCs
  <2>2. r \notin Leased
    BY <1>5, <1>m DEF Park, AtLoop
  <2> QED
    BY <1>5, <1>c, <1>q, <1>l, <1>v, <1>m, <2>1, <2>2 DEF Park
<1>6. ASSUME NEW r \in Requests, GiveUp(r) PROVE Conserved'
  <2>1. Leased' = Leased \ {r} /\ Waiters' = Waiters \cup {r}
    BY <1>6, Moved DEF GiveUp, PCs
  <2> QED
    BY <1>6, <1>c, <1>q, <1>l, <1>v, <1>m, <2>1 DEF GiveUp
<1>7. ASSUME NEW r \in Requests, cancelWait(r) PROVE Conserved'
  <2>1. Leased' = Leased \ {r} /\ Waiters' = Waiters \ {r}
    BY <1>7, Moved DEF cancelWait, PCs
  <2> QED
    BY <1>7, <1>c, <1>q, <1>l, <1>p, <1>m, <2>1 DEF cancelWait
<1>8. ASSUME NEW r \in Requests, NEW n \in Amounts,
             ReserveTokens(r, n) \/ ReserveNothing(r, n) \/ TokensExceeded(r, n)
      PROVE  Conserved'
  <2>1. PICK to \in {"calling", "refused"} : pc' = [pc EXCEPT ![r] = to]
    BY <1>8 DEF ReserveTokens, ReserveNothing, TokensExceeded
  <2>2. Leased' = Leased \cup {r} /\ Waiters' = Waiters \ {r}
    BY <2>1, Moved DEF PCs
  <2>3. pc[r] = "leased" /\ UNCHANGED <<inFlight, waiting>>
    BY <1>8 DEF ReserveTokens, ReserveNothing, TokensExceeded
  <2> QED
    BY <1>c, <1>q, <1>l, <1>v, <1>m, <2>2, <2>3
<1>9. ASSUME NEW r \in Requests, NEW n \in Amounts, ReconcileTokens(r, n) PROVE Conserved'
  <2>1. Leased' = Leased /\ Waiters' = Waiters
    BY <1>9 DEF ReconcileTokens, Leased, Waiters, Queued
  <2> QED
    BY <1>9, <1>c, <1>q, <2>1 DEF ReconcileTokens
<1>10. ASSUME NEW r \in Requests, Release(r) PROVE Conserved'
  <2>1. Leased' = Leased \ {r} /\ Waiters' = Waiters
    BY <1>10, WokenParts DEF Release
  <2> QED
    BY <1>10, <1>c, <1>q, <1>l, <2>1 DEF Release
<1>11. ASSUME NEW r \in Requests, UnlimitedEnds(r) PROVE Conserved'
  <2>1. Leased' = Leased \ {r} /\ Waiters' = Waiters \ {r}
    BY <1>11, Moved DEF UnlimitedEnds, PCs
  <2> QED
    BY <1>11, <1>c, <1>q, <1>l, <1>v, <1>m, <2>1 DEF UnlimitedEnds
<1>12. CASE MinutePasses \/ (\E l \in Limits : UpdateApiKey(l)) \/ UNCHANGED vars
  <2>1. UNCHANGED <<pc, inFlight, waiting>>
    BY <1>12 DEF MinutePasses, UpdateApiKey, vars
  <2>2. Leased' = Leased /\ Waiters' = Waiters
    BY <2>1 DEF Leased, Waiters, Queued
  <2> QED
    BY <1>c, <1>q, <2>1, <2>2
<1> QED
  BY <1>1, <1>2, <1>3, <1>4, <1>5, <1>6, <1>7, <1>8, <1>9, <1>10, <1>11, <1>12
     DEF Next, Step

LEMMA ConservedInit == Init => Conserved
<1> SUFFICES ASSUME Init PROVE Conserved
  OBVIOUS
<1>1. Leased = {} /\ Waiters = {}
  BY DEF Init, Leased, Waiters, Queued
<1> QED
  BY <1>1, FS_EmptySet DEF Init, Conserved, LeaseConservation, QueueConservation,
     QueuedHasQueue, Waiters

(* Every lease is given back exactly once, for any number of requests and   *)
(* any limits: inFlight is the number of leases out.                        *)
THEOREM LeasesConserved == Spec => []LeaseConservation
<1>1. Conserved => LeaseConservation
  BY DEF Conserved
<1> QED
  BY <1>1, TypeInit, TypeNext, ConservedInit, ConservedNext, PTL DEF Spec

(* Every way out of the queue gives up exactly one place in it.             *)
THEOREM QueueConserved == Spec => []QueueConservation
<1>1. Conserved => QueueConservation
  BY DEF Conserved
<1> QED
  BY <1>1, TypeInit, TypeNext, ConservedInit, ConservedNext, PTL DEF Spec

-----------------------------------------------------------------------------
LEMMA WakeupNext == TypeOK /\ NoLostWakeup /\ [Next]_vars => NoLostWakeup'
<1> SUFFICES ASSUME TypeOK, NoLostWakeup, [Next]_vars,
                    NEW q \in Requests, pc'[q] = "parked"
             PROVE  ~SlotFree(q)'
  BY DEF NoLostWakeup
<1> USE DEF TypeOK, SlotFree
<1>c. limits[q].maxConcurrency \in Nat
  BY LimitFacts
<1>k. ASSUME pc[q] = "parked", limits'[q] = limits[q], inFlight' >= inFlight, inFlight' \in Nat
      PROVE  ~SlotFree(q)'
  BY <1>k, <1>c DEF NoLostWakeup
<1>1. ASSUME NEW r \in Requests, Park(r) PROVE ~SlotFree(q)'
  <2>1. CASE q = r
    BY <1>1, <2>1 DEF Park
  <2>2. CASE q # r
    BY <1>1, <1>k, <2>2 DEF Park
  <2> QED
    BY <2>1, <2>2
<1>2. ASSUME NEW r \in Requests, Arrive(r) PROVE ~SlotFree(q)'
  BY <1>2, <1>k DEF Arrive
<1>3. ASSUME NEW r \in Requests, Grant(r) PROVE ~SlotFree(q)'
  <2>1. pc[q] = "parked" /\ limits' = limits
    BY <1>3 DEF Grant
  <2>2. inFlight' = inFlight + 1
    BY <1>3 DEF Grant
  <2> QED
    BY <1>k, <2>1, <2>2
<1>4. ASSUME NEW r \in Requests,
             RateLimited(r) \/ Refuse(r) \/ GiveUp(r) \/ cancelWait(r) \/ UnlimitedEnds(r)
      PROVE  ~SlotFree(q)'
  BY <1>4, <1>k DEF RateLimited, Refuse, GiveUp, cancelWait, UnlimitedEnds
<1>5. ASSUME NEW r \in Requests, NEW n \in Amounts,
             ReserveTokens(r, n) \/ ReserveNothing(r, n) \/ TokensExceeded(r, n)
               \/ ReconcileTokens(r, n)
      PROVE  ~SlotFree(q)'
  BY <1>5, <1>k DEF ReserveTokens, ReserveNothing, TokensExceeded, ReconcileTokens
<1>6. ASSUME NEW r \in Requests, Release(r) PROVE FALSE
  BY <1>6 DEF Release, Woken
<1>7. CASE MinutePasses \/ (\E l \in Limits : UpdateApiKey(l)) \/ UNCHANGED vars
  BY <1>7, <1>k DEF MinutePasses, UpdateApiKey, vars
<1> QED
  BY <1>1, <1>2, <1>3, <1>4, <1>5, <1>6, <1>7 DEF Next, Step

(* No wake-up is lost: a request that sleeps has no slot it could take,     *)
(* for any number of waiters and whatever limits they authenticated with.   *)
THEOREM WakeupsKept == Spec => []NoLostWakeup
<1>1. Init => NoLostWakeup
  BY DEF Init, NoLostWakeup
<1> QED
  BY <1>1, TypeInit, TypeNext, WakeupNext, PTL DEF Spec

-----------------------------------------------------------------------------
(* The group property survives every step: a group without the newest lease *)
(* was a group before, and the newest lease was granted under a limit with  *)
(* room for all of them.                                                    *)
LEMMA HoldersNext ==
  TypeOK /\ Conserved /\ HoldersWithinLimits /\ [Next]_vars => HoldersWithinLimits'
<1> SUFFICES ASSUME TypeOK, Conserved, HoldersWithinLimits, [Next]_vars,
                    NEW S \in SUBSET Leased', S # {}
             PROVE  \E r \in S : \/ limits'[r].maxConcurrency = 0
                                 \/ Cardinality(S) <= limits'[r].maxConcurrency
  BY DEF HoldersWithinLimits
<1> DEFINE Room == \E r \in S : \/ limits'[r].maxConcurrency = 0
                                \/ Cardinality(S) <= limits'[r].maxConcurrency
<1> SUFFICES Room
  OBVIOUS
<1> USE DEF TypeOK
<1>k. ASSUME S \subseteq Leased, \A r \in S : limits'[r] = limits[r] PROVE Room
  <2>1. PICK r \in S : \/ limits[r].maxConcurrency = 0
                       \/ Cardinality(S) <= limits[r].maxConcurrency
    BY <1>k DEF HoldersWithinLimits
  <2> QED
    BY <1>k, <2>1
<1> HIDE DEF Room
<1>s. S \subseteq Leased' /\ Leased \subseteq Requests
  BY DEF Leased
<1>1. ASSUME NEW r \in Requests, Grant(r) PROVE Room
  <2>1. Leased' = Leased \cup {r}
    BY <1>1, Moved DEF Grant, PCs
  <2>2. limits' = limits
    BY <1>1 DEF Grant
  <2>3. CASE r \notin S
    BY <1>k, <1>s, <2>1, <2>2, <2>3
  <2>4. CASE r \in S
    <3>1. IsFiniteSet(Leased) /\ IsFiniteSet(Leased')
      BY <2>1, FiniteParts, FS_AddElement
    <3>2. r \notin Leased
      BY <1>1 DEF Grant, AtLoop, Leased
    <3>3. Cardinality(Leased') = inFlight + 1
      BY <2>1, <3>1, <3>2, FS_AddElement DEF Conserved, LeaseConservation
    <3>4. Cardinality(S) <= Cardinality(Leased') /\ Cardinality(S) \in Nat
      BY <3>1, <1>s, FS_Subset, FS_CardinalityType
    <3>5. limits[r].maxConcurrency = 0 \/ inFlight < limits[r].maxConcurrency
      BY <1>1 DEF Grant, SlotFree
    <3>6. limits[r].maxConcurrency \in Nat
      BY LimitFacts
    <3>7. \/ limits'[r].maxConcurrency = 0
          \/ Cardinality(S) <= limits'[r].maxConcurrency
      BY <2>2, <3>3, <3>4, <3>5, <3>6
    <3> QED
      BY <2>4, <3>7 DEF Room
  <2> QED
    BY <2>3, <2>4
<1>2. ASSUME NEW r \in Requests, Arrive(r) PROVE Room
  <2>1. Leased' \subseteq Leased /\ r \notin Leased'
    BY <1>2 DEF Arrive, Leased
  <2>2. \A x \in Requests : x # r => limits'[x] = limits[x]
    BY <1>2 DEF Arrive
  <2> QED
    BY <1>k, <1>s, <2>1, <2>2
<1>3. ASSUME NEW r \in Requests,
             RateLimited(r) \/ Refuse(r) \/ Park(r) \/ GiveUp(r) \/ cancelWait(r)
               \/ UnlimitedEnds(r)
      PROVE  Room
  <2>1. Leased' \subseteq Leased
    BY <1>3 DEF RateLimited, Refuse, Park, GiveUp, cancelWait, UnlimitedEnds, Leased
  <2>2. limits' = limits
    BY <1>3 DEF RateLimited, Refuse, Park, GiveUp, cancelWait, UnlimitedEnds
  <2> QED
    BY <1>k, <1>s, <2>1, <2>2
<1>4. ASSUME NEW r \in Requests, NEW n \in Amounts,
             ReserveTokens(r, n) \/ ReserveNothing(r, n) \/ TokensExceeded(r, n)
               \/ ReconcileTokens(r, n)
      PROVE  Room
  <2>1. Leased' \subseteq Leased
    BY <1>4 DEF ReserveTokens, ReserveNothing, TokensExceeded, ReconcileTokens, Leased
  <2>2. limits' = limits
    BY <1>4 DEF ReserveTokens, ReserveNothing, TokensExceeded, ReconcileTokens
  <2> QED
    BY <1>k, <1>s, <2>1, <2>2
<1>5. ASSUME NEW r \in Requests, Release(r) PROVE Room
  <2>1. Leased' = Leased \ {r} /\ limits' = limits
    BY <1>5, WokenParts DEF Release
  <2> QED
    BY <1>k, <1>s, <2>1
<1>6. CASE MinutePasses \/ (\E l \in Limits : UpdateApiKey(l)) \/ UNCHANGED vars
  <2>1. pc' = pc /\ limits' = limits
    BY <1>6 DEF MinutePasses, UpdateApiKey, vars
  <2>2. Leased' = Leased
    BY <2>1 DEF Leased
  <2> QED
    BY <1>k, <1>s, <2>1, <2>2
<1> QED
  BY <1>1, <1>2, <1>3, <1>4, <1>5, <1>6 DEF Next, Step

(* MaxConcurrency holds for every group of concurrent requests of a key,    *)
(* through any history of limit changes by the operator.                    *)
THEOREM HoldersLimited == Spec => []HoldersWithinLimits
<1>1. Init => HoldersWithinLimits
  <2> SUFFICES ASSUME Init PROVE HoldersWithinLimits
    OBVIOUS
  <2>1. Leased = {}
    BY DEF Init, Leased
  <2> QED
    BY <2>1 DEF HoldersWithinLimits
<1> QED
  BY <1>1, TypeInit, TypeNext, ConservedInit, ConservedNext, HoldersNext, PTL DEF Spec
(* Leases, queue places and wake-ups together, as the run checks them: the   *)
(* books of a key match its requests for any number of them (Acquire).       *)
THEOREM AdmissionBalanced == Spec => []AdmissionAccounted
BY LeasesConserved, QueueConserved, WakeupsKept, PTL DEF AdmissionAccounted

-----------------------------------------------------------------------------
(* What the running requests reserved in this window; who holds no lease    *)
(* has reserved nothing.                                                    *)
Owed == Total(reserved, Unsettled)
OwedCovered ==
  /\ Owed <= tokens
  /\ \A r \in Requests : r \notin Leased => reserved[r] = 0

LEMMA UnsettledFinite ==
  TypeOK => /\ IsFiniteSet(Unsettled) /\ Unsettled \subseteq Requests
            /\ \A r \in Requests : reserved[r] \in Nat /\ Reserved0[r] \in Nat
BY AdmissionAssumption, WindowType, FS_Subset DEF TypeOK, Unsettled, Leased

LEMMA WindowOwed ==
  ASSUME TypeOK, OwedCovered
  PROVE  /\ Total(Reserved0, Unsettled) <= Tokens0
         /\ \A r \in Requests : r \notin Leased => Reserved0[r] = 0
<1>1. IsFiniteSet(Unsettled) /\ Unsettled \subseteq Requests /\ tokens \in Nat
  BY UnsettledFinite DEF TypeOK
<1>2. CASE elapsed
  <2>1. Tokens0 = 0 /\ \A r \in Requests : Reserved0[r] = 0
    BY <1>2 DEF Tokens0, Reserved0
  <2>2. Total(Reserved0, Unsettled) = 0
    BY <1>1, <2>1, TotalZero
  <2> QED
    BY <2>1, <2>2
<1>3. CASE ~elapsed
  BY <1>3 DEF Tokens0, Reserved0, OwedCovered, Owed
<1> QED
  BY <1>2, <1>3

(* Requests that come without reservations, or go, leave the sum covered. *)
LEMMA OwedKept ==
  ASSUME NEW f, NEW S, NEW R, IsFiniteSet(S), IsFiniteSet(R),
         \A r \in S \cup R : f[r] \in Nat, \A r \in R \ S : f[r] = 0
  PROVE  Total(f, R) <= Total(f, S)
<1>1. IsFiniteSet(S \cup R)
  BY FS_Union
<1>2. Total(f, R) <= Total(f, S \cup R)
  BY <1>1, TotalMonotonic
<1> DEFINE T == {s \in SUBSET R : Total(f, S \cup s) = Total(f, S)}
<1>3. {} \in T
  OBVIOUS
<1>4. ASSUME NEW s \in SUBSET R, NEW x \in R \ s, s \in T PROVE s \cup {x} \in T
  <2>1. S \cup (s \cup {x}) = (S \cup s) \cup {x}
    OBVIOUS
  <2>2. IsFiniteSet(S \cup s)
    BY FS_Subset, FS_Union
  <2>3. CASE x \in S
    BY <1>4, <2>1, <2>3
  <2>4. CASE x \notin S
    <3>1. Total(f, (S \cup s) \cup {x}) = f[x] + Total(f, S \cup s) /\ f[x] = 0
      BY <2>2, <2>4, TotalAdd
    <3>2. Total(f, S) \in Nat
      BY TotalRemove
    <3>3. Total(f, S \cup (s \cup {x})) = f[x] + Total(f, S \cup s)
      BY <2>1, <3>1, Zenon
    <3>4. Total(f, S \cup (s \cup {x})) = Total(f, S)
      BY <1>4, <3>1, <3>2, <3>3
    <3> QED
      BY <3>4
  <2> QED
    BY <2>3, <2>4
<1>5. R \in T
  <2> HIDE DEF T
  <2> QED
    BY <1>3, <1>4, FiniteSteps
<1> QED
  BY <1>2, <1>5

LEMMA OwedNext == TypeOK /\ OwedCovered /\ [Next]_vars => OwedCovered'
<1> SUFFICES ASSUME TypeOK, OwedCovered, [Next]_vars PROVE OwedCovered'
  OBVIOUS
<1>a. /\ Total(Reserved0, Unsettled) <= Tokens0
      /\ \A r \in Requests : r \notin Leased => Reserved0[r] = 0
      /\ Reserved0 \in [Requests -> Nat] /\ Tokens0 \in Nat /\ Amounts \subseteq Nat
  BY WindowOwed, WindowType, AdmissionAssumption
<1>b. /\ IsFiniteSet(Unsettled) /\ Unsettled \subseteq Requests
      /\ IsFiniteSet(Unsettled') /\ Unsettled' \subseteq Requests
      /\ \A r \in Requests : reserved[r] \in Nat /\ reserved'[r] \in Nat
      /\ tokens \in Nat /\ tokens' \in Nat
  <2>1. TypeOK'
    BY TypeNext
  <2>2. IsFiniteSet(Unsettled') /\ Unsettled' \subseteq Requests
    BY AdmissionAssumption, FS_Subset DEF Unsettled, Leased
  <2> QED
    BY <2>1, <2>2, UnsettledFinite DEF TypeOK
<1>c. ASSUME reserved' = Reserved0, tokens' = Tokens0, finalized' = finalized,
             Leased \subseteq Leased'
      PROVE  OwedCovered'
  <2>1. \A r \in Unsettled' \ Unsettled : Reserved0[r] = 0
    BY <1>a, <1>c DEF Unsettled, Leased
  <2>2. Total(Reserved0, Unsettled') <= Total(Reserved0, Unsettled)
    BY <1>a, <1>b, <2>1, OwedKept
  <2>3. Total(Reserved0, Unsettled') \in Nat /\ Total(Reserved0, Unsettled) \in Nat
    BY <1>a, <1>b, TotalRemove
  <2>4. Owed' <= tokens'
    BY <1>a, <1>c, <2>2, <2>3 DEF Owed
  <2> QED
    BY <1>a, <1>c, <2>4 DEF OwedCovered
<1>d. ASSUME reserved' = reserved, tokens' = tokens, finalized' = finalized,
             Leased' = Leased
      PROVE  OwedCovered'
  <2>1. Unsettled' = Unsettled
    BY <1>d DEF Unsettled
  <2> QED
    BY <1>d, <2>1 DEF OwedCovered, Owed
<1>1. ASSUME NEW r \in Requests, Arrive(r) \/ GiveUp(r) \/ cancelWait(r) \/ UnlimitedEnds(r)
      PROVE  OwedCovered'
  <2>1. Leased' = Leased
    BY <1>1 DEF TypeOK, Arrive, GiveUp, cancelWait, UnlimitedEnds, Leased
  <2> QED
    BY <1>1, <1>d, <2>1 DEF Arrive, GiveUp, cancelWait, UnlimitedEnds, window
<1>2. ASSUME NEW r \in Requests, RateLimited(r) \/ Refuse(r) \/ Park(r) PROVE OwedCovered'
  <2>1. Leased' = Leased
    BY <1>2 DEF TypeOK, RateLimited, Refuse, Park, AtLoop, Leased
  <2> QED
    BY <1>2, <1>c, <2>1 DEF RateLimited, Refuse, Park, Rewindow
<1>3. ASSUME NEW r \in Requests, Grant(r) PROVE OwedCovered'
  <2>1. Leased' = Leased \cup {r}
    BY <1>3, Moved DEF Grant, PCs
  <2> QED
    BY <1>3, <1>c, <2>1 DEF Grant
<1>4. ASSUME NEW r \in Requests, NEW n \in Amounts, ReserveTokens(r, n) PROVE OwedCovered'
  <2>1. Leased' = Leased /\ r \in Leased
    BY <1>4 DEF TypeOK, ReserveTokens, Leased
  <2>2. /\ tokens' = Tokens0 + n /\ n \in Nat /\ finalized' = finalized
        /\ reserved' = [Reserved0 EXCEPT ![r] = @ + n]
    BY <1>4, <1>a DEF ReserveTokens
  <2>3. Unsettled' = Unsettled
    BY <2>1, <2>2 DEF Unsettled
  <2>4. reserved'[r] = Reserved0[r] + n /\ \A q \in Requests \ {r} : reserved'[q] = Reserved0[q]
    BY <1>a, <2>2
  <2>5. \A q \in Requests : q \notin Leased' => reserved'[q] = 0
    BY <1>a, <2>1, <2>4
  <2>6. CASE r \notin Unsettled
    <3>1. Total(reserved', Unsettled) = Total(Reserved0, Unsettled)
      BY <1>b, <2>4, <2>6, TotalSame
    <3>2. Total(Reserved0, Unsettled) \in Nat
      BY <1>a, <1>b, TotalRemove
    <3>3. Owed' <= tokens'
      BY <1>a, <2>2, <2>3, <3>1, <3>2 DEF Owed
    <3> QED
      BY <2>5, <3>3 DEF OwedCovered
  <2>7. CASE r \in Unsettled
    <3> DEFINE rest == Unsettled \ {r}
    <3>1. IsFiniteSet(rest)
      BY <1>b, FS_RemoveElement
    <3>2. Total(reserved', rest) = Total(Reserved0, rest)
      BY <1>b, <2>4, <3>1, TotalSame
    <3>3. Total(reserved', Unsettled) = reserved'[r] + Total(reserved', rest)
      BY <1>b, <2>7, TotalRemove
    <3>4. /\ Total(Reserved0, Unsettled) = Reserved0[r] + Total(Reserved0, rest)
          /\ Total(Reserved0, Unsettled) \in Nat
      BY <1>a, <1>b, <2>7, TotalRemove
    <3>5. Total(Reserved0, rest) \in Nat /\ Reserved0[r] \in Nat
      BY <1>a, <1>b, <3>1, TotalRemove
    <3> HIDE DEF rest
    <3>6. Owed' <= tokens'
      BY <1>a, <2>2, <2>3, <2>4, <3>2, <3>3, <3>4, <3>5 DEF Owed
    <3> QED
      BY <2>5, <3>6 DEF OwedCovered
  <2> QED
    BY <2>6, <2>7
<1>5. ASSUME NEW r \in Requests, NEW n \in Amounts, ReserveNothing(r, n) PROVE OwedCovered'
  <2>1. Leased' = Leased
    BY <1>5 DEF TypeOK, ReserveNothing, Leased
  <2> QED
    BY <1>5, <1>d, <2>1 DEF ReserveNothing, window
<1>6. ASSUME NEW r \in Requests, NEW n \in Amounts, TokensExceeded(r, n) PROVE OwedCovered'
  <2>1. Leased' = Leased
    BY <1>6 DEF TypeOK, TokensExceeded, Leased
  <2> QED
    BY <1>6, <1>c, <2>1 DEF TokensExceeded, Rewindow
<1>7. ASSUME NEW r \in Requests, NEW n \in Amounts, ReconcileTokens(r, n) PROVE OwedCovered'
  <2>1. Leased' = Leased /\ r \in Unsettled /\ Unsettled' = Unsettled \ {r}
    BY <1>7 DEF TypeOK, ReconcileTokens, Leased, Unsettled
  <2>2. /\ tokens' = Settled(r, n) /\ n \in Nat /\ reserved' = Reserved0
    BY <1>7, <1>a DEF ReconcileTokens
  <2>3. Total(Reserved0, Unsettled) = Reserved0[r] + Total(Reserved0, Unsettled')
    BY <1>a, <1>b, <2>1, TotalRemove
  <2>4. Total(Reserved0, Unsettled') \in Nat /\ Reserved0[r] \in Nat
    BY <1>a, <1>b, TotalRemove
  <2>5. Owed' <= tokens'
    BY <1>a, <2>2, <2>3, <2>4 DEF Owed, Settled
  <2> QED
    BY <1>a, <2>1, <2>2, <2>5 DEF OwedCovered
<1>8. ASSUME NEW r \in Requests, Release(r) PROVE OwedCovered'
  <2>1. Leased' = Leased \ {r}
    BY <1>8, WokenParts DEF Release
  <2>2. /\ tokens' = tokens /\ reserved' = [reserved EXCEPT ![r] = 0]
        /\ finalized' = [finalized EXCEPT ![r] = FALSE]
    BY <1>8 DEF Release
  <2>3. reserved'[r] = 0 /\ \A q \in Requests \ {r} : reserved'[q] = reserved[q]
    BY <2>2 DEF TypeOK
  <2>4. Unsettled' \subseteq Unsettled /\ \A q \in Unsettled' : reserved'[q] <= reserved[q]
    BY <1>b, <2>1, <2>2, <2>3 DEF Unsettled, Leased, TypeOK
  <2>5. Total(reserved', Unsettled') <= Total(reserved, Unsettled)
    BY <1>b, <2>4, TotalMonotonic
  <2>6. Total(reserved', Unsettled') \in Nat /\ Total(reserved, Unsettled) \in Nat
    BY <1>b, TotalRemove
  <2>7. Owed' <= tokens'
    BY <1>b, <2>2, <2>5, <2>6 DEF Owed, OwedCovered
  <2> QED
    BY <2>1, <2>3, <2>7 DEF OwedCovered
<1>9. CASE MinutePasses \/ (\E l \in Limits : UpdateApiKey(l)) \/ UNCHANGED vars
  <2>1. Leased' = Leased
    BY <1>9 DEF MinutePasses, UpdateApiKey, vars, Leased
  <2> QED
    BY <1>9, <1>d, <2>1 DEF MinutePasses, UpdateApiKey, vars, window
<1> QED
  BY <1>1, <1>2, <1>3, <1>4, <1>5, <1>6, <1>7, <1>8, <1>9 DEF Next, Step

LEMMA OwedInit == Init => OwedCovered
<1> SUFFICES ASSUME Init PROVE OwedCovered
  OBVIOUS
<1>1. Unsettled = {} /\ Leased = {}
  BY DEF Init, Unsettled, Leased
<1> QED
  BY <1>1, TotalEmpty DEF Init, OwedCovered, Owed

(* The tokens charged to a window cover what the requests still running     *)
(* reserved in it, for any number of them and any amounts: settling one     *)
(* never refunds another (ReserveTokens, ReconcileTokens, Release).         *)
THEOREM ReservationsKept == Spec => []ReservationsCovered
<1>1. OwedCovered => ReservationsCovered
  BY DEF OwedCovered, Owed, ReservationsCovered, Total
<1> QED
  BY <1>1, TypeInit, TypeNext, OwedInit, OwedNext, PTL DEF Spec

-----------------------------------------------------------------------------
(* The store. *)
KeyEntries ==
  [key : KeyValues \cup {NoKey}, enabled : BOOLEAN, limit : Nat, used : Nat, migrated : BOOLEAN]
EntryLists == [KeyIds -> KeyEntries]

(* A list of entries, in memory or in the file: a value has one entry, and *)
(* an entry that was not migrated has a quota.                             *)
Unique(list) ==
  \A i, j \in KeyIds : i # j /\ list[i].key # NoKey => list[i].key # list[j].key
Sound(n) == n.key # NoKey /\ ~n.migrated => n.limit \in Quotas
ListOk(list) == list \in EntryLists /\ Unique(list) /\ \A i \in KeyIds : Sound(list[i])

(* Of what was deleted a list has at most the legacy value, and then alone. *)
Clear(list, gone, legacy) ==
  \A k \in gone : k \in Values(list) => k = legacy /\ Values(list) = {k}

(* r requests of an entry may still be charged. *)
Within(u, r) == \E q \in Quotas : u + r * MaxUsage <= (q - 1) + Cardinality(Clients) * MaxUsage
On(i) == {c \in Clients : clientPc[c] = "running" /\ clientKey[c] = i}

FileInv ==
  /\ keyFile \in [keys : EntryLists, legacy : KeyValues \cup {NoKey}]
  /\ ListOk(keyFile.keys) /\ Clear(keyFile.keys, deleted, keyFile.legacy)
  /\ \A i \in KeyIds : ~keyFile.keys[i].migrated => Within(keyFile.keys[i].used, 0)
MemoryInv ==
  /\ lineup \in KeyLineups
  /\ ListOk(apiKeys) /\ Clear(apiKeys, deleted, keyFile.legacy)
  /\ Up => legacyKey = keyFile.legacy
ClientInv ==
  /\ clientPc \in [Clients -> {"idle", "running", "recorded"}]
  /\ clientKey \in [Clients -> KeyIds \cup {NoKey}]
  /\ ~Up => \A c \in Clients : clientPc[c] = "idle"
ChargeInv == \A i \in KeyIds : ~apiKeys[i].migrated => Within(apiKeys[i].used, Cardinality(On(i)))
EditInv == editing \in [KeyEditors -> [id : KeyIds \cup {NoKey}, used : Nat, migrated : BOOLEAN]]

StoreInv == FileInv /\ MemoryInv /\ ClientInv /\ ChargeInv /\ EditInv

-----------------------------------------------------------------------------
(* Numbers. *)
LEMMA ClientsCount == Cardinality(Clients) \in Nat /\ MaxUsage \in Nat /\ Quotas \subseteq Nat \ {0}
BY KeyAssumption, FS_CardinalityType

LEMMA Times ==
  ASSUME NEW a \in Nat, NEW b \in Nat, NEW m \in Nat
  PROVE  /\ (a + b) * m = a * m + b * m /\ a * m \in Nat
         /\ 0 * m = 0 /\ 1 * m = m
OBVIOUS

LEMMA OnCount ==
  ASSUME NEW S, S \subseteq Clients
  PROVE  Cardinality(S) \in Nat /\ Cardinality(S) <= Cardinality(Clients) /\ IsFiniteSet(S)
BY KeyAssumption, FS_Subset, FS_CardinalityType

LEMMA WithinLess ==
  ASSUME NEW u \in Nat, NEW v \in Nat, NEW r \in Nat, NEW s \in Nat, Within(u, r),
         v + s * MaxUsage <= u + r * MaxUsage
  PROVE  Within(v, s)
<1>1. PICK q \in Quotas : u + r * MaxUsage <= (q - 1) + Cardinality(Clients) * MaxUsage
  BY DEF Within
<1> DEFINE x == s * MaxUsage
           y == r * MaxUsage
           z == Cardinality(Clients) * MaxUsage
<1>2. x \in Nat /\ y \in Nat /\ z \in Nat /\ q \in Nat
  BY ClientsCount, Times
<1>3. v + x <= u + y /\ u + y <= (q - 1) + z
  BY <1>1
<1> HIDE DEF x, y, z
<1>4. v + x <= (q - 1) + z
  BY <1>2, <1>3
<1> QED
  BY <1>4 DEF Within, x, z

LEMMA Fewer ==
  ASSUME NEW r \in Nat, NEW s \in Nat, s <= r
  PROVE  s * MaxUsage <= r * MaxUsage
<1>1. r - s \in Nat /\ (r - s) + s = r
  OBVIOUS
<1>2. ((r - s) + s) * MaxUsage = (r - s) * MaxUsage + s * MaxUsage /\ (r - s) * MaxUsage \in Nat
      /\ s * MaxUsage \in Nat
  BY <1>1, ClientsCount, Times
<1> DEFINE x == (r - s) * MaxUsage
           y == s * MaxUsage
<1>3. r * MaxUsage = x + y /\ x \in Nat /\ y \in Nat
  BY <1>1, <1>2
<1> HIDE DEF x, y
<1>4. y <= r * MaxUsage
  BY <1>3
<1> QED
  BY <1>4 DEF y

LEMMA WithinFewer ==
  ASSUME NEW u \in Nat, NEW r \in Nat, NEW s \in Nat, s <= r, Within(u, r)
  PROVE  Within(u, s)
<1>1. s * MaxUsage <= r * MaxUsage /\ s * MaxUsage \in Nat /\ r * MaxUsage \in Nat
  BY Fewer, ClientsCount, Times
<1> DEFINE x == s * MaxUsage
           y == r * MaxUsage
<1>2. x <= y /\ x \in Nat /\ y \in Nat
  BY <1>1
<1> HIDE DEF x, y
<1>3. u + x <= u + y
  BY <1>2
<1> QED
  BY <1>3, WithinLess DEF x, y

(* A request that starts below a quota leaves the entry within it. *)
LEMMA WithinBelow ==
  ASSUME NEW u \in Nat, NEW q \in Quotas, u < q, NEW r \in Nat, r <= Cardinality(Clients)
  PROVE  Within(u, r)
<1> DEFINE x == r * MaxUsage
           z == Cardinality(Clients) * MaxUsage
<1>1. x <= z /\ x \in Nat /\ z \in Nat /\ q \in Nat
  BY ClientsCount, Fewer, Times
<1> HIDE DEF x, z
<1>2. u + x <= (q - 1) + z
  BY <1>1
<1> QED
  BY <1>2 DEF Within, x, z

LEMMA WithinZero == ASSUME NEW r \in Nat, r <= Cardinality(Clients) PROVE Within(0, r)
<1>1. PICK q \in Quotas : TRUE
  BY KeyAssumption
<1>2. 0 < q
  BY ClientsCount
<1> QED
  BY <1>2, WithinBelow

LEMMA OnNat ==
  ASSUME NEW i PROVE Cardinality(On(i)) \in Nat /\ Cardinality(On(i)) <= Cardinality(Clients)
                     /\ IsFiniteSet(On(i))
BY OnCount DEF On

-----------------------------------------------------------------------------
(* Entries. *)
LEMMA AbsentType ==
  /\ Absent \in KeyEntries /\ Absent.key = NoKey /\ Absent.used = 0 /\ Absent.migrated = FALSE
BY DEF Absent, KeyEntries

LEMMA EntryType ==
  ASSUME NEW k \in KeyValues, NEW on \in BOOLEAN, NEW lim \in Nat
  PROVE  /\ Entry(k, on, lim) \in KeyEntries /\ Entry(k, on, lim).key = k
         /\ Entry(k, on, lim).limit = lim /\ Entry(k, on, lim).used = 0
BY DEF Entry, Absent, KeyEntries

LEMMA NewEntryType ==
  ASSUME NEW k \in KeyValues, NEW lim \in Nat
  PROVE  /\ Entry(k, TRUE, lim) \in KeyEntries /\ Entry(k, TRUE, lim).key = k
         /\ Entry(k, TRUE, lim).limit = lim /\ Entry(k, TRUE, lim).used = 0
BY DEF Entry, Absent, KeyEntries

LEMMA MigratedType ==
  ASSUME NEW n \in KeyEntries
  PROVE  /\ [n EXCEPT !.migrated = TRUE] \in KeyEntries
         /\ [n EXCEPT !.migrated = TRUE].migrated = TRUE
         /\ [n EXCEPT !.migrated = TRUE].key = n.key
BY DEF KeyEntries

LEMMA ResetType ==
  ASSUME NEW n \in KeyEntries, NEW u \in Nat
  PROVE  /\ [n EXCEPT !.used = u] \in KeyEntries /\ [n EXCEPT !.used = u].used = u
         /\ [n EXCEPT !.used = u].key = n.key /\ [n EXCEPT !.used = u].limit = n.limit
         /\ [n EXCEPT !.used = u].migrated = n.migrated
BY DEF KeyEntries

(* An entry that changes its place in a list. *)
LEMMA OneChanges ==
  ASSUME NEW list \in EntryLists, NEW i \in KeyIds, NEW n \in KeyEntries
  PROVE  /\ [list EXCEPT ![i] = n] \in EntryLists /\ [list EXCEPT ![i] = n][i] = n
         /\ \A j \in KeyIds \ {i} : [list EXCEPT ![i] = n][j] = list[j]
BY DEF EntryLists

LEMMA ListFields ==
  ASSUME NEW list \in EntryLists, NEW i \in KeyIds
  PROVE  /\ list[i] \in KeyEntries /\ list[i].used \in Nat /\ list[i].limit \in Nat
         /\ list[i].key \in KeyValues \cup {NoKey}
         /\ list[i].key # NoKey => list[i].key \in Values(list)
BY DEF EntryLists, KeyEntries, Values

LEMMA ValueHasEntry ==
  ASSUME NEW list, NEW k \in Values(list)
  PROVE  k # NoKey /\ \E i \in KeyIds : list[i].key = k
BY DEF Values

(* A list with the same values. *)
LEMMA SameValues ==
  ASSUME NEW list \in EntryLists, NEW more \in EntryLists,
         \A i \in KeyIds : more[i].key = list[i].key /\ more[i].limit = list[i].limit
                           /\ more[i].migrated = list[i].migrated
  PROVE  /\ ListOk(list) => ListOk(more)
         /\ \A gone, legacy : Clear(list, gone, legacy) => Clear(more, gone, legacy)
<1>1. Values(more) = Values(list)
  BY DEF Values
<1> QED
  BY <1>1 DEF ListOk, Unique, Sound, Clear

(* An entry that is taken out. *)
LEMMA TakenOut ==
  ASSUME NEW list, ListOk(list), NEW i \in KeyIds, list[i].key # NoKey
  PROVE  LET more == [list EXCEPT ![i] = Absent]
         IN /\ ListOk(more) /\ list[i].key \notin Values(more)
            /\ \A gone, legacy : Clear(list, gone, legacy) => Clear(more, gone, legacy)
<1> DEFINE more == [list EXCEPT ![i] = Absent]
<1>1. more \in EntryLists /\ more[i] = Absent /\ \A j \in KeyIds \ {i} : more[j] = list[j]
  BY AbsentType, OneChanges DEF ListOk
<1> HIDE DEF more
<1>2. Unique(more)
  BY <1>1, AbsentType DEF Unique, ListOk
<1>3. \A j \in KeyIds : Sound(more[j])
  BY <1>1, AbsentType DEF Sound, ListOk
<1>4. Values(more) \subseteq Values(list)
  BY <1>1, AbsentType DEF Values
<1>5. list[i].key \notin Values(more)
  <2> SUFFICES ASSUME NEW j \in KeyIds, more[j].key = list[i].key PROVE FALSE
    BY ValueHasEntry
  <2>1. j # i
    BY <1>1, AbsentType
  <2> QED
    BY <1>1, <2>1 DEF ListOk, Unique
<1>6. ASSUME NEW gone, NEW legacy, Clear(list, gone, legacy) PROVE Clear(more, gone, legacy)
  BY <1>4, <1>6 DEF Clear
<1>7. ListOk(more)
  BY <1>1, <1>2, <1>3 DEF ListOk
<1> QED
  BY <1>5, <1>6, <1>7 DEF more

(* An entry that gets a value no other one has. *)
LEMMA PutIn ==
  ASSUME NEW list, ListOk(list), NEW i \in KeyIds, NEW n \in KeyEntries, Sound(n), n.key # NoKey,
         \A j \in KeyIds \ {i} : list[j].key # n.key
  PROVE  LET more == [list EXCEPT ![i] = n]
         IN /\ ListOk(more)
            /\ \A gone, legacy : list[i].key # NoKey /\ Clear(list, gone, legacy)
                                   => Clear(more, gone \ {n.key}, legacy)
<1> DEFINE more == [list EXCEPT ![i] = n]
<1>1. more \in EntryLists /\ more[i] = n /\ \A j \in KeyIds \ {i} : more[j] = list[j]
  BY OneChanges DEF ListOk
<1> HIDE DEF more
<1>2. Unique(more)
  BY <1>1 DEF Unique, ListOk
<1>3. \A j \in KeyIds : Sound(more[j])
  BY <1>1 DEF ListOk
<1>4. ListOk(more)
  BY <1>1, <1>2, <1>3 DEF ListOk
<1>5. ASSUME NEW gone, NEW legacy, list[i].key # NoKey, Clear(list, gone, legacy),
             NEW k \in gone \ {n.key}, k \in Values(more)
      PROVE  FALSE
  <2>1. PICK j \in KeyIds : more[j].key = k /\ k # NoKey
    BY <1>5, ValueHasEntry
  <2>2. j # i /\ list[j].key = k
    BY <1>1, <1>5, <2>1
  <2>3. k \in Values(list) /\ list[i].key \in Values(list)
    BY <1>5, <2>1, <2>2 DEF Values
  <2>4. list[i].key = k
    BY <1>5, <2>3 DEF Clear
  <2> QED
    BY <2>2, <2>4, <2>1 DEF ListOk, Unique
<1> QED
  BY <1>4, <1>5 DEF Clear, more

-----------------------------------------------------------------------------
(* A list that is written, or whose write fails. *)
Kept(keys) ==
  /\ ListOk(keys) /\ Clear(keys, deleted', keyFile.legacy)
  /\ \A i \in KeyIds : ~keys[i].migrated => Within(keys[i].used, 0)

LEMMA ChargedKept ==
  ASSUME NEW list \in EntryLists,
         \A i \in KeyIds : ~list[i].migrated => Within(list[i].used, Cardinality(On(i)))
  PROVE  \A i \in KeyIds : ~list[i].migrated => Within(list[i].used, 0)
<1> SUFFICES ASSUME NEW i \in KeyIds, ~list[i].migrated PROVE Within(list[i].used, 0)
  OBVIOUS
<1>1. Cardinality(On(i)) \in Nat /\ list[i].used \in Nat /\ 0 \in Nat /\ 0 <= Cardinality(On(i))
  BY OnNat, ListFields
<1> QED
  BY <1>1, WithinFewer

LEMMA SavedFile ==
  ASSUME StoreInv, Up, NEW keys, Kept(keys), Saved(keys)
  PROVE  FileInv' /\ keyFile'.legacy = keyFile.legacy
<1>1. keyFile' = [keys |-> keys, legacy |-> keyFile.legacy]
  BY DEF Saved, StoreInv, MemoryInv
<1>2. keyFile'.keys = keys /\ keyFile'.legacy = keyFile.legacy
  BY <1>1
<1>3. keyFile' \in [keys : EntryLists, legacy : KeyValues \cup {NoKey}]
  BY <1>1 DEF Kept, ListOk, StoreInv, FileInv
<1>4. ListOk(keyFile.keys)' /\ Clear(keyFile.keys, deleted, keyFile.legacy)'
  BY <1>2 DEF Kept, ListOk, Unique, Clear, Values
<1>5. (\A i \in KeyIds : ~keyFile.keys[i].migrated => Within(keyFile.keys[i].used, 0))'
  BY <1>2 DEF Kept, Within
<1> QED
  BY <1>2, <1>3, <1>4, <1>5 DEF FileInv

LEMMA NotSavedFile ==
  ASSUME StoreInv, UNCHANGED keyFile, deleted' \subseteq deleted
  PROVE  FileInv' /\ keyFile'.legacy = keyFile.legacy
BY DEF StoreInv, FileInv, Clear, ListOk, Unique, Within, Values

LEMMA MemoryKept ==
  ASSUME StoreInv, NEW keys, ListOk(keys), Clear(keys, deleted', keyFile.legacy), apiKeys' = keys,
         UNCHANGED <<lineup, legacyKey>>, Up, keyFile'.legacy = keyFile.legacy
  PROVE  MemoryInv'
<1>1. legacyKey' = keyFile'.legacy
  BY DEF StoreInv, MemoryInv
<1>2. ListOk(apiKeys)'
  BY DEF ListOk, Unique
<1>3. Clear(apiKeys, deleted, keyFile.legacy)'
  BY DEF Clear, Values
<1> QED
  BY <1>1, <1>2, <1>3 DEF MemoryInv, StoreInv

(* The lists stay as they are. *)
LEMMA ListsStay ==
  ASSUME StoreInv, UNCHANGED <<lineup, apiKeys, legacyKey, keyFile, deleted>>, Up' => Up
  PROVE  FileInv' /\ MemoryInv'
<1>1. FileInv'
  BY NotSavedFile
<1>2. ListOk(apiKeys)'
  BY DEF StoreInv, MemoryInv, ListOk, Unique
<1>3. Clear(apiKeys, deleted, keyFile.legacy)'
  BY DEF StoreInv, MemoryInv, Clear, Values
<1> QED
  BY <1>1, <1>2, <1>3 DEF MemoryInv, StoreInv

(* The clients stay as they are, and so do the counters, or they are zero. *)
LEMMA ClientsStay ==
  ASSUME StoreInv, Up', UNCHANGED clients
  PROVE  ClientInv' /\ \A i : On(i)' = On(i)
BY DEF StoreInv, ClientInv, clients, On

LEMMA ChargesStay ==
  ASSUME StoreInv, UNCHANGED clients, apiKeys' \in EntryLists,
         \A i \in KeyIds : /\ ~apiKeys'[i].migrated /\ apiKeys'[i].used # 0 => ~apiKeys[i].migrated
                           /\ apiKeys'[i].used \in {0, apiKeys[i].used}
  PROVE  ChargeInv'
<1>1. \A i : On(i)' = On(i)
  BY DEF clients, On
<1> SUFFICES ASSUME NEW i \in KeyIds, ~apiKeys'[i].migrated
             PROVE  Within(apiKeys'[i].used, Cardinality(On(i)))
  BY <1>1 DEF ChargeInv, Within
<1>2. CASE apiKeys'[i].used = 0
  BY <1>2, OnNat, WithinZero
<1>3. CASE apiKeys'[i].used # 0
  BY <1>3 DEF StoreInv, ChargeInv
<1> QED
  BY <1>2, <1>3

(* A list that changes under cfgLock, written or not. *)
Follows(keys) ==
  \A i \in KeyIds : /\ ~keys[i].migrated /\ keys[i].used # 0 => ~apiKeys[i].migrated
                    /\ keys[i].used \in {0, apiKeys[i].used}

(* No counter goes down, unless to zero. *)
UsageKept == \A i \in KeyIds : apiKeys'[i].used = 0 \/ apiKeys'[i].used >= apiKeys[i].used

LEMMA UsageSame == ASSUME StoreInv, UNCHANGED apiKeys PROVE UsageKept
BY ListFields DEF StoreInv, MemoryInv, ListOk, UsageKept

LEMMA ListChanges ==
  ASSUME StoreInv, EditInv', Up, UNCHANGED <<lineup, legacyKey, clients, flushing>>,
         NEW keys, ListOk(keys), Clear(keys, deleted', keyFile.legacy), Follows(keys),
         apiKeys' = keys,
         Saved(keys) \/ (NotSaved /\ deleted' \subseteq deleted)
  PROVE  StoreInv' /\ UsageKept
<1>7. Up'
  BY DEF flushing, Up
<1>1. ClientInv' /\ \A i : On(i)' = On(i)
  BY <1>7, ClientsStay
<1>2. keys \in EntryLists
  BY DEF ListOk
<1>3. ChargeInv'
  BY <1>2, ChargesStay DEF Follows
<1>4. \A i \in KeyIds : ~keys[i].migrated => Within(keys[i].used, Cardinality(On(i)))
  BY <1>1, <1>3 DEF ChargeInv, Within
<1>5. Kept(keys)
  BY <1>2, <1>4, ChargedKept DEF Kept
<1>6. FileInv' /\ keyFile'.legacy = keyFile.legacy
  BY <1>5, SavedFile, NotSavedFile DEF NotSaved
<1>8. UsageKept
  BY ListFields DEF StoreInv, MemoryInv, ListOk, Follows, UsageKept
<1> QED
  BY <1>1, <1>3, <1>6, <1>8, MemoryKept DEF StoreInv

-----------------------------------------------------------------------------
(* The administrator. *)
LEMMA SameFlush == ASSUME UNCHANGED flushing, Up PROVE Up'
BY DEF flushing, Up

LEMMA EditsStay == ASSUME StoreInv, UNCHANGED editing PROVE EditInv'
BY DEF StoreInv, EditInv

LEMMA SameCharges ==
  ASSUME StoreInv, UNCHANGED <<apiKeys, clients>>
  PROVE  ChargeInv'
<1>1. apiKeys' \in EntryLists /\ \A i \in KeyIds : apiKeys'[i] = apiKeys[i]
  BY DEF StoreInv, MemoryInv, ListOk
<1> QED
  BY <1>1, ChargesStay

(* A step of the flush, or one that fails before it changes a list. *)
LEMMA QuietStep ==
  ASSUME StoreInv, Up, Up',
         UNCHANGED <<lineup, apiKeys, legacyKey, keyFile, clients, editing, deleted>>
  PROVE  StoreInv'
<1>1. FileInv' /\ MemoryInv'
  BY ListsStay
<1>2. ClientInv' /\ ChargeInv' /\ EditInv'
  BY ClientsStay, SameCharges, EditsStay
<1> QED
  BY <1>1, <1>2 DEF StoreInv

LEMMA AddInv ==
  ASSUME StoreInv, UNCHANGED lineup, NEW n \in 1 .. 2, NEW lim \in Quotas,
         NEW batch \in [1 .. n -> lineup.values], NEW ids \in [1 .. n -> KeyIds],
         AddApiKeys(batch, ids, TRUE, lim)
  PROVE  StoreInv' /\ UsageKept
<1> DEFINE fresh == Fresh(batch)
           added == {ids[m] : m \in fresh}
           at(i) == CHOOSE m \in fresh : ids[m] = i
           new(i) == Entry(batch[at(i)], TRUE, lim)
           keys == [i \in KeyIds |-> IF i \in added THEN new(i) ELSE apiKeys[i]]
<1>1. /\ Up /\ UNCHANGED <<legacyKey, flushing, clients, editing>>
      /\ \/ apiKeys' = keys /\ Saved(keys) /\ deleted' = deleted \ Values(keys)
         \/ UNCHANGED <<apiKeys, deleted>> /\ NotSaved
  BY DEF AddApiKeys
<1>2. /\ fresh \subseteq 1 .. n
      /\ \A m \in fresh : batch[m] \in KeyValues /\ batch[m] # NoKey /\ batch[m] \notin Values(apiKeys)
      /\ \A m, o \in fresh : m # o => batch[m] # batch[o]
  <2>1. fresh \subseteq 1 .. n /\ \A m \in fresh : batch[m] \notin Values(apiKeys)
    BY DEF Fresh
  <2>2. \A m \in 1 .. n : batch[m] \in KeyValues /\ batch[m] # NoKey
    BY KeyAssumption DEF StoreInv, MemoryInv
  <2>3. \A m, o \in fresh : m < o => batch[m] # batch[o]
    BY DEF Fresh
  <2>4. \A m, o \in fresh : m # o => m < o \/ o < m
    BY <2>1
  <2> QED
    BY <2>1, <2>2, <2>3, <2>4
<1>3. ListOk(apiKeys) /\ apiKeys \in EntryLists
  BY DEF StoreInv, MemoryInv, ListOk
<1> HIDE DEF fresh
<1>4. \A i \in added : at(i) \in fresh /\ ids[at(i)] = i
  OBVIOUS
<1>5. \A i \in added : /\ new(i) \in KeyEntries /\ new(i).key = batch[at(i)]
                       /\ new(i).used = 0 /\ new(i).limit = lim
  <2> SUFFICES ASSUME NEW i \in added
               PROVE  /\ new(i) \in KeyEntries /\ new(i).key = batch[at(i)]
                      /\ new(i).used = 0 /\ new(i).limit = lim
    OBVIOUS
  <2>1. batch[at(i)] \in KeyValues /\ lim \in Nat
    BY <1>2, <1>4, ClientsCount
  <2> QED
    BY <2>1, NewEntryType, Zenon
<1> HIDE DEF at, new
<1>6. keys \in EntryLists /\ \A i \in KeyIds : keys[i] = IF i \in added THEN new(i) ELSE apiKeys[i]
  BY <1>3, <1>5 DEF EntryLists
<1> DEFINE Added(i, m) ==
             /\ ids[m] = i /\ keys[i].key = batch[m] /\ keys[i].used = 0 /\ keys[i].limit = lim
<1>10. \A i \in KeyIds : keys[i] = apiKeys[i] \/ \E m \in fresh : Added(i, m)
  <2> SUFFICES ASSUME NEW i \in KeyIds, i \in added PROVE Added(i, at(i)) /\ at(i) \in fresh
    BY <1>6
  <2> QED
    BY <1>4, <1>5, <1>6
<1> HIDE DEF keys, added
<1>7. ListOk(keys)
  <2>1. \A i \in KeyIds : Sound(keys[i])
    BY <1>3, <1>10 DEF Sound, ListOk
  <2>2. ASSUME NEW i \in KeyIds, NEW j \in KeyIds, i # j, keys[i].key # NoKey
        PROVE  keys[i].key # keys[j].key
    <3>1. CASE \E m \in fresh : Added(i, m)
      <4>1. PICK m \in fresh : Added(i, m)
        BY <3>1
      <4>2. keys[j] = apiKeys[j] => keys[j].key # batch[m]
        BY <1>2, <1>3, ListFields
      <4>3. ASSUME NEW o \in fresh, Added(j, o) PROVE keys[j].key # batch[m]
        BY <1>2, <2>2, <4>1, <4>3
      <4> QED
        BY <1>10, <4>1, <4>2, <4>3
    <3>2. CASE keys[i] = apiKeys[i]
      <4>1. apiKeys[i].key \in Values(apiKeys)
        BY <1>3, <2>2, <3>2, ListFields
      <4>2. keys[j] = apiKeys[j] => keys[j].key # apiKeys[i].key
        BY <1>3, <2>2, <3>2 DEF ListOk, Unique
      <4>3. ASSUME NEW o \in fresh, Added(j, o) PROVE keys[j].key # apiKeys[i].key
        BY <1>2, <4>1, <4>3
      <4> QED
        BY <1>10, <3>2, <4>2, <4>3
    <3> QED
      BY <1>10, <3>1, <3>2
  <2>3. Unique(keys)
    BY <2>2 DEF Unique
  <2> QED
    BY <1>6, <2>1, <2>3 DEF ListOk
<1>8. CASE apiKeys' = keys /\ Saved(keys) /\ deleted' = deleted \ Values(keys)
  <2>1. Clear(keys, deleted', keyFile.legacy)
    BY <1>8 DEF Clear
  <2>2. Follows(keys)
    BY <1>10 DEF Follows
  <2>3. EditInv'
    BY <1>1, EditsStay
  <2> QED
    BY <1>1, <1>7, <1>8, <2>1, <2>2, <2>3, ListChanges
<1>9. CASE UNCHANGED <<apiKeys, deleted>> /\ NotSaved
  BY <1>1, <1>9, SameFlush, QuietStep, UsageSame DEF NotSaved
<1> QED
  BY <1>1, <1>8, <1>9

LEMMA EditStartsInv ==
  ASSUME StoreInv, UNCHANGED lineup, NEW e \in KeyEditors, NEW i \in KeyIds, apiUpdateApiKey(e, i)
  PROVE  StoreInv'
<1>1. UNCHANGED <<lineup, apiKeys, legacyKey, keyFile, deleted, flushing, clients>> /\ Up
  BY DEF apiUpdateApiKey
<1>2. FileInv' /\ MemoryInv' /\ ClientInv' /\ ChargeInv'
  <2>1. Up'
    BY <1>1, SameFlush
  <2>2. FileInv' /\ MemoryInv' /\ ClientInv'
    BY <1>1, <2>1, ListsStay, ClientsStay
  <2>3. apiKeys' \in EntryLists /\ \A j \in KeyIds : apiKeys'[j] = apiKeys[j]
    BY <1>1 DEF StoreInv, MemoryInv, ListOk
  <2> QED
    BY <1>1, <2>2, <2>3, ChargesStay
<1>3. EditInv'
  <2>1. apiKeys[i] \in KeyEntries
    BY DEF StoreInv, MemoryInv, ListOk, EntryLists
  <2> DEFINE x == [id |-> i, used |-> apiKeys[i].used, migrated |-> apiKeys[i].migrated]
  <2>2. x \in [id : KeyIds \cup {NoKey}, used : Nat, migrated : BOOLEAN]
    BY <2>1 DEF KeyEntries
  <2>3. editing' = [editing EXCEPT ![e] = x]
    BY DEF apiUpdateApiKey
  <2> HIDE DEF x
  <2> QED
    BY <2>2, <2>3 DEF StoreInv, EditInv
<1> QED
  BY <1>2, <1>3 DEF StoreInv

LEMMA PatchedOk ==
  ASSUME apiKeys \in EntryLists, NEW i \in KeyIds, NEW patch \in KeyEntries
  PROVE  \E n \in KeyEntries :
           /\ Patched(i, patch) = [apiKeys EXCEPT ![i] = n]
           /\ n.key = patch.key /\ n.limit = patch.limit /\ n.used = apiKeys[i].used
           /\ ~n.migrated => ~apiKeys[i].migrated
<1> DEFINE u == [patch EXCEPT !.used = apiKeys[i].used]
           b == apiKeys[i].migrated \/ patch.migrated
           n == [u EXCEPT !.migrated = b]
<1>2. apiKeys[i] \in KeyEntries /\ apiKeys[i].used \in Nat
  BY ListFields
<1>3. b \in BOOLEAN /\ (~b => ~apiKeys[i].migrated)
  OBVIOUS
<1>7. Patched(i, patch) = [apiKeys EXCEPT ![i] = [patch EXCEPT !.used = apiKeys[i].used, !.migrated = b]]
  BY Zenon DEF Patched
<1> HIDE DEF b
<1>4. u \in KeyEntries /\ u.key = patch.key /\ u.limit = patch.limit /\ u.used = apiKeys[i].used
  BY <1>2, ResetType
<1> HIDE DEF u
<1>5. n \in KeyEntries /\ n.key = u.key /\ n.limit = u.limit /\ n.used = u.used /\ n.migrated = b
  BY <1>3, <1>4 DEF KeyEntries
<1> HIDE DEF n
<1>6. n = [patch EXCEPT !.used = apiKeys[i].used, !.migrated = b]
  BY DEF n, u
<1>8. Patched(i, patch) = [apiKeys EXCEPT ![i] = n]
  BY <1>6, <1>7
<1> QED
  BY <1>3, <1>4, <1>5, <1>8

(* An entry that gets another value, switch and quota. *)
LEMMA EntryEdited ==
  ASSUME StoreInv, EditInv', Up, UNCHANGED <<lineup, legacyKey, clients, flushing>>,
         NEW i \in KeyIds, apiKeys[i].key # NoKey, NEW n \in KeyEntries, n.key # NoKey,
         \A j \in KeyIds \ {i} : apiKeys[j].key # n.key,
         n.limit \in Quotas, n.used = apiKeys[i].used, ~n.migrated => ~apiKeys[i].migrated,
         apiKeys' = [apiKeys EXCEPT ![i] = n], deleted' = deleted \ {n.key},
         Saved(apiKeys') \/ NotSaved
  PROVE  StoreInv' /\ UsageKept
<1>1. apiKeys \in EntryLists /\ ListOk(apiKeys) /\ Clear(apiKeys, deleted, keyFile.legacy)
  BY DEF StoreInv, MemoryInv, ListOk
<1> DEFINE keys == [apiKeys EXCEPT ![i] = n]
<1>2. Sound(n)
  BY DEF Sound
<1>3. ListOk(keys) /\ Clear(keys, deleted', keyFile.legacy)
  BY <1>1, <1>2, PutIn
<1>4. keys[i] = n /\ \A j \in KeyIds \ {i} : keys[j] = apiKeys[j]
  BY <1>1, OneChanges
<1>5. apiKeys' = keys /\ (Saved(keys) \/ NotSaved)
  OBVIOUS
<1> HIDE DEF keys
<1>6. Follows(keys)
  BY <1>4 DEF Follows
<1>7. deleted' \subseteq deleted
  OBVIOUS
<1> QED
  BY <1>3, <1>5, <1>6, <1>7, ListChanges

LEMMA UpdateInv ==
  ASSUME StoreInv, UNCHANGED lineup, NEW e \in KeyEditors, NEW k \in KeyValues, NEW on \in BOOLEAN,
         NEW lim \in Quotas, UpdateApiKeyEntry(e, k, on, lim)
  PROVE  StoreInv' /\ UsageKept
<1> DEFINE x == editing[e]
           i == x.id
           patch == [key |-> k, enabled |-> on, limit |-> lim, used |-> x.used, migrated |-> x.migrated]
           keys == Patched(i, patch)
           same == UNCHANGED <<apiKeys, keyFile, unflushed, deleted, faults>>
           changed == /\ i \in Present /\ (\A j \in Present \ {i} : apiKeys[j].key # k)
                      /\ apiKeys' = keys /\ deleted' = deleted \ {k} /\ (Saved(keys) \/ NotSaved)
<1>1. /\ Up /\ editing' = [editing EXCEPT ![e] = NoEdit] /\ UNCHANGED <<legacyKey, flushing, clients>>
      /\ same \/ changed
  BY DEF UpdateApiKeyEntry
<1>2. x \in [id : KeyIds \cup {NoKey}, used : Nat, migrated : BOOLEAN]
  BY DEF StoreInv, EditInv
<1>3. apiKeys \in EntryLists /\ ListOk(apiKeys) /\ Clear(apiKeys, deleted, keyFile.legacy)
  BY DEF StoreInv, MemoryInv, ListOk
<1>4. EditInv'
  <2>1. NoEdit \in [id : KeyIds \cup {NoKey}, used : Nat, migrated : BOOLEAN]
    BY DEF NoEdit
  <2> QED
    BY <1>1, <2>1 DEF StoreInv, EditInv
<1>5. Up'
  BY <1>1, SameFlush
<1>6. CASE same
  <2>1. FileInv' /\ MemoryInv'
    BY <1>1, <1>5, <1>6, ListsStay
  <2>2. ClientInv'
    BY <1>1, <1>5, ClientsStay
  <2>3. apiKeys' \in EntryLists /\ \A j \in KeyIds : apiKeys'[j] = apiKeys[j]
    BY <1>3, <1>6
  <2>4. ChargeInv'
    BY <1>1, <2>3, ChargesStay
  <2> QED
    BY <1>4, <1>6, <2>1, <2>2, <2>4, UsageSame DEF StoreInv
<1>7. CASE changed
  <2>1. i \in KeyIds /\ apiKeys[i].key # NoKey /\ lim \in Nat /\ k # NoKey
    BY <1>7, ClientsCount, KeyAssumption DEF Present
  <2>11. patch \in KeyEntries /\ patch.key = k /\ patch.limit = lim
    BY <1>2, <2>1 DEF KeyEntries
  <2> HIDE DEF patch, i
  <2>2. PICK n \in KeyEntries :
          /\ keys = [apiKeys EXCEPT ![i] = n]
          /\ n.key = k /\ n.limit = lim /\ n.used = apiKeys[i].used
          /\ ~n.migrated => ~apiKeys[i].migrated
    BY <1>3, <2>1, <2>11, PatchedOk, Zenon
  <2> HIDE DEF keys
  <2>3. \A j \in KeyIds \ {i} : apiKeys[j].key # n.key
    <3>1. \A j \in KeyIds \ {i} : apiKeys[j].key # k
      BY <1>7, <2>1 DEF Present
    <3> QED
      BY <2>2, <3>1, Zenon
  <2>4. apiKeys' = keys /\ deleted' = deleted \ {k} /\ (Saved(keys) \/ NotSaved)
    BY <1>7
  <2>5. apiKeys' = [apiKeys EXCEPT ![i] = n] /\ deleted' = deleted \ {n.key}
    BY <2>2, <2>4, Zenon
  <2>6. Saved(apiKeys') \/ NotSaved
    BY <2>4, Zenon
  <2>7. n.key # NoKey /\ n.limit \in Quotas
    BY <2>1, <2>2
  <2>8. apiKeys[i].key # NoKey /\ i \in KeyIds /\ n.used = apiKeys[i].used
        /\ (~n.migrated => ~apiKeys[i].migrated)
    BY <2>1, <2>2, Zenon
  <2> QED
    BY <1>1, <1>4, <2>3, <2>5, <2>6, <2>7, <2>8, EntryEdited, Zenon
<1> QED
  BY <1>1, <1>6, <1>7

LEMMA DeleteInv ==
  ASSUME StoreInv, UNCHANGED lineup, NEW i \in KeyIds, DeleteApiKey(i)
  PROVE  StoreInv' /\ UsageKept
<1> DEFINE keys == [apiKeys EXCEPT ![i] = Absent]
           k == apiKeys[i].key
<1>1. /\ Up /\ i \in Present /\ apiKeys' = keys /\ UNCHANGED <<legacyKey, flushing, clients, editing>>
      /\ \/ Saved(keys) /\ deleted' = deleted \cup {k}
         \/ NotSaved /\ UNCHANGED deleted
  BY DEF DeleteApiKey
<1>2. ListOk(apiKeys) /\ Clear(apiKeys, deleted, keyFile.legacy) /\ k # NoKey
  BY <1>1 DEF StoreInv, MemoryInv, Present
<1>3. ListOk(keys) /\ k \notin Values(keys) /\ Clear(keys, deleted, keyFile.legacy)
  BY <1>2, TakenOut
<1>4. keys[i] = Absent /\ \A j \in KeyIds \ {i} : keys[j] = apiKeys[j]
  BY <1>2 DEF ListOk, EntryLists
<1> HIDE DEF keys, k
<1>5. Clear(keys, deleted', keyFile.legacy)
  BY <1>1, <1>3 DEF Clear
<1>6. Follows(keys)
  BY <1>4, AbsentType DEF Follows
<1>7. EditInv'
  BY <1>1, EditsStay
<1>8. Saved(keys) \/ (NotSaved /\ deleted' \subseteq deleted)
  BY <1>1
<1> QED
  BY <1>1, <1>3, <1>5, <1>6, <1>7, <1>8, ListChanges

LEMMA ResetInv ==
  ASSUME StoreInv, UNCHANGED lineup, NEW i \in KeyIds, ResetApiKeyUsage(i)
  PROVE  StoreInv' /\ UsageKept
<1> DEFINE n == [apiKeys[i] EXCEPT !.used = 0]
           keys == [apiKeys EXCEPT ![i].used = 0]
<1>1. /\ Up /\ apiKeys' = keys /\ UNCHANGED <<legacyKey, flushing, clients, editing, deleted>>
      /\ Saved(keys) \/ NotSaved
  BY DEF ResetApiKeyUsage
<1>2. ListOk(apiKeys) /\ Clear(apiKeys, deleted, keyFile.legacy) /\ apiKeys \in EntryLists
  BY DEF StoreInv, MemoryInv, ListOk
<1>3. keys = [apiKeys EXCEPT ![i] = n]
  OBVIOUS
<1>4. /\ n \in KeyEntries /\ n.used = 0 /\ n.key = apiKeys[i].key /\ n.limit = apiKeys[i].limit
      /\ n.migrated = apiKeys[i].migrated
  BY <1>2, ListFields, ResetType
<1> HIDE DEF keys, n
<1>5. keys \in EntryLists /\ keys[i] = n /\ \A j \in KeyIds \ {i} : keys[j] = apiKeys[j]
  BY <1>2, <1>3, <1>4 DEF EntryLists
<1>6. ListOk(keys) /\ Clear(keys, deleted', keyFile.legacy)
  BY <1>1, <1>2, <1>4, <1>5, SameValues
<1>7. Follows(keys)
  BY <1>4, <1>5 DEF Follows
<1>8. EditInv' /\ deleted' \subseteq deleted
  BY <1>1, EditsStay
<1> QED
  BY <1>1, <1>6, <1>7, <1>8, ListChanges

-----------------------------------------------------------------------------
(* The requests. *)
LEMMA AuthenticateInv ==
  ASSUME StoreInv, UNCHANGED lineup, NEW c \in Clients, NEW k, authenticate(c, k)
  PROVE  StoreInv'
<1> DEFINE m == CHOOSE i \in Matches(k) : TRUE
           i == IF Present = {} THEN NoKey ELSE m
<1>1. /\ Up /\ clientPc[c] = "idle" /\ Accepts(k)
      /\ clientPc' = [clientPc EXCEPT ![c] = "running"] /\ clientKey' = [clientKey EXCEPT ![c] = i]
      /\ UNCHANGED <<apiKeys, legacyKey, keyFile, flushing, editing, deleted>>
  BY DEF authenticate
<1>2. Up' /\ FileInv' /\ MemoryInv'
  BY <1>1, SameFlush, ListsStay
<1>3. i \in KeyIds \cup {NoKey} /\ (Present # {} => i \in Matches(k))
  <2>1. Present # {} => Matches(k) # {}
    BY <1>1 DEF Accepts
  <2>2. Matches(k) \subseteq KeyIds
    BY DEF Matches, Present
  <2> QED
    BY <2>1, <2>2
<1> HIDE DEF i
<1>4. ClientInv'
  BY <1>1, <1>2, <1>3 DEF StoreInv, ClientInv
<1>5. \A j \in KeyIds : j # i => On(j)' = On(j)
  BY <1>1 DEF StoreInv, ClientInv, On
<1>6. ChargeInv'
  <2> SUFFICES ASSUME NEW j \in KeyIds, ~apiKeys[j].migrated
               PROVE  Within(apiKeys[j].used, Cardinality(On(j)'))
    BY <1>1 DEF ChargeInv, Within
  <2>1. CASE j # i
    BY <1>5, <2>1 DEF StoreInv, ChargeInv
  <2>2. CASE j = i
    <3>1. j # NoKey
      BY KeyAssumption
    <3>2. j \in Matches(k) /\ Present # {}
      BY <1>3, <2>2, <3>1 DEF i
    <3>3. PICK o \in Matches(k) : ~ApiKeyOverLimit(apiKeys[o])
      BY <1>1, <3>2 DEF Accepts
    <3>4. o = j
      BY <3>2, <3>3 DEF Matches, Present, StoreInv, MemoryInv, ListOk, Unique
    <3>5. apiKeys[j].limit \in Quotas
      BY <3>2 DEF StoreInv, MemoryInv, ListOk, Sound, Matches, Present
    <3>6. apiKeys[j].used \in Nat /\ apiKeys[j].limit \in Nat
      BY ListFields DEF StoreInv, MemoryInv, ListOk
    <3>7. apiKeys[j].used < apiKeys[j].limit
      BY <3>3, <3>4, <3>5, <3>6, ClientsCount DEF ApiKeyOverLimit
    <3>8. On(j)' \subseteq Clients
      BY DEF On
    <3> QED
      BY <3>5, <3>6, <3>7, <3>8, OnCount, WithinBelow
  <2> QED
    BY <2>1, <2>2
<1> QED
  BY <1>1, <1>2, <1>4, <1>6, EditsStay DEF StoreInv

(* RecordApiKeyUsage: the request is charged, or has no entry any more. *)
LEMMA FewerOn ==
  ASSUME StoreInv, UNCHANGED apiKeys, \A j : On(j)' \subseteq On(j)
  PROVE  ChargeInv'
<1> SUFFICES ASSUME NEW j \in KeyIds, ~apiKeys[j].migrated
             PROVE  Within(apiKeys[j].used, Cardinality(On(j)'))
  BY DEF ChargeInv, Within
<1>1. Cardinality(On(j)) \in Nat /\ IsFiniteSet(On(j)) /\ apiKeys[j].used \in Nat
  BY OnNat, ListFields DEF StoreInv, MemoryInv, ListOk
<1>2. Cardinality(On(j)') \in Nat /\ Cardinality(On(j)') <= Cardinality(On(j))
  BY <1>1, FS_Subset, FS_CardinalityType
<1>3. Within(apiKeys[j].used, Cardinality(On(j)))
  BY DEF StoreInv, ChargeInv
<1> QED
  BY <1>1, <1>2, <1>3, WithinFewer

LEMMA OneCharged ==
  ASSUME NEW u \in Nat, NEW n \in {0, MaxUsage}, NEW S, IsFiniteSet(S), NEW c \in S,
         Within(u, Cardinality(S))
  PROVE  Within(u + n, Cardinality(S \ {c}))
<1> DEFINE s == Cardinality(S \ {c})
<1>1. s \in Nat /\ Cardinality(S) \in Nat /\ Cardinality(S) = s + 1
  BY FS_RemoveElement, FS_CardinalityType
<1> HIDE DEF s
<1>2. n \in Nat /\ n <= MaxUsage /\ MaxUsage \in Nat
  BY ClientsCount
<1>3. (s + 1) * MaxUsage = s * MaxUsage + MaxUsage /\ s * MaxUsage \in Nat
  BY <1>1, <1>2, Times
<1> DEFINE x == s * MaxUsage
           y == Cardinality(S) * MaxUsage
<1>4. y = x + MaxUsage /\ x \in Nat
  BY <1>1, <1>3
<1> HIDE DEF x, y
<1>5. (u + n) + x <= u + y /\ u + n \in Nat
  BY <1>2, <1>4
<1> QED
  BY <1>1, <1>5, WithinLess DEF x, y, s

LEMMA RecordInv ==
  ASSUME StoreInv, UNCHANGED lineup, NEW c \in Clients, NEW n \in {0, MaxUsage}, RecordApiKeyUsage(c, n)
  PROVE  StoreInv' /\ UsageKept
<1> DEFINE i == clientKey[c]
           keys == [apiKeys EXCEPT ![i].used = @ + n]
           charged == /\ i \in Present /\ apiKeys' = keys
                      /\ clientPc' = [clientPc EXCEPT ![c] = "recorded"] /\ UNCHANGED clientKey
           free == /\ clientPc' = [clientPc EXCEPT ![c] = "idle"] /\ Finished(c) /\ UNCHANGED apiKeys
<1>1. /\ Up /\ clientPc[c] = "running"
      /\ charged \/ free
      /\ UNCHANGED <<lineup, legacyKey, keyFile, flushing, editing, deleted>>
  BY DEF RecordApiKeyUsage
<1>2. Up' /\ EditInv' /\ FileInv' /\ keyFile'.legacy = keyFile.legacy
  BY <1>1, SameFlush, EditsStay, NotSavedFile
<1>3. apiKeys \in EntryLists /\ ListOk(apiKeys) /\ Clear(apiKeys, deleted', keyFile.legacy)
  BY <1>1 DEF StoreInv, MemoryInv, ListOk
<1>4. CASE free
  <2>1. MemoryInv'
    BY <1>1, <1>2, <1>4, ListsStay
  <2>2. ClientInv'
    BY <1>2, <1>4 DEF StoreInv, ClientInv, Finished
  <2>3. \A j : On(j)' \subseteq On(j)
    BY <1>4 DEF StoreInv, ClientInv, On, Finished
  <2>4. ChargeInv'
    BY <1>4, <2>3, FewerOn
  <2> QED
    BY <1>2, <1>4, <2>1, <2>2, <2>4, UsageSame DEF StoreInv
<1>5. CASE charged
  <2>1. i \in KeyIds /\ n \in Nat /\ apiKeys[i].used \in Nat /\ apiKeys[i] \in KeyEntries
    BY <1>3, <1>5, ClientsCount, ListFields DEF Present
  <2>2. ClientInv'
    BY <1>2, <1>5 DEF StoreInv, ClientInv
  <2>3. /\ c \in On(i) /\ On(i)' = On(i) \ {c}
        /\ \A j \in KeyIds \ {i} : On(j)' = On(j)
    BY <1>1, <1>5 DEF StoreInv, ClientInv, On
  <2> DEFINE m == [apiKeys[i] EXCEPT !.used = apiKeys[i].used + n]
  <2>4. keys = [apiKeys EXCEPT ![i] = m]
    BY <1>3, <2>1 DEF EntryLists
  <2>5. /\ m \in KeyEntries /\ m.used = apiKeys[i].used + n /\ m.key = apiKeys[i].key
        /\ m.limit = apiKeys[i].limit /\ m.migrated = apiKeys[i].migrated
    <3> DEFINE a == apiKeys[i]
               u == a.used + n
    <3>1. a \in KeyEntries /\ u \in Nat
      BY <2>1
    <3> HIDE DEF a, u
    <3>2. /\ [a EXCEPT !.used = u] \in KeyEntries /\ [a EXCEPT !.used = u].used = u
          /\ [a EXCEPT !.used = u].key = a.key /\ [a EXCEPT !.used = u].limit = a.limit
          /\ [a EXCEPT !.used = u].migrated = a.migrated
      BY <3>1, ResetType
    <3> QED
      BY <3>2, Zenon DEF a, u
  <2>6. apiKeys' = keys /\ i' = i
    BY <1>5
  <2> HIDE DEF i, keys, m
  <2>7. keys \in EntryLists /\ keys[i] = m /\ \A j \in KeyIds \ {i} : keys[j] = apiKeys[j]
    BY <1>3, <2>1, <2>4, <2>5 DEF EntryLists
  <2>8. ListOk(keys) /\ Clear(keys, deleted', keyFile.legacy)
    BY <1>3, <2>5, <2>7, SameValues
  <2>9. MemoryInv'
    BY <1>1, <1>2, <2>6, <2>8, MemoryKept
  <2>10. ChargeInv'
    <3> SUFFICES ASSUME NEW j \in KeyIds, ~keys[j].migrated
                 PROVE  Within(keys[j].used, Cardinality(On(j)'))
      BY <2>6 DEF ChargeInv, Within
    <3>1. CASE j # i
      BY <2>3, <2>7, <3>1 DEF StoreInv, ChargeInv
    <3>2. CASE j = i
      <4>1. Within(apiKeys[i].used, Cardinality(On(i)))
        BY <2>1, <2>5, <2>7, <3>2 DEF StoreInv, ChargeInv
      <4>2. IsFiniteSet(On(i))
        BY OnNat
      <4>3. Within(apiKeys[i].used + n, Cardinality(On(i) \ {c}))
        BY <2>1, <2>3, <4>1, <4>2, OneCharged
      <4>4. keys[j].used = apiKeys[i].used + n
        BY <2>5, <2>7, <3>2
      <4>5. On(j)' = On(i) \ {c}
        BY <2>3, <2>6, <3>2 DEF On
      <4> QED
        BY <4>3, <4>4, <4>5, Zenon
    <3> QED
      BY <3>1, <3>2
  <2>11. UsageKept
    <3>1. \A j \in KeyIds : apiKeys[j].used \in Nat
      BY <1>3, ListFields
    <3> QED
      BY <2>1, <2>5, <2>6, <2>7, <3>1 DEF UsageKept
  <2> QED
    BY <1>2, <2>2, <2>9, <2>10, <2>11 DEF StoreInv
<1> QED
  BY <1>1, <1>4, <1>5

LEMMA ScheduleInv ==
  ASSUME StoreInv, UNCHANGED lineup, NEW c \in Clients, scheduleApiKeyUsageSave(c)
  PROVE  StoreInv'
<1>1. /\ Up /\ UNCHANGED <<lineup, apiKeys, legacyKey, keyFile, flushPc, editing, deleted>>
      /\ clientPc[c] = "recorded" /\ clientPc' = [clientPc EXCEPT ![c] = "idle"] /\ Finished(c)
  BY DEF scheduleApiKeyUsageSave
<1>2. Up' /\ EditInv' /\ FileInv' /\ MemoryInv'
  BY <1>1, EditsStay, ListsStay DEF Up
<1>3. ClientInv'
  BY <1>1, <1>2 DEF StoreInv, ClientInv, Finished
<1>4. \A j : On(j)' \subseteq On(j)
  BY <1>1 DEF StoreInv, ClientInv, On, Finished
<1> QED
  BY <1>1, <1>2, <1>3, <1>4, FewerOn DEF StoreInv

-----------------------------------------------------------------------------
(* The flush, the end of the process and its start. *)
LEMMA FlushStepsInv ==
  ASSUME StoreInv, UNCHANGED lineup,
         UsageTimerFires \/ FlushPendingWrites \/ flushApiKeyUsage \/ FlushRearm
  PROVE  StoreInv'
<1>1. UNCHANGED <<lineup, apiKeys, legacyKey, keyFile, clients, editing, deleted>> /\ Up /\ Up'
  BY DEF UsageTimerFires, FlushPendingWrites, flushApiKeyUsage, FlushRearm, Up
<1> QED
  BY <1>1, QuietStep

LEMMA FlushSaveInv ==
  ASSUME StoreInv, UNCHANGED lineup, FlushSave
  PROVE  StoreInv'
<1>1. /\ Up /\ Up' /\ UNCHANGED <<lineup, apiKeys, legacyKey, clients, editing, deleted>>
      /\ Saved(apiKeys) \/ NotSaved
  BY DEF FlushSave, Up
<1>2. CASE NotSaved
  BY <1>1, <1>2, QuietStep DEF NotSaved
<1>3. CASE Saved(apiKeys)
  <2>1. ListOk(apiKeys) /\ apiKeys \in EntryLists /\ Clear(apiKeys, deleted', keyFile.legacy)
    BY <1>1 DEF StoreInv, MemoryInv, ListOk
  <2>2. Kept(apiKeys)
    BY <2>1, ChargedKept DEF Kept, StoreInv, ChargeInv
  <2>3. FileInv' /\ keyFile'.legacy = keyFile.legacy
    BY <1>1, <1>3, <2>2, SavedFile
  <2>4. MemoryInv'
    BY <1>1, <2>1, <2>3, MemoryKept
  <2>5. ClientInv'
    BY <1>1, ClientsStay
  <2>6. ChargeInv'
    BY <1>1, SameCharges
  <2> QED
    BY <1>1, <2>3, <2>4, <2>5, <2>6, EditsStay DEF StoreInv
<1> QED
  BY <1>1, <1>2, <1>3

LEMMA CrashInv ==
  ASSUME StoreInv, UNCHANGED lineup, KeyCrash
  PROVE  StoreInv'
<1>1. /\ UNCHANGED <<lineup, apiKeys, legacyKey, keyFile, deleted>> /\ Up /\ ~Up'
      /\ clientPc' = [c \in Clients |-> "idle"] /\ clientKey' = [c \in Clients |-> NoKey]
      /\ editing' = [e \in KeyEditors |-> NoEdit]
  BY DEF KeyCrash, Up
<1>2. FileInv' /\ MemoryInv'
  BY <1>1, ListsStay
<1>3. ClientInv'
  BY <1>1 DEF ClientInv
<1>4. \A j : On(j)' \subseteq On(j)
  BY <1>1 DEF On
<1>5. EditInv'
  <2>1. NoEdit \in [id : KeyIds \cup {NoKey}, used : Nat, migrated : BOOLEAN]
    BY DEF NoEdit
  <2> QED
    BY <1>1, <2>1 DEF EditInv
<1> QED
  BY <1>1, <1>2, <1>3, <1>4, <1>5, FewerOn DEF StoreInv

(* The list that the process starts with. *)
Started(keys) ==
  /\ ListOk(keys) /\ Clear(keys, deleted, keyFile.legacy)
  /\ \A i \in KeyIds : ~keys[i].migrated => Within(keys[i].used, 0)

LEMMA Promoted ==
  ASSUME StoreInv, NEW i \in KeyIds, NEW n \in KeyEntries,
         n.key = keyFile.legacy, n.key # NoKey, n.migrated, Values(keyFile.keys) = {}
  PROVE  Started([keyFile.keys EXCEPT ![i] = n])
<1> DEFINE list == keyFile.keys
           keys == [list EXCEPT ![i] = n]
<1>1. list \in EntryLists /\ ListOk(list) /\ \A j \in KeyIds : ~list[j].migrated => Within(list[j].used, 0)
  BY DEF StoreInv, FileInv, ListOk
<1>2. \A j \in KeyIds : list[j].key = NoKey
  BY <1>1, ListFields
<1>3. keys \in EntryLists /\ keys[i] = n /\ \A j \in KeyIds \ {i} : keys[j] = list[j]
  BY <1>1, OneChanges
<1>4. Sound(n)
  BY DEF Sound
<1>5. ListOk(keys)
  BY <1>1, <1>2, <1>4, PutIn
<1> HIDE DEF keys, list
<1>6. Values(keys) = {keyFile.legacy}
  <2>1. keyFile.legacy \in Values(keys)
    BY <1>3 DEF Values
  <2>2. \A k \in Values(keys) : k = keyFile.legacy
    BY <1>2, <1>3, ValueHasEntry
  <2> QED
    BY <2>1, <2>2
<1>7. Clear(keys, deleted, keyFile.legacy)
  BY <1>6 DEF Clear
<1>8. \A j \in KeyIds : ~keys[j].migrated => Within(keys[j].used, 0)
  BY <1>1, <1>3
<1> QED
  BY <1>5, <1>7, <1>8 DEF Started, keys, list

LEMMA LoadInv ==
  ASSUME StoreInv, UNCHANGED lineup, NEW i \in KeyIds, NEW on \in BOOLEAN, KeyLoad(i, on)
  PROVE  StoreInv'
<1> DEFINE n == [Entry(keyFile.legacy, on, 0) EXCEPT !.migrated = TRUE]
           promoted == keyFile.legacy # NoKey /\ Values(keyFile.keys) = {}
           keys == IF promoted THEN [keyFile.keys EXCEPT ![i] = n] ELSE keyFile.keys
<1>1. /\ ~Up /\ Up' /\ apiKeys' = keys /\ legacyKey' = keyFile.legacy
      /\ keyFile' = [keyFile EXCEPT !.keys = keys]
      /\ UNCHANGED <<lineup, clients, editing, deleted>>
  BY DEF KeyLoad, Up
<1>2. Started(keys)
  <2>1. CASE ~promoted
    BY <2>1 DEF StoreInv, FileInv, Started
  <2>2. CASE promoted
    <3>1. n \in KeyEntries /\ n.key = keyFile.legacy /\ n.migrated
      <4>1. keyFile.legacy \in KeyValues /\ 0 \in Nat
        BY <2>2 DEF StoreInv, FileInv
      <4> QED
        BY <4>1, EntryType, MigratedType
    <3> HIDE DEF n
    <3> QED
      BY <2>2, <3>1, Promoted
  <2> QED
    BY <2>1, <2>2
<1> HIDE DEF keys
<1>3. keyFile'.keys = keys /\ keyFile'.legacy = keyFile.legacy
      /\ keyFile' \in [keys : EntryLists, legacy : KeyValues \cup {NoKey}]
  BY <1>1, <1>2 DEF Started, ListOk, StoreInv, FileInv
<1>4. ListOk(keys) /\ keys \in EntryLists /\ \A j \in KeyIds : ~keys[j].migrated => Within(keys[j].used, 0)
  BY <1>2 DEF Started, ListOk
<1>5. ListOk(keyFile.keys)' /\ ListOk(apiKeys)'
  BY <1>1, <1>3, <1>4 DEF ListOk, Unique
<1>6. Clear(keyFile.keys, deleted, keyFile.legacy)' /\ Clear(apiKeys, deleted, keyFile.legacy)'
  BY <1>1, <1>2, <1>3 DEF Started, Clear, Values
<1>7. FileInv'
  BY <1>3, <1>4, <1>5, <1>6 DEF FileInv, Within
<1>8. MemoryInv'
  BY <1>1, <1>3, <1>5, <1>6 DEF StoreInv, MemoryInv
<1>9. ClientInv' /\ \A j : On(j)' = {}
  BY <1>1 DEF StoreInv, ClientInv, clients, On
<1>10. ChargeInv'
  BY <1>1, <1>4, <1>9, FS_EmptySet DEF ChargeInv, Within
<1> QED
  BY <1>1, <1>7, <1>8, <1>9, <1>10, EditsStay DEF StoreInv

LEMMA InitInv == KeyInit => StoreInv
<1> SUFFICES ASSUME KeyInit PROVE StoreInv
  OBVIOUS
<1>1. PICK old \in lineup.values \cup {NoKey} : keyFile = [keys |-> apiKeys, legacy |-> old]
  BY DEF KeyInit
<1>2. old \in KeyValues \cup {NoKey} /\ apiKeys = [i \in KeyIds |-> Absent] /\ deleted = {}
  BY <1>1, KeyAssumption DEF KeyInit
<1>3. ListOk(apiKeys) /\ apiKeys \in EntryLists
  BY <1>2, AbsentType DEF ListOk, EntryLists, Unique, Sound
<1>4. \A i \in KeyIds, r \in Nat : r <= Cardinality(Clients) => Within(apiKeys[i].used, r)
  BY <1>2, AbsentType, WithinZero
<1>5. Clear(apiKeys, deleted, old)
  BY <1>2 DEF Clear
<1>6. keyFile.keys = apiKeys /\ keyFile.legacy = old
  BY <1>1
<1>7. FileInv
  <2>1. \A i \in KeyIds : Within(keyFile.keys[i].used, 0)
    BY <1>4, <1>6, ClientsCount
  <2>2. keyFile \in [keys : EntryLists, legacy : KeyValues \cup {NoKey}]
    BY <1>1, <1>2, <1>3
  <2> QED
    BY <1>3, <1>5, <1>6, <2>1, <2>2 DEF FileInv
<1>8. MemoryInv
  BY <1>3, <1>5, <1>6 DEF KeyInit, MemoryInv, Up
<1>9. ClientInv
  BY DEF KeyInit, ClientInv
<1>10. ChargeInv
  BY <1>4, OnNat DEF ChargeInv
<1>11. EditInv
  BY DEF KeyInit, EditInv, NoEdit
<1> QED
  BY <1>7, <1>8, <1>9, <1>10, <1>11 DEF StoreInv

LEMMA NextInv == StoreInv /\ [KeyNext]_keyVars => StoreInv'
<1> SUFFICES ASSUME StoreInv, [KeyNext]_keyVars PROVE StoreInv'
  OBVIOUS
<1>1. CASE UNCHANGED keyVars
  <2>1. /\ UNCHANGED <<lineup, apiKeys, legacyKey, keyFile, clients, editing, deleted>>
        /\ flushPc' = flushPc
    BY <1>1 DEF keyVars, clients
  <2>2. FileInv' /\ MemoryInv'
    BY <2>1, ListsStay DEF Up
  <2>3. ClientInv'
    BY <2>1 DEF StoreInv, ClientInv, clients, Up
  <2> QED
    BY <2>1, <2>2, <2>3, SameCharges, EditsStay DEF StoreInv
<1> SUFFICES ASSUME KeyNext PROVE StoreInv'
  BY <1>1
<1>2. /\ UNCHANGED lineup /\ lineup.values \subseteq KeyValues
      /\ lineup.clients \subseteq Clients /\ lineup.editors \subseteq KeyEditors
  BY KeyAssumption DEF KeyNext, StoreInv, MemoryInv
<1>3. CASE \E n \in 1..2, lim \in Quotas :
             \E batch \in [1..n -> lineup.values], ids \in [1..n -> KeyIds] :
               (n = 2 => ids[1] # ids[2]) /\ AddApiKeys(batch, ids, TRUE, lim)
  BY <1>2, <1>3, AddInv
<1>4. CASE \E e \in lineup.editors, i \in KeyIds : apiUpdateApiKey(e, i)
  BY <1>2, <1>4, EditStartsInv
<1>5. CASE \E e \in lineup.editors, k \in lineup.values, on \in BOOLEAN, lim \in Quotas :
             UpdateApiKeyEntry(e, k, on, lim)
  BY <1>2, <1>5, UpdateInv
<1>6. CASE \E i \in KeyIds : DeleteApiKey(i) \/ ResetApiKeyUsage(i)
  BY <1>2, <1>6, DeleteInv, ResetInv
<1>7. CASE \E c \in lineup.clients, k \in lineup.values : authenticate(c, k)
  BY <1>2, <1>7, AuthenticateInv
<1>8. CASE \E c \in lineup.clients, n \in {0, MaxUsage} : RecordApiKeyUsage(c, n)
  BY <1>2, <1>8, RecordInv
<1>9. CASE \E c \in lineup.clients : scheduleApiKeyUsageSave(c)
  BY <1>2, <1>9, ScheduleInv
<1>10. CASE UsageTimerFires \/ FlushPendingWrites \/ flushApiKeyUsage \/ FlushRearm
  BY <1>2, <1>10, FlushStepsInv
<1>11. CASE FlushSave
  BY <1>2, <1>11, FlushSaveInv
<1>12. CASE KeyCrash
  BY <1>2, <1>12, CrashInv
<1>13. CASE \E i \in KeyIds, on \in BOOLEAN : KeyLoad(i, on)
  BY <1>2, <1>13, LoadInv
<1> QED
  BY <1>3, <1>4, <1>5, <1>6, <1>7, <1>8, <1>9, <1>10, <1>11, <1>12, <1>13 DEF KeyNext

-----------------------------------------------------------------------------
(* What has not been written has a save coming. *)
SaveInv ==
  /\ UsageSaveComes
  /\ clientPc \in [Clients -> {"idle", "running", "recorded"}]

Quiet == UNCHANGED <<clientPc, flushPc, usagePending, usageTimer, flushWaiting>>

LEMMA SaveStays ==
  ASSUME SaveInv, Quiet, unflushed' = {} \/ UNCHANGED unflushed
  PROVE  SaveInv'
BY DEF SaveInv, UsageSaveComes, Quiet

LEMMA SaveNext == StoreInv /\ SaveInv /\ [KeyNext]_keyVars => SaveInv'
<1> SUFFICES ASSUME StoreInv, SaveInv, [KeyNext]_keyVars PROVE SaveInv'
  OBVIOUS
<1>1. CASE UNCHANGED keyVars
  BY <1>1, SaveStays DEF keyVars, Quiet
<1> SUFFICES ASSUME KeyNext PROVE SaveInv'
  BY <1>1
<1>2. lineup.clients \subseteq Clients
  BY KeyAssumption DEF StoreInv, MemoryInv
<1>3. CASE \E n \in 1..2, lim \in Quotas :
             \E batch \in [1..n -> lineup.values], ids \in [1..n -> KeyIds] :
               (n = 2 => ids[1] # ids[2]) /\ AddApiKeys(batch, ids, TRUE, lim)
  <2>1. Quiet /\ (unflushed' = {} \/ UNCHANGED unflushed)
    BY <1>3 DEF AddApiKeys, Quiet, flushing, clients, Saved, NotSaved
  <2> QED
    BY <2>1, SaveStays
<1>4. CASE \E e \in lineup.editors, i \in KeyIds : apiUpdateApiKey(e, i)
  BY <1>4, SaveStays DEF apiUpdateApiKey, Quiet, flushing, clients
<1>5. CASE \E e \in lineup.editors, k \in lineup.values, on \in BOOLEAN, lim \in Quotas :
             UpdateApiKeyEntry(e, k, on, lim)
  <2>1. Quiet /\ (unflushed' = {} \/ UNCHANGED unflushed)
    BY <1>5 DEF UpdateApiKeyEntry, Quiet, flushing, clients, Saved, NotSaved
  <2> QED
    BY <2>1, SaveStays
<1>6. CASE \E i \in KeyIds : DeleteApiKey(i) \/ ResetApiKeyUsage(i)
  <2>1. Quiet /\ (unflushed' = {} \/ UNCHANGED unflushed)
    BY <1>6 DEF DeleteApiKey, ResetApiKeyUsage, Quiet, flushing, clients, Saved, NotSaved
  <2> QED
    BY <2>1, SaveStays
<1>7. CASE \E c \in lineup.clients, k \in lineup.values : authenticate(c, k)
  BY <1>2, <1>7 DEF authenticate, SaveInv, UsageSaveComes, flushing
<1>8. CASE \E c \in lineup.clients, n \in {0, MaxUsage} : RecordApiKeyUsage(c, n)
  BY <1>2, <1>8 DEF RecordApiKeyUsage, SaveInv, UsageSaveComes, flushing
<1>9. CASE \E c \in lineup.clients : scheduleApiKeyUsageSave(c)
  BY <1>2, <1>9 DEF scheduleApiKeyUsageSave, SaveInv, UsageSaveComes
<1>10. CASE UsageTimerFires \/ FlushPendingWrites \/ FlushRearm
  BY <1>10 DEF UsageTimerFires, FlushPendingWrites, FlushRearm, SaveInv, UsageSaveComes, clients
<1>11. CASE flushApiKeyUsage
  BY <1>11 DEF flushApiKeyUsage, SaveInv, UsageSaveComes, clients
<1>12. CASE FlushSave
  BY <1>12 DEF FlushSave, Saved, NotSaved, SaveInv, UsageSaveComes, clients
<1>13. CASE KeyCrash
  BY <1>13 DEF KeyCrash, SaveInv, UsageSaveComes
<1>14. CASE \E i \in KeyIds, on \in BOOLEAN : KeyLoad(i, on)
  BY <1>14 DEF KeyLoad, Up, SaveInv, UsageSaveComes, clients
<1> QED
  BY <1>3, <1>4, <1>5, <1>6, <1>7, <1>8, <1>9, <1>10, <1>11, <1>12, <1>13, <1>14 DEF KeyNext

-----------------------------------------------------------------------------
(* What the key store promises. *)
LEMMA Refused == StoreInv => DeletedKeyRefused
<1> SUFFICES ASSUME StoreInv, NEW k \in deleted, Up, Accepts(k)
             PROVE  k = legacyKey /\ Present \subseteq Matches(k)
  BY DEF DeletedKeyRefused
<1>1. CASE Present = {}
  BY <1>1 DEF Accepts
<1>2. CASE Present # {}
  <2>1. PICK i \in Matches(k) : TRUE
    BY <1>2 DEF Accepts
  <2>2. i \in KeyIds /\ apiKeys[i].key = k /\ k # NoKey
    BY <2>1 DEF Matches, Present
  <2>3. k \in Values(apiKeys)
    BY <2>2 DEF Values
  <2>4. k = keyFile.legacy /\ Values(apiKeys) = {k} /\ legacyKey = keyFile.legacy
    BY <2>3 DEF StoreInv, MemoryInv, Clear
  <2>5. ASSUME NEW j \in Present PROVE j \in Matches(k)
    <3>1. apiKeys[j].key \in Values(apiKeys)
      BY DEF Present, Values
    <3> QED
      BY <2>4, <3>1 DEF Matches
  <2> QED
    BY <2>4, <2>5
<1> QED
  BY <1>1, <1>2

LEMMA Overshoot == StoreInv => QuotaOvershootBounded
<1> SUFFICES ASSUME StoreInv, NEW i \in KeyIds, ~apiKeys[i].migrated
             PROVE  \E limit \in Quotas :
                      apiKeys[i].used <= (limit - 1) + Cardinality(Clients) * MaxUsage
  BY DEF QuotaOvershootBounded
<1>1. apiKeys[i].used \in Nat /\ Cardinality(On(i)) \in Nat /\ 0 <= Cardinality(On(i))
  BY ListFields, OnNat DEF StoreInv, MemoryInv, ListOk
<1>2. Within(apiKeys[i].used, 0)
  BY <1>1, WithinFewer DEF StoreInv, ChargeInv
<1>3. 0 * MaxUsage = 0
  BY ClientsCount, Times
<1> QED
  BY <1>1, <1>2, <1>3 DEF Within

(* Values identify entries, usage that is in no file has a save coming, a   *)
(* quota is overshot by no more than what runs together, and a value that   *)
(* was deleted is refused: in every state, for any keys, requests, edits,   *)
(* batches, failed writes and crashes.                                      *)
THEOREM KeysSafeAlways == KeySpec => []KeysSafe
<1>1. KeyInit => StoreInv /\ SaveInv
  <2>1. KeyInit => SaveInv
    BY DEF KeyInit, SaveInv, UsageSaveComes
  <2> QED
    BY <2>1, InitInv
<1>2. StoreInv /\ SaveInv /\ [KeyNext]_keyVars => StoreInv' /\ SaveInv'
  BY NextInv, SaveNext
<1>3. StoreInv /\ SaveInv => KeysSafe
  BY Refused, Overshoot
     DEF KeysSafe, KeyValuesUnique, SaveInv, StoreInv, MemoryInv, ListOk, Unique
<1> QED
  BY <1>1, <1>2, <1>3, PTL DEF KeySpec

(* An edit that read its entry before requests were charged, or a batch, or *)
(* a failed write, lowers no counter: it goes down to zero or not at all    *)
(* while the process runs.                                                  *)
THEOREM UsageNotLostAlways == KeySpec => UsageNotLost
<1> DEFINE A == \A i \in KeyIds : Up /\ flushPc' # "down"
                                    => apiKeys'[i].used = 0 \/ apiKeys'[i].used >= apiKeys[i].used
<1>1. StoreInv /\ KeyNext => A
  <2> SUFFICES ASSUME StoreInv, KeyNext, Up, flushPc' # "down" PROVE UsageKept
    BY DEF UsageKept
  <2>1. /\ UNCHANGED lineup /\ lineup.values \subseteq KeyValues
        /\ lineup.clients \subseteq Clients /\ lineup.editors \subseteq KeyEditors
    BY KeyAssumption DEF KeyNext, StoreInv, MemoryInv
  <2>2. CASE \E n \in 1..2, lim \in Quotas :
               \E batch \in [1..n -> lineup.values], ids \in [1..n -> KeyIds] :
                 (n = 2 => ids[1] # ids[2]) /\ AddApiKeys(batch, ids, TRUE, lim)
    BY <2>1, <2>2, AddInv
  <2>3. CASE \E e \in lineup.editors, k \in lineup.values, on \in BOOLEAN, lim \in Quotas :
               UpdateApiKeyEntry(e, k, on, lim)
    BY <2>1, <2>3, UpdateInv
  <2>4. CASE \E i \in KeyIds : DeleteApiKey(i) \/ ResetApiKeyUsage(i)
    BY <2>1, <2>4, DeleteInv, ResetInv
  <2>5. CASE \E c \in lineup.clients, n \in {0, MaxUsage} : RecordApiKeyUsage(c, n)
    BY <2>1, <2>5, RecordInv
  <2>6. CASE UNCHANGED apiKeys
    BY <2>6, UsageSame
  <2>7. CASE (\E e \in lineup.editors, i \in KeyIds : apiUpdateApiKey(e, i))
             \/ (\E c \in lineup.clients, k \in lineup.values : authenticate(c, k))
             \/ (\E c \in lineup.clients : scheduleApiKeyUsageSave(c))
             \/ UsageTimerFires \/ FlushPendingWrites \/ flushApiKeyUsage \/ FlushSave \/ FlushRearm
    BY <2>6, <2>7 DEF apiUpdateApiKey, authenticate, scheduleApiKeyUsageSave, UsageTimerFires,
       FlushPendingWrites, flushApiKeyUsage, FlushSave, FlushRearm
  <2>8. CASE KeyCrash \/ \E i \in KeyIds, on \in BOOLEAN : KeyLoad(i, on)
    BY <2>8 DEF KeyCrash, KeyLoad
  <2> QED
    BY <2>2, <2>3, <2>4, <2>5, <2>7, <2>8 DEF KeyNext
<1>2. StoreInv /\ [KeyNext]_keyVars => [A]_keyVars
  BY <1>1
<1> QED
  BY <1>2, InitInv, NextInv, PTL DEF KeySpec, UsageNotLost

-----------------------------------------------------------------------------
(* ResponsesStore. *)
StoredFile == [size : Nat, mod : Nat, stored : Nat, owner : Owners, plain : BOOLEAN]
Indexed == [size : Nat, mod : Nat]
MapsTo(V) == UNION {[D -> V] : D \in SUBSET Names}
IndexType == [loaded : BOOLEAN, files : MapsTo(Indexed), total : Nat]
Directory(f, t) == f \in MapsTo(StoredFile) /\ \A n \in DOMAIN f : f[n].mod <= t

(* The index counts the directory f but for the files o, which are no more *)
(* than what has been lost to failing system calls, and nothing but f as   *)
(* long as none has failed.                                                *)
CountsDisk(i, f, t, o, lost) ==
  /\ i \in IndexType /\ i.loaded
  /\ o \in SUBSET Names /\ Cardinality(o) <= lost
  /\ \A n \in DOMAIN f \ o : n \in DOMAIN i.files /\ i.files[n] = IndexEntry(f[n])
  /\ \A n \in DOMAIN i.files : i.files[n].mod <= t
  /\ i.total = Bytes(i.files)
  /\ (lost = 0 => DOMAIN i.files = DOMAIN f)
Limited(f, lost, sofar, over) ==
  /\ Cardinality(DOMAIN f) <= MaxFiles + lost
  /\ (lost = 0 => Bytes(f) <= MaxBytes + over /\ \A n \in DOMAIN f : f[n].mod >= sofar)

StoreKept(f, i, o, t, sofar, lost, over) ==
  /\ t \in Nat /\ lost \in Nat /\ over \in Nat /\ sofar \in 0 .. t
  /\ Directory(f, t) /\ i \in IndexType
  /\ (i.loaded => CountsDisk(i, f, t, o, lost))
  /\ Limited(f, lost, sofar, over)
ResponsesInv == StoreKept(files, index, overlooked, now, dropped, storeFaults, grown) /\ AnswersOwned


LEMMA NamesFinite == IsFiniteSet(Names)
<1> DEFINE n == Len(ResponseIds)
           g == [k \in 1 .. n |-> ResponseIds[k]]
<1>1. ResponseIds \in Seq(ToSet(ResponseIds))
  BY ResponsesAssumption
<1>2. n \in Nat /\ DOMAIN ResponseIds = 1 .. n
  BY <1>1, LenProperties
<1>3. IsFiniteSet(1 .. n)
  BY <1>2, FS_Interval
<1>4. Names = {ResponseIds[k] : k \in 1 .. n}
  BY <1>2 DEF Names, ToSet
<1> HIDE DEF n
<1>5. g \in Surjection(1 .. n, Names)
  BY <1>4 DEF Surjection
<1> QED
  BY <1>3, <1>5, FS_Surjection

-----------------------------------------------------------------------------
(* What the files take together. *)
SizeOf(f) == [n \in DOMAIN f |-> f[n].size]
HasSizes(f) == IsFiniteSet(DOMAIN f) /\ \A n \in DOMAIN f : f[n].size \in Nat
Part(f, S) == [n \in S \cap DOMAIN f |-> f[n]]

LEMMA BytesDef == ASSUME NEW f PROVE Bytes(f) = Total(SizeOf(f), DOMAIN f)
BY DEF Bytes, Total, SizeOf

LEMMA BytesSame ==
  ASSUME NEW f, NEW g, HasSizes(f), DOMAIN g = DOMAIN f, \A n \in DOMAIN f : g[n].size = f[n].size
  PROVE  Bytes(g) = Bytes(f)
<1>1. \A n \in DOMAIN f : SizeOf(g)[n] = SizeOf(f)[n]
  BY DEF SizeOf
<1>2. IsFiniteSet(DOMAIN f)
  BY DEF HasSizes
<1>3. Total(SizeOf(g), DOMAIN f) = Total(SizeOf(f), DOMAIN f)
  BY <1>1, <1>2, TotalSame
<1> QED
  BY <1>3, BytesDef

LEMMA BytesNat == ASSUME NEW f, HasSizes(f) PROVE Bytes(f) \in Nat
<1>1. IsFiniteSet(DOMAIN f) /\ \A n \in DOMAIN f : SizeOf(f)[n] \in Nat
  BY DEF HasSizes, SizeOf
<1>2. Total(SizeOf(f), DOMAIN f) \in Nat
  BY <1>1, TotalRemove
<1> QED
  BY <1>2, BytesDef

LEMMA BytesPart ==
  ASSUME NEW f, NEW g, HasSizes(f), DOMAIN g \subseteq DOMAIN f, \A n \in DOMAIN g : g[n].size = f[n].size
  PROVE  Bytes(g) = Total(SizeOf(f), DOMAIN g) /\ HasSizes(g)
<1>1. IsFiniteSet(DOMAIN g)
  BY FS_Subset DEF HasSizes
<1>2. \A n \in DOMAIN g : SizeOf(g)[n] = SizeOf(f)[n]
  BY DEF SizeOf
<1>3. Total(SizeOf(g), DOMAIN g) = Total(SizeOf(f), DOMAIN g)
  BY <1>1, <1>2, TotalSame
<1> QED
  BY <1>1, <1>3, BytesDef DEF HasSizes

(* Removing some files, and putting one in. *)
LEMMA BytesSplit ==
  ASSUME NEW f, NEW S, HasSizes(f)
  PROVE  /\ Bytes(f) = Bytes(Drop(f, S)) + Bytes(Part(f, S))
         /\ Bytes(Drop(f, S)) \in Nat /\ Bytes(Part(f, S)) \in Nat
         /\ HasSizes(Drop(f, S)) /\ DOMAIN Drop(f, S) = DOMAIN f \ S
<1> DEFINE D == DOMAIN f \ S
           E == S \cap DOMAIN f
<1>1. /\ DOMAIN Drop(f, S) = D /\ DOMAIN Part(f, S) = E
      /\ \A n \in D : Drop(f, S)[n] = f[n]
      /\ \A n \in E : Part(f, S)[n] = f[n]
  BY DEF Drop, Part
<1>2. D \cap E = {} /\ D \cup E = DOMAIN f
  OBVIOUS
<1> HIDE DEF D, E
<1>3. Bytes(Drop(f, S)) = Total(SizeOf(f), D) /\ HasSizes(Drop(f, S))
  BY <1>1, <1>2, BytesPart
<1>4. Bytes(Part(f, S)) = Total(SizeOf(f), E) /\ HasSizes(Part(f, S))
  BY <1>1, <1>2, BytesPart
<1>5. IsFiniteSet(D) /\ IsFiniteSet(E)
  BY <1>1, <1>3, <1>4 DEF HasSizes
<1>6. \A n \in D \cup E : SizeOf(f)[n] \in Nat
  BY <1>2 DEF HasSizes, SizeOf
<1>7. Total(SizeOf(f), D \cup E) = Total(SizeOf(f), D) + Total(SizeOf(f), E)
  BY <1>2, <1>5, <1>6, TotalUnion
<1>8. Bytes(f) = Total(SizeOf(f), D \cup E)
  BY <1>2, BytesDef
<1> QED
  BY <1>1, <1>3, <1>4, <1>7, <1>8, BytesNat DEF D

LEMMA BytesOne ==
  ASSUME NEW f, NEW n, HasSizes(f), n \in DOMAIN f
  PROVE  Bytes(f) = f[n].size + Bytes(Drop(f, {n}))
<1>1. /\ DOMAIN Drop(f, {n}) = DOMAIN f \ {n} /\ \A m \in DOMAIN f \ {n} : Drop(f, {n})[m] = f[m]
  BY DEF Drop
<1>2. Bytes(Drop(f, {n})) = Total(SizeOf(f), DOMAIN f \ {n})
  BY <1>1, BytesPart
<1>3. IsFiniteSet(DOMAIN f) /\ \A m \in DOMAIN f : SizeOf(f)[m] \in Nat
  BY DEF HasSizes, SizeOf
<1>4. Total(SizeOf(f), DOMAIN f) = SizeOf(f)[n] + Total(SizeOf(f), DOMAIN f \ {n})
  BY <1>3, TotalRemove
<1>5. SizeOf(f)[n] = f[n].size
  BY DEF SizeOf
<1> QED
  BY <1>2, <1>4, <1>5, BytesDef

LEMMA BytesPut ==
  ASSUME NEW f, NEW n, NEW v, HasSizes(f), v.size \in Nat
  PROVE  /\ Bytes(Put(f, n, v)) = v.size + Bytes(Drop(f, {n}))
         /\ HasSizes(Put(f, n, v))
<1> DEFINE g == Put(f, n, v)
<1>1. DOMAIN g = DOMAIN f \cup {n} /\ g[n] = v /\ \A m \in DOMAIN f : m # n => g[m] = f[m]
  BY DEF Put
<1> HIDE DEF g
<1>2. HasSizes(g)
  BY <1>1, FS_AddElement DEF HasSizes
<1>3. Bytes(g) = v.size + Bytes(Drop(g, {n}))
  BY <1>1, <1>2, BytesOne
<1>4. /\ DOMAIN Drop(g, {n}) = DOMAIN f \ {n} /\ DOMAIN Drop(f, {n}) = DOMAIN f \ {n}
      /\ \A m \in DOMAIN f \ {n} : Drop(g, {n})[m] = f[m] /\ Drop(f, {n})[m] = f[m]
  BY <1>1 DEF Drop
<1>5. HasSizes(Drop(f, {n}))
  BY BytesSplit
<1>6. Bytes(Drop(g, {n})) = Bytes(Drop(f, {n}))
  BY <1>4, <1>5, BytesSame
<1> QED
  BY <1>2, <1>3, <1>6 DEF g

-----------------------------------------------------------------------------
(* The index and the directory. *)
LEMMA InMaps ==
  ASSUME NEW V, NEW f
  PROVE  /\ f \in MapsTo(V) => DOMAIN f \in SUBSET Names /\ \A n \in DOMAIN f : f[n] \in V
         /\ \A D \in SUBSET Names : f \in [D -> V] => f \in MapsTo(V)
BY DEF MapsTo

LEMMA MapsDrop ==
  ASSUME NEW V, NEW f \in MapsTo(V), NEW S
  PROVE  /\ Drop(f, S) \in MapsTo(V) /\ DOMAIN Drop(f, S) = DOMAIN f \ S
         /\ \A n \in DOMAIN f \ S : Drop(f, S)[n] = f[n]
<1>1. DOMAIN f \in SUBSET Names /\ \A n \in DOMAIN f : f[n] \in V
  BY InMaps
<1>2. DOMAIN f \ S \in SUBSET Names /\ Drop(f, S) \in [DOMAIN f \ S -> V]
  BY <1>1 DEF Drop
<1>3. Drop(f, S) \in MapsTo(V)
  BY <1>2, InMaps
<1> QED
  BY <1>3 DEF Drop

LEMMA PutDomain == ASSUME NEW f, NEW n, NEW v PROVE DOMAIN Put(f, n, v) = DOMAIN f \cup {n}
BY DEF Put

LEMMA PutNew == ASSUME NEW f, NEW n, NEW v PROVE Put(f, n, v)[n] = v
BY DEF Put

LEMMA PutOld == ASSUME NEW f, NEW n, NEW v, NEW m \in DOMAIN f, m # n PROVE Put(f, n, v)[m] = f[m]
BY DEF Put

LEMMA MapsPut ==
  ASSUME NEW V, NEW f \in MapsTo(V), NEW n \in Names, NEW v \in V
  PROVE  Put(f, n, v) \in MapsTo(V)
<1>1. DOMAIN f \in SUBSET Names /\ \A m \in DOMAIN f : f[m] \in V
  BY InMaps
<1>2. DOMAIN f \cup {n} \in SUBSET Names /\ Put(f, n, v) \in [DOMAIN f \cup {n} -> V]
  BY <1>1 DEF Put
<1> QED
  BY <1>2, InMaps

LEMMA Sized ==
  ASSUME NEW f, f \in MapsTo(Indexed) \/ f \in MapsTo(StoredFile)
  PROVE  HasSizes(f) /\ IsFiniteSet(DOMAIN f) /\ Cardinality(DOMAIN f) \in Nat
<1>1. DOMAIN f \in SUBSET Names /\ \A n \in DOMAIN f : f[n] \in Indexed \/ f[n] \in StoredFile
  BY InMaps
<1>2. \A n \in DOMAIN f : f[n].size \in Nat
  BY <1>1 DEF Indexed, StoredFile
<1>3. IsFiniteSet(DOMAIN f)
  BY <1>1, NamesFinite, FS_Subset
<1> QED
  BY <1>2, <1>3, FS_CardinalityType DEF HasSizes

LEMMA EntryOf == ASSUME NEW f \in StoredFile PROVE IndexEntry(f) \in Indexed /\ IndexEntry(f).size = f.size /\ IndexEntry(f).mod = f.mod
BY DEF IndexEntry, Indexed, StoredFile

(* Files that are no longer there need not be excepted, and fewer files    *)
(* are excepted within the same bound.                                     *)
LEMMA FewerOverlooked ==
  ASSUME NEW o \in SUBSET Names, NEW w, w \subseteq o, NEW lost \in Nat, Cardinality(o) <= lost
  PROVE  w \in SUBSET Names /\ Cardinality(w) <= lost /\ (lost = 0 => o = {})
<1>1. IsFiniteSet(o)
  BY NamesFinite, FS_Subset
<1>2. Cardinality(w) <= Cardinality(o) /\ Cardinality(w) \in Nat /\ Cardinality(o) \in Nat
  BY <1>1, FS_Subset, FS_CardinalityType
<1>3. Cardinality(w) <= lost
  BY <1>2
<1>4. lost = 0 => o = {}
  BY <1>1, <1>2, FS_EmptySet
<1> QED
  BY <1>3, <1>4

LEMMA OnlyPresent ==
  ASSUME NEW i, NEW f, NEW t, NEW o, NEW lost \in Nat, CountsDisk(i, f, t, o, lost)
  PROVE  CountsDisk(i, f, t, o \cap DOMAIN f, lost)
<1>1. o \in SUBSET Names /\ Cardinality(o) <= lost
  BY DEF CountsDisk
<1>2. o \cap DOMAIN f \in SUBSET Names /\ Cardinality(o \cap DOMAIN f) <= lost
  BY <1>1, FewerOverlooked
<1>3. \A n \in DOMAIN f \ (o \cap DOMAIN f) : n \in DOMAIN f \ o
  OBVIOUS
<1> QED
  BY <1>2, <1>3 DEF CountsDisk

(* Opening the index counts what the listing sees. *)
LEMMA EnsureCounts ==
  ASSUME NEW t \in Nat, NEW i \in IndexType, NEW f, NEW o, NEW lost \in Nat, Directory(f, t),
         i.loaded => CountsDisk(i, f, t, o, lost),
         NEW unseen \in SUBSET Names, Cardinality(unseen) <= lost
  PROVE  CountsDisk(ensureResponsesIndexLocked(i, f, unseen), f, t, IF i.loaded THEN o ELSE unseen, lost)
<1> DEFINE seen == Drop(f, unseen)
           g == [n \in DOMAIN seen |-> IndexEntry(seen[n])]
           j == [loaded |-> TRUE, files |-> g, total |-> Bytes(seen)]
<1>1. CASE i.loaded
  BY <1>1 DEF ensureResponsesIndexLocked
<1>2. CASE ~i.loaded
  <2>0. seen \in MapsTo(StoredFile) /\ DOMAIN seen = DOMAIN f \ unseen /\ \A n \in DOMAIN f \ unseen : seen[n] = f[n]
    BY MapsDrop DEF Directory
  <2>7. ensureResponsesIndexLocked(i, f, unseen) = j
    BY <1>2 DEF ensureResponsesIndexLocked
  <2> HIDE DEF seen
  <2>1. DOMAIN seen \in SUBSET Names /\ \A n \in DOMAIN seen : seen[n] \in StoredFile /\ seen[n].mod <= t
    <3>1. DOMAIN seen \in SUBSET Names /\ \A n \in DOMAIN seen : seen[n] \in StoredFile
      BY <2>0, InMaps
    <3>2. \A n \in DOMAIN seen : seen[n].mod <= t
      BY <2>0 DEF Directory
    <3> QED
      BY <3>1, <3>2
  <2>2. \A n \in DOMAIN seen : IndexEntry(seen[n]) \in Indexed /\ IndexEntry(seen[n]).size = seen[n].size /\ IndexEntry(seen[n]).mod = seen[n].mod
    BY <2>1, EntryOf
  <2>3. g \in [DOMAIN seen -> Indexed] /\ DOMAIN g = DOMAIN seen /\ \A n \in DOMAIN seen : g[n] = IndexEntry(seen[n])
    BY <2>2
  <2> HIDE DEF g
  <2>4. g \in MapsTo(Indexed)
    BY <2>1, <2>3, InMaps
  <2>5. Bytes(seen) \in Nat /\ Bytes(g) = Bytes(seen)
    BY <2>0, <2>1, <2>2, <2>3, Sized, BytesNat, BytesSame
  <2>6. j \in IndexType /\ j.loaded /\ j.files = g /\ j.total = Bytes(g)
    BY <2>4, <2>5 DEF IndexType
  <2> HIDE DEF j
  <2>8. \A n \in DOMAIN f \ unseen : n \in DOMAIN g /\ g[n] = IndexEntry(f[n])
    BY <2>0, <2>3
  <2>9. \A n \in DOMAIN g : g[n].mod <= t
    BY <2>1, <2>2, <2>3
  <2>10. lost = 0 => DOMAIN g = DOMAIN f
    <3>1. lost = 0 => unseen = {}
      BY FewerOverlooked
    <3> QED
      BY <2>0, <2>3, <3>1
  <2>11. CountsDisk(j, f, t, unseen, lost)
    BY <2>6, <2>8, <2>9, <2>10 DEF CountsDisk
  <2> QED
    BY <1>2, <2>7, <2>11
<1> QED
  BY <1>1, <1>2

LEMMA CommitCounts ==
  ASSUME NEW t \in Nat, NEW i, NEW f, NEW o, NEW lost \in Nat, Directory(f, t), CountsDisk(i, f, t, o, lost),
         NEW n \in Names, NEW v \in StoredFile, v.mod <= t
  PROVE  /\ CountsDisk(commitResponseFileLocked(i, n, v), Put(f, n, v), t, o \ {n}, lost)
         /\ Directory(Put(f, n, v), t)
<1> DEFINE e == IndexEntry(v)
           g == Put(i.files, n, e)
           h == Put(f, n, v)
           total == i.total + v.size - (IF n \in DOMAIN i.files THEN i.files[n].size ELSE 0)
           j == commitResponseFileLocked(i, n, v)
<1>1. i \in IndexType /\ i.files \in MapsTo(Indexed) /\ i.loaded /\ i.total \in Nat /\ i.total = Bytes(i.files)
  BY DEF CountsDisk, IndexType
<1>2. e \in Indexed /\ e.size = v.size /\ e.mod = v.mod /\ v.size \in Nat
  <2>1. v.size \in Nat
    BY DEF StoredFile
  <2> QED
    BY <2>1, EntryOf
<1> HIDE DEF e, g, h, total, j
<1>3. /\ g \in MapsTo(Indexed) /\ DOMAIN g = DOMAIN i.files \cup {n}
      /\ g[n] = e /\ \A m \in DOMAIN i.files : m # n => g[m] = i.files[m]
  <2>1. g \in MapsTo(Indexed)
    BY <1>1, <1>2, MapsPut DEF g
  <2>2. DOMAIN g = DOMAIN i.files \cup {n}
    BY PutDomain DEF g
  <2>3. g[n] = e
    BY PutNew DEF g
  <2>4. \A m \in DOMAIN i.files : m # n => g[m] = i.files[m]
    BY PutOld DEF g
  <2> QED
    BY <2>1, <2>2, <2>3, <2>4
<1>4. /\ h \in MapsTo(StoredFile) /\ DOMAIN h = DOMAIN f \cup {n}
      /\ h[n] = v /\ \A m \in DOMAIN f : m # n => h[m] = f[m]
  <2>1. f \in MapsTo(StoredFile)
    BY DEF Directory
  <2>2. h \in MapsTo(StoredFile)
    BY <2>1, MapsPut DEF h
  <2>3. DOMAIN h = DOMAIN f \cup {n}
    BY PutDomain DEF h
  <2>4. h[n] = v
    BY PutNew DEF h
  <2>5. \A m \in DOMAIN f : m # n => h[m] = f[m]
    BY PutOld DEF h
  <2> QED
    BY <2>2, <2>3, <2>4, <2>5
<1>5. HasSizes(i.files)
  BY <1>1, Sized
<1>6. Bytes(g) = v.size + Bytes(Drop(i.files, {n})) /\ Bytes(Drop(i.files, {n})) \in Nat
  <2>1. Bytes(Put(i.files, n, e)) = e.size + Bytes(Drop(i.files, {n}))
    BY <1>2, <1>5, BytesPut
  <2> QED
    BY <1>2, <1>5, <2>1, BytesSplit DEF g
<1>7. total = Bytes(g)
  <2>1. CASE n \in DOMAIN i.files
    <3>1. Bytes(i.files) = i.files[n].size + Bytes(Drop(i.files, {n})) /\ i.files[n].size \in Nat
      BY <1>5, <2>1, BytesOne DEF HasSizes
    <3> QED
      BY <1>1, <1>2, <1>6, <2>1, <3>1 DEF total
  <2>2. CASE n \notin DOMAIN i.files
    <3>1. DOMAIN Drop(i.files, {n}) = DOMAIN i.files /\ \A m \in DOMAIN i.files : Drop(i.files, {n})[m].size = i.files[m].size
      BY <2>2 DEF Drop
    <3>2. Bytes(Drop(i.files, {n})) = Bytes(i.files)
      BY <1>5, <3>1, BytesSame
    <3> QED
      BY <1>1, <1>2, <1>6, <2>2, <3>2 DEF total
  <2> QED
    BY <2>1, <2>2
<1>8. j = [i EXCEPT !.files = g, !.total = total]
  BY DEF commitResponseFileLocked, e, g, total, j
<1>9. total \in Nat
  BY <1>2, <1>6, <1>7
<1>10. j \in IndexType /\ j.loaded /\ j.files = g /\ j.total = total
  BY <1>1, <1>3, <1>8, <1>9 DEF IndexType
<1>11. \A m \in DOMAIN h \ (o \ {n}) : m \in DOMAIN j.files /\ j.files[m] = IndexEntry(h[m])
  <2> SUFFICES ASSUME NEW m \in DOMAIN h \ (o \ {n}) PROVE m \in DOMAIN j.files /\ j.files[m] = IndexEntry(h[m])
    OBVIOUS
  <2>1. CASE m = n
    BY <1>3, <1>4, <1>10, <2>1 DEF e
  <2>2. CASE m # n
    <3>1. m \in DOMAIN f \ o
      BY <1>4, <2>2
    <3>2. m \in DOMAIN i.files /\ i.files[m] = IndexEntry(f[m])
      BY <3>1 DEF CountsDisk
    <3> QED
      BY <1>3, <1>4, <1>10, <2>2, <3>1, <3>2
  <2> QED
    BY <2>1, <2>2
<1>12. \A m \in DOMAIN j.files : j.files[m].mod <= t
  BY <1>2, <1>3, <1>10 DEF CountsDisk
<1>13. lost = 0 => DOMAIN j.files = DOMAIN h
  BY <1>3, <1>4, <1>10 DEF CountsDisk
<1>14. CountsDisk(j, h, t, o \ {n}, lost)
  <2>1. o \ {n} \in SUBSET Names /\ Cardinality(o \ {n}) <= lost
    BY FewerOverlooked DEF CountsDisk
  <2> QED
    BY <1>7, <1>10, <1>11, <1>12, <1>13, <2>1 DEF CountsDisk
<1>15. Directory(h, t)
  BY <1>4 DEF Directory
<1> QED
  BY <1>14, <1>15 DEF j, h

LEMMA RemoveCounts ==
  ASSUME NEW t \in Nat, NEW i, NEW f, NEW o, NEW lost \in Nat, Directory(f, t), CountsDisk(i, f, t, o, lost), NEW S
  PROVE  /\ CountsDisk(removeResponseFileLocked(i, S), Drop(f, S), t, o, lost)
         /\ removeResponseFileLocked(i, S).files = Drop(i.files, S)
         /\ Directory(Drop(f, S), t)
<1> DEFINE g == Drop(i.files, S)
           rest == Bytes(Part(i.files, S))
           j == removeResponseFileLocked(i, S)
<1>1. i \in IndexType /\ i.files \in MapsTo(Indexed) /\ i.loaded /\ i.total \in Nat /\ i.total = Bytes(i.files)
  BY DEF CountsDisk, IndexType
<1>2. /\ g \in MapsTo(Indexed) /\ DOMAIN g = DOMAIN i.files \ S
      /\ \A m \in DOMAIN i.files \ S : g[m] = i.files[m]
  <2>1. g \in MapsTo(Indexed)
    BY <1>1, MapsDrop
  <2>2. DOMAIN g = DOMAIN i.files \ S /\ \A m \in DOMAIN i.files \ S : g[m] = i.files[m]
    BY DEF Drop
  <2> HIDE DEF g
  <2> QED
    BY <2>1, <2>2
<1>3. /\ Drop(f, S) \in MapsTo(StoredFile) /\ DOMAIN Drop(f, S) = DOMAIN f \ S
      /\ \A m \in DOMAIN f \ S : Drop(f, S)[m] = f[m]
  <2>1. Drop(f, S) \in MapsTo(StoredFile)
    BY MapsDrop DEF Directory
  <2>2. DOMAIN Drop(f, S) = DOMAIN f \ S /\ \A m \in DOMAIN f \ S : Drop(f, S)[m] = f[m]
    BY DEF Drop
  <2> QED
    BY <2>1, <2>2
<1>4. i.total = Bytes(g) + rest /\ Bytes(g) \in Nat /\ rest \in Nat
  BY <1>1, Sized, BytesSplit
<1> HIDE DEF g
<1>5. Max({0, i.total - rest}) = Bytes(g)
  <2>1. i.total - rest = Bytes(g)
    BY <1>4
  <2>2. Max({0, Bytes(g)}) = Bytes(g)
    <3>1. \A x \in {0, Bytes(g)} : Bytes(g) >= x
      BY <1>4
    <3>2. \A x \in {0, Bytes(g)} : (\A y \in {0, Bytes(g)} : x >= y) => x = Bytes(g)
      BY <1>4
    <3> QED
      BY <3>1, <3>2 DEF Max
  <2> QED
    BY <2>1, <2>2
<1>6. j = [i EXCEPT !.files = g, !.total = Max({0, i.total - rest})]
  BY DEF removeResponseFileLocked, Part, g
<1> HIDE DEF rest
<1>7. j \in IndexType /\ j.loaded /\ j.files = g /\ j.total = Bytes(g)
  BY <1>1, <1>2, <1>4, <1>5, <1>6 DEF IndexType
<1> HIDE DEF j
<1>8. \A m \in DOMAIN Drop(f, S) \ o : m \in DOMAIN j.files /\ j.files[m] = IndexEntry(Drop(f, S)[m])
  BY <1>2, <1>3, <1>7 DEF CountsDisk
<1>9. \A m \in DOMAIN j.files : j.files[m].mod <= t
  BY <1>2, <1>7 DEF CountsDisk
<1>10. lost = 0 => DOMAIN j.files = DOMAIN Drop(f, S)
  BY <1>2, <1>3, <1>7 DEF CountsDisk
<1>11. CountsDisk(j, Drop(f, S), t, o, lost)
  BY <1>7, <1>8, <1>9, <1>10 DEF CountsDisk
<1>12. Directory(Drop(f, S), t)
  BY <1>3 DEF Directory
<1> QED
  BY <1>7, <1>11, <1>12 DEF j, g

-----------------------------------------------------------------------------
(* What the limits drop. *)
LEMMA PositionIs == ASSUME NEW n \in Names PROVE Position(n) \in 1 .. Len(ResponseIds) /\ ResponseIds[Position(n)] = n
<1>1. ResponseIds \in Seq(ToSet(ResponseIds))
  BY ResponsesAssumption
<1>2. DOMAIN ResponseIds = 1 .. Len(ResponseIds)
  BY <1>1, LenProperties
<1>3. \E k \in 1 .. Len(ResponseIds) : ResponseIds[k] = n
  BY <1>2 DEF Names, ToSet
<1> QED
  BY <1>3 DEF Position

LEMMA LengthNat == Len(ResponseIds) \in Nat
BY ResponsesAssumption, LenProperties

(* Some file is the newest, so all may be passed. *)
LEMMA AllPassed ==
  ASSUME NEW t \in Nat, NEW i \in IndexType, \A n \in DOMAIN i.files : i.files[n].mod <= t
  PROVE  DOMAIN i.files \in Passed(i)
<1> DEFINE D == DOMAIN i.files
<1>1. i.files \in MapsTo(Indexed)
  BY DEF IndexType
<1>2. D \in SUBSET Names /\ \A n \in D : i.files[n].mod \in 0 .. t
  <2>1. D \in SUBSET Names /\ \A n \in D : i.files[n] \in Indexed
    BY <1>1, InMaps
  <2> QED
    BY <2>1 DEF Indexed
<1>3. CASE D = {}
  BY <1>3 DEF Passed
<1>4. CASE D # {}
  <2> DEFINE times == {i.files[n].mod : n \in D}
  <2>1. times \in SUBSET (0 .. t) /\ times # {}
    BY <1>2, <1>4
  <2> HIDE DEF times
  <2>2. PICK last \in times : \A x \in times : x <= last
    BY <2>1, GreatestNat
  <2> DEFINE new == {n \in D : i.files[n].mod = last}
             places == {Position(n) : n \in new}
  <2>3. PICK n0 \in D : i.files[n0].mod = last
    BY DEF times
  <2>4. new # {} /\ \A n \in new : Position(n) \in 0 .. Len(ResponseIds)
    BY <1>2, <2>3, PositionIs, LengthNat
  <2>5. places \in SUBSET (0 .. Len(ResponseIds)) /\ places # {}
    BY <2>4
  <2>6. PICK far \in places : \A x \in places : x <= far
    <3> HIDE DEF places
    <3> QED
      BY <2>5, LengthNat, GreatestNat
  <2>7. PICK n \in new : Position(n) = far
    OBVIOUS
  <2>8. ASSUME NEW m \in D, m # n PROVE Older(i, m, n)
    <3>1. i.files[m].mod <= last /\ i.files[m].mod \in Nat /\ last \in Nat /\ i.files[n].mod = last
      BY <1>2, <2>1, <2>2, <2>7 DEF times
    <3>2. CASE i.files[m].mod < last
      BY <3>1, <3>2 DEF Older
    <3>3. CASE i.files[m].mod = last
      <4>1. Position(m) <= Position(n)
        BY <2>6, <2>7, <3>3
      <4>2. Position(m) # Position(n) /\ Position(m) \in Int /\ Position(n) \in Int
        BY <1>2, <2>7, <2>8, PositionIs, LengthNat
      <4> QED
        BY <3>1, <3>3, <4>1, <4>2 DEF Older
    <3> QED
      BY <3>1, <3>2, <3>3
  <2>9. D = {m \in D : m = n \/ Older(i, m, n)} /\ n \in D
    BY <2>7, <2>8
  <2> QED
    BY <2>9 DEF Passed
<1> QED
  BY <1>3, <1>4

(* What is passed is no newer than what is not. *)
LEMMA PassedOlder ==
  ASSUME NEW i \in IndexType, NEW p \in Passed(i), NEW m \in p, NEW x \in DOMAIN i.files \ p
  PROVE  m \in DOMAIN i.files /\ i.files[m].mod <= i.files[x].mod
<1>1. PICK n \in DOMAIN i.files : p = {k \in DOMAIN i.files : k = n \/ Older(i, k, n)}
  BY DEF Passed
<1>2. m \in DOMAIN i.files /\ (m = n \/ Older(i, m, n)) /\ x # n /\ ~Older(i, x, n)
  BY <1>1
<1>3. \A k \in DOMAIN i.files : i.files[k].mod \in Nat
  <2>1. i.files \in MapsTo(Indexed)
    BY DEF IndexType
  <2>2. \A k \in DOMAIN i.files : i.files[k] \in Indexed
    BY <2>1, InMaps
  <2> QED
    BY <2>2 DEF Indexed
<1>4. i.files[m].mod <= i.files[n].mod
  BY <1>2, <1>3 DEF Older
<1>5. i.files[n].mod <= i.files[x].mod
  BY <1>2, <1>3 DEF Older
<1> QED
  BY <1>1, <1>2, <1>3, <1>4, <1>5

LEMMA PassedSub == ASSUME NEW i, NEW p \in Passed(i) PROVE p \subseteq DOMAIN i.files
BY DEF Passed

(* The least that may be passed is passed. *)
LEMMA DroppedIs ==
  ASSUME NEW t \in Nat, NEW i \in IndexType, \A n \in DOMAIN i.files : i.files[n].mod <= t, NEW stuck
  PROVE  \E p \in Passed(i) : /\ Dropped(i, stuck) = p \ stuck
                              /\ p = DOMAIN i.files \/ WithinLimits(i, p, stuck)
<1> DEFINE enough == {p \in Passed(i) : p = DOMAIN i.files \/ WithinLimits(i, p, stuck)}
           sizes == {Cardinality(p) : p \in enough}
<1>1. DOMAIN i.files \in enough
  BY AllPassed
<1>2. IsFiniteSet(DOMAIN i.files)
  <2>1. i.files \in MapsTo(Indexed)
    BY DEF IndexType
  <2> QED
    BY <2>1, Sized
<1>3. \A p \in enough : Cardinality(p) \in Nat
  BY <1>2, PassedSub, FS_Subset, FS_CardinalityType
<1>4. PICK q \in enough : TRUE
  BY <1>1
<1>5. Cardinality(q) \in sizes /\ Cardinality(q) \in Nat /\ \A x \in sizes : x \in Nat
  BY <1>3
<1>6. PICK k \in sizes : \A x \in sizes : k <= x
  <2> HIDE DEF sizes
  <2> QED
    BY <1>5, LeastNat
<1>7. PICK first \in enough : Cardinality(first) = k
  OBVIOUS
<1>8. \E p \in enough : \A r \in enough : Cardinality(p) <= Cardinality(r)
  BY <1>6, <1>7
<1> DEFINE p0 == CHOOSE p \in enough : \A r \in enough : Cardinality(p) <= Cardinality(r)
<1>9. p0 \in enough
  BY <1>8
<1>10. Dropped(i, stuck) = p0 \ stuck
  BY DEF Dropped
<1> HIDE DEF p0
<1> QED
  BY <1>9, <1>10

LEMMA CountsType ==
  ASSUME NEW t, NEW i, NEW f, NEW o, NEW lost, CountsDisk(i, f, t, o, lost)
  PROVE  /\ i \in IndexType /\ i.files \in MapsTo(Indexed) /\ i.total = Bytes(i.files)
         /\ \A n \in DOMAIN i.files : i.files[n].mod \in Nat /\ i.files[n].mod <= t
         /\ IsFiniteSet(DOMAIN i.files)
<1>1. i \in IndexType /\ i.total = Bytes(i.files) /\ \A n \in DOMAIN i.files : i.files[n].mod <= t
  BY DEF CountsDisk
<1>2. i.files \in MapsTo(Indexed)
  BY <1>1 DEF IndexType
<1>3. \A n \in DOMAIN i.files : i.files[n] \in Indexed
  BY <1>2, InMaps
<1>4. \A n \in DOMAIN i.files : i.files[n].mod \in Nat
  BY <1>3 DEF Indexed
<1> QED
  BY <1>1, <1>2, <1>4, Sized

Latest(i, S, sofar) == Max({sofar} \cup ({0} \cup {i.files[n].mod : n \in S}))

LEMMA LatestIs ==
  ASSUME NEW t \in Nat, NEW i, NEW f, NEW o, NEW lost, CountsDisk(i, f, t, o, lost),
         NEW S \in SUBSET DOMAIN i.files, NEW sofar \in 0 .. t
  PROVE  /\ Latest(i, S, sofar) \in 0 .. t
         /\ Latest(i, S, sofar) \in {sofar, 0} \/ \E n \in S : Latest(i, S, sofar) = i.files[n].mod
<1> DEFINE times == {sofar} \cup ({0} \cup {i.files[n].mod : n \in S})
<1>1. times \in SUBSET (0 .. t) /\ times # {}
  BY CountsType
<1>2. \A x \in times : x \in {sofar, 0} \/ \E n \in S : x = i.files[n].mod
  OBVIOUS
<1> HIDE DEF times
<1>3. \E x \in times : \A y \in times : y <= x
  BY <1>1, GreatestNat
<1>4. \E x \in times : \A y \in times : x >= y
  BY <1>1, <1>3
<1>5. Max(times) \in times
  BY <1>4 DEF Max
<1>6. Latest(i, S, sofar) = Max(times)
  BY DEF Latest, times
<1> QED
  BY <1>1, <1>2, <1>5, <1>6

(* Enforcing the limits leaves what they allow, and drops the oldest. *)
LEMMA Enforced ==
  ASSUME NEW t \in Nat, NEW i, NEW f, NEW o, NEW lost \in Nat, Directory(f, t), CountsDisk(i, f, t, o, lost),
         NEW stuck, IsFiniteSet(stuck),
         NEW sofar \in 0 .. t, lost = 0 => \A n \in DOMAIN f : f[n].mod >= sofar,
         NEW S, S = Dropped(i, stuck)
  PROVE  /\ CountsDisk(removeResponseFileLocked(i, S), Drop(f, S), t, o, lost) /\ Directory(Drop(f, S), t)
         /\ Latest(i, S, sofar) \in 0 .. t
         /\ Limited(Drop(f, S), lost + Cardinality(stuck), Latest(i, S, sofar), 0)
<1> DEFINE D == DOMAIN i.files
           g == Drop(f, S)
           j == removeResponseFileLocked(i, S)
<1>1. i \in IndexType /\ i.files \in MapsTo(Indexed) /\ IsFiniteSet(D) /\ \A n \in D : i.files[n].mod \in Nat /\ i.files[n].mod <= t
  BY CountsType
<1>2. PICK p \in Passed(i) : S = p \ stuck /\ (p = D \/ WithinLimits(i, p, stuck))
  BY <1>1, DroppedIs
<1>3. p \subseteq D /\ S \in SUBSET D
  BY <1>2, PassedSub
<1>4. CountsDisk(j, g, t, o, lost) /\ j.files = Drop(i.files, S) /\ Directory(g, t)
  BY RemoveCounts
<1>5. Latest(i, S, sofar) \in 0 .. t /\ (Latest(i, S, sofar) \in {sofar, 0} \/ \E n \in S : Latest(i, S, sofar) = i.files[n].mod)
  BY <1>3, LatestIs
<1>6. DOMAIN f \ o \subseteq D /\ (\A n \in DOMAIN f \ o : i.files[n] = IndexEntry(f[n])) /\ DOMAIN g = DOMAIN f \ S
      /\ (\A n \in DOMAIN f \ S : g[n] = f[n]) /\ (\A n \in DOMAIN f : f[n] \in StoredFile)
  <2>1. f \in MapsTo(StoredFile)
    BY DEF Directory
  <2>2. DOMAIN g = DOMAIN f \ S /\ \A n \in DOMAIN f \ S : g[n] = f[n]
    BY DEF Drop
  <2>3. \A n \in DOMAIN f : f[n] \in StoredFile
    BY <2>1, InMaps
  <2> QED
    BY <2>2, <2>3 DEF CountsDisk
<1>7. MaxFiles \in Nat /\ MaxBytes \in Nat /\ Cardinality(stuck) \in Nat
  BY ResponsesAssumption, FS_CardinalityType
<1> HIDE DEF D, g, j
<1>8. Cardinality(DOMAIN g) <= MaxFiles + (lost + Cardinality(stuck))
  <2> DEFINE rest == stuck \cup o
  <2>1. IsFiniteSet(D \ p) /\ DOMAIN g \subseteq (D \ p) \cup rest
    BY <1>1, <1>2, <1>6, FS_Subset
  <2>0. IsFiniteSet(rest) /\ Cardinality(rest) \in Nat /\ Cardinality(rest) <= lost + Cardinality(stuck)
    <3>1. IsFiniteSet(o) /\ Cardinality(o) <= lost
      BY NamesFinite, FS_Subset DEF CountsDisk
    <3>2. /\ IsFiniteSet(rest) /\ IsFiniteSet(stuck \cap o)
          /\ Cardinality(rest) = Cardinality(stuck) + Cardinality(o) - Cardinality(stuck \cap o)
      BY <3>1, FS_Union, FS_Intersection
    <3>3. Cardinality(stuck \cap o) \in Nat /\ Cardinality(o) \in Nat /\ Cardinality(rest) \in Nat
      BY <3>1, <3>2, FS_CardinalityType
    <3> HIDE DEF rest
    <3> QED
      BY <1>7, <3>1, <3>2, <3>3
  <2> HIDE DEF rest
  <2>2. IsFiniteSet((D \ p) \cup rest) /\ Cardinality((D \ p) \cup rest) <= Cardinality(D \ p) + Cardinality(rest)
    <3>1. /\ IsFiniteSet((D \ p) \cup rest) /\ IsFiniteSet((D \ p) \cap rest)
          /\ Cardinality((D \ p) \cup rest) = Cardinality(D \ p) + Cardinality(rest) - Cardinality((D \ p) \cap rest)
      BY <2>0, <2>1, FS_Union, FS_Intersection
    <3>2. Cardinality((D \ p) \cap rest) \in Nat /\ Cardinality(D \ p) \in Nat
      BY <2>1, <3>1, FS_CardinalityType
    <3> QED
      BY <2>0, <3>1, <3>2
  <2>3. Cardinality(DOMAIN g) <= Cardinality((D \ p) \cup rest) /\ Cardinality(DOMAIN g) \in Nat
        /\ Cardinality((D \ p) \cup rest) \in Nat
    BY <2>1, <2>2, FS_Subset, FS_CardinalityType
  <2>4. Cardinality(D \ p) <= MaxFiles /\ Cardinality(D \ p) \in Nat
    <3>1. CASE p = D
      <4>1. D \ p = {}
        BY <3>1
      <4> QED
        BY <1>7, <4>1, FS_EmptySet
    <3>2. CASE WithinLimits(i, p, stuck)
      BY <2>1, <3>2, FS_CardinalityType DEF WithinLimits, D
    <3> QED
      BY <1>2, <3>1, <3>2
  <2> QED
    BY <1>7, <2>0, <2>2, <2>3, <2>4
<1>9. ASSUME lost + Cardinality(stuck) = 0
      PROVE  Bytes(g) <= MaxBytes /\ \A n \in DOMAIN g : g[n].mod >= Latest(i, S, sofar)
  <2>1. lost = 0 /\ stuck = {}
    BY <1>7, <1>9, FS_EmptySet
  <2>2. S = p /\ o = {}
    <3>1. o = {}
      BY <2>1, FewerOverlooked DEF CountsDisk
    <3> QED
      BY <1>2, <2>1, <3>1
  <2>3. DOMAIN j.files = DOMAIN g /\ j.total = Bytes(j.files) /\ HasSizes(g) /\ \A n \in DOMAIN g : j.files[n] = IndexEntry(g[n])
    BY <1>4, <2>1, <2>2, Sized DEF CountsDisk, Directory
  <2>4. Bytes(j.files) = Bytes(g)
    <3>1. \A n \in DOMAIN g : j.files[n].size = g[n].size
      <4>1. \A n \in DOMAIN g : g[n] \in StoredFile
        BY <1>6
      <4>2. \A n \in DOMAIN g : IndexEntry(g[n]).size = g[n].size
        BY <4>1, EntryOf
      <4> QED
        BY <2>3, <4>2
    <3> QED
      BY <2>3, <3>1, BytesSame
  <2>5. Bytes(g) <= MaxBytes
    <3>1. CASE p = D
      <4>1. DOMAIN g = {}
        BY <1>6, <2>2, <3>1
      <4>2. Bytes(g) = 0
        BY <4>1, BytesDef, TotalEmpty
      <4> QED
        BY <1>7, <4>2
    <3>2. CASE WithinLimits(i, p, stuck)
      <4>1. removeResponseFileLocked(i, p \ stuck).total <= MaxBytes
        BY <3>2 DEF WithinLimits
      <4> QED
        BY <1>2, <2>3, <2>4, <4>1 DEF j
    <3> QED
      BY <1>2, <3>1, <3>2
  <2>6. ASSUME NEW n \in DOMAIN g PROVE g[n].mod >= Latest(i, S, sofar)
    <3>1. n \in DOMAIN f /\ n \in D /\ n \notin S /\ g[n] = f[n] /\ f[n] \in StoredFile /\ i.files[n] = IndexEntry(f[n])
      BY <1>6, <2>2
    <3>2. g[n].mod = i.files[n].mod /\ g[n].mod \in Nat
      BY <3>1 DEF IndexEntry, StoredFile
    <3>3. g[n].mod >= sofar
      BY <2>1, <3>1
    <3>4. \A m \in S : i.files[m].mod <= i.files[n].mod
      <4>1. n \in D \ p
        BY <2>2, <3>1
      <4>2. \A m \in p : i.files[m].mod <= i.files[n].mod
        BY <1>1, <4>1, PassedOlder DEF D
      <4> QED
        BY <2>2, <4>2
    <3> QED
      BY <1>5, <3>2, <3>3, <3>4
  <2> QED
    BY <2>5, <2>6
<1>10. lost + Cardinality(stuck) = 0 => Bytes(g) <= MaxBytes + 0 /\ \A n \in DOMAIN g : g[n].mod >= Latest(i, S, sofar)
  BY <1>7, <1>9
<1> QED
  BY <1>4, <1>5, <1>8, <1>10 DEF Limited, g, j

-----------------------------------------------------------------------------
(* The operations. *)
LEMMA StaysWithin ==
  ASSUME NEW f, NEW g, NEW t \in Nat, NEW lost \in Nat, NEW sofar \in 0 .. t, Directory(f, t), Directory(g, t),
         NEW over \in Nat, Limited(f, lost, sofar, over), NEW more \in Nat,
         DOMAIN g \subseteq DOMAIN f, \A n \in DOMAIN g : g[n].size = f[n].size /\ g[n].mod >= f[n].mod
  PROVE  Limited(g, lost + more, sofar, over)
<1>1. /\ HasSizes(f) /\ HasSizes(g) /\ IsFiniteSet(DOMAIN f) /\ Cardinality(DOMAIN f) \in Nat /\ Cardinality(DOMAIN g) \in Nat
  BY Sized DEF Directory
<1>2. Cardinality(DOMAIN g) <= Cardinality(DOMAIN f)
  BY <1>1, FS_Subset
<1>3. Cardinality(DOMAIN f) <= MaxFiles + lost /\ MaxFiles \in Nat /\ MaxBytes \in Nat
  BY ResponsesAssumption DEF Limited
<1>4. ASSUME lost + more = 0 PROVE Bytes(g) <= MaxBytes + over /\ \A n \in DOMAIN g : g[n].mod >= sofar
  <2>1. Bytes(f) <= MaxBytes + over /\ \A n \in DOMAIN f : f[n].mod >= sofar
    BY <1>4 DEF Limited
  <2> DEFINE h == Drop(f, DOMAIN f \ DOMAIN g)
  <2>2. DOMAIN h = DOMAIN g /\ \A n \in DOMAIN g : h[n] = f[n]
    BY DEF Drop
  <2>3. Bytes(f) = Bytes(h) + Bytes(Part(f, DOMAIN f \ DOMAIN g)) /\ Bytes(h) \in Nat /\ Bytes(Part(f, DOMAIN f \ DOMAIN g)) \in Nat
    BY <1>1, BytesSplit
  <2> HIDE DEF h
  <2>4. Bytes(h) = Bytes(g)
    BY <1>1, <2>2, BytesSame
  <2>5. \A n \in DOMAIN g : g[n].mod >= sofar
    <3> SUFFICES ASSUME NEW n \in DOMAIN g PROVE g[n].mod >= sofar
      OBVIOUS
    <3>1. f[n].mod >= sofar /\ g[n].mod >= f[n].mod
      BY <2>1
    <3>2. f[n] \in StoredFile /\ g[n] \in StoredFile
      <4>1. f \in MapsTo(StoredFile) /\ g \in MapsTo(StoredFile)
        BY DEF Directory
      <4> QED
        BY <4>1, InMaps
    <3>3. f[n].mod \in Nat /\ g[n].mod \in Nat
      BY <3>2 DEF StoredFile
    <3> QED
      BY <3>1, <3>3
  <2> QED
    BY <1>3, <2>1, <2>3, <2>4, <2>5
<1> QED
  BY <1>1, <1>2, <1>3, <1>4 DEF Limited

LEMMA LaterFaults ==
  ASSUME NEW i, NEW f, NEW t, NEW lost \in Nat, NEW o, NEW more \in Nat, CountsDisk(i, f, t, o, lost)
  PROVE  CountsDisk(i, f, t, o, lost + more)
<1>1. o \in SUBSET Names /\ Cardinality(o) <= lost /\ (lost + more = 0 => lost = 0)
  BY DEF CountsDisk
<1>2. Cardinality(o) \in Nat
  BY <1>1, NamesFinite, FS_Subset, FS_CardinalityType
<1>3. Cardinality(o) <= lost + more
  BY <1>1, <1>2
<1> QED
  BY <1>1, <1>3 DEF CountsDisk

(* What a listing passes over counts as lost at once. *)
LEMMA Opened ==
  ASSUME NEW f, NEW i, NEW o, NEW t, NEW sofar, NEW lost, NEW over, StoreKept(f, i, o, t, sofar, lost, over),
         NEW unseen \in SUBSET Names, NEW w, w = IF i.loaded THEN o ELSE unseen, NEW now1, now1 = lost + Cardinality(unseen)
  PROVE  /\ now1 \in Nat /\ Limited(f, now1, sofar, over)
         /\ CountsDisk(ensureResponsesIndexLocked(i, f, unseen), f, t, w, now1)
<1>1. t \in Nat /\ lost \in Nat /\ over \in Nat /\ sofar \in 0 .. t /\ Directory(f, t) /\ i \in IndexType /\ (i.loaded => CountsDisk(i, f, t, o, lost))
      /\ Limited(f, lost, sofar, over)
  BY DEF StoreKept
<1>2. Cardinality(unseen) \in Nat
  BY NamesFinite, FS_Subset, FS_CardinalityType
<1>3. now1 \in Nat /\ Cardinality(unseen) <= now1 /\ (now1 = 0 => lost = 0) /\ lost <= now1
  BY <1>1, <1>2
<1>4. i.loaded => CountsDisk(i, f, t, o, now1)
  BY <1>1, <1>2, LaterFaults
<1>5. CountsDisk(ensureResponsesIndexLocked(i, f, unseen), f, t, w, now1)
  BY <1>1, <1>3, <1>4, EnsureCounts
<1>6. Cardinality(DOMAIN f) \in Nat /\ MaxFiles \in Nat
  BY <1>1, Sized, ResponsesAssumption DEF Directory
<1>7. Cardinality(DOMAIN f) <= MaxFiles + now1
  BY <1>1, <1>3, <1>6 DEF Limited
<1> QED
  BY <1>1, <1>3, <1>5, <1>7 DEF Limited

LEMMA EnforcedKept ==
  ASSUME NEW t \in Nat, NEW i, NEW f, NEW o, NEW lost \in Nat, Directory(f, t), CountsDisk(i, f, t, o, lost),
         NEW stuck, IsFiniteSet(stuck), NEW sofar \in 0 .. t, lost = 0 => \A n \in DOMAIN f : f[n].mod >= sofar,
         NEW S, S = Dropped(i, stuck), NEW w, w = o \cap DOMAIN Drop(f, S)
  PROVE  StoreKept(Drop(f, S), removeResponseFileLocked(i, S), w, t, Latest(i, S, sofar), lost + Cardinality(stuck), 0)
<1> DEFINE g == Drop(f, S)
           j == removeResponseFileLocked(i, S)
           l == Latest(i, S, sofar)
<1>1. CountsDisk(j, g, t, o, lost) /\ Directory(g, t) /\ l \in 0 .. t /\ Limited(g, lost + Cardinality(stuck), l, 0)
  BY Enforced
<1>0. w = o \cap DOMAIN g
  OBVIOUS
<1> HIDE DEF g, j, l
<1>2. Cardinality(stuck) \in Nat /\ lost + Cardinality(stuck) \in Nat
  BY FS_CardinalityType
<1>3. CountsDisk(j, g, t, w, lost + Cardinality(stuck)) /\ j \in IndexType
  <2>1. CountsDisk(j, g, t, o, lost + Cardinality(stuck))
    BY <1>1, <1>2, LaterFaults
  <2> QED
    BY <1>0, <1>2, <2>1, OnlyPresent, CountsType
<1>5. StoreKept(g, j, w, t, l, lost + Cardinality(stuck), 0)
  BY <1>1, <1>2, <1>3 DEF StoreKept
<1> QED
  BY <1>5 DEF g, j, l

LEMMA EnforceStep ==
  ASSUME ResponsesInv, NEW i, NEW f, NEW o, NEW lost \in Nat, Directory(f, now), CountsDisk(i, f, now, o, lost),
         NEW stuck, IsFiniteSet(stuck), lost = 0 => \A n \in DOMAIN f : f[n].mod >= dropped,
         enforceResponsesQuotaLocked(i, f, stuck), storeFaults' = lost + Cardinality(stuck),
         overlooked' = o \cap DOMAIN files', now' = now, answer' = NoAnswer
  PROVE  ResponsesInv'
<1> DEFINE S == Dropped(i, stuck)
<1>1. now \in Nat /\ grown \in Nat /\ dropped \in 0 .. now
  BY DEF ResponsesInv, StoreKept
<1>2. /\ index' = removeResponseFileLocked(i, S) /\ files' = Drop(f, S) /\ dropped' = Latest(i, S, dropped) /\ grown' = 0
  BY DEF enforceResponsesQuotaLocked, Latest
<1> HIDE DEF S
<1>3. StoreKept(Drop(f, S), removeResponseFileLocked(i, S), overlooked', now, Latest(i, S, dropped), lost + Cardinality(stuck), 0)
  BY <1>1, <1>2, EnforcedKept DEF S
<1>4. StoreKept(files', index', overlooked', now', dropped', storeFaults', grown')
  BY <1>2, <1>3
<1> QED
  BY <1>4 DEF ResponsesInv, AnswersOwned

LEMMA StuckFinite == ASSUME NEW stuck \in Stuck PROVE IsFiniteSet(stuck) /\ Cardinality(stuck) \in Nat
BY NamesFinite, FS_EmptySet, FS_Singleton, FS_CardinalityType DEF Stuck

(* What every operation starts from: the index as it is opened. *)
LEMMA Before ==
  ASSUME ResponsesInv, NEW unseen \in Unseen, NEW lost, lost = storeFaults + Cardinality(unseen)
  PROVE  /\ now \in Nat /\ storeFaults \in Nat /\ grown \in Nat /\ dropped \in 0 .. now /\ lost \in Nat
         /\ Directory(files, now) /\ Limited(files, lost, dropped, grown)
         /\ CountsDisk(ensureResponsesIndexLocked(index, files, unseen), files, now, Uncounted(unseen), lost)
<1>1. /\ StoreKept(files, index, overlooked, now, dropped, storeFaults, grown) /\ now \in Nat /\ storeFaults \in Nat
      /\ grown \in Nat /\ dropped \in 0 .. now /\ Directory(files, now)
  BY DEF ResponsesInv, StoreKept
<1>2. unseen \in SUBSET Names
  <2>1. files \in MapsTo(StoredFile)
    BY <1>1 DEF Directory
  <2>2. DOMAIN files \in SUBSET Names
    BY <2>1, InMaps
  <2> QED
    BY <2>2 DEF Unseen
<1>3. Uncounted(unseen) = IF index.loaded THEN overlooked ELSE unseen
  BY DEF Uncounted
<1> QED
  BY <1>1, <1>2, <1>3, Opened

LEMMA UnseenFinite == ASSUME ResponsesInv, NEW unseen \in Unseen PROVE Cardinality(unseen) \in Nat
<1>1. files \in MapsTo(StoredFile)
  BY DEF ResponsesInv, StoreKept, Directory
<1>2. IsFiniteSet(DOMAIN files)
  BY <1>1, Sized
<1> QED
  BY <1>2, StuckFinite, FS_CardinalityType DEF Unseen

LEMMA SaveStep ==
  ASSUME ResponsesInv, NEW n \in Names, NEW o \in Owners, NEW s \in Sizes, NEW unseen \in Unseen, NEW stuck \in Stuck,
         saveResponse(n, o, s, unseen, stuck)
  PROVE  ResponsesInv'
<1> DEFINE f == File(s, now, now, o, FALSE)
           i == ensureResponsesIndexLocked(index, files, unseen)
           c == commitResponseFileLocked(i, n, f)
           g == Put(files, n, f)
           lost == storeFaults + Cardinality(unseen)
           left == Uncounted(unseen) \ {n}
<1>1. /\ storeFaults' = storeFaults + (Cardinality(unseen) + Cardinality(stuck))
      /\ enforceResponsesQuotaLocked(c, g, stuck) /\ overlooked' = left \cap DOMAIN files'
      /\ answer' = NoAnswer /\ now' = now
  BY DEF saveResponse, Faulty, Overlooks
<1>2. /\ now \in Nat /\ storeFaults \in Nat /\ grown \in Nat /\ dropped \in 0 .. now /\ lost \in Nat
      /\ Directory(files, now) /\ Limited(files, lost, dropped, grown)
      /\ CountsDisk(i, files, now, Uncounted(unseen), lost)
  BY Before
<1>3. storeFaults' = lost + Cardinality(stuck)
  BY <1>1, <1>2, StuckFinite, UnseenFinite
<1>4. f \in StoredFile /\ f.mod = now /\ f.mod <= now
  BY <1>2, ResponsesAssumption DEF File, StoredFile
<1> HIDE DEF f, i, lost
<1>5. CountsDisk(c, g, now, left, lost) /\ Directory(g, now)
  BY <1>2, <1>4, CommitCounts
<1>6. lost = 0 => \A m \in DOMAIN g : g[m].mod >= dropped
  <2> SUFFICES ASSUME lost = 0, NEW m \in DOMAIN g PROVE g[m].mod >= dropped
    OBVIOUS
  <2>1. m = n \/ (m \in DOMAIN files /\ m # n)
    <3>1. DOMAIN g = DOMAIN files \cup {n}
      BY PutDomain
    <3> HIDE DEF g
    <3> QED
      BY <3>1
  <2>2. CASE m = n
    <3>1. g[m] = f
      BY <2>2, PutNew
    <3> QED
      BY <1>2, <1>4, <3>1
  <2>3. CASE m \in DOMAIN files /\ m # n
    <3>1. g[m] = files[m]
      BY <2>3, PutOld
    <3> QED
      BY <1>2, <2>3, <3>1 DEF Limited
  <2> QED
    BY <2>1, <2>2, <2>3
<1> HIDE DEF c, g, left
<1> QED
  BY <1>1, <1>2, <1>3, <1>5, <1>6, StuckFinite, EnforceStep

LEMMA PurgeStep ==
  ASSUME ResponsesInv, NEW unseen \in Unseen, NEW stuck \in Stuck, purgeExpiredResponses(unseen, stuck)
  PROVE  ResponsesInv'
<1> DEFINE i == ensureResponsesIndexLocked(index, files, unseen)
           gone == {n \in DOMAIN i.files : now - i.files[n].mod > ResponseTTL} \ stuck
           c == removeResponseFileLocked(i, gone)
           g == Drop(files, gone)
           lost == storeFaults + Cardinality(unseen)
           left == Uncounted(unseen)
<1>1. /\ storeFaults' = storeFaults + (Cardinality(unseen) + Cardinality(stuck))
      /\ enforceResponsesQuotaLocked(c, g, stuck) /\ overlooked' = (left \ {}) \cap DOMAIN files'
      /\ answer' = NoAnswer /\ now' = now
  BY DEF purgeExpiredResponses, Faulty, Overlooks
<1>2. /\ now \in Nat /\ storeFaults \in Nat /\ grown \in Nat /\ dropped \in 0 .. now /\ lost \in Nat
      /\ Directory(files, now) /\ Limited(files, lost, dropped, grown)
      /\ CountsDisk(i, files, now, left, lost)
  BY Before
<1>3. storeFaults' = lost + Cardinality(stuck)
  BY <1>1, <1>2, StuckFinite, UnseenFinite
<1> HIDE DEF i, gone, lost, left
<1>4. CountsDisk(c, g, now, left, lost) /\ Directory(g, now)
  BY <1>2, RemoveCounts
<1>5. DOMAIN g \subseteq DOMAIN files /\ \A m \in DOMAIN g : g[m] = files[m]
  BY DEF Drop
<1>6. lost = 0 => \A m \in DOMAIN g : g[m].mod >= dropped
  BY <1>2, <1>5 DEF Limited
<1>7. overlooked' = left \cap DOMAIN files'
  BY <1>1
<1> HIDE DEF c, g
<1> QED
  BY <1>1, <1>2, <1>3, <1>4, <1>6, <1>7, StuckFinite, EnforceStep

(* A call that fails before it has changed a file, or one that only looks. *)
LEMMA OpenStep ==
  ASSUME ResponsesInv, NEW unseen \in Unseen, NEW more \in Nat,
         index' = ensureResponsesIndexLocked(index, files, unseen), files' = files, Overlooks(unseen, {}),
         storeFaults' = storeFaults + (Cardinality(unseen) + more),
         now' = now, dropped' = dropped, answer' = NoAnswer, grown' = grown
  PROVE  ResponsesInv'
<1> DEFINE lost == storeFaults + Cardinality(unseen)
           i == ensureResponsesIndexLocked(index, files, unseen)
<1>1. /\ now \in Nat /\ storeFaults \in Nat /\ grown \in Nat /\ dropped \in 0 .. now /\ lost \in Nat
      /\ Directory(files, now) /\ Limited(files, lost, dropped, grown)
      /\ CountsDisk(i, files, now, Uncounted(unseen), lost)
  BY Before
<1>2. storeFaults' = lost + more /\ lost + more \in Nat
  BY <1>1, UnseenFinite
<1>3. overlooked' = Uncounted(unseen) \cap DOMAIN files
  BY DEF Overlooks
<1> HIDE DEF lost, i
<1>4. CountsDisk(i, files, now, overlooked', lost + more) /\ i \in IndexType
  <2>1. CountsDisk(i, files, now, Uncounted(unseen), lost + more)
    BY <1>1, LaterFaults
  <2> QED
    BY <1>2, <1>3, <2>1, OnlyPresent, CountsType
<1>5. Limited(files, lost + more, dropped, grown)
  <2>1. Cardinality(DOMAIN files) \in Nat /\ MaxFiles \in Nat
    BY <1>1, Sized, ResponsesAssumption DEF Directory
  <2>2. Cardinality(DOMAIN files) <= MaxFiles + (lost + more) /\ (lost + more = 0 => lost = 0)
    BY <1>1, <2>1 DEF Limited
  <2> QED
    BY <1>1, <2>2 DEF Limited
<1>6. StoreKept(files, i, overlooked', now, dropped, lost + more, grown)
  BY <1>1, <1>2, <1>4, <1>5 DEF StoreKept
<1>7. StoreKept(files', index', overlooked', now', dropped', storeFaults', grown')
  BY <1>2, <1>6 DEF i
<1> QED
  BY <1>7 DEF ResponsesInv, AnswersOwned

LEMMA FailStep ==
  ASSUME ResponsesInv, NEW unseen \in Unseen, commitFails(unseen) \/ responsesStorageStats(unseen)
  PROVE  ResponsesInv'
<1>1. CASE commitFails(unseen)
  <2>1. /\ storeFaults' = storeFaults + (Cardinality(unseen) + 1) /\ files' = files /\ Overlooks(unseen, {})
        /\ index' = ensureResponsesIndexLocked(index, files, unseen)
        /\ now' = now /\ dropped' = dropped /\ answer' = NoAnswer /\ grown' = grown
    BY <1>1 DEF commitFails, Faulty
  <2> QED
    BY <2>1, OpenStep
<1>2. CASE responsesStorageStats(unseen)
  <2>1. /\ storeFaults' = storeFaults + Cardinality(unseen) /\ files' = files /\ Overlooks(unseen, {})
        /\ index' = ensureResponsesIndexLocked(index, files, unseen)
        /\ now' = now /\ dropped' = dropped /\ answer' = NoAnswer /\ grown' = grown
    BY <1>2 DEF responsesStorageStats, Faulty
  <2>2. storeFaults' = storeFaults + (Cardinality(unseen) + 0)
    BY <2>1, UnseenFinite
  <2> QED
    BY <2>1, <2>2, OpenStep
<1> QED
  BY <1>1, <1>2

LEMMA PurgeFailStep ==
  ASSUME ResponsesInv, NEW n \in Names, NEW unseen \in Unseen, purgeAllFails(n, unseen)
  PROVE  ResponsesInv'
<1> DEFINE i == ensureResponsesIndexLocked(index, files, unseen)
           lost == storeFaults + Cardinality(unseen)
           left == Uncounted(unseen)
           g == Drop(files, {n})
<1>1. /\ now \in Nat /\ storeFaults \in Nat /\ grown \in Nat /\ dropped \in 0 .. now /\ lost \in Nat
      /\ Directory(files, now) /\ Limited(files, lost, dropped, grown)
      /\ CountsDisk(i, files, now, left, lost)
  BY Before
<1>2. /\ index' = i /\ storeFaults' = storeFaults + (Cardinality(unseen) + 1) /\ now' = now /\ dropped' = dropped
      /\ answer' = NoAnswer /\ grown' = grown /\ files' = g /\ overlooked' = (left \ {}) \cap DOMAIN files'
  BY DEF purgeAllFails, Faulty, Overlooks
<1>3. storeFaults' = lost + 1 /\ lost + 1 \in Nat /\ lost + 1 # 0
  BY <1>1, <1>2, UnseenFinite
<1>4. overlooked' = left \cap DOMAIN g
  BY <1>2
<1>5. DOMAIN g \subseteq DOMAIN files /\ \A m \in DOMAIN g : g[m] = files[m]
  BY DEF Drop
<1>6. Directory(g, now)
  <2>1. files \in MapsTo(StoredFile) /\ \A m \in DOMAIN files : files[m].mod <= now
    BY <1>1 DEF Directory
  <2>2. g \in MapsTo(StoredFile)
    BY <2>1, MapsDrop
  <2> QED
    BY <1>5, <2>1, <2>2 DEF Directory
<1> HIDE DEF i, lost, left, g
<1>7. \A m \in DOMAIN g : g[m].size = files[m].size /\ g[m].mod >= files[m].mod
  <2>1. g \in MapsTo(StoredFile)
    BY <1>6 DEF Directory
  <2>2. \A m \in DOMAIN g : g[m] \in StoredFile
    BY <2>1, InMaps
  <2> QED
    BY <1>5, <2>2 DEF StoredFile
<1>8. Limited(g, lost + 1, dropped, grown)
  BY <1>1, <1>5, <1>6, <1>7, StaysWithin
<1>9. CountsDisk(i, g, now, overlooked', lost + 1) /\ i \in IndexType
  <2>1. CountsDisk(i, files, now, left, lost + 1)
    BY <1>1, LaterFaults
  <2>2. CountsDisk(i, g, now, left, lost + 1)
    BY <1>3, <1>5, <2>1 DEF CountsDisk
  <2> QED
    BY <1>3, <1>4, <2>2, OnlyPresent, CountsType
<1>10. StoreKept(g, i, overlooked', now, dropped, lost + 1, grown)
  BY <1>1, <1>3, <1>6, <1>8, <1>9 DEF StoreKept
<1>11. StoreKept(files', index', overlooked', now', dropped', storeFaults', grown')
  BY <1>2, <1>3, <1>10
<1> QED
  BY <1>2, <1>11 DEF ResponsesInv, AnswersOwned

LEMMA PutSame ==
  ASSUME NEW V, NEW f \in MapsTo(V), NEW n \in DOMAIN f
  PROVE  Put(f, n, f[n]) = f
<1>1. \E D \in SUBSET Names : f \in [D -> V]
  BY DEF MapsTo
<1>2. f = [m \in DOMAIN f |-> f[m]]
  BY <1>1
<1>3. DOMAIN f \cup {n} = DOMAIN f
  OBVIOUS
<1>4. Put(f, n, f[n]) = [m \in DOMAIN f |-> f[m]]
  BY <1>3 DEF Put
<1> QED
  BY <1>2, <1>4

LEMMA LoadStep ==
  ASSUME ResponsesInv, NEW n \in Names, NEW o, NEW unseen \in Unseen, NEW stuck \in Stuck,
         loadResponseForOwner(n, o, unseen, stuck)
  PROVE  ResponsesInv'
<1> DEFINE i == ensureResponsesIndexLocked(index, files, unseen)
           f == encryptStoredResponse(files[n])
           read == IF files[n].plain THEN commitResponseFileLocked(i, n, f) ELSE i
           g == Put(files, n, f)
           S == {n} \ stuck
           lost == storeFaults + Cardinality(unseen)
           left == Uncounted(unseen) \ (IF files[n].plain THEN {n} ELSE {})
<1>1. /\ n \in DOMAIN files /\ storeFaults' = storeFaults + (Cardinality(unseen) + Cardinality(stuck))
      /\ now' = now /\ dropped' = dropped /\ overlooked' = left \cap DOMAIN files'
      /\ grown' = grown + (f.size - files[n].size)
      /\ \/ expired(f) /\ index' = removeResponseFileLocked(read, S) /\ files' = Drop(g, S) /\ answer' = NoAnswer
         \/ /\ ~expired(f) /\ index' = read /\ files' = g
            /\ answer' = IF owned(f, o) THEN [owner |-> f.owner, to |-> o, age |-> now - f.stored] ELSE NoAnswer
  BY DEF loadResponseForOwner, Faulty, Overlooks
<1>2. /\ now \in Nat /\ storeFaults \in Nat /\ grown \in Nat /\ dropped \in 0 .. now /\ lost \in Nat
      /\ Directory(files, now) /\ Limited(files, lost, dropped, grown)
      /\ CountsDisk(i, files, now, Uncounted(unseen), lost)
  BY Before
<1>3. storeFaults' = lost + Cardinality(stuck)
  BY <1>1, <1>2, StuckFinite, UnseenFinite
<1> HIDE DEF lost
<1>4. files[n] \in StoredFile /\ files[n].mod <= now /\ files \in MapsTo(StoredFile)
  BY <1>1, <1>2, InMaps DEF Directory
<1>5. f \in StoredFile /\ f.size \in Nat /\ f.size >= files[n].size /\ files[n].size \in Nat /\ f.mod >= files[n].mod /\ f.mod <= now
  <2>1. CASE files[n].plain
    <3>1. f = [files[n] EXCEPT !.plain = FALSE, !.mod = now, !.size = @ + EncryptedGrowth]
      BY <2>1 DEF encryptStoredResponse
    <3> HIDE DEF f
    <3> DEFINE f0 == files[n]
    <3>2. f0 \in [size : Nat, mod : Nat, stored : Nat, owner : Owners, plain : BOOLEAN] /\ f = [f0 EXCEPT !.plain = FALSE, !.mod = now, !.size = @ + EncryptedGrowth]
      BY <1>4, <3>1 DEF StoredFile
    <3> HIDE DEF f0
    <3> DEFINE larger == f0.size + EncryptedGrowth
    <3>3. f = [f0 EXCEPT !.plain = FALSE, !.mod = now, !.size = larger] /\ larger \in Nat /\ larger >= f0.size /\ f0.size \in Nat
      BY <3>2, ResponsesAssumption
    <3> HIDE DEF larger
    <3>4. f \in [size : Nat, mod : Nat, stored : Nat, owner : Owners, plain : BOOLEAN] /\ f.size = larger /\ f.mod = now
      BY <1>2, <3>2, <3>3
    <3>5. f \in StoredFile /\ f0 = files[n] /\ now >= files[n].mod
      <4>1. files[n].mod \in Nat
        BY <1>4 DEF StoredFile
      <4> QED
        BY <1>2, <1>4, <3>4, <4>1 DEF StoredFile, f0
    <3> QED
      BY <1>2, <3>3, <3>4, <3>5
  <2>2. CASE ~files[n].plain
    <3>1. f = files[n]
      BY <2>2 DEF encryptStoredResponse
    <3> HIDE DEF f
    <3>2. files[n].mod \in Nat /\ files[n].size \in Nat
      BY <1>4 DEF StoredFile
    <3> QED
      BY <1>2, <1>4, <3>1, <3>2
  <2> QED
    BY <2>1, <2>2
<1>6. CountsDisk(read, g, now, left, lost) /\ Directory(g, now)
  <2>1. CASE files[n].plain
    <3> HIDE DEF f, i
    <3>1. CountsDisk(commitResponseFileLocked(i, n, f), g, now, Uncounted(unseen) \ {n}, lost) /\ Directory(g, now)
      BY <1>2, <1>5, CommitCounts
    <3>2. left = Uncounted(unseen) \ {n} /\ read = commitResponseFileLocked(i, n, f)
      BY <2>1
    <3> HIDE DEF left, read, g
    <3> QED
      BY <3>1, <3>2
  <2>2. CASE ~files[n].plain
    <3>1. f = files[n] /\ read = i /\ left = Uncounted(unseen)
      BY <2>2 DEF encryptStoredResponse
    <3> HIDE DEF f, read, left
    <3>2. g = files
      BY <1>1, <1>4, <3>1, PutSame
    <3> QED
      BY <1>2, <3>1, <3>2
  <2> QED
    BY <2>1, <2>2
<1>7. Cardinality(stuck) \in Nat /\ lost + Cardinality(stuck) \in Nat
  BY <1>2, StuckFinite
<1> HIDE DEF f, i, read, S, left
<1>8. DOMAIN g = DOMAIN files
  <2>1. DOMAIN g = DOMAIN files \cup {n}
    BY PutDomain
  <2> HIDE DEF g
  <2> QED
    BY <1>1, <2>1
<1>9. grown' \in Nat /\ Limited(g, lost, dropped, grown')
  <2>1. grown' \in Nat /\ grown' = grown + (f.size - files[n].size)
    BY <1>1, <1>2, <1>5
  <2>2. lost = 0 => Bytes(g) <= MaxBytes + grown'
    <3> HAVE lost = 0
    <3>1. Bytes(files) <= MaxBytes + grown /\ MaxBytes \in Nat
      BY <1>2, ResponsesAssumption DEF Limited
    <3>2. HasSizes(files)
      BY <1>4, Sized
    <3>3. Bytes(files) = files[n].size + Bytes(Drop(files, {n}))
      BY <1>1, <3>2, BytesOne
    <3>4. Bytes(g) = f.size + Bytes(Drop(files, {n}))
      BY <1>5, <3>2, BytesPut
    <3>5. Bytes(Drop(files, {n})) \in Nat
      BY <3>2, BytesSplit
    <3> QED
      BY <1>2, <1>5, <2>1, <3>1, <3>3, <3>4, <3>5
  <2>3. ASSUME lost = 0, NEW m \in DOMAIN g PROVE g[m].mod >= dropped
    <3>1. CASE m = n
      <4>1. g[m] = f /\ files[n].mod >= dropped
        BY <1>1, <1>2, <2>3, <3>1, PutNew DEF Limited
      <4>2. files[n].mod \in Nat /\ f.mod \in Nat
        BY <1>4, <1>5 DEF StoredFile
      <4> QED
        BY <1>2, <1>5, <4>1, <4>2
    <3>2. CASE m # n
      <4>1. g[m] = files[m] /\ m \in DOMAIN files
        BY <1>8, <3>2, PutOld
      <4> QED
        BY <1>2, <2>3, <4>1 DEF Limited
    <3> QED
      BY <3>1, <3>2
  <2>4. Cardinality(DOMAIN g) <= MaxFiles + lost
    BY <1>2, <1>8 DEF Limited
  <2> HIDE DEF g
  <2> QED
    BY <2>1, <2>2, <2>3, <2>4 DEF Limited
<1> HIDE DEF g
<1>10. \A m \in DOMAIN g : g[m].size = g[m].size /\ g[m].mod >= g[m].mod
  <2>1. g \in MapsTo(StoredFile)
    BY <1>6 DEF Directory
  <2>2. \A m \in DOMAIN g : g[m] \in StoredFile
    BY <2>1, InMaps
  <2> QED
    BY <2>2 DEF StoredFile
<1>11. StoreKept(files', index', overlooked', now', dropped', storeFaults', grown') /\ AnswersOwned'
  <2>1. CASE /\ expired(f) /\ index' = removeResponseFileLocked(read, S) /\ files' = Drop(g, S) /\ answer' = NoAnswer
    <3> DEFINE h == Drop(g, S)
               j == removeResponseFileLocked(read, S)
    <3>1. CountsDisk(j, h, now, left, lost) /\ Directory(h, now)
      BY <1>2, <1>6, RemoveCounts
    <3>2. DOMAIN h \subseteq DOMAIN g /\ \A m \in DOMAIN h : h[m] = g[m]
      BY DEF Drop
    <3> HIDE DEF h, j
    <3>3. Limited(h, lost + Cardinality(stuck), dropped, grown')
      <4>1. DOMAIN h \subseteq DOMAIN g /\ \A m \in DOMAIN h : h[m].size = g[m].size /\ h[m].mod >= g[m].mod
        BY <1>10, <3>2
      <4> QED
        BY <1>2, <1>6, <1>7, <1>9, <3>1, <4>1, StaysWithin
    <3>4. CountsDisk(j, h, now, left \cap DOMAIN h, lost + Cardinality(stuck)) /\ j \in IndexType
      <4>1. CountsDisk(j, h, now, left, lost + Cardinality(stuck))
        BY <1>2, <1>7, <3>1, LaterFaults
      <4> QED
        BY <1>7, <4>1, OnlyPresent, CountsType
    <3>5. files' = h /\ index' = j
      BY <2>1 DEF h, j
    <3>6. StoreKept(h, j, left \cap DOMAIN h, now, dropped, lost + Cardinality(stuck), grown')
      BY <1>2, <1>7, <1>9, <3>1, <3>3, <3>4 DEF StoreKept
    <3>7. overlooked' = left \cap DOMAIN h
      BY <1>1, <3>5
    <3>8. StoreKept(files', index', overlooked', now', dropped', storeFaults', grown')
      BY <1>1, <1>3, <3>5, <3>6, <3>7
    <3> QED
      BY <2>1, <3>8 DEF AnswersOwned
  <2>2. CASE /\ ~expired(f) /\ index' = read /\ files' = g
             /\ answer' = IF owned(f, o) THEN [owner |-> f.owner, to |-> o, age |-> now - f.stored] ELSE NoAnswer
    <3>1. Limited(g, lost + Cardinality(stuck), dropped, grown')
      BY <1>2, <1>6, <1>7, <1>9, <1>10, StaysWithin
    <3>2. CountsDisk(read, g, now, left \cap DOMAIN g, lost + Cardinality(stuck)) /\ read \in IndexType
      <4>1. CountsDisk(read, g, now, left, lost + Cardinality(stuck))
        BY <1>2, <1>6, <1>7, LaterFaults
      <4> QED
        BY <1>7, <4>1, OnlyPresent, CountsType
    <3>4. StoreKept(g, read, left \cap DOMAIN g, now, dropped, lost + Cardinality(stuck), grown')
      BY <1>2, <1>6, <1>7, <1>9, <3>1, <3>2 DEF StoreKept
    <3>3. overlooked' = left \cap DOMAIN g
      BY <1>1, <2>2
    <3>5. StoreKept(files', index', overlooked', now', dropped', storeFaults', grown')
      BY <1>1, <1>3, <2>2, <3>3, <3>4
    <3>6. now - f.stored <= ResponseTTL
      <4>1. f.stored \in Nat /\ ResponseTTL \in Nat
        BY <1>5, ResponsesAssumption DEF StoredFile
      <4> QED
        BY <1>2, <2>2, <4>1 DEF expired
    <3>7. AnswersOwned'
      BY <2>2, <3>6 DEF AnswersOwned, owned
    <3> QED
      BY <3>5, <3>7
  <2> QED
    BY <1>1, <2>1, <2>2
<1> QED
  BY <1>11 DEF ResponsesInv

LEMMA EmptyMap == ASSUME NEW V PROVE <<>> \in MapsTo(V) /\ DOMAIN <<>> = {} /\ Bytes(<<>>) = 0
<1>1. DOMAIN <<>> = {}
  OBVIOUS
<1>2. <<>> \in [{} -> V]
  OBVIOUS
<1>3. <<>> \in MapsTo(V)
  BY <1>2, InMaps
<1>4. Bytes(<<>>) = 0
  BY <1>1, BytesDef, TotalEmpty
<1> QED
  BY <1>1, <1>3, <1>4

LEMMA EmptyKept ==
  ASSUME NEW t \in Nat, NEW sofar \in 0 .. t, NEW lost \in Nat, NEW over \in Nat, NEW loaded \in BOOLEAN
  PROVE  StoreKept(<<>>, [loaded |-> loaded, files |-> <<>>, total |-> 0], {}, t, sofar, lost, over)
<1> DEFINE none == [loaded |-> loaded, files |-> <<>>, total |-> 0]
<1>1. none \in IndexType /\ Directory(<<>>, t)
  BY EmptyMap DEF IndexType, Directory
<1>2. none.loaded => CountsDisk(none, <<>>, t, {}, lost)
  <2>0. {} \in SUBSET Names /\ Cardinality({}) <= lost
    BY FS_EmptySet
  <2>1. none.files = <<>> /\ none.total = 0 /\ DOMAIN <<>> = {} /\ Bytes(<<>>) = 0
    BY EmptyMap
  <2> HIDE DEF none
  <2> QED
    BY <1>1, <2>0, <2>1 DEF CountsDisk
<1>3. Limited(<<>>, lost, sofar, over)
  <2>1. DOMAIN <<>> = {} /\ Bytes(<<>>) = 0 /\ Cardinality({}) = 0
    BY EmptyMap, FS_EmptySet
  <2> QED
    BY <2>1, ResponsesAssumption DEF Limited
<1> QED
  BY <1>1, <1>2, <1>3 DEF StoreKept

LEMMA ResponsesInitKept == ASSUME ResponsesInit PROVE ResponsesInv
<1>1. index = NoIndex /\ overlooked = {} /\ now = 1 /\ dropped = 0 /\ storeFaults = 0 /\ answer = NoAnswer /\ grown = 0
  BY DEF ResponsesInit
<1>2. index.loaded = FALSE /\ index \in IndexType
  BY <1>1, EmptyMap DEF NoIndex, IndexType
<1>3. CASE files = <<>>
  <2>1. 1 \in Nat /\ 0 \in 0 .. 1 /\ 0 \in Nat /\ FALSE \in BOOLEAN
    OBVIOUS
  <2>2. StoreKept(<<>>, [loaded |-> FALSE, files |-> <<>>, total |-> 0], {}, 1, 0, 0, 0)
    BY <2>1, EmptyKept
  <2>3. StoreKept(<<>>, NoIndex, {}, 1, 0, 0, 0)
    BY <2>2 DEF NoIndex
  <2> QED
    BY <1>1, <1>3, <2>3 DEF ResponsesInv, AnswersOwned
<1>4. ASSUME NEW n \in Names, NEW s \in Sizes, NEW o \in Owners, s <= MaxBytes, files = Put(<<>>, n, File(s, 1, 1, o, TRUE))
      PROVE  StoreKept(files, index, overlooked, now, dropped, storeFaults, grown)
  <2> DEFINE f == File(s, 1, 1, o, TRUE)
             empty == <<>>
  <2>1. f \in StoredFile /\ f.size = s /\ f.mod = 1 /\ s \in Nat
    BY ResponsesAssumption DEF File, StoredFile
  <2>2. empty \in MapsTo(StoredFile) /\ DOMAIN empty = {}
    BY EmptyMap
  <2> HIDE DEF f, empty
  <2>3. files \in MapsTo(StoredFile)
    BY <1>4, <2>1, <2>2, MapsPut DEF f, empty
  <2>4. DOMAIN files = {n}
    <3>1. DOMAIN files = DOMAIN empty \cup {n}
      BY <1>4, PutDomain DEF empty
    <3> QED
      BY <2>2, <3>1
  <2>5. files[n] = f
    <3>1. files = Put(empty, n, f)
      BY <1>4 DEF f, empty
    <3>2. Put(empty, n, f)[n] = f
      BY PutNew
    <3> QED
      BY <3>1, <3>2
  <2>6. Directory(files, 1)
    BY <2>1, <2>3, <2>4, <2>5 DEF Directory
  <2>7. Bytes(files) = s
    <3>1. HasSizes(files)
      BY <2>3, Sized
    <3>2. Bytes(files) = files[n].size + Bytes(Drop(files, {n}))
      BY <2>4, <3>1, BytesOne
    <3>3. DOMAIN Drop(files, {n}) = {}
      BY <2>4 DEF Drop
    <3>4. Bytes(Drop(files, {n})) = 0
      BY <3>3, BytesDef, TotalEmpty
    <3> QED
      BY <2>1, <2>5, <3>2, <3>4
  <2>8. Limited(files, 0, 0, 0)
    <3>1. Cardinality(DOMAIN files) = 1
      BY <2>4, FS_Singleton
    <3>2. 1 <= MaxFiles + 0
      <4>1. MaxFiles \in Nat \ {0}
        BY ResponsesAssumption
      <4> QED
        BY <4>1
    <3>3. \A m \in DOMAIN files : files[m].mod >= 0
      BY <2>1, <2>4, <2>5
    <3>4. Bytes(files) <= MaxBytes + 0
      <4>1. MaxBytes \in Nat
        BY ResponsesAssumption
      <4>2. s \in Nat /\ s <= MaxBytes
        BY <1>4, <2>1
      <4>3. s <= MaxBytes + 0
        BY <4>1, <4>2
      <4> QED
        BY <2>7, <4>3
    <3> QED
      BY <3>1, <3>2, <3>3, <3>4 DEF Limited
  <2> QED
    BY <1>1, <1>2, <2>6, <2>8 DEF StoreKept
<1>5. CASE \E n \in Names, s \in Sizes, o \in Owners : s <= MaxBytes /\ files = Put(<<>>, n, File(s, 1, 1, o, TRUE))
  <2>1. StoreKept(files, index, overlooked, now, dropped, storeFaults, grown)
    BY <1>4, <1>5
  <2> QED
    BY <1>1, <2>1 DEF ResponsesInv, AnswersOwned
<1> QED
  BY <1>3, <1>5 DEF ResponsesInit

LEMMA WholeStep ==
  ASSUME ResponsesInv,
         purgeAllResponsesStorage \/ RestartStore \/ StoreTick \/ UNCHANGED responseVars
  PROVE  ResponsesInv'
<1>1. /\ StoreKept(files, index, overlooked, now, dropped, storeFaults, grown) /\ now \in Nat /\ storeFaults \in Nat /\ grown \in Nat /\ dropped \in 0 .. now
      /\ Directory(files, now) /\ index \in IndexType /\ Limited(files, storeFaults, dropped, grown)
  BY DEF ResponsesInv, StoreKept
<1>2. CASE purgeAllResponsesStorage
  <2>1. StoreKept(<<>>, [loaded |-> TRUE, files |-> <<>>, total |-> 0], {}, now, dropped, storeFaults, grown)
    BY <1>1, EmptyKept
  <2>2. StoreKept(files', index', overlooked', now', dropped', storeFaults', grown') /\ answer' = NoAnswer
    BY <1>2, <2>1 DEF purgeAllResponsesStorage
  <2> QED
    BY <2>2 DEF ResponsesInv, AnswersOwned
<1>4. CASE RestartStore
  <2>1. NoIndex.loaded = FALSE /\ NoIndex \in IndexType
    BY EmptyMap DEF NoIndex, IndexType
  <2>2. StoreKept(files, NoIndex, {}, now, dropped, storeFaults, grown)
    BY <1>1, <2>1 DEF StoreKept
  <2>3. StoreKept(files', index', overlooked', now', dropped', storeFaults', grown') /\ answer' = NoAnswer
    BY <1>4, <2>2 DEF RestartStore
  <2> QED
    BY <2>3 DEF ResponsesInv, AnswersOwned
<1>5. CASE StoreTick
  <2>1. now + 1 \in Nat /\ dropped \in 0 .. (now + 1)
    BY <1>1
  <2>2. \A n \in DOMAIN files : files[n].mod <= now + 1
    <3>1. files \in MapsTo(StoredFile) /\ \A n \in DOMAIN files : files[n].mod <= now
      BY <1>1 DEF Directory
    <3>2. \A n \in DOMAIN files : files[n] \in StoredFile
      BY <3>1, InMaps
    <3>3. \A n \in DOMAIN files : files[n].mod \in Nat
      BY <3>2 DEF StoredFile
    <3> QED
      BY <1>1, <3>1, <3>3
  <2>3. Directory(files, now + 1)
    BY <1>1, <2>2 DEF Directory
  <2>4. index.loaded => CountsDisk(index, files, now + 1, overlooked, storeFaults)
    <3> HAVE index.loaded
    <3>1. CountsDisk(index, files, now, overlooked, storeFaults)
      BY <1>1 DEF StoreKept
    <3>2. \A n \in DOMAIN index.files : index.files[n].mod \in Nat /\ index.files[n].mod <= now
      BY <3>1, CountsType
    <3>3. \A n \in DOMAIN index.files : index.files[n].mod <= now + 1
      BY <1>1, <3>2
    <3> QED
      BY <3>1, <3>3 DEF CountsDisk
  <2>5. StoreKept(files, index, overlooked, now + 1, dropped, storeFaults, grown)
    BY <1>1, <2>1, <2>3, <2>4 DEF StoreKept
  <2>6. StoreKept(files', index', overlooked', now', dropped', storeFaults', grown') /\ answer' = NoAnswer
    BY <1>5, <2>5 DEF StoreTick
  <2> QED
    BY <2>6 DEF ResponsesInv, AnswersOwned
<1>6. CASE UNCHANGED responseVars
  BY <1>6 DEF responseVars, ResponsesInv, StoreKept, AnswersOwned
<1> QED
  BY <1>2, <1>4, <1>5, <1>6

LEMMA ResponsesInvSafe == ASSUME ResponsesInv PROVE ResponsesSafe
<1>1. /\ index.loaded => CountsDisk(index, files, now, overlooked, storeFaults)
      /\ Limited(files, storeFaults, dropped, grown) /\ AnswersOwned
  BY DEF ResponsesInv, StoreKept
<1>2. IndexCountsDisk
  BY <1>1 DEF IndexCountsDisk, CountsDisk
<1>3. LimitsHold
  BY <1>1 DEF LimitsHold, Limited
<1> QED
  BY <1>1, <1>2, <1>3 DEF ResponsesSafe

(* In every behaviour of the store the index counts what the disk holds,   *)
(* whatever order of overwrites, failed removals, failed listings, half a  *)
(* purge and restarts led there, but for the files that a failed listing   *)
(* passed over, which are no more than the failures; the limits on files   *)
(* and bytes hold but for what could not be removed or seen, the oldest go *)
(* first, and a key reads its own fresh responses only                     *)
(* (responses_store.go).                                                   *)
THEOREM ResponsesKept == ResponsesSpec => []ResponsesSafe
<1>1. ResponsesInit => ResponsesInv
  BY ResponsesInitKept
<1>2. ResponsesInv /\ [ResponsesNext]_responseVars => ResponsesInv'
  <2> SUFFICES ASSUME ResponsesInv, [ResponsesNext]_responseVars PROVE ResponsesInv'
    OBVIOUS
  <2>1. CASE \E n \in Names, o \in Owners, s \in Sizes, unseen \in Unseen, stuck \in Stuck : saveResponse(n, o, s, unseen, stuck)
    BY <2>1, SaveStep
  <2>2. CASE \E unseen \in Unseen : commitFails(unseen) \/ responsesStorageStats(unseen)
    BY <2>2, FailStep
  <2>3. CASE \E n \in Names, unseen \in Unseen : purgeAllFails(n, unseen)
    BY <2>3, PurgeFailStep
  <2>4. CASE \E n \in Names, o \in Readers, unseen \in Unseen, stuck \in Stuck : loadResponseForOwner(n, o, unseen, stuck)
    BY <2>4, LoadStep
  <2>5. CASE \E unseen \in Unseen, stuck \in Stuck : purgeExpiredResponses(unseen, stuck)
    BY <2>5, PurgeStep
  <2> QED
    BY <2>1, <2>2, <2>3, <2>4, <2>5, WholeStep DEF ResponsesNext
<1>3. ResponsesInv => ResponsesSafe
  BY ResponsesInvSafe
<1> QED
  BY <1>1, <1>2, <1>3, PTL DEF ResponsesSpec

===============================================================================
