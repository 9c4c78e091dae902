----------------------- MODULE UpstreamProtection_proofs -----------------------
(***************************************************************************)
(* Proofs about UpstreamProtection, for every set of requests, accounts,   *)
(* models, profiles and settings.                                          *)
(***************************************************************************)
EXTENDS UpstreamProtection, FiniteSetTheorems, WellFoundedInduction, TLAPS

(* What a request has fixed at each point of its loop: a model once it has  *)
(* started, an account once it has acquired one, and a guard only between  *)
(* the acquire and its release.                                            *)
CallInv ==
  \A r \in Requests :
    /\ pc[r] # "idle" => call[r].model \in Models
    /\ pc[r] \in {"calling", "returned", "reported", "failed"} => call[r].acct \in Accounts
    /\ call[r].guarded => pc[r] \in {"calling", "returned", "reported"}

-----------------------------------------------------------------------------
(* The operators on upstreamRuntimeState keep its type.                     *)
LEMMA AdmitType == \A s \in StateType : Admit(s) \in StateType
<1>1. \A s \in StateType : activateHalfOpenProbe(s) \in StateType
  BY DEF StateType, activateHalfOpenProbe
<1> HIDE DEF activateHalfOpenProbe
<1> QED
  BY <1>1 DEF Admit, StateType

LEMMA ConfigFacts ==
  ASSUME TypeOK, NEW r \in Requests
  PROVE  /\ upOf(r).cooldown \in Nat \ {0}
         /\ upOf(r).maxCooldown \in Nat \ {0}
         /\ upOf(r).affinityMax \in Nat \ {0}
         /\ upOf(r).queueCapacity \in Nat \ {0}
<1>1. upOf(r) \in ConfigType
  BY ConfigAssumption DEF TypeOK, upOf
<1> QED
  BY <1>1 DEF ConfigType

LEMMA ReleasedType ==
  ASSUME TypeOK, NEW r \in Requests
  PROVE  \A s \in StateType : Released(upOf(r), s) \in StateType
<1>1. upOf(r).cooldown \in Nat
  BY ConfigFacts
<1> HIDE DEF upOf
<1>2. \A s \in StateType : Reopened(upOf(r), s) \in StateType
  BY <1>1 DEF StateType, Reopened, NoTime
<1>3. \A s \in StateType : [s EXCEPT !.inFlight = IF @ > 0 THEN @ - 1 ELSE @] \in StateType
  BY DEF StateType
<1>4. ZeroState \in StateType
  BY DEF ZeroState, StateType, NoTime
<1> QED
  BY <1>2, <1>3, <1>4 DEF Released

LEMMA CloseType == \A s \in StateType : closeProtectionCircuit(s) \in StateType
BY DEF closeProtectionCircuit, ZeroState, StateType, NoTime

LEMMA AgedType == \A s \in StateType : Aged(s) \in StateType
<1> SUFFICES ASSUME NEW s \in StateType PROVE Aged(s) \in StateType
  OBVIOUS
<1>1. CASE Cooling(s)
  <2>1. s.cooldown \in Nat /\ s.cooldown > 0
    BY <1>1 DEF Cooling, StateType, NoTime
  <2> QED
    BY <1>1, <2>1 DEF Aged, StateType
<1>2. CASE ~Cooling(s)
  BY <1>2 DEF Aged
<1> QED
  BY <1>1, <1>2

LEMMA CooldownType == \A s \in StateType, d \in Nat : applyProtectionCooldown(s, d) \in StateType
BY DEF applyProtectionCooldown, StateType

LEMMA CooldownsType ==
  ASSUME TypeOK, NEW r \in Requests, NEW count \in Nat, NEW ra \in RetryAfters
  PROVE  Cooldowns(upOf(r), count, ra) \subseteq Nat
<1>1. upOf(r).cooldown \in Nat \ {0} /\ upOf(r).maxCooldown \in Nat \ {0}
  BY ConfigFacts
<1>2. Backoff(upOf(r), count) \in Nat
  BY <1>1 DEF Backoff
<1>3. ra \in Nat /\ MaxRetryAfter \in Nat
  BY ConstantAssumption
<1> HIDE DEF Backoff
<1> QED
  BY <1>1, <1>2, <1>3 DEF Cooldowns, Smaller

LEMMA WithoutType ==
  ASSUME NEW aff \in [Routes -> EntryType], NEW gone
  PROVE  Without(aff, gone) \in [Routes -> EntryType]
BY DEF Without, EntryType, NoEntry

LEMMA RememberType ==
  ASSUME NEW aff \in [Routes -> EntryType], NEW route \in Routes \cup {Null},
         NEW a \in Accounts, NEW r \in Requests, NEW c
  PROVE  rememberRouteAffinity(c, aff, route, a, r) \in [Routes -> EntryType]
<1>1. Without(aff, Oldest(aff)) \in [Routes -> EntryType]
  BY WithoutType
<1>2. [acct |-> a, owner |-> r] \in EntryType
  BY DEF EntryType
<1> HIDE DEF EntryType, Without, Oldest
<1> QED
  BY <1>1, <1>2 DEF rememberRouteAffinity

LEMMA SignalledType ==
  ASSUME NEW p \in [Requests -> PCs]
  PROVE  Signalled(p) \in [Requests -> PCs]
BY DEF Signalled, PCs

LEMMA UnguardedType ==
  \A c \in CallType, a \in Accounts \cup {Null} : Unguarded(c, a) \in CallType
BY DEF Unguarded, WithSlot, CallType

LEMMA WithSlotType ==
  \A c \in CallType, a \in Accounts, p, n \in BOOLEAN : WithSlot(c, a, TRUE, p, n) \in CallType
BY DEF WithSlot, CallType

LEMMA NoCallType == NoCall \in CallType
BY DEF NoCall, CallType

LEMMA ProfileType == \A a \in Accounts : ProfileArn[a] # NoProfile => ProfileArn[a] \in Profiles
BY ConstantAssumption

LEMMA TypeInit == Init => TypeOK /\ CallInv
<1> SUFFICES ASSUME Init PROVE TypeOK /\ CallInv
  OBVIOUS
<1>1. ZeroState \in StateType
  BY DEF ZeroState, StateType, NoTime
<1>2. NoEntry \in EntryType
  BY DEF NoEntry, EntryType
<1> USE DEF Init
<1>3. TypeOK
  BY <1>1, <1>2, NoCallType DEF TypeOK, PCs
<1>4. CallInv
  BY DEF CallInv, NoCall
<1> QED
  BY <1>3, <1>4

LEMMA TypeNext == TypeOK /\ CallInv /\ [Next]_vars => TypeOK' /\ CallInv'
<1> SUFFICES ASSUME TypeOK, CallInv, [Next]_vars PROVE TypeOK' /\ CallInv'
  OBVIOUS
<1> USE DEF TypeOK, ReadsNext
<1> HIDE DEF StateType, CallType, EntryType, PCs
<1>1. ASSUME NEW r \in Requests, Start(r) PROVE TypeOK' /\ CallInv'
  <2>1. PICK m \in Models, ok \in Models \cup {Null}, route \in Routes \cup {Null} :
          call' = [call EXCEPT ![r] =
                     [model |-> m, okModel |-> ok, route |-> route, acct |-> Null,
                      guarded |-> FALSE, probe |-> FALSE, counted |-> FALSE]]
    BY <1>1 DEF Start
  <2>2. call' \in [Requests -> CallType]
    BY <2>1 DEF CallType
  <2>3. TypeOK'
    BY <1>1, <2>2 DEF Start, slotVars, affinityVars, PCs
  <2>4. CallInv'
    BY <1>1, <2>1 DEF Start, CallInv
  <2> QED
    BY <2>3, <2>4
<1>2. ASSUME NEW r \in Requests, AcquireForModel(r) PROVE TypeOK' /\ CallInv'
  <2>1. PICK candidates \in SUBSET Accounts, ready \in BOOLEAN, aff \in Pruned :
          \/ \E a \in candidates : TakeSlot(r, a, aff)
          \/ /\ pc' = [pc EXCEPT ![r] = "refused"]
             /\ affinity' = aff
             /\ UNCHANGED <<slotVars, seenBefore, call>>
    BY <1>2, Zenon DEF AcquireForModel
  <2>2. aff \in [Routes -> EntryType]
    BY WithoutType DEF Pruned
  <2>3. call[r].model \in Models /\ call[r].route \in Routes \cup {Null}
    BY <1>2 DEF AcquireForModel, CallInv, CallType
  <2>4. CASE \E a \in candidates : TakeSlot(r, a, aff)
    <3>1. PICK a \in candidates : TakeSlot(r, a, aff)
      BY <2>4
    <3>2. accountUpstream' \in [Accounts -> Nat]
      BY <3>1 DEF TakeSlot
    <3>3. upstream' \in [Accounts \X Models -> StateType]
      BY <3>1, <2>3, AdmitType DEF TakeSlot
    <3>4. profiles' \in [Profiles \X Models -> StateType]
      BY <3>1, <2>3, AdmitType, ProfileType DEF TakeSlot, profileLimit
    <3>5. affinity' \in [Routes -> EntryType]
      BY <3>1, <2>2, <2>3, RememberType DEF TakeSlot
    <3>6. seenBefore' \subseteq Routes \X Routes
      BY <3>1, <2>3 DEF TakeSlot, SeenNow
    <3>7. call' \in [Requests -> CallType]
      <4>1. IsHalfOpen(upstream[<<a, call[r].model>>]) \in BOOLEAN
        BY DEF IsHalfOpen
      <4>2. (profileLimit(upOf(r), ProfileArn[a], call[r].model) > 0) \in BOOLEAN
        OBVIOUS
      <4> QED
        BY <3>1, <4>1, <4>2, WithSlotType DEF TakeSlot
    <3>8. pc' = [pc EXCEPT ![r] = "calling"]
      BY <3>1 DEF TakeSlot
    <3>9. TypeOK'
      BY <1>2, <3>2, <3>3, <3>4, <3>5, <3>6, <3>7, <3>8 DEF AcquireForModel, PCs
    <3>10. CallInv'
      BY <3>1, <3>8, <2>3 DEF TakeSlot, CallInv, WithSlot
    <3> QED
      BY <3>9, <3>10
  <2>5. CASE /\ pc' = [pc EXCEPT ![r] = "refused"]
             /\ affinity' = aff
             /\ UNCHANGED <<slotVars, seenBefore, call>>
    <3>1. TypeOK'
      BY <1>2, <2>2, <2>5 DEF AcquireForModel, slotVars, PCs
    <3>2. CallInv'
      BY <1>2, <2>3, <2>5 DEF AcquireForModel, CallInv
    <3> QED
      BY <3>1, <3>2
  <2> QED
    BY <2>1, <2>4, <2>5
<1>3. ASSUME NEW r \in Requests, AcquireUnprotected(r) PROVE TypeOK' /\ CallInv'
  <2>0. call' \in [Requests -> CallType] /\ pc' \in [Requests -> PCs]
    <3>1. \A a \in Accounts : [call EXCEPT ![r] = Unguarded(@, a)] \in [Requests -> CallType]
      BY UnguardedType
    <3>2. [pc EXCEPT ![r] = "calling"] \in [Requests -> PCs] /\ [pc EXCEPT ![r] = "refused"] \in [Requests -> PCs]
      BY DEF PCs
    <3> QED
      BY <1>3, <3>1, <3>2, Zenon DEF AcquireUnprotected
  <2>1. TypeOK'
    BY <1>3, <2>0 DEF AcquireUnprotected, slotVars, affinityVars
  <2>2. CallInv'
    BY <1>3 DEF AcquireUnprotected, CallInv, Unguarded, WithSlot
  <2> QED
    BY <2>1, <2>2
<1>4. ASSUME NEW r \in Requests, ForgetAffinity(r) PROVE TypeOK' /\ CallInv'
  <2>1. affinity' \in [Routes -> EntryType]
    BY <1>4, WithoutType DEF ForgetAffinity
  <2>2. TypeOK'
    BY <1>4, <2>1 DEF ForgetAffinity, slotVars, PCs
  <2>3. CallInv'
    BY <1>4 DEF ForgetAffinity, CallInv
  <2> QED
    BY <2>2, <2>3
<1>5. ASSUME NEW r \in Requests, RetryCall(r) PROVE TypeOK' /\ CallInv'
  BY <1>5 DEF RetryCall, CallInv, slotVars, affinityVars, PCs
<1>6. ASSUME NEW r \in Requests, RecordUpstreamSuccess(r) PROVE TypeOK' /\ CallInv'
  <2>1. call[r].acct \in Accounts /\ call[r].okModel \in Models
    BY <1>6 DEF RecordUpstreamSuccess, CallInv, CallType
  <2>2. upstream' \in [Accounts \X Models -> StateType]
    BY <1>6, <2>1, CloseType DEF RecordUpstreamSuccess
  <2>3. profiles' \in [Profiles \X Models -> StateType]
    <3> DEFINE p == ProfileArn[call[r].acct]
               closed == [profiles EXCEPT ![<<p, call[r].okModel>>] = closeProtectionCircuit(@)]
    <3>1. profiles' = profiles \/ (p # NoProfile /\ profiles' = closed)
      BY <1>6, Zenon DEF RecordUpstreamSuccess
    <3>2. p # NoProfile => closed \in [Profiles \X Models -> StateType]
      BY <2>1, CloseType, ProfileType
    <3> QED
      BY <3>1, <3>2
  <2>4. [pc EXCEPT ![r] = "reported"] \in [Requests -> PCs]
    BY DEF PCs
  <2>5. TypeOK'
    BY <1>6, <2>2, <2>3, <2>4, SignalledType DEF RecordUpstreamSuccess, affinityVars
  <2>6. CallInv'
    BY <1>6, <2>1 DEF RecordUpstreamSuccess, CallInv, Signalled
  <2> QED
    BY <2>5, <2>6
<1>7. ASSUME NEW r \in Requests, Release(r) PROVE TypeOK' /\ CallInv'
  <2> DEFINE returned == [pc EXCEPT ![r] = IF @ = "reported" THEN "idle" ELSE "failed"]
  <2>1. call[r].acct \in Accounts /\ call[r].model \in Models
    BY <1>7 DEF Release, CallInv
  <2>2. returned \in [Requests -> PCs]
    BY DEF PCs
  <2>3. call' \in [Requests -> CallType]
    BY <1>7, <2>1, NoCallType, UnguardedType DEF Release
  <2>4. pc' \in [Requests -> PCs]
    BY <1>7, <2>2, SignalledType DEF Release
  <2>5. accountUpstream' \in [Accounts -> Nat]
    BY <1>7, <2>1 DEF Release, ReleaseSlot, slotVars
  <2>6. upstream' \in [Accounts \X Models -> StateType]
    BY <1>7, <2>1, ReleasedType DEF Release, ReleaseSlot, slotVars
  <2>7. profiles' \in [Profiles \X Models -> StateType]
    <3> DEFINE p == ProfileArn[call[r].acct]
               freed == [profiles EXCEPT ![<<p, call[r].model>>] = Released(upOf(r), @)]
    <3>1. profiles' = profiles \/ (p # NoProfile /\ profiles' = freed)
      BY <1>7, Zenon DEF Release, ReleaseSlot, slotVars
    <3>2. p # NoProfile => freed \in [Profiles \X Models -> StateType]
      BY <2>1, ReleasedType, ProfileType
    <3> QED
      BY <3>1, <3>2
  <2>8. affinity' \in [Routes -> EntryType]
    BY <1>7 DEF Release, Disowned, EntryType, slotVars
  <2>9. TypeOK'
    BY <1>7, <2>3, <2>4, <2>5, <2>6, <2>7, <2>8 DEF Release
  <2>10. \A q \in Requests : pc'[q] = returned[q] \/ (returned[q] = "queued" /\ pc'[q] = "woken")
    BY <1>7 DEF Release, Signalled
  <2>11. CallInv'
    BY <1>7, <2>1, <2>10 DEF Release, CallInv, NoCall, Unguarded, WithSlot
  <2> QED
    BY <2>9, <2>11
<1>8. ASSUME NEW r \in Requests, RecordUpstreamRateLimited(r) PROVE TypeOK' /\ CallInv'
  <2>1. call[r].acct \in Accounts /\ call[r].model \in Models
    BY <1>8 DEF RecordUpstreamRateLimited, CallInv
  <2>2. upstream' \in [Accounts \X Models -> StateType]
    <3>1. PICK ra \in RetryAfters :
            \E d \in Cooldowns(upOf(r), upstream[<<call[r].acct, call[r].model>>].rateLimitCount + 1, ra) :
              upstream' = [upstream EXCEPT ![<<call[r].acct, call[r].model>>] =
                             applyProtectionCooldown(@, d)]
      BY <1>8 DEF RecordUpstreamRateLimited
    <3>2. upstream[<<call[r].acct, call[r].model>>].rateLimitCount + 1 \in Nat
      BY <2>1 DEF StateType
    <3> QED
      BY <2>1, <3>1, <3>2, CooldownsType, CooldownType
  <2>3. profiles' \in [Profiles \X Models -> StateType]
    <3> DEFINE p == ProfileArn[call[r].acct]
               m == call[r].model
    <3>1. CASE profileLimit(upOf(r), p, m) > 0
      <4>1. p \in Profiles
        BY <2>1, <3>1, ProfileType DEF profileLimit
      <4>2. PICK ra \in RetryAfters :
              \E d \in Cooldowns(upOf(r), profiles[<<p, m>>].rateLimitCount + 1, ra) :
                profiles' = [profiles EXCEPT ![<<p, m>>] = applyProtectionCooldown(@, d)]
        BY <1>8, <3>1 DEF RecordUpstreamRateLimited
      <4>3. profiles[<<p, m>>].rateLimitCount + 1 \in Nat
        BY <2>1, <4>1 DEF StateType
      <4> QED
        BY <2>1, <4>1, <4>2, <4>3, CooldownsType, CooldownType
    <3>2. CASE ~(profileLimit(upOf(r), p, m) > 0)
      BY <1>8, <3>2 DEF RecordUpstreamRateLimited
    <3> QED
      BY <3>1, <3>2
  <2>4. affinity' \in [Routes -> EntryType]
    BY <1>8, WithoutType DEF RecordUpstreamRateLimited
  <2>5. [pc EXCEPT ![r] = "select"] \in [Requests -> PCs]
    BY DEF PCs
  <2>6. pc' \in [Requests -> PCs]
    BY <1>8, <2>5, SignalledType DEF RecordUpstreamRateLimited
  <2>7. call' \in [Requests -> CallType]
    BY <1>8, UnguardedType DEF RecordUpstreamRateLimited
  <2>8. TypeOK'
    BY <1>8, <2>2, <2>3, <2>4, <2>6, <2>7 DEF RecordUpstreamRateLimited
  <2>9. CallInv'
    BY <1>8, <2>1 DEF RecordUpstreamRateLimited, CallInv, Signalled, Unguarded, WithSlot
  <2> QED
    BY <2>8, <2>9
<1>9. ASSUME NEW r \in Requests, OtherFailure(r) PROVE TypeOK' /\ CallInv'
  <2>0. call' \in [Requests -> CallType] /\ pc' \in [Requests -> PCs]
    <3>1. /\ [call EXCEPT ![r] = Unguarded(@, Null)] \in [Requests -> CallType]
          /\ [call EXCEPT ![r] = NoCall] \in [Requests -> CallType]
      BY UnguardedType, NoCallType
    <3>2. [pc EXCEPT ![r] = "select"] \in [Requests -> PCs] /\ [pc EXCEPT ![r] = "idle"] \in [Requests -> PCs]
      BY DEF PCs
    <3> QED
      BY <1>9, <3>1, <3>2, Zenon DEF OtherFailure
  <2>1. TypeOK'
    BY <1>9, <2>0 DEF OtherFailure, slotVars, affinityVars
  <2>2. CallInv'
    BY <1>9 DEF OtherFailure, CallInv, Unguarded, WithSlot, NoCall
  <2> QED
    BY <2>1, <2>2
<1>10. ASSUME NEW r \in Requests, JoinQueue(r) PROVE TypeOK' /\ CallInv'
  BY <1>10 DEF JoinQueue, CallInv, slotVars, affinityVars, PCs
<1>11. ASSUME NEW r \in Requests, GiveUp(r) PROVE TypeOK' /\ CallInv'
  <2>1. TypeOK'
    BY <1>11, NoCallType DEF GiveUp, slotVars, affinityVars, PCs
  <2>2. CallInv'
    BY <1>11 DEF GiveUp, CallInv, NoCall
  <2> QED
    BY <2>1, <2>2
<1>12. ASSUME NEW r \in Requests, LeaveQueue(r) PROVE TypeOK' /\ CallInv'
  <2>1. TypeOK'
    BY <1>12, NoCallType DEF LeaveQueue, slotVars, affinityVars, PCs
  <2>2. CallInv'
    BY <1>12 DEF LeaveQueue, InQueue, CallInv, NoCall
  <2> QED
    BY <2>1, <2>2
<1>13. ASSUME NEW r \in Requests, NextRound(r) PROVE TypeOK' /\ CallInv'
  BY <1>13 DEF NextRound, CallInv, slotVars, affinityVars, PCs
<1>14. ASSUME UpdateUpstreamProtection \/ NotifyAvailability PROVE TypeOK' /\ CallInv'
  <2>1. TypeOK'
    <3>1. CASE UpdateUpstreamProtection
      <4>1. Updates[up] \subseteq Configs
        BY ConfigAssumption DEF TypeOK
      <4> QED
        BY <3>1, <4>1 DEF TypeOK, UpdateUpstreamProtection, slotVars, affinityVars
    <3>2. CASE NotifyAvailability
      BY <3>2, SignalledType DEF NotifyAvailability, slotVars, affinityVars
    <3> QED
      BY <1>14, <3>1, <3>2
  <2>2. CallInv'
    BY <1>14 DEF UpdateUpstreamProtection, NotifyAvailability, CallInv, Signalled
  <2> QED
    BY <2>1, <2>2
<1>15. ASSUME Tick PROVE TypeOK' /\ CallInv'
  <2>1. TypeOK'
    BY <1>15, AgedType DEF Tick, affinityVars
  <2>2. CallInv'
    BY <1>15 DEF Tick, CallInv
  <2> QED
    BY <2>1, <2>2
<1>16. ASSUME UNCHANGED vars PROVE TypeOK' /\ CallInv'
  BY <1>16 DEF vars, CallInv
<1> QED
  BY <1>1, <1>2, <1>3, <1>4, <1>5, <1>6, <1>7, <1>8, <1>9, <1>10, <1>11, <1>12,
     <1>13, <1>14, <1>15, <1>16 DEF Next, RequestStep

(* Type correctness of the pool's protection state, with the discipline of  *)
(* the request loop it depends on: no key is ever read outside its map and  *)
(* no guard outlives the loop iteration that acquired it.                   *)
THEOREM TypeCorrect == Spec => [](TypeOK /\ CallInv)
<1>1. Init => TypeOK /\ CallInv
  BY TypeInit
<1>2. TypeOK /\ CallInv /\ [Next]_vars => (TypeOK /\ CallInv)'
  BY TypeNext
<1> QED
  BY <1>1, <1>2, PTL DEF Spec

-----------------------------------------------------------------------------
(* Slot accounting. *)

LEMMA HoldersFinite ==
  /\ \A a \in Accounts : IsFiniteSet(Holders(a)) /\ Cardinality(Holders(a)) \in Nat
  /\ \A a \in Accounts, m \in Models :
       IsFiniteSet(ModelHolders(a, m)) /\ Cardinality(ModelHolders(a, m)) \in Nat
  /\ \A p \in Profiles, m \in Models :
       IsFiniteSet(ProfileHolders(p, m)) /\ Cardinality(ProfileHolders(p, m)) \in Nat
<1>1. IsFiniteSet(Requests)
  BY ConstantAssumption
<1>2. \A a \in Accounts : Holders(a) \subseteq Requests
  BY DEF Holders
<1>3. \A a \in Accounts, m \in Models : ModelHolders(a, m) \subseteq Requests
  BY DEF Holders, ModelHolders
<1>4. \A p \in Profiles, m \in Models : ProfileHolders(p, m) \subseteq Requests
  BY DEF ProfileHolders
<1> QED
  BY <1>1, <1>2, <1>3, <1>4, FS_Subset, FS_CardinalityType

(* A step that leaves every guard alone leaves the sets of holders alone.   *)
GuardsKept ==
  \A q \in Requests :
    /\ call'[q].guarded <=> call[q].guarded
    /\ call[q].guarded => call'[q].acct = call[q].acct /\ call'[q].model = call[q].model

LEMMA HoldersKept ==
  ASSUME GuardsKept
  PROVE  /\ \A a \in Accounts : Holders(a)' = Holders(a)
         /\ \A a \in Accounts, m \in Models : ModelHolders(a, m)' = ModelHolders(a, m)
         /\ \A p \in Profiles, m \in Models : ProfileHolders(p, m)' = ProfileHolders(p, m)
<1>1. ASSUME NEW a \in Accounts PROVE Holders(a)' = Holders(a)
  BY DEF GuardsKept, Holders
<1>2. ASSUME NEW a \in Accounts, NEW m \in Models PROVE ModelHolders(a, m)' = ModelHolders(a, m)
  BY DEF GuardsKept, Holders, ModelHolders
<1>3. ASSUME NEW p \in Profiles, NEW m \in Models PROVE ProfileHolders(p, m)' = ProfileHolders(p, m)
  BY DEF GuardsKept, ProfileHolders
<1> QED
  BY <1>1, <1>2, <1>3

LEMMA UnguardedStep ==
  ASSUME TypeOK, CallInv, NEW r \in Requests,
         pc[r] \notin {"calling", "returned", "reported"},
         NEW c, ~c.guarded, call' = [call EXCEPT ![r] = c]
  PROVE  GuardsKept
<1>1. ~call[r].guarded
  BY DEF CallInv
<1>2. call'[r] = c /\ \A q \in Requests \ {r} : call'[q] = call[q]
  BY DEF TypeOK
<1> QED
  BY <1>1, <1>2 DEF GuardsKept

(* The steps that neither take nor free a slot keep every in-flight count.  *)
LEMMA SlotsKept ==
  ASSUME TypeOK, CallInv, [Next]_vars,
         \A r \in Requests : ~(AcquireForModel(r) \/ Release(r))
  PROVE  /\ GuardsKept
         /\ accountUpstream' = accountUpstream
         /\ \A a \in Accounts, m \in Models :
              upstream'[<<a, m>>].inFlight = upstream[<<a, m>>].inFlight
         /\ \A p \in Profiles, m \in Models :
              profiles'[<<p, m>>].inFlight = profiles[<<p, m>>].inFlight
<1> DEFINE Goal == /\ GuardsKept
                   /\ accountUpstream' = accountUpstream
                   /\ \A a \in Accounts, m \in Models :
                        upstream'[<<a, m>>].inFlight = upstream[<<a, m>>].inFlight
                   /\ \A p \in Profiles, m \in Models :
                        profiles'[<<p, m>>].inFlight = profiles[<<p, m>>].inFlight
<1> SUFFICES Goal
  OBVIOUS
<1>1. ASSUME NEW r \in Requests, Start(r) PROVE Goal
  <2>1. PICK c : ~c.guarded /\ call' = [call EXCEPT ![r] = c]
    BY <1>1 DEF Start
  <2> QED
    BY <1>1, <2>1, UnguardedStep DEF Start, slotVars
<1>2. ASSUME NEW r \in Requests, AcquireUnprotected(r) PROVE Goal
  <2>1. CASE call' = call
    BY <1>2, <2>1 DEF AcquireUnprotected, GuardsKept, slotVars
  <2>2. CASE \E a \in Accounts : call' = [call EXCEPT ![r] = Unguarded(@, a)]
    <3>1. PICK c : ~c.guarded /\ call' = [call EXCEPT ![r] = c]
      BY <2>2 DEF Unguarded, WithSlot
    <3> QED
      BY <1>2, <3>1, UnguardedStep DEF AcquireUnprotected, slotVars
  <2> QED
    BY <1>2, <2>1, <2>2 DEF AcquireUnprotected
<1>3. ASSUME NEW r \in Requests, ForgetAffinity(r) \/ RetryCall(r) PROVE Goal
  BY <1>3 DEF ForgetAffinity, RetryCall, GuardsKept, slotVars
<1>4. ASSUME NEW r \in Requests, RecordUpstreamSuccess(r) PROVE Goal
  <2>1. \A s \in StateType : closeProtectionCircuit(s).inFlight = s.inFlight
    BY DEF closeProtectionCircuit, ZeroState, StateType
  <2>2. call[r].acct \in Accounts /\ call[r].okModel \in Models
    BY <1>4 DEF RecordUpstreamSuccess, CallInv, TypeOK, CallType
  <2>3. /\ upstream \in [Accounts \X Models -> StateType]
        /\ profiles \in [Profiles \X Models -> StateType]
    BY DEF TypeOK
  <2> HIDE DEF closeProtectionCircuit, StateType
  <2>4. \A a \in Accounts, m \in Models :
          upstream'[<<a, m>>].inFlight = upstream[<<a, m>>].inFlight
    BY <1>4, <2>1, <2>2, <2>3 DEF RecordUpstreamSuccess
  <2>5. \A p \in Profiles, m \in Models :
          profiles'[<<p, m>>].inFlight = profiles[<<p, m>>].inFlight
    <3> DEFINE p == ProfileArn[call[r].acct]
               closed == [profiles EXCEPT ![<<p, call[r].okModel>>] = closeProtectionCircuit(@)]
    <3>1. profiles' = profiles \/ (p # NoProfile /\ profiles' = closed)
      BY <1>4, Zenon DEF RecordUpstreamSuccess
    <3>2. p # NoProfile => p \in Profiles
      BY <2>2, ProfileType
    <3> QED
      BY <2>1, <2>2, <2>3, <3>1, <3>2
  <2> QED
    BY <1>4, <2>4, <2>5 DEF RecordUpstreamSuccess, GuardsKept
<1>5. ASSUME NEW r \in Requests, RecordUpstreamRateLimited(r) PROVE Goal
  <2>2. call[r].acct \in Accounts /\ call[r].model \in Models
    BY <1>5 DEF RecordUpstreamRateLimited, CallInv
  <2>3. /\ upstream \in [Accounts \X Models -> StateType]
        /\ profiles \in [Profiles \X Models -> StateType]
    BY DEF TypeOK
  <2>4. \A a \in Accounts, m \in Models :
          upstream'[<<a, m>>].inFlight = upstream[<<a, m>>].inFlight
    <3>1. PICK d : upstream' = [upstream EXCEPT ![<<call[r].acct, call[r].model>>] =
                                  applyProtectionCooldown(@, d)]
      BY <1>5 DEF RecordUpstreamRateLimited
    <3> QED
      BY <2>2, <2>3, <3>1 DEF applyProtectionCooldown
  <2>5. \A p \in Profiles, m \in Models :
          profiles'[<<p, m>>].inFlight = profiles[<<p, m>>].inFlight
    <3> DEFINE k == <<ProfileArn[call[r].acct], call[r].model>>
    <3>1. \/ profiles' = profiles
          \/ \E d : profiles' = [profiles EXCEPT ![k] = applyProtectionCooldown(@, d)]
      BY <1>5, Zenon DEF RecordUpstreamRateLimited
    <3>2. CASE profiles' = profiles
      BY <3>2
    <3>3. CASE \E d : profiles' = [profiles EXCEPT ![k] = applyProtectionCooldown(@, d)]
      <4>1. PICK d : profiles' = [profiles EXCEPT ![k] = applyProtectionCooldown(@, d)]
        BY <3>3
      <4> QED
        BY <2>2, <2>3, <4>1 DEF applyProtectionCooldown
    <3> QED
      BY <3>1, <3>2, <3>3
  <2>6. PICK c : ~c.guarded /\ call' = [call EXCEPT ![r] = c]
    BY <1>5 DEF RecordUpstreamRateLimited, Unguarded, WithSlot
  <2> QED
    BY <1>5, <2>4, <2>5, <2>6, UnguardedStep DEF RecordUpstreamRateLimited
<1>6. ASSUME NEW r \in Requests, OtherFailure(r) PROVE Goal
  <2>1. PICK c : ~c.guarded /\ call' = [call EXCEPT ![r] = c]
    BY <1>6 DEF OtherFailure, Unguarded, WithSlot, NoCall
  <2> QED
    BY <1>6, <2>1, UnguardedStep DEF OtherFailure, slotVars
<1>7. ASSUME NEW r \in Requests, JoinQueue(r) \/ NextRound(r) PROVE Goal
  BY <1>7 DEF JoinQueue, NextRound, GuardsKept, slotVars
<1>8. ASSUME NEW r \in Requests, GiveUp(r) PROVE Goal
  <2>1. PICK c : ~c.guarded /\ call' = [call EXCEPT ![r] = c]
    BY <1>8 DEF GiveUp, NoCall
  <2> QED
    BY <1>8, <2>1, UnguardedStep DEF GiveUp, slotVars
<1>9. ASSUME NEW r \in Requests, LeaveQueue(r) PROVE Goal
  <2>1. CASE call' = call
    BY <1>9, <2>1 DEF LeaveQueue, GuardsKept, slotVars
  <2>2. CASE call' = [call EXCEPT ![r] = NoCall]
    <3>1. ~NoCall.guarded
      BY DEF NoCall
    <3> QED
      BY <1>9, <2>2, <3>1, UnguardedStep DEF LeaveQueue, InQueue, slotVars
  <2> QED
    BY <1>9, <2>1, <2>2 DEF LeaveQueue
<1>10. ASSUME UpdateUpstreamProtection \/ NotifyAvailability PROVE Goal
  BY <1>10 DEF UpdateUpstreamProtection, NotifyAvailability, GuardsKept, slotVars
<1>11. ASSUME Tick PROVE Goal
  <2>1. \A s \in StateType : Aged(s).inFlight = s.inFlight
    BY DEF Aged, StateType
  <2> QED
    BY <1>11, <2>1 DEF Tick, GuardsKept, TypeOK
<1>12. ASSUME UNCHANGED vars PROVE Goal
  BY <1>12 DEF vars, GuardsKept
<1> QED
  BY <1>1, <1>2, <1>3, <1>4, <1>5, <1>6, <1>7, <1>8, <1>9, <1>10, <1>11, <1>12
     DEF Next, RequestStep

(* AcquireForModel either refuses, changing no slot, or takes one slot.      *)
LEMMA AcquireCases ==
  ASSUME NEW r \in Requests, AcquireForModel(r)
  PROVE  \/ UNCHANGED <<slotVars, call>>
         \/ \E a \in Accounts, aff \in Pruned : TakeSlot(r, a, aff) /\ ~SlotBusy(upOf(r), a, call[r].model)
<1>1. PICK candidates \in SUBSET Accounts, ready \in BOOLEAN, aff \in Pruned :
        LET free  == {a \in candidates : ~SlotBusy(upOf(r), a, call[r].model)}
            bound == IF ready THEN free \cap BoundTo(aff, call[r].route) ELSE {}
        IN  IF free # {}
            THEN \E a \in (IF bound # {} THEN bound ELSE free) : TakeSlot(r, a, aff)
            ELSE /\ pc' = [pc EXCEPT ![r] = "refused"]
                 /\ affinity' = aff
                 /\ UNCHANGED <<slotVars, seenBefore, call>>
  BY DEF AcquireForModel
<1> QED
  BY <1>1, Zenon

LEMMA SlotTaken ==
  ASSUME TypeOK, CallInv, NEW r \in Requests, pc[r] = "select",
         NEW a \in Accounts, NEW aff, TakeSlot(r, a, aff)
  PROVE  /\ \A b \in Accounts : /\ r \notin Holders(b)
                                /\ Holders(b)' = IF b = a THEN Holders(b) \cup {r} ELSE Holders(b)
         /\ \A b \in Accounts, m \in Models :
              /\ r \notin ModelHolders(b, m)
              /\ ModelHolders(b, m)' = IF b = a /\ m = call[r].model
                                       THEN ModelHolders(b, m) \cup {r} ELSE ModelHolders(b, m)
         /\ \A p \in Profiles, m \in Models :
              /\ r \notin ProfileHolders(p, m)
              /\ ProfileHolders(p, m)' = IF p = ProfileArn[a] /\ m = call[r].model
                                         THEN ProfileHolders(p, m) \cup {r} ELSE ProfileHolders(p, m)
<1>1. ~call[r].guarded
  BY DEF CallInv
<1>2. \A q \in Requests \ {r} : call'[q] = call[q]
  BY DEF TakeSlot, TypeOK
<1>3. call'[r].guarded /\ call'[r].acct = a /\ call'[r].model = call[r].model
  BY DEF TakeSlot, WithSlot, TypeOK
<1>4. ASSUME NEW b \in Accounts
      PROVE  /\ r \notin Holders(b)
             /\ Holders(b)' = IF b = a THEN Holders(b) \cup {r} ELSE Holders(b)
  BY <1>1, <1>2, <1>3 DEF Holders
<1>5. ASSUME NEW b \in Accounts, NEW m \in Models
      PROVE  /\ r \notin ModelHolders(b, m)
             /\ ModelHolders(b, m)' = IF b = a /\ m = call[r].model
                                      THEN ModelHolders(b, m) \cup {r} ELSE ModelHolders(b, m)
  BY <1>1, <1>2, <1>3 DEF Holders, ModelHolders
<1>6. ASSUME NEW p \in Profiles, NEW m \in Models
      PROVE  /\ r \notin ProfileHolders(p, m)
             /\ ProfileHolders(p, m)' = IF p = ProfileArn[a] /\ m = call[r].model
                                        THEN ProfileHolders(p, m) \cup {r} ELSE ProfileHolders(p, m)
  BY <1>1, <1>2, <1>3 DEF ProfileHolders
<1> QED
  BY <1>4, <1>5, <1>6

LEMMA SlotFreed ==
  ASSUME TypeOK, CallInv, NEW r \in Requests, Release(r), call[r].guarded
  PROVE  /\ \A b \in Accounts : /\ b = call[r].acct <=> r \in Holders(b)
                                /\ Holders(b)' = Holders(b) \ {r}
         /\ \A b \in Accounts, m \in Models :
              /\ (b = call[r].acct /\ m = call[r].model) <=> r \in ModelHolders(b, m)
              /\ ModelHolders(b, m)' = ModelHolders(b, m) \ {r}
         /\ \A p \in Profiles, m \in Models :
              /\ (p = ProfileArn[call[r].acct] /\ m = call[r].model) <=> r \in ProfileHolders(p, m)
              /\ ProfileHolders(p, m)' = ProfileHolders(p, m) \ {r}
<1>1. \A q \in Requests \ {r} : call'[q] = call[q]
  BY DEF Release, TypeOK
<1>2. ~call'[r].guarded
  BY DEF Release, TypeOK, NoCall, Unguarded, WithSlot
<1>3. ASSUME NEW b \in Accounts
      PROVE  /\ b = call[r].acct <=> r \in Holders(b)
             /\ Holders(b)' = Holders(b) \ {r}
  BY <1>1, <1>2 DEF Holders
<1>4. ASSUME NEW b \in Accounts, NEW m \in Models
      PROVE  /\ (b = call[r].acct /\ m = call[r].model) <=> r \in ModelHolders(b, m)
             /\ ModelHolders(b, m)' = ModelHolders(b, m) \ {r}
  BY <1>1, <1>2 DEF Holders, ModelHolders
<1>5. ASSUME NEW p \in Profiles, NEW m \in Models
      PROVE  /\ (p = ProfileArn[call[r].acct] /\ m = call[r].model) <=> r \in ProfileHolders(p, m)
             /\ ProfileHolders(p, m)' = ProfileHolders(p, m) \ {r}
  BY <1>1, <1>2 DEF ProfileHolders
<1> QED
  BY <1>3, <1>4, <1>5

LEMMA SlotNext ==
  ASSUME TypeOK, CallInv, SlotConservation, ProfileNeverOvercounts, [Next]_vars
  PROVE  SlotConservation' /\ ProfileNeverOvercounts'
<1> USE DEF SlotConservation, ProfileNeverOvercounts
<1>1. CASE \A r \in Requests : ~(AcquireForModel(r) \/ Release(r))
  BY <1>1, SlotsKept, HoldersKept
<1>2. ASSUME NEW r \in Requests, AcquireForModel(r)
      PROVE  SlotConservation' /\ ProfileNeverOvercounts'
  <2>1. CASE UNCHANGED <<slotVars, call>>
    <3>1. GuardsKept
      BY <2>1 DEF GuardsKept
    <3> QED
      BY <2>1, <3>1, HoldersKept DEF slotVars
  <2>2. ASSUME NEW a \in Accounts, NEW aff \in Pruned, TakeSlot(r, a, aff)
        PROVE  SlotConservation' /\ ProfileNeverOvercounts'
    <3> DEFINE m == call[r].model
               p == ProfileArn[a]
    <3>0. pc[r] = "select" /\ m \in Models
      BY <1>2 DEF AcquireForModel, CallInv
    <3>1. \A s \in StateType : Admit(s).inFlight = s.inFlight + 1
      BY DEF Admit, activateHalfOpenProbe, StateType
    <3>2. \A b \in Accounts : accountUpstream'[b] = IF b = a THEN accountUpstream[b] + 1
                                                            ELSE accountUpstream[b]
      BY <2>2 DEF TakeSlot, TypeOK
    <3>3. \A b \in Accounts, n \in Models :
            upstream'[<<b, n>>].inFlight = IF b = a /\ n = m THEN upstream[<<b, n>>].inFlight + 1
                                                             ELSE upstream[<<b, n>>].inFlight
      <4>1. upstream' = [upstream EXCEPT ![<<a, m>>] = Admit(@)]
        BY <2>2 DEF TakeSlot
      <4> HIDE DEF m
      <4> QED
        BY <3>0, <3>1, <4>1 DEF TypeOK
    <3>4. ASSUME NEW q \in Profiles, NEW n \in Models
          PROVE  /\ profiles[<<q, n>>].inFlight \in Nat
                 /\ \/ profiles'[<<q, n>>].inFlight = profiles[<<q, n>>].inFlight
                    \/ /\ q = p /\ n = m
                       /\ profiles'[<<q, n>>].inFlight = profiles[<<q, n>>].inFlight + 1
      <4>1. profiles' = profiles \/ (p \in Profiles /\ profiles' = [profiles EXCEPT ![<<p, m>>] = Admit(@)])
        BY <2>2, ProfileType DEF TakeSlot, profileLimit
      <4>2. profiles[<<q, n>>] \in StateType
        BY DEF TypeOK
      <4>3. profiles[<<q, n>>].inFlight \in Nat
        BY <4>2 DEF StateType
      <4> HIDE DEF m, p
      <4>4. CASE profiles' = profiles
        BY <4>3, <4>4
      <4>5. CASE p \in Profiles /\ profiles' = [profiles EXCEPT ![<<p, m>>] = Admit(@)]
        <5>1. profiles'[<<q, n>>] = IF q = p /\ n = m THEN Admit(profiles[<<q, n>>])
                                                      ELSE profiles[<<q, n>>]
          BY <3>0, <4>5 DEF TypeOK
        <5> QED
          BY <3>1, <4>2, <4>3, <5>1
      <4> QED
        BY <4>1, <4>4, <4>5
    <3>5. \A b \in Accounts : Cardinality(Holders(b)') =
            IF b = a THEN Cardinality(Holders(b)) + 1 ELSE Cardinality(Holders(b))
      BY <2>2, <3>0, SlotTaken, HoldersFinite, FS_AddElement
    <3>6. \A b \in Accounts, n \in Models : Cardinality(ModelHolders(b, n)') =
            IF b = a /\ n = m THEN Cardinality(ModelHolders(b, n)) + 1
                              ELSE Cardinality(ModelHolders(b, n))
      <4> SUFFICES ASSUME NEW b \in Accounts, NEW n \in Models
                   PROVE  Cardinality(ModelHolders(b, n)') =
                            IF b = a /\ n = m THEN Cardinality(ModelHolders(b, n)) + 1
                                              ELSE Cardinality(ModelHolders(b, n))
        OBVIOUS
      <4>1. /\ r \notin ModelHolders(b, n)
            /\ ModelHolders(b, n)' = IF b = a /\ n = m THEN ModelHolders(b, n) \cup {r}
                                                       ELSE ModelHolders(b, n)
        BY <2>2, <3>0, SlotTaken
      <4>2. IsFiniteSet(ModelHolders(b, n))
        BY HoldersFinite
      <4> QED
        BY <4>1, <4>2, FS_AddElement
    <3>7. \A q \in Profiles, n \in Models : Cardinality(ProfileHolders(q, n)') =
            IF q = p /\ n = m THEN Cardinality(ProfileHolders(q, n)) + 1
                              ELSE Cardinality(ProfileHolders(q, n))
      <4> SUFFICES ASSUME NEW q \in Profiles, NEW n \in Models
                   PROVE  Cardinality(ProfileHolders(q, n)') =
                            IF q = p /\ n = m THEN Cardinality(ProfileHolders(q, n)) + 1
                                              ELSE Cardinality(ProfileHolders(q, n))
        OBVIOUS
      <4>1. /\ r \notin ProfileHolders(q, n)
            /\ ProfileHolders(q, n)' = IF q = p /\ n = m THEN ProfileHolders(q, n) \cup {r}
                                                         ELSE ProfileHolders(q, n)
        BY <2>2, <3>0, SlotTaken
      <4>2. IsFiniteSet(ProfileHolders(q, n))
        BY HoldersFinite
      <4> QED
        BY <4>1, <4>2, FS_AddElement
    <3>8. SlotConservation'
      BY <3>2, <3>3, <3>5, <3>6
    <3>9. ProfileNeverOvercounts'
      <4> HIDE DEF m, p
      <4> SUFFICES ASSUME NEW q \in Profiles, NEW n \in Models
                   PROVE  profiles'[<<q, n>>].inFlight <= Cardinality(ProfileHolders(q, n)')
        OBVIOUS
      <4>1. /\ profiles[<<q, n>>].inFlight <= Cardinality(ProfileHolders(q, n))
            /\ Cardinality(ProfileHolders(q, n)) \in Nat
        BY HoldersFinite
      <4> QED
        BY <3>4, <3>7, <4>1
    <3> QED
      BY <3>8, <3>9
  <2> QED
    BY <1>2, <2>1, <2>2, AcquireCases
<1>3. ASSUME NEW r \in Requests, Release(r)
      PROVE  SlotConservation' /\ ProfileNeverOvercounts'
  <2>1. CASE ~call[r].guarded
    <3>1. UNCHANGED slotVars
      BY <1>3, <2>1 DEF Release
    <3>2. GuardsKept
      BY <1>3, <2>1 DEF Release, GuardsKept, TypeOK, NoCall, Unguarded, WithSlot
    <3> QED
      BY <3>1, <3>2, HoldersKept DEF slotVars
  <2>2. CASE call[r].guarded
    <3> DEFINE a == call[r].acct
               m == call[r].model
               p == ProfileArn[a]
    <3>0. a \in Accounts /\ m \in Models /\ ReleaseSlot(r)
      BY <1>3, <2>2 DEF Release, CallInv
    <3>1. \A s \in StateType : Released(upOf(r), s).inFlight = IF s.inFlight > 0 THEN s.inFlight - 1 ELSE 0
      BY DEF Released, Reopened, protectionStateIdle, ZeroState, StateType
    <3>2. \A b \in Accounts : accountUpstream'[b] =
            IF b = a /\ accountUpstream[b] > 0 THEN accountUpstream[b] - 1 ELSE accountUpstream[b]
      BY <3>0 DEF ReleaseSlot, TypeOK
    <3>3. \A b \in Accounts, n \in Models : upstream'[<<b, n>>].inFlight =
            IF b = a /\ n = m
            THEN IF upstream[<<b, n>>].inFlight > 0 THEN upstream[<<b, n>>].inFlight - 1 ELSE 0
            ELSE upstream[<<b, n>>].inFlight
      <4>1. upstream' = [upstream EXCEPT ![<<a, m>>] = Released(upOf(r), @)]
        BY <3>0 DEF ReleaseSlot
      <4> HIDE DEF a, m
      <4> QED
        BY <3>0, <3>1, <4>1 DEF TypeOK
    <3>4. \A q \in Profiles, n \in Models :
            /\ profiles[<<q, n>>].inFlight \in Nat
            /\ profiles'[<<q, n>>].inFlight =
                 IF q = p /\ n = m
                 THEN IF profiles[<<q, n>>].inFlight > 0 THEN profiles[<<q, n>>].inFlight - 1 ELSE 0
                 ELSE profiles[<<q, n>>].inFlight
      <4>1. IF p = NoProfile THEN profiles' = profiles
                             ELSE profiles' = [profiles EXCEPT ![<<p, m>>] = Released(upOf(r), @)]
        BY <3>0 DEF ReleaseSlot
      <4>2. \A s \in StateType : s.inFlight \in Nat
        BY DEF StateType
      <4>3. p # NoProfile => p \in Profiles
        BY <3>0, ProfileType
      <4>4. NoProfile \notin Profiles
        BY ConstantAssumption
      <4>5. profiles \in [Profiles \X Models -> StateType]
        BY DEF TypeOK
      <4> HIDE DEF a, m, p
      <4> SUFFICES ASSUME NEW q \in Profiles, NEW n \in Models
                   PROVE  /\ profiles[<<q, n>>].inFlight \in Nat
                          /\ profiles'[<<q, n>>].inFlight =
                               IF q = p /\ n = m
                               THEN IF profiles[<<q, n>>].inFlight > 0
                                    THEN profiles[<<q, n>>].inFlight - 1 ELSE 0
                               ELSE profiles[<<q, n>>].inFlight
        OBVIOUS
      <4>6. profiles[<<q, n>>] \in StateType
        BY <4>5
      <4>7. profiles'[<<q, n>>] = IF q = p /\ n = m THEN Released(upOf(r), profiles[<<q, n>>])
                                                    ELSE profiles[<<q, n>>]
        <5>1. CASE p = NoProfile
          BY <4>1, <4>4, <5>1
        <5>2. CASE p # NoProfile
          BY <3>0, <4>1, <4>3, <4>5, <5>2
        <5> QED
          BY <5>1, <5>2
      <4> QED
        BY <3>1, <4>2, <4>6, <4>7
    <3>5. \A b \in Accounts : Cardinality(Holders(b)') =
            IF b = a THEN Cardinality(Holders(b)) - 1 ELSE Cardinality(Holders(b))
      BY <1>3, <2>2, SlotFreed, HoldersFinite, FS_RemoveElement
    <3>6. \A b \in Accounts, n \in Models : Cardinality(ModelHolders(b, n)') =
            IF b = a /\ n = m THEN Cardinality(ModelHolders(b, n)) - 1
                              ELSE Cardinality(ModelHolders(b, n))
      BY <1>3, <2>2, SlotFreed, HoldersFinite, FS_RemoveElement
    <3>7. \A q \in Profiles, n \in Models :
            /\ Cardinality(ProfileHolders(q, n)') =
                 IF q = p /\ n = m THEN Cardinality(ProfileHolders(q, n)) - 1
                                   ELSE Cardinality(ProfileHolders(q, n))
            /\ q = p /\ n = m => Cardinality(ProfileHolders(q, n)) > 0
      <4> SUFFICES ASSUME NEW q \in Profiles, NEW n \in Models
                   PROVE  /\ Cardinality(ProfileHolders(q, n)') =
                               IF q = p /\ n = m THEN Cardinality(ProfileHolders(q, n)) - 1
                                                 ELSE Cardinality(ProfileHolders(q, n))
                          /\ q = p /\ n = m => Cardinality(ProfileHolders(q, n)) > 0
        OBVIOUS
      <4>1. /\ (q = p /\ n = m) <=> r \in ProfileHolders(q, n)
            /\ ProfileHolders(q, n)' = ProfileHolders(q, n) \ {r}
        BY <1>3, <2>2, SlotFreed
      <4>2. IsFiniteSet(ProfileHolders(q, n))
        BY HoldersFinite
      <4>3. CASE r \in ProfileHolders(q, n)
        <5>1. /\ Cardinality(ProfileHolders(q, n)') = Cardinality(ProfileHolders(q, n)) - 1
              /\ Cardinality(ProfileHolders(q, n)) # 0
          BY <4>1, <4>2, <4>3, FS_RemoveElement, FS_EmptySet
        <5>2. Cardinality(ProfileHolders(q, n)) \in Nat
          BY <4>2, FS_CardinalityType
        <5> QED
          BY <4>1, <4>3, <5>1, <5>2
      <4>4. CASE r \notin ProfileHolders(q, n)
        <5>1. ProfileHolders(q, n)' = ProfileHolders(q, n)
          BY <4>1, <4>4
        <5> QED
          BY <4>1, <4>4, <5>1
      <4> QED
        BY <4>3, <4>4
    <3>8. /\ Cardinality(Holders(a)) > 0
          /\ Cardinality(ModelHolders(a, m)) > 0
      BY <1>3, <2>2, <3>0, SlotFreed, HoldersFinite, FS_EmptySet
    <3>9. SlotConservation'
      BY <3>0, <3>2, <3>3, <3>5, <3>6, <3>8
    <3>10. ProfileNeverOvercounts'
      <4> HIDE DEF a, m, p
      <4> SUFFICES ASSUME NEW q \in Profiles, NEW n \in Models
                   PROVE  profiles'[<<q, n>>].inFlight <= Cardinality(ProfileHolders(q, n)')
        OBVIOUS
      <4>1. /\ profiles[<<q, n>>].inFlight <= Cardinality(ProfileHolders(q, n))
            /\ Cardinality(ProfileHolders(q, n)) \in Nat
        BY HoldersFinite
      <4> QED
        BY <3>4, <3>7, <4>1
    <3> QED
      BY <3>9, <3>10
  <2> QED
    BY <2>1, <2>2
<1> QED
  BY <1>1, <1>2, <1>3

LEMMA SlotInit == Init => SlotConservation /\ ProfileNeverOvercounts
<1> SUFFICES ASSUME Init PROVE SlotConservation /\ ProfileNeverOvercounts
  OBVIOUS
<1>1. \A r \in Requests : ~call[r].guarded
  BY DEF Init, NoCall
<1>2. ASSUME NEW a \in Accounts PROVE Holders(a) = {}
  BY <1>1 DEF Holders
<1>3. ASSUME NEW a \in Accounts, NEW m \in Models PROVE ModelHolders(a, m) = {}
  BY <1>1 DEF Holders, ModelHolders
<1>4. ASSUME NEW p \in Profiles, NEW m \in Models PROVE ProfileHolders(p, m) = {}
  BY <1>1 DEF ProfileHolders
<1>5. Cardinality({}) = 0
  BY FS_EmptySet
<1>6. SlotConservation
  BY <1>2, <1>3, <1>5 DEF Init, ZeroState, SlotConservation
<1>7. ProfileNeverOvercounts
  <2>1. ASSUME NEW p \in Profiles, NEW m \in Models
        PROVE  profiles[<<p, m>>].inFlight <= Cardinality(ProfileHolders(p, m))
    <3>1. profiles[<<p, m>>] = ZeroState
      BY DEF Init
    <3>2. ProfileHolders(p, m) = {}
      BY <1>4
    <3>3. profiles[<<p, m>>].inFlight = 0 /\ Cardinality(ProfileHolders(p, m)) = 0
      BY <1>5, <3>1, <3>2 DEF ZeroState
    <3> QED
      BY <3>3
  <2> QED
    BY <2>1 DEF ProfileNeverOvercounts
<1> QED
  BY <1>6, <1>7

(* Releases pair exactly with admissions: the counters tryAcquireSlotLocked *)
(* increments and releaseUpstreamSlot decrements always equal the guards    *)
(* outstanding, for any number of requests, accounts and settings changes.  *)
THEOREM SlotsConserved == Spec => []SlotConservation
<1>1. Init => SlotConservation /\ ProfileNeverOvercounts
  BY SlotInit
<1>2. /\ TypeOK /\ CallInv
      /\ SlotConservation /\ ProfileNeverOvercounts /\ [Next]_vars
      => SlotConservation' /\ ProfileNeverOvercounts'
  BY SlotNext
<1> QED
  BY <1>1, <1>2, TypeCorrect, PTL DEF Spec

(* The profile counter of releaseUpstreamSlot is never above the guards on  *)
(* that profile and model, whatever limits are saved meanwhile.             *)
THEOREM ProfileBounded == Spec => []ProfileNeverOvercounts
<1>1. Init => SlotConservation /\ ProfileNeverOvercounts
  BY SlotInit
<1>2. /\ TypeOK /\ CallInv
      /\ SlotConservation /\ ProfileNeverOvercounts /\ [Next]_vars
      => SlotConservation' /\ ProfileNeverOvercounts'
  BY SlotNext
<1> QED
  BY <1>1, <1>2, TypeCorrect, PTL DEF Spec

-----------------------------------------------------------------------------
(* Admission. *)

(* A limit is a natural number. *)
LEMMA LimitType ==
  ASSUME TypeOK, NEW r \in Requests, NEW a \in Accounts, NEW m \in Models
  PROVE  accountConcurrencyLimit(upOf(r), a) \in Nat /\ accountModelLimit(upOf(r), m) \in Nat
<1> DEFINE c == upOf(r)
<1>0. c \in ConfigType
  BY ConfigAssumption DEF TypeOK, upOf
<1>1. /\ c.maxAccount \in Nat /\ c.softAccount \in Nat
      /\ c.maxModel \in Nat /\ c.softModel \in Nat
      /\ c.perModel[m] \in Nat
  BY <1>0 DEF ConfigType
<1>2. MaxConcurrency[a] \in Nat
  BY ConstantAssumption
<1> HIDE DEF c
<1>3. /\ accountConcurrencyLimit(c, a) \in Nat
      /\ accountModelLimit(c, m) \in Nat
  BY <1>1, <1>2 DEF accountConcurrencyLimit, accountModelLimit, SoftOrHard
<1> QED
  BY <1>3 DEF c

LEMMA AdmissionStep ==
  ASSUME TypeOK, CallInv, SlotConservation, [Next]_vars,
         NEW r \in Requests, NEW a \in Accounts, NEW m \in Models, Admitted(r, a, m)
  PROVE  /\ Cardinality(Holders(a)') <= accountConcurrencyLimit(upOf(r), a)
         /\ Cardinality(ModelHolders(a, m)') <= accountModelLimit(upOf(r), m)
<1>1. ~GuardsKept
  BY DEF Admitted, GuardsKept
<1>2. PICK q \in Requests : AcquireForModel(q) \/ Release(q)
  BY <1>1, SlotsKept
<1>3. ~Release(q)
  <2>1. ASSUME Release(q) PROVE FALSE
    <3>1. r # q => call'[r] = call[r]
      BY <2>1 DEF Release, TypeOK
    <3>2. ~call'[q].guarded
      BY <2>1 DEF Release, TypeOK, NoCall, Unguarded, WithSlot
    <3> QED
      BY <3>1, <3>2 DEF Admitted
  <2> QED
    BY <2>1
<1>4. ~ UNCHANGED <<slotVars, call>>
  BY DEF Admitted
<1>5. PICK b \in Accounts, aff \in Pruned : TakeSlot(q, b, aff) /\ ~SlotBusy(upOf(q), b, call[q].model)
  BY <1>2, <1>3, <1>4, AcquireCases
<1>6. q = r
  BY <1>5 DEF TakeSlot, TypeOK, Admitted
<1>7. b = a /\ call[r].model = m
  BY <1>5, <1>6 DEF TakeSlot, WithSlot, TypeOK, Admitted
<1>8. pc[r] = "select"
  BY <1>2, <1>3, <1>6 DEF AcquireForModel
<1>9. /\ r \notin Holders(a) /\ Holders(a)' = Holders(a) \cup {r}
      /\ r \notin ModelHolders(a, m) /\ ModelHolders(a, m)' = ModelHolders(a, m) \cup {r}
  BY <1>5, <1>6, <1>7, <1>8, SlotTaken
<1>10. /\ Cardinality(Holders(a)') = Cardinality(Holders(a)) + 1
       /\ Cardinality(ModelHolders(a, m)') = Cardinality(ModelHolders(a, m)) + 1
  BY <1>9, HoldersFinite, FS_AddElement
<1>11. /\ ~(accountUpstream[a] >= accountConcurrencyLimit(upOf(r), a))
       /\ ~(upstream[<<a, m>>].inFlight >= accountModelLimit(upOf(r), m))
  BY <1>5, <1>6, <1>7 DEF SlotBusy, stateBusy
<1>12. /\ accountUpstream[a] = Cardinality(Holders(a))
       /\ upstream[<<a, m>>].inFlight = Cardinality(ModelHolders(a, m))
  BY DEF SlotConservation
<1> QED
  BY <1>10, <1>11, <1>12, LimitType, HoldersFinite

(* AcquireForModel never admits a request past the account or account/model *)
(* limit of the settings it read, counted over the guards really            *)
(* outstanding, however many settings were saved since it read them.        *)
THEOREM AdmissionSafe == Spec => AdmissionWithinLimits
<1>1. /\ TypeOK /\ CallInv /\ SlotConservation /\ [Next]_vars
      => [\A r \in Requests, a \in Accounts, m \in Models :
            Admitted(r, a, m) =>
              /\ Cardinality(Holders(a)') <= accountConcurrencyLimit(upOf(r), a)
              /\ Cardinality(ModelHolders(a, m)') <= accountModelLimit(upOf(r), m)]_vars
  BY AdmissionStep
<1> QED
  BY <1>1, TypeCorrect, SlotsConserved, PTL DEF Spec, AdmissionWithinLimits

-----------------------------------------------------------------------------
(* The availability queue. *)
Waiters == {r \in Requests : InQueue(r)}

LEMMA WaitersFinite == IsFiniteSet(Waiters) /\ Cardinality(Waiters) \in Nat
BY ConstantAssumption, FS_Subset, FS_CardinalityType DEF Waiters

(* Waking the waiters and moving a request between places outside the queue *)
(* keep the set of waiters.                                                 *)
LEMMA SignalKeepsWaiters ==
  ASSUME TypeOK, NEW p \in [Requests -> PCs], pc' = p \/ pc' = Signalled(p),
         \A q \in Requests : p[q] \in {"queued", "woken"} <=> InQueue(q)
  PROVE  Waiters' = Waiters
BY DEF Signalled, InQueue, Waiters

LEMMA WaitersKept ==
  ASSUME TypeOK, CallInv, [Next]_vars,
         \A r \in Requests : ~(JoinQueue(r) \/ LeaveQueue(r))
  PROVE  waitingRequests' = waitingRequests /\ Waiters' = Waiters
<1> DEFINE Goal == waitingRequests' = waitingRequests /\ Waiters' = Waiters
           Outside == PCs \ {"queued", "woken"}
<1> SUFFICES Goal
  OBVIOUS
<1>1. ASSUME NEW r \in Requests, NEW v \in Outside, pc[r] \in Outside,
             \/ pc' = [pc EXCEPT ![r] = v]
             \/ pc' = Signalled([pc EXCEPT ![r] = v])
      PROVE  Waiters' = Waiters
  <2>1. [pc EXCEPT ![r] = v] \in [Requests -> PCs]
    BY DEF TypeOK
  <2>2. \A q \in Requests : [pc EXCEPT ![r] = v][q] \in {"queued", "woken"} <=> InQueue(q)
    BY <1>1 DEF TypeOK, InQueue
  <2> QED
    BY <1>1, <2>1, <2>2, SignalKeepsWaiters
<1> USE DEF PCs
<1>2. ASSUME NEW r \in Requests, Start(r) \/ ForgetAffinity(r) \/ RetryCall(r) \/ NextRound(r)
      PROVE  Goal
  BY <1>1, <1>2 DEF Start, ForgetAffinity, RetryCall, NextRound
<1>3. ASSUME NEW r \in Requests, AcquireForModel(r) PROVE Goal
  <2>1. pc[r] = "select" /\ waitingRequests' = waitingRequests
    BY <1>3 DEF AcquireForModel
  <2>2. pc' = [pc EXCEPT ![r] = "refused"] \/ pc' = [pc EXCEPT ![r] = "calling"]
    BY <1>3, Zenon DEF AcquireForModel, TakeSlot
  <2> QED
    BY <1>1, <2>1, <2>2
<1>4. ASSUME NEW r \in Requests, AcquireUnprotected(r) PROVE Goal
  BY <1>1, <1>4 DEF AcquireUnprotected
<1>5. ASSUME NEW r \in Requests, RecordUpstreamSuccess(r) PROVE Goal
  <2>1. pc[r] = "calling" /\ waitingRequests' = waitingRequests
    BY <1>5 DEF RecordUpstreamSuccess
  <2>2. \/ pc' = [pc EXCEPT ![r] = "reported"]
        \/ pc' = Signalled([pc EXCEPT ![r] = "reported"])
    BY <1>5, Zenon DEF RecordUpstreamSuccess
  <2> QED
    BY <1>1, <2>1, <2>2
<1>6. ASSUME NEW r \in Requests, Release(r) PROVE Goal
  <2> DEFINE v == IF pc[r] = "reported" THEN "idle" ELSE "failed"
  <2>1. pc[r] \in {"calling", "returned", "reported"} /\ waitingRequests' = waitingRequests
    BY <1>6 DEF Release
  <2>2. \/ pc' = [pc EXCEPT ![r] = v]
        \/ pc' = Signalled([pc EXCEPT ![r] = v])
    BY <1>6 DEF Release
  <2>3. v \in Outside
    OBVIOUS
  <2> QED
    BY <1>1, <2>1, <2>2, <2>3
<1>7. ASSUME NEW r \in Requests, RecordUpstreamRateLimited(r) PROVE Goal
  <2>1. /\ pc[r] = "failed" /\ waitingRequests' = waitingRequests
        /\ pc' = Signalled([pc EXCEPT ![r] = "select"])
    BY <1>7 DEF RecordUpstreamRateLimited
  <2> QED
    BY <1>1, <2>1
<1>8. ASSUME NEW r \in Requests, OtherFailure(r) PROVE Goal
  BY <1>1, <1>8 DEF OtherFailure
<1>9. ASSUME NEW r \in Requests, GiveUp(r) PROVE Goal
  BY <1>1, <1>9 DEF GiveUp
<1>10. ASSUME UpdateUpstreamProtection \/ NotifyAvailability PROVE Goal
  <2>1. pc \in [Requests -> PCs]
    BY DEF TypeOK
  <2> QED
    BY <1>10, <2>1, SignalKeepsWaiters DEF UpdateUpstreamProtection, NotifyAvailability, InQueue
<1>11. ASSUME Tick \/ UNCHANGED vars PROVE Goal
  BY <1>11 DEF Tick, vars, Waiters, InQueue
<1> QED
  BY <1>2, <1>3, <1>4, <1>5, <1>6, <1>7, <1>8, <1>9, <1>10, <1>11 DEF Next, RequestStep

LEMMA QueueNext ==
  ASSUME TypeOK, CallInv, QueueConservation, [Next]_vars
  PROVE  QueueConservation'
<1> USE DEF QueueConservation
<1>0. (waitingRequests = Cardinality(Waiters)) /\ (QueueConservation' <=> waitingRequests' = Cardinality(Waiters'))
  BY DEF Waiters
<1>1. CASE \A r \in Requests : ~(JoinQueue(r) \/ LeaveQueue(r))
  BY <1>0, <1>1, WaitersKept
<1>2. ASSUME NEW r \in Requests, JoinQueue(r) PROVE QueueConservation'
  <2>1. CASE upOf(r).enabled
    <3>1. waitingRequests' = waitingRequests + 1 /\ pc' = [pc EXCEPT ![r] = "queued"] /\ pc[r] = "refused"
      BY <1>2, <2>1 DEF JoinQueue
    <3>2. Waiters' = Waiters \cup {r} /\ r \notin Waiters
      BY <3>1 DEF Waiters, InQueue, TypeOK
    <3> QED
      BY <1>0, <3>1, <3>2, WaitersFinite, FS_AddElement
  <2>2. CASE ~upOf(r).enabled
    <3>1. waitingRequests' = waitingRequests /\ pc' = [pc EXCEPT ![r] = "backoff"] /\ pc[r] = "refused"
      BY <1>2, <2>2 DEF JoinQueue
    <3>2. Waiters' = Waiters
      BY <3>1 DEF Waiters, InQueue, TypeOK
    <3> QED
      BY <1>0, <3>1, <3>2
  <2> QED
    BY <2>1, <2>2
<1>3. ASSUME NEW r \in Requests, LeaveQueue(r) PROVE QueueConservation'
  <2>1. Waiters' = Waiters \ {r} /\ r \in Waiters
    <3>1. InQueue(r) /\ (pc' = [pc EXCEPT ![r] = "backoff"] \/ pc' = [pc EXCEPT ![r] = "idle"])
      BY <1>3 DEF LeaveQueue
    <3> QED
      BY <3>1 DEF Waiters, InQueue, TypeOK
  <2>2. Cardinality(Waiters') = Cardinality(Waiters) - 1 /\ Cardinality(Waiters) # 0
    BY <2>1, WaitersFinite, FS_RemoveElement, FS_EmptySet
  <2>3. waitingRequests' = IF waitingRequests > 0 THEN waitingRequests - 1 ELSE waitingRequests
    BY <1>3 DEF LeaveQueue
  <2> QED
    BY <1>0, <2>2, <2>3, WaitersFinite
<1> QED
  BY <1>1, <1>2, <1>3

(* WaitForAvailabilityWithStatus gives every place in the queue back, by    *)
(* wake-up, timer or cancellation, exactly once.                            *)
THEOREM QueueConserved == Spec => []QueueConservation
<1>1. Init => QueueConservation
  <2> SUFFICES ASSUME Init PROVE QueueConservation
    OBVIOUS
  <2>1. {r \in Requests : InQueue(r)} = {}
    BY DEF Init, InQueue
  <2> QED
    BY <2>1, FS_EmptySet DEF QueueConservation, Init
<1>2. TypeOK /\ CallInv /\ QueueConservation /\ [Next]_vars => QueueConservation'
  BY QueueNext
<1> QED
  BY <1>1, <1>2, TypeCorrect, PTL DEF Spec

-----------------------------------------------------------------------------
(* Half-open probes. *)

(* The strengthening of ProbeHasHolder: a key with a probe still counts the *)
(* 429s that opened it, which is what reopenAbandonedHalfOpenProbe asks     *)
(* before it clears the flag.                                               *)
ProbeCounted ==
  /\ \A a \in Accounts, m \in Models :
       upstream[<<a, m>>].halfOpenProbe => upstream[<<a, m>>].rateLimitCount > 0
  /\ \A p \in Profiles, m \in Models :
       profiles[<<p, m>>].halfOpenProbe => profiles[<<p, m>>].rateLimitCount > 0

NoNewProbe(s, t) ==
  t.halfOpenProbe => s.halfOpenProbe /\ t.rateLimitCount = s.rateLimitCount

(* Only an admission can start a probe. *)
LEMMA NoProbeStarts ==
  ASSUME TypeOK, CallInv, [Next]_vars,
         \A r \in Requests : ~(AcquireForModel(r) \/ Release(r))
  PROVE  /\ \A a \in Accounts, m \in Models :
              NoNewProbe(upstream[<<a, m>>], upstream'[<<a, m>>])
         /\ \A p \in Profiles, m \in Models :
              NoNewProbe(profiles[<<p, m>>], profiles'[<<p, m>>])
<1> DEFINE Goal == /\ \A a \in Accounts, m \in Models :
                        NoNewProbe(upstream[<<a, m>>], upstream'[<<a, m>>])
                   /\ \A p \in Profiles, m \in Models :
                        NoNewProbe(profiles[<<p, m>>], profiles'[<<p, m>>])
<1> SUFFICES Goal
  OBVIOUS
<1>0. /\ upstream \in [Accounts \X Models -> StateType]
      /\ profiles \in [Profiles \X Models -> StateType]
  BY DEF TypeOK
<1>1. \A s : NoNewProbe(s, s)
  BY DEF NoNewProbe
<1>2. CASE UNCHANGED slotVars
  BY <1>1, <1>2 DEF slotVars
<1>3. ASSUME NEW r \in Requests, RecordUpstreamSuccess(r) PROVE Goal
  <2>1. \A s : NoNewProbe(s, closeProtectionCircuit(s))
    BY DEF closeProtectionCircuit, ZeroState, NoNewProbe
  <2> DEFINE k == <<call[r].acct, call[r].okModel>>
             l == <<ProfileArn[call[r].acct], call[r].okModel>>
  <2>2. upstream' = upstream \/ upstream' = [upstream EXCEPT ![k] = closeProtectionCircuit(@)]
    BY <1>3, Zenon DEF RecordUpstreamSuccess
  <2>3. profiles' = profiles \/ profiles' = [profiles EXCEPT ![l] = closeProtectionCircuit(@)]
    BY <1>3, Zenon DEF RecordUpstreamSuccess
  <2> HIDE DEF k, l, closeProtectionCircuit
  <2>4. ASSUME NEW a \in Accounts, NEW m \in Models
        PROVE  NoNewProbe(upstream[<<a, m>>], upstream'[<<a, m>>])
    <3>1. \/ upstream'[<<a, m>>] = upstream[<<a, m>>]
          \/ upstream'[<<a, m>>] = closeProtectionCircuit(upstream[<<a, m>>])
      BY <1>0, <2>2
    <3> QED
      BY <1>1, <2>1, <3>1
  <2>5. ASSUME NEW p \in Profiles, NEW m \in Models
        PROVE  NoNewProbe(profiles[<<p, m>>], profiles'[<<p, m>>])
    <3>1. \/ profiles'[<<p, m>>] = profiles[<<p, m>>]
          \/ profiles'[<<p, m>>] = closeProtectionCircuit(profiles[<<p, m>>])
      BY <1>0, <2>3
    <3> QED
      BY <1>1, <2>1, <3>1
  <2> QED
    BY <2>4, <2>5
<1>4. ASSUME NEW r \in Requests, RecordUpstreamRateLimited(r) PROVE Goal
  <2>1. \A s, d : NoNewProbe(s, applyProtectionCooldown(s, d))
    BY DEF applyProtectionCooldown, NoNewProbe
  <2> DEFINE k == <<call[r].acct, call[r].model>>
             l == <<ProfileArn[call[r].acct], call[r].model>>
  <2>2. PICK d : upstream' = [upstream EXCEPT ![k] = applyProtectionCooldown(@, d)]
    BY <1>4 DEF RecordUpstreamRateLimited
  <2>3. PICK e : \/ profiles' = profiles
                 \/ profiles' = [profiles EXCEPT ![l] = applyProtectionCooldown(@, e)]
    BY <1>4, Zenon DEF RecordUpstreamRateLimited
  <2> HIDE DEF k, l, applyProtectionCooldown
  <2>4. ASSUME NEW a \in Accounts, NEW m \in Models
        PROVE  NoNewProbe(upstream[<<a, m>>], upstream'[<<a, m>>])
    <3>1. \/ upstream'[<<a, m>>] = upstream[<<a, m>>]
          \/ upstream'[<<a, m>>] = applyProtectionCooldown(upstream[<<a, m>>], d)
      BY <1>0, <2>2
    <3> QED
      BY <1>1, <2>1, <3>1
  <2>5. ASSUME NEW p \in Profiles, NEW m \in Models
        PROVE  NoNewProbe(profiles[<<p, m>>], profiles'[<<p, m>>])
    <3>1. \/ profiles'[<<p, m>>] = profiles[<<p, m>>]
          \/ profiles'[<<p, m>>] = applyProtectionCooldown(profiles[<<p, m>>], e)
      BY <1>0, <2>3
    <3> QED
      BY <1>1, <2>1, <3>1
  <2> QED
    BY <2>4, <2>5
<1>5. ASSUME Tick PROVE Goal
  <2>1. \A s \in StateType : NoNewProbe(s, Aged(s))
    BY DEF NoNewProbe, Aged, StateType
  <2> QED
    BY <1>0, <1>5, <2>1 DEF Tick
<1>6. ASSUME UNCHANGED vars \/ UpdateUpstreamProtection \/ NotifyAvailability PROVE UNCHANGED slotVars
  BY <1>6 DEF vars, slotVars, UpdateUpstreamProtection, NotifyAvailability
<1>7. ASSUME NEW r \in Requests,
             \/ Start(r) \/ AcquireUnprotected(r) \/ ForgetAffinity(r) \/ RetryCall(r)
             \/ OtherFailure(r) \/ JoinQueue(r) \/ GiveUp(r) \/ LeaveQueue(r) \/ NextRound(r)
      PROVE  UNCHANGED slotVars
  BY <1>7 DEF Start, AcquireUnprotected, ForgetAffinity, RetryCall, OtherFailure,
              JoinQueue, GiveUp, LeaveQueue, NextRound
<1> QED
  BY <1>2, <1>3, <1>4, <1>5, <1>6, <1>7 DEF Next, RequestStep

LEMMA ProbeNext ==
  ASSUME TypeOK, CallInv, ProbeHasHolder, ProbeCounted, [Next]_vars
  PROVE  ProbeHasHolder' /\ ProbeCounted'
<1> DEFINE Goal == ProbeHasHolder' /\ ProbeCounted'
<1>0. /\ upstream \in [Accounts \X Models -> StateType]
      /\ profiles \in [Profiles \X Models -> StateType]
  BY DEF TypeOK
<1>1. CASE \A r \in Requests : ~(AcquireForModel(r) \/ Release(r))
  <2>1. GuardsKept
    BY <1>1, SlotsKept
  <2>2. ASSUME NEW a \in Accounts, NEW m \in Models, upstream'[<<a, m>>].halfOpenProbe
        PROVE  ModelHolders(a, m)' # {} /\ upstream'[<<a, m>>].rateLimitCount > 0
    BY <1>1, <2>1, <2>2, NoProbeStarts, HoldersKept DEF NoNewProbe, ProbeHasHolder, ProbeCounted
  <2>3. ASSUME NEW p \in Profiles, NEW m \in Models, profiles'[<<p, m>>].halfOpenProbe
        PROVE  ProfileHolders(p, m)' # {} /\ profiles'[<<p, m>>].rateLimitCount > 0
    BY <1>1, <2>1, <2>3, NoProbeStarts, HoldersKept DEF NoNewProbe, ProbeHasHolder, ProbeCounted
  <2> QED
    BY <2>2, <2>3 DEF ProbeHasHolder, ProbeCounted
<1>2. ASSUME NEW r \in Requests, AcquireForModel(r) PROVE Goal
  <2>1. CASE UNCHANGED <<slotVars, call>>
    <3>1. GuardsKept
      BY <2>1 DEF GuardsKept
    <3> QED
      BY <2>1, <3>1, HoldersKept DEF slotVars, ProbeHasHolder, ProbeCounted
  <2>2. ASSUME NEW a \in Accounts, NEW aff \in Pruned, TakeSlot(r, a, aff) PROVE Goal
    <3> DEFINE m == call[r].model
               p == ProfileArn[a]
    <3>0. pc[r] = "select" /\ m \in Models
      BY <1>2 DEF AcquireForModel, CallInv
    <3>1. \A s \in StateType :
            Admit(s).halfOpenProbe => s.halfOpenProbe \/ s.rateLimitCount > 0
      BY DEF Admit, activateHalfOpenProbe, IsHalfOpen, StateType
    <3>2. \A s \in StateType : Admit(s).rateLimitCount = s.rateLimitCount
      BY DEF Admit, activateHalfOpenProbe, StateType
    <3>3. upstream' = [upstream EXCEPT ![<<a, m>>] = Admit(@)]
      BY <2>2 DEF TakeSlot
    <3>4. profiles' = profiles \/ (p \in Profiles /\ profiles' = [profiles EXCEPT ![<<p, m>>] = Admit(@)])
      BY <2>2, ProfileType DEF TakeSlot, profileLimit
    <3> HIDE DEF m, p
    <3>5. ASSUME NEW b \in Accounts, NEW n \in Models, upstream'[<<b, n>>].halfOpenProbe
          PROVE  ModelHolders(b, n)' # {} /\ upstream'[<<b, n>>].rateLimitCount > 0
      <4>1. upstream[<<b, n>>] \in StateType
        BY <1>0
      <4>2. ModelHolders(b, n) \subseteq ModelHolders(b, n)'
        BY <2>2, <3>0, SlotTaken
      <4>3. CASE b = a /\ n = m
        <5>1. upstream'[<<b, n>>] = Admit(upstream[<<b, n>>])
          BY <1>0, <3>3, <4>3
        <5>2. upstream'[<<b, n>>].rateLimitCount > 0
          BY <3>1, <3>2, <3>5, <4>1, <5>1 DEF ProbeCounted
        <5>3. r \in ModelHolders(b, n)'
          BY <2>2, <3>0, <4>3, SlotTaken DEF m
        <5> QED
          BY <5>2, <5>3
      <4>4. CASE ~(b = a /\ n = m)
        <5>1. upstream'[<<b, n>>] = upstream[<<b, n>>]
          BY <1>0, <3>0, <3>3, <4>4
        <5> QED
          BY <3>5, <4>2, <5>1 DEF ProbeHasHolder, ProbeCounted
      <4> QED
        BY <4>3, <4>4
    <3>6. ASSUME NEW q \in Profiles, NEW n \in Models, profiles'[<<q, n>>].halfOpenProbe
          PROVE  ProfileHolders(q, n)' # {} /\ profiles'[<<q, n>>].rateLimitCount > 0
      <4>1. profiles[<<q, n>>] \in StateType
        BY <1>0
      <4>2. ProfileHolders(q, n) \subseteq ProfileHolders(q, n)'
        BY <2>2, <3>0, SlotTaken
      <4>3. CASE q = p /\ n = m /\ profiles' = [profiles EXCEPT ![<<p, m>>] = Admit(@)]
        <5>1. profiles'[<<q, n>>] = Admit(profiles[<<q, n>>])
          BY <1>0, <4>3
        <5>2. profiles'[<<q, n>>].rateLimitCount > 0
          BY <3>1, <3>2, <3>6, <4>1, <5>1 DEF ProbeCounted
        <5>3. r \in ProfileHolders(q, n)'
          BY <2>2, <3>0, <4>3, SlotTaken DEF m, p
        <5> QED
          BY <5>2, <5>3
      <4>4. CASE ~(q = p /\ n = m /\ profiles' = [profiles EXCEPT ![<<p, m>>] = Admit(@)])
        <5>1. profiles'[<<q, n>>] = profiles[<<q, n>>]
          BY <1>0, <3>0, <3>4, <4>4
        <5> QED
          BY <3>6, <4>2, <5>1 DEF ProbeHasHolder, ProbeCounted
      <4> QED
        BY <4>3, <4>4
    <3> QED
      BY <3>5, <3>6 DEF ProbeHasHolder, ProbeCounted
  <2> QED
    BY <1>2, <2>1, <2>2, AcquireCases
<1>3. ASSUME NEW r \in Requests, Release(r) PROVE Goal
  <2>1. CASE ~call[r].guarded
    <3>1. UNCHANGED slotVars
      BY <1>3, <2>1 DEF Release
    <3>2. GuardsKept
      BY <1>3, <2>1 DEF Release, GuardsKept, TypeOK, NoCall, Unguarded, WithSlot
    <3> QED
      BY <3>1, <3>2, HoldersKept DEF slotVars, ProbeHasHolder, ProbeCounted
  <2>2. CASE call[r].guarded
    <3> DEFINE a == call[r].acct
               m == call[r].model
               p == ProfileArn[a]
    <3>0. a \in Accounts /\ m \in Models /\ ReleaseSlot(r)
      BY <1>3, <2>2 DEF Release, CallInv
    <3>1. \A s \in StateType :
            (s.halfOpenProbe => s.rateLimitCount > 0) => ~Released(upOf(r), s).halfOpenProbe
      BY DEF Released, Reopened, protectionStateIdle, ZeroState, StateType
    <3>2. upstream' = [upstream EXCEPT ![<<a, m>>] = Released(upOf(r), @)]
      BY <3>0 DEF ReleaseSlot
    <3>3. IF p = NoProfile THEN profiles' = profiles
                           ELSE profiles' = [profiles EXCEPT ![<<p, m>>] = Released(upOf(r), @)]
      BY <3>0 DEF ReleaseSlot
    <3>4. p = NoProfile \/ p \in Profiles
      BY <3>0, ProfileType
    <3>5. NoProfile \notin Profiles
      BY ConstantAssumption
    <3> HIDE DEF a, m, p
    <3>6. ASSUME NEW b \in Accounts, NEW n \in Models, upstream'[<<b, n>>].halfOpenProbe
          PROVE  ModelHolders(b, n)' # {} /\ upstream'[<<b, n>>].rateLimitCount > 0
      <4>1. upstream[<<b, n>>] \in StateType
        BY <1>0
      <4>2. ~(b = a /\ n = m)
        <5>1. ASSUME b = a, n = m PROVE FALSE
          <6>1. upstream'[<<b, n>>] = Released(upOf(r), upstream[<<b, n>>])
            BY <1>0, <3>2, <5>1
          <6> QED
            BY <3>1, <3>6, <4>1, <6>1 DEF ProbeCounted
        <5> QED
          BY <5>1
      <4>3. upstream'[<<b, n>>] = upstream[<<b, n>>]
        BY <1>0, <3>0, <3>2, <4>2
      <4>4. ModelHolders(b, n)' = ModelHolders(b, n)
        <5>1. /\ (b = a /\ n = m) <=> r \in ModelHolders(b, n)
              /\ ModelHolders(b, n)' = ModelHolders(b, n) \ {r}
          BY <1>3, <2>2, SlotFreed DEF a, m
        <5> QED
          BY <4>2, <5>1
      <4> QED
        BY <3>6, <4>3, <4>4 DEF ProbeHasHolder, ProbeCounted
    <3>7. ASSUME NEW q \in Profiles, NEW n \in Models, profiles'[<<q, n>>].halfOpenProbe
          PROVE  ProfileHolders(q, n)' # {} /\ profiles'[<<q, n>>].rateLimitCount > 0
      <4>1. profiles[<<q, n>>] \in StateType
        BY <1>0
      <4>2. ~(q = p /\ n = m)
        <5>1. ASSUME q = p, n = m PROVE FALSE
          <6>1. profiles'[<<q, n>>] = Released(upOf(r), profiles[<<q, n>>])
            BY <1>0, <3>3, <3>5, <5>1
          <6> QED
            BY <3>1, <3>7, <4>1, <6>1 DEF ProbeCounted
        <5> QED
          BY <5>1
      <4>3. profiles'[<<q, n>>] = profiles[<<q, n>>]
        BY <1>0, <3>0, <3>3, <3>4, <4>2
      <4>4. ProfileHolders(q, n)' = ProfileHolders(q, n)
        <5>1. /\ (q = p /\ n = m) <=> r \in ProfileHolders(q, n)
              /\ ProfileHolders(q, n)' = ProfileHolders(q, n) \ {r}
          BY <1>3, <2>2, SlotFreed DEF a, m, p
        <5> QED
          BY <4>2, <5>1
      <4> QED
        BY <3>7, <4>3, <4>4 DEF ProbeHasHolder, ProbeCounted
    <3> QED
      BY <3>6, <3>7 DEF ProbeHasHolder, ProbeCounted
  <2> QED
    BY <2>1, <2>2
<1> QED
  BY <1>1, <1>2, <1>3

(* No key stays busy behind a probe that no longer exists: whenever         *)
(* activateHalfOpenProbe has set the flag, a guard is outstanding whose     *)
(* releaseUpstreamSlot clears it.                                           *)
THEOREM ProbesHeld == Spec => []ProbeHasHolder
<1>1. Init => ProbeHasHolder /\ ProbeCounted
  BY DEF Init, ZeroState, ProbeHasHolder, ProbeCounted
<1>2. TypeOK /\ CallInv /\ ProbeHasHolder /\ ProbeCounted /\ [Next]_vars
      => ProbeHasHolder' /\ ProbeCounted'
  BY ProbeNext
<1> QED
  BY <1>1, <1>2, TypeCorrect, PTL DEF Spec
(* Queue places, profile counters and probe flags together, as the run       *)
(* checks them: none outlives the request it belongs to (releaseUpstreamSlot). *)
THEOREM NothingOrphaned == Spec => []GuardsAccounted
BY QueueConserved, ProfileBounded, ProbesHeld, PTL DEF GuardsAccounted

(* Types and slot counters together, as the run checks them: for any number *)
(* of requests, accounts and models, what is counted as in flight is what   *)
(* will still be released (releaseUpstreamSlot).                            *)
THEOREM SlotsCountedRight == Spec => []SlotsSafe
<1>1. TypeOK /\ SlotConservation => SlotsSafe
  BY DEF SlotsSafe
<1> QED
  BY <1>1, TypeCorrect, SlotsConserved, PTL

-----------------------------------------------------------------------------
(* The affinity table. *)

(* A set of natural numbers that is not empty has a least one. *)
LEMMA LeastExists ==
  ASSUME NEW S, S \subseteq Nat, S # {}
  PROVE  \E j \in S : \A k \in S : j <= k
<1> DEFINE less == {ss \in Nat \X Nat : ss[1] < ss[2]}
<1>1. IsWellFoundedOn(less, Nat)
  BY NatLessThanWellFounded DEF OpToRel
<1>2. PICK j \in S : \A k \in S : ~ (<<k, j>> \in less)
  BY <1>1, WFMin
<1>3. \A k \in S : ~ (k < j)
  BY <1>2
<1> QED
  BY <1>3

(* rank gives each route the time of its lastSeen: seenBefore compares      *)
(* these times, none is later than last, and no two bindings share one.     *)
Ranked(rank, last) ==
  /\ \A x \in Routes : rank[x] <= last
  /\ \A x, y \in Routes : <<x, y>> \in seenBefore <=> rank[x] < rank[y]
  /\ \A x, y \in Bound(affinity) : x # y => rank[x] # rank[y]

(* What the eviction rests on: there are finitely many bindings, and their  *)
(* times are times, so that there is an oldest one.                         *)
AffinityInv ==
  /\ IsFiniteSet(Bound(affinity))
  /\ \E rank \in [Routes -> Nat], last \in Nat : Ranked(rank, last)

(* Bindings that are dropped leave the rest as it was. *)
LEMMA BindingsDropped ==
  ASSUME AffinityInv, seenBefore' = seenBefore, Bound(affinity') \subseteq Bound(affinity)
  PROVE  AffinityInv'
<1>1. IsFiniteSet(Bound(affinity'))
  BY FS_Subset DEF AffinityInv
<1>2. PICK rank \in [Routes -> Nat], last \in Nat : Ranked(rank, last)
  BY DEF AffinityInv
<1>3. Ranked(rank, last)'
  BY <1>2 DEF Ranked, Bound
<1> QED
  BY <1>1, <1>3 DEF AffinityInv, Bound

LEMMA WithoutBound ==
  ASSUME NEW aff \in [Routes -> EntryType], NEW gone
  PROVE  Bound(Without(aff, gone)) = Bound(aff) \ gone
BY DEF Without, Bound, NoEntry

(* Among bindings of different times one is the oldest. *)
LEMMA SomeOldest ==
  ASSUME NEW rank \in [Routes -> Nat], NEW last \in Nat, Ranked(rank, last),
         NEW aff, Bound(aff) \subseteq Bound(affinity), Bound(aff) # {}
  PROVE  Oldest(aff) # {}
<1> DEFINE S == {rank[x] : x \in Bound(aff)}
<1>1. S \subseteq Nat /\ S # {}
  BY DEF Bound
<1>2. PICK j \in S : \A k \in S : j <= k
  BY <1>1, LeastExists
<1>3. PICK x \in Bound(aff) : j = rank[x]
  BY <1>2
<1>4. \A y \in Bound(aff) \ {x} : rank[x] <= rank[y] /\ rank[x] # rank[y] /\ x \in Routes /\ y \in Routes
  BY <1>2, <1>3 DEF Ranked, Bound
<1>5. \A y \in Bound(aff) \ {x} : <<x, y>> \in seenBefore
  BY <1>4 DEF Ranked
<1> QED
  BY <1>3, <1>5 DEF Oldest

(* A binding written at the limit takes the place of the oldest. *)
RoomMade(r, route, aff) ==
  /\ IsFiniteSet(Bound(affinity'))
  /\ route \in Bound(affinity')
  /\ Bound(affinity') \subseteq Bound(aff) \cup {route}
  /\ Bound(aff) \ Bound(affinity') \subseteq Oldest(aff)
  /\ \/ Cardinality(Bound(affinity')) <= upOf(r).affinityMax
     \/ Cardinality(Bound(affinity')) <= Cardinality(Bound(affinity))

LEMMA WritingMakesRoom ==
  ASSUME TypeOK, AffinityInv, NEW r \in Requests, NEW route \in Routes, NEW a \in Accounts,
         NEW aff \in [Routes -> EntryType], Bound(aff) \subseteq Bound(affinity),
         affinity' = rememberRouteAffinity(upOf(r), aff, route, a, r)
  PROVE  RoomMade(r, route, aff)
<1> DEFINE full == Cardinality(Bound(aff)) >= upOf(r).affinityMax /\ route \notin Bound(aff)
           kept == IF full THEN Without(aff, Oldest(aff)) ELSE aff
<1>0. route # Null /\ a # Null
  BY ConstantAssumption
<1>1. affinity' = [kept EXCEPT ![route] = [acct |-> a, owner |-> r]]
  BY <1>0 DEF rememberRouteAffinity
<1>2. kept \in [Routes -> EntryType] /\ Bound(kept) \subseteq Bound(aff)
  <2>1. Without(aff, Oldest(aff)) \in [Routes -> EntryType] /\ Bound(Without(aff, Oldest(aff))) \subseteq Bound(aff)
    BY WithoutType, WithoutBound
  <2> HIDE DEF EntryType
  <2> QED
    BY <2>1
<1> HIDE DEF kept
<1>3. Bound(affinity') = Bound(kept) \cup {route}
  BY <1>0, <1>1, <1>2 DEF Bound
<1>4. PICK rank \in [Routes -> Nat], last \in Nat : Ranked(rank, last)
  BY DEF AffinityInv
<1>5. IsFiniteSet(Bound(affinity)) /\ IsFiniteSet(Bound(aff)) /\ IsFiniteSet(Bound(kept))
  BY <1>2, FS_Subset DEF AffinityInv
<1>6. /\ Cardinality(Bound(affinity)) \in Nat /\ Cardinality(Bound(aff)) \in Nat
      /\ Cardinality(Bound(kept)) \in Nat /\ upOf(r).affinityMax \in Nat \ {0}
  BY <1>5, FS_CardinalityType, ConfigFacts
<1>7. /\ Cardinality(Bound(aff)) <= Cardinality(Bound(affinity))
      /\ Cardinality(Bound(kept)) <= Cardinality(Bound(aff))
  BY <1>2, <1>5, FS_Subset
<1>8. /\ IsFiniteSet(Bound(affinity'))
      /\ Cardinality(Bound(affinity')) =
           IF route \in Bound(kept) THEN Cardinality(Bound(kept)) ELSE Cardinality(Bound(kept)) + 1
  <2>1. /\ IsFiniteSet(Bound(kept) \cup {route})
        /\ Cardinality(Bound(kept) \cup {route}) =
             IF route \in Bound(kept) THEN Cardinality(Bound(kept)) ELSE Cardinality(Bound(kept)) + 1
    BY <1>5, FS_AddElement
  <2> QED
    BY <1>3, <2>1, Zenon
<1>9. Cardinality(Bound(affinity')) <= upOf(r).affinityMax
      \/ Cardinality(Bound(affinity')) <= Cardinality(Bound(affinity))
  <2>1. CASE full
    <3>1. Bound(aff) # {}
      <4>1. Cardinality(Bound(aff)) # 0
        BY <2>1, <1>6
      <4> QED
        BY <4>1, FS_EmptySet, Zenon
    <3>2. Oldest(aff) # {} /\ Oldest(aff) \subseteq Bound(aff)
      BY <3>1, <1>4, SomeOldest DEF Oldest
    <3>3. Bound(kept) = Bound(aff) \ Oldest(aff)
      BY <2>1, WithoutBound DEF kept
    <3>4. Bound(kept) # Bound(aff)
      BY <3>2, <3>3
    <3>5. Cardinality(Bound(kept)) < Cardinality(Bound(aff))
      BY <3>4, <1>2, <1>5, <1>6, <1>7, FS_Subset
    <3> QED
      BY <3>5, <1>6, <1>7, <1>8
  <2>2. CASE ~full /\ route \in Bound(aff)
    <3>1. kept = aff
      BY <2>2 DEF kept
    <3> QED
      BY <2>2, <3>1, <1>6, <1>7, <1>8
  <2>3. CASE ~full /\ route \notin Bound(aff)
    <3>1. kept = aff /\ ~(Cardinality(Bound(aff)) >= upOf(r).affinityMax)
      BY <2>3 DEF kept
    <3> QED
      BY <2>3, <3>1, <1>6, <1>8
  <2> QED
    BY <2>1, <2>2, <2>3
<1>10. Bound(aff) \ Bound(kept) \subseteq Oldest(aff)
  <2>1. CASE full
    <3>1. kept = Without(aff, Oldest(aff))
      BY <2>1 DEF kept
    <3> QED
      BY <3>1, WithoutBound
  <2>2. CASE ~full
    BY <2>2 DEF kept
  <2> QED
    BY <2>1, <2>2
<1> QED
  BY <1>2, <1>3, <1>8, <1>9, <1>10 DEF RoomMade

LEMMA BindingWritten ==
  ASSUME TypeOK, AffinityInv, NEW r \in Requests, NEW route \in Routes, NEW a \in Accounts,
         NEW aff \in [Routes -> EntryType], Bound(aff) \subseteq Bound(affinity),
         affinity' = rememberRouteAffinity(upOf(r), aff, route, a, r),
         seenBefore' = SeenNow(route)
  PROVE  AffinityInv'
<1>0. route # Null
  BY ConstantAssumption
<1>1. RoomMade(r, route, aff)
  BY WritingMakesRoom
<1>2. IsFiniteSet(Bound(affinity')) /\ Bound(affinity') \subseteq Bound(affinity) \cup {route}
  BY <1>1 DEF RoomMade
<1>4. PICK rank \in [Routes -> Nat], last \in Nat : Ranked(rank, last)
  BY DEF AffinityInv
<1>11. \E new \in [Routes -> Nat], now \in Nat : Ranked(new, now)'
  <2> DEFINE new == [rank EXCEPT ![route] = last + 1]
  <2>1. new \in [Routes -> Nat] /\ last + 1 \in Nat /\ \A x \in Routes : new[x] <= last + 1
    BY <1>4 DEF Ranked
  <2>2. ASSUME NEW x \in Routes, NEW y \in Routes
        PROVE  <<x, y>> \in seenBefore' <=> new[x] < new[y]
    <3>1. <<x, y>> \in seenBefore' <=> \/ <<x, y>> \in seenBefore /\ x # route
                                       \/ y = route /\ x # route
      BY <1>0 DEF SeenNow
    <3>2. <<x, y>> \in seenBefore <=> rank[x] < rank[y]
      BY <1>4 DEF Ranked
    <3>3. rank[x] <= last /\ rank[y] <= last /\ rank[x] \in Nat /\ rank[y] \in Nat
      BY <1>4 DEF Ranked
    <3>4. new[x] = (IF x = route THEN last + 1 ELSE rank[x]) /\ new[y] = (IF y = route THEN last + 1 ELSE rank[y])
      OBVIOUS
    <3> QED
      BY <3>1, <3>2, <3>3, <3>4
  <2>3. ASSUME NEW x \in Bound(affinity'), NEW y \in Bound(affinity'), x # y
        PROVE  new[x] # new[y]
    <3>1. x \in Routes /\ y \in Routes /\ (x # route => x \in Bound(affinity)) /\ (y # route => y \in Bound(affinity))
      BY <1>2 DEF Bound
    <3>2. rank[x] <= last /\ rank[y] <= last /\ rank[x] \in Nat /\ rank[y] \in Nat
      BY <1>4, <3>1 DEF Ranked
    <3>3. x # route /\ y # route => rank[x] # rank[y]
      BY <1>4, <2>3, <3>1 DEF Ranked
    <3>4. new[x] = (IF x = route THEN last + 1 ELSE rank[x]) /\ new[y] = (IF y = route THEN last + 1 ELSE rank[y])
      BY <3>1
    <3> QED
      BY <2>3, <3>2, <3>3, <3>4
  <2> HIDE DEF new
  <2>4. Ranked(new, last + 1)'
    BY <2>1, <2>2, <2>3 DEF Ranked, Bound
  <2> QED
    BY <2>1, <2>4
<1> QED
  BY <1>2, <1>11 DEF AffinityInv, Bound

LEMMA PrunedBound ==
  ASSUME TypeOK, NEW aff \in Pruned
  PROVE  aff \in [Routes -> EntryType] /\ Bound(aff) \subseteq Bound(affinity)
<1>1. PICK gone : aff = Without(affinity, gone)
  BY DEF Pruned
<1> QED
  BY <1>1, WithoutType, WithoutBound DEF TypeOK

(* What expires was last used before what stays. *)
LEMMA OldestExpire ==
  ASSUME TypeOK, AffinityInv, NEW aff \in Pruned,
         NEW x \in Bound(affinity) \ Bound(aff), NEW y \in Bound(aff)
  PROVE  <<x, y>> \in seenBefore
<1>1. PICK gone : Expired(gone) /\ aff = Without(affinity, gone)
  BY DEF Pruned
<1>2. Bound(aff) = Bound(affinity) \ gone
  BY <1>1, WithoutBound DEF TypeOK
<1>3. x \in gone /\ y \in Bound(affinity) /\ y \notin gone /\ x \in Routes /\ y \in Routes
  BY <1>2 DEF Bound
<1>4. <<y, x>> \notin seenBefore
  BY <1>1, <1>3 DEF Expired
<1>5. PICK rank \in [Routes -> Nat], last \in Nat : Ranked(rank, last)
  BY DEF AffinityInv
<1>6. rank[x] # rank[y] /\ ~(rank[y] < rank[x])
  BY <1>3, <1>4, <1>5 DEF Ranked
<1>7. rank[x] < rank[y]
  BY <1>3, <1>6
<1> QED
  BY <1>3, <1>5, <1>7 DEF Ranked

LEMMA AffinityNext ==
  ASSUME TypeOK, CallInv, AffinityInv, [Next]_vars
  PROVE  AffinityInv'
<1>0. affinity \in [Routes -> EntryType]
  BY DEF TypeOK
<1>1. ASSUME affinity' = affinity, seenBefore' = seenBefore PROVE AffinityInv'
  BY <1>1, BindingsDropped
<1>2. ASSUME NEW gone, affinity' = Without(affinity, gone), seenBefore' = seenBefore PROVE AffinityInv'
  BY <1>0, <1>2, WithoutBound, BindingsDropped
<1>3. ASSUME NEW r \in Requests, AcquireForModel(r) PROVE AffinityInv'
  <2>1. PICK candidates \in SUBSET Accounts, ready \in BOOLEAN, aff \in Pruned :
          \/ \E a \in candidates : TakeSlot(r, a, aff)
          \/ /\ affinity' = aff
             /\ UNCHANGED seenBefore
    BY <1>3, Zenon DEF AcquireForModel
  <2>2. aff \in [Routes -> EntryType] /\ Bound(aff) \subseteq Bound(affinity)
    BY PrunedBound
  <2>3. CASE affinity' = aff /\ UNCHANGED seenBefore
    BY <2>2, <2>3, BindingsDropped
  <2>4. ASSUME NEW a \in candidates, TakeSlot(r, a, aff) PROVE AffinityInv'
    <3> DEFINE route == call[r].route
    <3>1. affinity' = rememberRouteAffinity(upOf(r), aff, route, a, r) /\ seenBefore' = SeenNow(route)
      BY <2>4 DEF TakeSlot
    <3>2. route \in Routes \cup {Null} /\ a \in Accounts
      BY DEF TypeOK, CallType
    <3>3. CASE route = Null
      <4>1. affinity' = aff /\ seenBefore' = seenBefore
        BY <3>1, <3>3 DEF rememberRouteAffinity, SeenNow
      <4> QED
        BY <4>1, <2>2, BindingsDropped
    <3>4. CASE route \in Routes
      <4> HIDE DEF route
      <4> QED
        BY <2>2, <3>1, <3>2, <3>4, BindingWritten
    <3> QED
      BY <3>2, <3>3, <3>4
  <2> QED
    BY <2>1, <2>3, <2>4
<1>4. ASSUME NEW r \in Requests, Release(r) PROVE AffinityInv'
  <2>1. seenBefore' = seenBefore /\ (affinity' = affinity \/ affinity' = Disowned(r))
    BY <1>4 DEF Release
  <2>2. Bound(Disowned(r)) = Bound(affinity)
    BY <1>0 DEF Disowned, Bound, EntryType
  <2> QED
    BY <1>1, <2>1, <2>2, BindingsDropped
<1>5. ASSUME NEW r \in Requests, ForgetAffinity(r) PROVE AffinityInv'
  BY <1>2, <1>5 DEF ForgetAffinity
<1>6. ASSUME NEW r \in Requests, RecordUpstreamRateLimited(r) PROVE AffinityInv'
  BY <1>2, <1>6 DEF RecordUpstreamRateLimited
<1>7. ASSUME NEW r \in Requests,
             \/ Start(r) \/ AcquireUnprotected(r) \/ RetryCall(r) \/ RecordUpstreamSuccess(r)
             \/ OtherFailure(r) \/ JoinQueue(r) \/ GiveUp(r) \/ LeaveQueue(r) \/ NextRound(r)
      PROVE  AffinityInv'
  BY <1>1, <1>7, Zenon DEF Start, AcquireUnprotected, RetryCall, RecordUpstreamSuccess,
     OtherFailure, JoinQueue, GiveUp, LeaveQueue, NextRound, affinityVars
<1>8. ASSUME UpdateUpstreamProtection \/ NotifyAvailability \/ Tick \/ UNCHANGED vars PROVE AffinityInv'
  BY <1>1, <1>8 DEF UpdateUpstreamProtection, NotifyAvailability, Tick, vars, affinityVars
<1> QED
  BY <1>3, <1>4, <1>5, <1>6, <1>7, <1>8 DEF Next, RequestStep

LEMMA EvictionStep ==
  ASSUME TypeOK, CallInv, AffinityInv, [Next]_vars, NEW r \in Requests, Binds(r)
  PROVE  LET kept == (Bound(affinity) \cap Bound(affinity')) \ {call[r].route}
             gone == Bound(affinity) \ Bound(affinity')
         IN  /\ call[r].route \in Bound(affinity')
             /\ gone \X kept \subseteq seenBefore
             /\ \/ Cardinality(Bound(affinity')) <= upOf(r).affinityMax
                \/ Cardinality(Bound(affinity')) <= Cardinality(Bound(affinity))
<1>1. ~GuardsKept
  BY DEF Binds, CallInv, GuardsKept
<1>2. PICK q \in Requests : AcquireForModel(q) \/ Release(q)
  BY <1>1, SlotsKept
<1>3. ~Release(q)
  <2>1. ASSUME Release(q) PROVE FALSE
    <3>1. r # q => call'[r] = call[r]
      BY <2>1 DEF Release, TypeOK
    <3>2. ~call'[q].guarded
      BY <2>1 DEF Release, TypeOK, NoCall, Unguarded, WithSlot
    <3> QED
      BY <3>1, <3>2 DEF Binds, CallInv
  <2> QED
    BY <2>1
<1>4. ~ UNCHANGED <<slotVars, call>>
  BY DEF Binds, CallInv
<1>5. PICK a \in Accounts, aff \in Pruned : TakeSlot(q, a, aff)
  BY <1>2, <1>3, <1>4, AcquireCases
<1>6. q = r
  BY <1>5 DEF TakeSlot, TypeOK, Binds
<1> DEFINE route == call[r].route
<1>7. route \in Routes
  BY DEF Binds, TypeOK, CallType
<1>8. affinity' = rememberRouteAffinity(upOf(r), aff, route, a, r)
  BY <1>5, <1>6 DEF TakeSlot
<1>9. aff \in [Routes -> EntryType] /\ Bound(aff) \subseteq Bound(affinity)
  BY PrunedBound
<1> HIDE DEF route
<1>10. RoomMade(r, route, aff)
  BY <1>7, <1>8, <1>9, WritingMakesRoom
<1>11. ASSUME NEW x \in Bound(affinity) \ Bound(affinity'),
              NEW y \in (Bound(affinity) \cap Bound(affinity')) \ {route}
       PROVE  <<x, y>> \in seenBefore
  <2>1. y \in Bound(aff) /\ x # y
    BY <1>10, <1>11 DEF RoomMade
  <2>2. CASE x \notin Bound(aff)
    BY <2>1, <2>2, OldestExpire
  <2>3. CASE x \in Bound(aff)
    <3>1. x \in Oldest(aff)
      BY <1>10, <2>3 DEF RoomMade
    <3> QED
      BY <2>1, <3>1 DEF Oldest
  <2> QED
    BY <2>2, <2>3
<1>12. (Bound(affinity) \ Bound(affinity')) \X ((Bound(affinity) \cap Bound(affinity')) \ {route})
         \subseteq seenBefore
  BY <1>11
<1> QED
  BY <1>10, <1>12 DEF RoomMade, route

(* At the limit of the settings it works with, a binding that is written    *)
(* takes the place of the oldest one and of no other, for any routes,       *)
(* settings and order of uses (rememberRouteAffinityLocked).                *)
THEOREM OldestBindingEvicted == Spec => AffinityEvictsOldest
<1>1. Init => AffinityInv
  <2> SUFFICES ASSUME Init PROVE AffinityInv
    OBVIOUS
  <2>1. Bound(affinity) = {}
    BY DEF Init, Bound, NoEntry
  <2>2. IsFiniteSet(Bound(affinity))
    BY <2>1, FS_EmptySet, Zenon
  <2>3. Ranked([x \in Routes |-> 0], 0)
    BY <2>1 DEF Ranked, Init
  <2> QED
    BY <2>2, <2>3 DEF AffinityInv
<1>2. TypeOK /\ CallInv /\ AffinityInv /\ [Next]_vars => AffinityInv'
  BY AffinityNext
<1>3. TypeOK /\ CallInv /\ AffinityInv /\ [Next]_vars
      => [\A r \in Requests : Binds(r) =>
            LET kept == (Bound(affinity) \cap Bound(affinity')) \ {call[r].route}
                gone == Bound(affinity) \ Bound(affinity')
            IN  /\ call[r].route \in Bound(affinity')
                /\ gone \X kept \subseteq seenBefore
                /\ \/ Cardinality(Bound(affinity')) <= upOf(r).affinityMax
                   \/ Cardinality(Bound(affinity')) <= Cardinality(Bound(affinity))]_vars
  BY EvictionStep
<1> QED
  BY <1>1, <1>2, <1>3, TypeCorrect, PTL DEF Spec, AffinityEvictsOldest

(* A request that returns without success forgets bindings of its own only: *)
(* ForgetAffinity compares routeSeen of the guard with the binding, so one  *)
(* that another request has written since stays.                            *)
LEMMA ForgetStep ==
  ASSUME TypeOK, [Next]_vars, NEW x \in Routes, NEW r \in Requests, NEW q \in Requests,
         r # q, pc[r] = "calling", pc'[r] = "returned", affinity[x].owner = q
  PROVE  affinity'[x] = affinity[x]
<1> USE DEF TypeOK, PCs
<1>1. ASSUME NEW s \in Requests, NEW v, v # "returned",
             pc' = [pc EXCEPT ![s] = v] \/ pc' = Signalled([pc EXCEPT ![s] = v])
      PROVE  FALSE
  BY <1>1 DEF Signalled
<1>2. ASSUME NEW s \in Requests, ForgetAffinity(s) PROVE affinity'[x] = affinity[x]
  <2>1. pc' = [pc EXCEPT ![s] = "returned"]
    BY <1>2 DEF ForgetAffinity
  <2>2. s = r
    BY <2>1
  <2>3. affinity' = Without(affinity, {y \in Routes : /\ y = call[s].route
                                                      /\ affinity[y].acct = call[s].acct
                                                      /\ affinity[y].owner = s})
    BY <1>2 DEF ForgetAffinity
  <2> QED
    BY <2>2, <2>3 DEF Without
<1>3. ASSUME NEW s \in Requests, AcquireForModel(s) PROVE FALSE
  <2>1. pc' = [pc EXCEPT ![s] = "refused"] \/ pc' = [pc EXCEPT ![s] = "calling"]
    BY <1>3, Zenon DEF AcquireForModel, TakeSlot
  <2> QED
    BY <1>1, <2>1
<1>4. ASSUME NEW s \in Requests, RecordUpstreamSuccess(s) PROVE FALSE
  <2>1. pc' = [pc EXCEPT ![s] = "reported"] \/ pc' = Signalled([pc EXCEPT ![s] = "reported"])
    BY <1>4, Zenon DEF RecordUpstreamSuccess
  <2> QED
    BY <1>1, <2>1
<1>5. ASSUME NEW s \in Requests, Release(s) PROVE FALSE
  <2> DEFINE v == IF pc[s] = "reported" THEN "idle" ELSE "failed"
  <2>1. pc' = [pc EXCEPT ![s] = v] \/ pc' = Signalled([pc EXCEPT ![s] = v])
    BY <1>5 DEF Release
  <2>2. v # "returned"
    OBVIOUS
  <2> QED
    BY <1>1, <2>1, <2>2
<1>6. ASSUME NEW s \in Requests, RecordUpstreamRateLimited(s) PROVE FALSE
  <2>1. pc' = Signalled([pc EXCEPT ![s] = "select"])
    BY <1>6 DEF RecordUpstreamRateLimited
  <2> QED
    BY <1>1, <2>1
<1>7. ASSUME NEW s \in Requests, Start(s) \/ AcquireUnprotected(s) \/ RetryCall(s) PROVE FALSE
  <2>1. \E v \in {"select", "calling", "refused"} : pc' = [pc EXCEPT ![s] = v]
    BY <1>7 DEF Start, AcquireUnprotected, RetryCall
  <2> QED
    BY <1>1, <2>1
<1>8. ASSUME NEW s \in Requests,
             OtherFailure(s) \/ JoinQueue(s) \/ GiveUp(s) \/ LeaveQueue(s) \/ NextRound(s)
      PROVE  FALSE
  <2>1. \E v \in {"select", "idle", "queued", "backoff"} : pc' = [pc EXCEPT ![s] = v]
    BY <1>8 DEF OtherFailure, JoinQueue, GiveUp, LeaveQueue, NextRound
  <2> QED
    BY <1>1, <2>1
<1>9. ASSUME UpdateUpstreamProtection \/ NotifyAvailability \/ Tick \/ UNCHANGED vars PROVE FALSE
  BY <1>9 DEF UpdateUpstreamProtection, NotifyAvailability, Tick, vars, Signalled
<1> QED
  BY <1>2, <1>3, <1>4, <1>5, <1>6, <1>7, <1>8, <1>9 DEF Next, RequestStep

(* A binding is forgotten only by the request that wrote it, whatever other *)
(* requests have bound the route to since (ForgetAffinity, routeSeen).      *)
THEOREM OwnBindingsForgotten == Spec => ForgetsOnlyOwnBinding
<1>1. TypeOK /\ [Next]_vars
      => [\A x \in Routes, r, q \in Requests :
            (r # q /\ pc[r] = "calling" /\ pc'[r] = "returned" /\ affinity[x].owner = q)
            => affinity'[x] = affinity[x]]_vars
  BY ForgetStep
<1> QED
  BY <1>1, TypeCorrect, PTL DEF Spec, ForgetsOnlyOwnBinding
=============================================================================
