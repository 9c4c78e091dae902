------------------------- MODULE TokenRefresh_proofs -------------------------
(***************************************************************************)
(* Proofs about TokenRefresh, for every finite set of accounts, every set  *)
(* of callers and reloaders, every concurrency and queue capacity and any  *)
(* number of credentials; then about AutoRefresh, the background runs, and  *)
(* about ModelCatalog, the lists of models that other runs renew.          *)
(***************************************************************************)
EXTENDS TokenRefresh, AutoRefresh, ModelCatalog, FiniteSetTheorems, DataLemmas, TLAPS

(* A caller that is in RefreshContext holds the copy of an account. *)
CallInv == \A c \in Callers : callPc[c] # "idle" => callAcct[c] \in Accounts

TypeInv == TypeOK /\ CallInv

-----------------------------------------------------------------------------
LEMMA VersionFacts ==
  /\ 0 \in Versions /\ Versions \subseteq Int /\ Gone \notin Versions
  /\ \A v \in Copies : v # Gone => v \in Versions
BY RefreshAssumption DEF Versions, Copies, Gone

LEMMA LeaveQueueType == TypeOK => LeaveQueue \in 0 .. QueueCapacity
BY RefreshAssumption DEF TypeOK, LeaveQueue

LEMMA ReturnedType ==
  ASSUME TypeInv, NEW S, Returned(S)
  PROVE  /\ callPc' \in [Callers -> CallPCs]
         /\ callAcct' \in [Callers -> Accounts \cup {NoAccount}]
         /\ callCred' \in [Callers -> Versions]
         /\ CallInv'
BY VersionFacts DEF TypeInv, TypeOK, CallInv, Returned, CallPCs

LEMMA TypeInit == Init => TypeInv
<1> SUFFICES ASSUME Init PROVE TypeInv
  OBVIOUS
<1>1. 0 \in Versions /\ 0 \in Copies /\ Gone \in Copies /\ 0 \in 0 .. QueueCapacity
  BY RefreshAssumption DEF Versions, Copies
<1>2. [a \in Accounts |-> 0] \in [Accounts -> Copies]
  BY <1>1
<1>3. Empty \in [Accounts -> Copies]
  BY <1>1 DEF Empty
<1>4. [a \in Accounts |-> 0] \in [Accounts -> Versions]
  BY <1>1
<1>5. CallInv
  BY DEF Init, CallInv
<1> QED
  BY <1>1, <1>2, <1>3, <1>4, <1>5
  DEF Init, TypeInv, TypeOK, RunPCs, CallPCs, LoadPCs

LEMMA CallTypes ==
  ASSUME TypeInv, NEW c \in Callers, CallStep(c)
  PROVE  TypeInv'
<1> USE DEF TypeInv, TypeOK
<1>1. ASSUME NEW a \in Accounts, Select(c, a) PROVE TypeInv'
  <2>1. pool[a] \in Versions
    BY <1>1, VersionFacts DEF Select
  <2>2. CallInv'
    BY <1>1 DEF Select, CallInv
  <2> QED
    BY <1>1, <2>1, <2>2 DEF Select, provider, slots, runs, reloads, CallPCs
<1>2. CASE NoRefresh(c)
  BY <1>2, ReturnedType DEF NoRefresh, provider, slots, runs, reloads
<1>3. CASE NeedsRefresh(c)
  <2>1. callAcct[c] \in Accounts
    BY <1>3 DEF NeedsRefresh, CallInv
  <2>2. Latest(c) \in Versions
    BY <2>1, VersionFacts DEF Latest
  <2>3. CallInv'
    BY <1>3, <2>1 DEF NeedsRefresh, CallInv
  <2> QED
    BY <1>3, <2>2, <2>3 DEF NeedsRefresh, provider, slots, runs, reloads, CallPCs
<1>4. CASE Join(c)
  BY <1>4, VersionFacts DEF Join, provider, slots, runs, reloads, CallPCs, CallInv
<1>5. CASE QueueFull(c)
  BY <1>5, ReturnedType DEF QueueFull, provider, slots, runs, reloads
<1>6. CASE StartRun(c)
  <2>1. callAcct[c] \in Accounts
    BY <1>6 DEF StartRun, CallInv
  <2>2. waiting' \in 0 .. QueueCapacity
    BY <1>6, RefreshAssumption DEF StartRun
  <2>3. runPc' \in [Accounts -> RunPCs] /\ runCred' \in [Accounts -> Versions]
    BY <1>6, <2>1 DEF StartRun, RunPCs
  <2>4. CallInv'
    BY <1>6, <2>1 DEF StartRun, CallInv
  <2> QED
    BY <1>6, <2>2, <2>3, <2>4, VersionFacts DEF StartRun, provider, reloads, CallPCs
<1>7. CASE Abandon(c)
  BY <1>7, ReturnedType DEF Abandon, provider, slots, runs, reloads
<1> QED
  BY <1>1, <1>2, <1>3, <1>4, <1>5, <1>6, <1>7 DEF CallStep

LEMMA RunTypes ==
  ASSUME TypeInv, NEW a \in Accounts, RunStep(a)
  PROVE  TypeInv'
<1> USE DEF TypeInv, TypeOK
<1>1. CASE RunBlocked(a)
  BY <1>1, LeaveQueueType DEF RunBlocked, provider, calls, reloads, RunPCs, CallInv
<1>2. CASE RunReady(a)
  BY <1>2 DEF RunReady, provider, slots, calls, reloads, RunPCs, CallInv
<1>3. CASE acquireSlot(a)
  BY <1>3, LeaveQueueType DEF acquireSlot, provider, calls, reloads, RunPCs, CallInv
<1>4. CASE ParkForSlot(a)
  BY <1>4 DEF ParkForSlot, provider, slots, calls, reloads, RunPCs, CallInv
<1>5. CASE SlotTimeout(a)
  BY <1>5, LeaveQueueType DEF SlotTimeout, provider, calls, reloads, RunPCs, CallInv
<1>6. ASSUME issued[a] < MaxVersion PROVE issued[a] + 1 \in Versions
  BY <1>6, RefreshAssumption DEF Versions
<1>7. ASSUME NEW rotates \in BOOLEAN, Answered(a, rotates) PROVE TypeInv'
  BY <1>6, <1>7 DEF Answered, slots, calls, reloads, RunPCs, CallInv
<1>8. CASE AnswerLost(a)
  BY <1>6, <1>8 DEF AnswerLost, slots, calls, reloads, RunPCs, CallInv
<1>9. CASE RefreshFails(a)
  BY <1>9 DEF RefreshFails, provider, slots, calls, reloads, RunPCs, CallInv
<1>10. CASE UpstreamBlocks(a)
  BY <1>10 DEF UpstreamBlocks, provider, calls, reloads, RunPCs, CallInv
<1>11. CASE Publish(a)
  <2>1. runNew[a] \in Copies
    BY DEF Copies
  <2> QED
    BY <1>11, <2>1 DEF Publish, provider, slots, calls, reloads, RunPCs, CallInv
<1>12. CASE releaseSlot(a)
  <2>1. Signalled \in [Accounts -> RunPCs] /\ AfterRelease(a) \in RunPCs
    BY DEF Signalled, AfterRelease, RunPCs
  <2>2. active' \in Nat
    BY <1>12 DEF releaseSlot
  <2> QED
    BY <1>12, <2>1, <2>2 DEF releaseSlot, provider, calls, reloads, CallInv
<1>13. CASE Finish(a)
  <2>1. runPc' \in [Accounts -> RunPCs]
    BY <1>13 DEF Finish, RunPCs
  <2> QED
    BY <1>13, <2>1, ReturnedType, VersionFacts DEF Finish, provider, slots, reloads
<1> QED
  BY <1>1, <1>2, <1>3, <1>4, <1>5, <1>7, <1>8, <1>9, <1>10, <1>11, <1>12, <1>13
  DEF RunStep

LEMMA UpdatedType ==
  ASSUME TypeOK, NEW S \in SUBSET Accounts
  PROVE  Updated(S) \in [Accounts -> Copies]
BY DEF TypeOK, Updated, Copies

LEMMA TypeNext == TypeInv /\ [Next]_vars => TypeInv'
<1> SUFFICES ASSUME TypeInv, [Next]_vars PROVE TypeInv'
  OBVIOUS
<1> USE DEF TypeInv, TypeOK
<1>1. ASSUME NEW S \in SUBSET RunsIn({"saving"}), BatchSaved(S) PROVE TypeInv'
  <2>1. Updated(S) \in [Accounts -> Copies]
    BY UpdatedType DEF RunsIn
  <2> QED
    BY <1>1, <2>1 DEF BatchSaved, provider, slots, calls, reloads, RunPCs, CallInv
<1>2. ASSUME NEW S \in SUBSET RunsIn({"saving"}), BatchFails(S) PROVE TypeInv'
  BY <1>2 DEF BatchFails, provider, slots, calls, reloads, RunPCs, CallInv
<1>3. ASSUME NEW k \in Reloaders, ReloadReads(k) PROVE TypeInv'
  BY <1>3 DEF ReloadReads, provider, slots, runs, calls, LoadPCs, CallInv
<1>4. ASSUME NEW k \in Reloaders, ReloadInstalls(k) PROVE TypeInv'
  <2>1. Empty \in [Accounts -> Copies]
    BY DEF Empty, Copies
  <2> QED
    BY <1>4, <2>1 DEF ReloadInstalls, provider, slots, runs, calls, LoadPCs, CallInv
<1>5. ASSUME NEW k \in Reloaders, NEW a \in Accounts, DeleteAccount(k, a) PROVE TypeInv'
  <2>1. Gone \in Copies
    BY DEF Copies
  <2> QED
    BY <1>5, <2>1 DEF DeleteAccount, provider, slots, runs, calls, LoadPCs, CallInv
<1>6. CASE BlockEnds
  BY <1>6 DEF BlockEnds, provider, runs, calls, reloads, CallInv
<1>7. ASSUME NEW n \in Concurrency, SetConcurrency(n) PROVE TypeInv'
  BY <1>7 DEF SetConcurrency, provider, runs, calls, reloads, CallInv
<1>8. CASE UNCHANGED vars
  BY <1>8 DEF vars, CallInv
<1> QED
  BY CallTypes, RunTypes, <1>1, <1>2, <1>3, <1>4, <1>5, <1>6, <1>7, <1>8 DEF Next

(* Every copy of the credentials has its type at every time, and the        *)
(* refresh queue never grows past RefreshQueueCapacity.                     *)
THEOREM RefreshTypes == Spec => []TypeOK
BY TypeInit, TypeNext, PTL DEF Spec, TypeInv

-----------------------------------------------------------------------------
(* How a step changes the runs that hold a slot and the runs in the queue.  *)
Coordinated == SlotsConserved /\ ParkedHasWaker

LEMMA FiniteRuns == \A S : IsFiniteSet(RunsIn(S)) /\ Cardinality(RunsIn(S)) \in Nat
BY RefreshAssumption, FS_Subset, FS_CardinalityType DEF RunsIn

LEMMA Counted ==
  ASSUME NEW S, IsFiniteSet(S), NEW x
  PROVE  /\ x \notin S => Cardinality(S \cup {x}) = Cardinality(S) + 1
         /\ x \in S => Cardinality(S \ {x}) = Cardinality(S) - 1
         /\ x \in S => Cardinality(S) > 0 /\ S \cup {x} = S
         /\ x \notin S => S \ {x} = S
<1>1. Cardinality(S) \in Nat
  BY FS_CardinalityType
<1>2. x \in S => Cardinality(S) # 0
  BY FS_EmptySet
<1> QED
  BY <1>1, <1>2, FS_CardinalityType, FS_AddElement, FS_RemoveElement

LEMMA CountedChange ==
  ASSUME NEW S, IsFiniteSet(S), NEW x
  PROVE  /\ Cardinality(S \cup {x}) = Cardinality(S) + 1 - (IF x \in S THEN 1 ELSE 0)
         /\ Cardinality(S \ {x}) = Cardinality(S) - (IF x \in S THEN 1 ELSE 0)
<1>1. Cardinality(S) \in Nat
  BY FS_CardinalityType
<1>2. CASE x \in S
  <2>1. S \cup {x} = S
    BY <1>2
  <2>2. Cardinality(S \cup {x}) = Cardinality(S)
    BY <2>1, Zenon
  <2>3. Cardinality(S \ {x}) = Cardinality(S) - 1
    BY <1>2, Counted
  <2> QED
    BY <1>1, <1>2, <2>2, <2>3
<1>3. CASE x \notin S
  <2>1. S \ {x} = S
    BY <1>3
  <2>2. Cardinality(S \ {x}) = Cardinality(S)
    BY <2>1, Zenon
  <2>3. Cardinality(S \cup {x}) = Cardinality(S) + 1
    BY <1>3, Counted
  <2> QED
    BY <1>1, <1>3, <2>2, <2>3
<1> QED
  BY <1>2, <1>3

(* One run goes from control point to control point. *)
LEMMA RunMoved ==
  ASSUME TypeOK, NEW a \in Accounts, NEW to \in RunPCs, runPc' = [runPc EXCEPT ![a] = to],
         NEW S
  PROVE  /\ to \in S => RunsIn(S)' = RunsIn(S) \cup {a}
         /\ to \notin S => RunsIn(S)' = RunsIn(S) \ {a}
BY DEF TypeOK, RunsIn

(* What one run adds to and takes from the two counters. *)
LEMMA RunCounts ==
  ASSUME TypeOK, NEW a \in Accounts, NEW to \in RunPCs, runPc' = [runPc EXCEPT ![a] = to]
  PROVE  \A S \in {InSlot, InQueue} :
           Cardinality(RunsIn(S)') =
             Cardinality(RunsIn(S)) + (IF to \in S THEN 1 ELSE 0)
                                    - (IF runPc[a] \in S THEN 1 ELSE 0)
<1> SUFFICES ASSUME NEW S \in {InSlot, InQueue}
             PROVE  Cardinality(RunsIn(S)') =
                      Cardinality(RunsIn(S)) + (IF to \in S THEN 1 ELSE 0)
                                             - (IF runPc[a] \in S THEN 1 ELSE 0)
  OBVIOUS
<1>1. IsFiniteSet(RunsIn(S)) /\ Cardinality(RunsIn(S)) \in Nat
  BY FiniteRuns
<1>2. a \in RunsIn(S) <=> runPc[a] \in S
  BY DEF RunsIn
<1>3. /\ Cardinality(RunsIn(S) \cup {a}) =
           Cardinality(RunsIn(S)) + 1 - (IF a \in RunsIn(S) THEN 1 ELSE 0)
      /\ Cardinality(RunsIn(S) \ {a}) =
           Cardinality(RunsIn(S)) - (IF a \in RunsIn(S) THEN 1 ELSE 0)
  BY <1>1, CountedChange
<1>4. CASE to \in S
  <2>1. RunsIn(S)' = RunsIn(S) \cup {a}
    BY <1>4, RunMoved
  <2> QED
    BY <1>1, <1>2, <1>3, <1>4, <2>1
<1>5. CASE to \notin S
  <2>1. RunsIn(S)' = RunsIn(S) \ {a}
    BY <1>5, RunMoved
  <2> QED
    BY <1>1, <1>2, <1>3, <1>5, <2>1
<1> QED
  BY <1>4, <1>5

LEMMA SlotsKept ==
  ASSUME Coordinated, runPc' = runPc, active' = active, waiting' = waiting
  PROVE  Coordinated'
BY DEF Coordinated, SlotsConserved, ParkedHasWaker, RunsIn

(* The run of a goes to control point to, and takes or leaves places. *)
MovesRun(a, to) ==
  /\ to \in RunPCs
  /\ runPc' = [runPc EXCEPT ![a] = to]
  /\ active' = active + (IF to \in InSlot THEN 1 ELSE 0)
                      - (IF runPc[a] \in InSlot THEN 1 ELSE 0)
  /\ waiting' = waiting + (IF to \in InQueue THEN 1 ELSE 0)
                        - (IF runPc[a] \in InQueue THEN 1 ELSE 0)
  /\ active' >= active
  /\ to = "parked" => active > 0

LEMMA SlotsMoved ==
  ASSUME TypeOK, Coordinated, NEW a \in Accounts, NEW to, MovesRun(a, to)
  PROVE  Coordinated'
<1> USE DEF MovesRun
<1>1. SlotsConserved'
  BY RunCounts DEF Coordinated, SlotsConserved
<1>2. RunsIn({"parked"})' # {} => RunsIn({"parked"}) # {} \/ to = "parked"
  BY DEF TypeOK, RunsIn
<1>3. ParkedHasWaker'
  BY <1>2 DEF Coordinated, ParkedHasWaker, TypeOK
<1> QED
  BY <1>1, <1>3 DEF Coordinated

(* A batch moves runs that hold a slot to control points that hold one. *)
LEMMA SlotsBatch ==
  ASSUME TypeOK, Coordinated, NEW S \in SUBSET RunsIn({"saving"}), NEW to \in InSlot,
         runPc' = [a \in Accounts |-> IF a \in S THEN to ELSE runPc[a]],
         active' = active, waiting' = waiting
  PROVE  Coordinated'
<1>1. /\ RunsIn(InSlot)' = RunsIn(InSlot)
      /\ RunsIn(InQueue)' = RunsIn(InQueue)
      /\ RunsIn({"parked"})' = RunsIn({"parked"})
  BY DEF TypeOK, RunsIn, InSlot, InQueue
<1> QED
  BY <1>1 DEF Coordinated, SlotsConserved, ParkedHasWaker

(* A run in the queue is counted, so LeaveQueue gives back its place. *)
LEMMA PlaceLeft ==
  ASSUME TypeOK, Coordinated, NEW a \in Accounts, runPc[a] \in InQueue
  PROVE  LeaveQueue = waiting - 1
<1>1. a \in RunsIn(InQueue)
  BY DEF RunsIn
<1>2. waiting > 0
  BY <1>1, FiniteRuns, Counted DEF Coordinated, SlotsConserved
<1> QED
  BY <1>2 DEF LeaveQueue

LEMMA SlotsReleased ==
  ASSUME TypeOK, Coordinated, NEW a \in Accounts, releaseSlot(a)
  PROVE  Coordinated'
<1>1. a \in RunsIn(InSlot)
  BY DEF releaseSlot, RunsIn, InSlot
<1>2. active > 0
  BY <1>1, FiniteRuns, Counted DEF Coordinated, SlotsConserved
<1>3. AfterRelease(a) \in {"done", "lost"}
  BY DEF AfterRelease
<1>4. RunsIn(InSlot)' = RunsIn(InSlot) \ {a}
  BY <1>3 DEF releaseSlot, Signalled, TypeOK, RunsIn, InSlot
<1>5. RunsIn(InQueue)' = RunsIn(InQueue)
  BY <1>3 DEF releaseSlot, Signalled, TypeOK, RunsIn, InQueue
<1>6. RunsIn({"parked"})' = {}
  BY <1>3 DEF releaseSlot, Signalled, TypeOK, RunsIn
<1>7. active' = active - 1 /\ waiting' = waiting
  BY <1>2 DEF releaseSlot
<1>8. Cardinality(RunsIn(InSlot)') = Cardinality(RunsIn(InSlot)) - 1
  BY <1>1, <1>4, FiniteRuns, Counted
<1> QED
  BY <1>5, <1>6, <1>7, <1>8 DEF Coordinated, SlotsConserved, ParkedHasWaker

LEMMA CoordinatedRun ==
  ASSUME TypeOK, Coordinated, NEW a \in Accounts, RunStep(a)
  PROVE  Coordinated'
<1>t. active \in Nat /\ waiting \in Nat
  BY RefreshAssumption DEF TypeOK
<1>p. runPc \in [Accounts -> RunPCs]
  BY DEF TypeOK
<1> USE DEF InSlot, InQueue, RunPCs
<1>1. CASE RunBlocked(a)
  <2>1. waiting' = waiting - 1
    BY <1>1, PlaceLeft DEF RunBlocked
  <2>2. MovesRun(a, "lost")
    BY <1>1, <1>t, <2>1 DEF MovesRun, RunBlocked
  <2> QED
    BY <2>2, SlotsMoved
<1>2. CASE RunReady(a)
  <2>1. MovesRun(a, "trying")
    BY <1>2, <1>t DEF MovesRun, RunReady, slots
  <2> QED
    BY <2>1, SlotsMoved
<1>3. CASE acquireSlot(a)
  <2>1. waiting' = waiting - 1
    BY <1>3, PlaceLeft DEF acquireSlot
  <2>2. MovesRun(a, "upstream")
    BY <1>3, <1>t, <2>1 DEF MovesRun, acquireSlot
  <2> QED
    BY <2>2, SlotsMoved
<1>4. CASE ParkForSlot(a)
  <2>1. active > 0
    BY <1>4, <1>t, RefreshAssumption DEF ParkForSlot, TypeOK
  <2>2. MovesRun(a, "parked")
    BY <1>4, <1>t, <2>1 DEF MovesRun, ParkForSlot, slots
  <2> QED
    BY <2>2, SlotsMoved
<1>5. CASE SlotTimeout(a)
  <2>1. waiting' = waiting - 1
    BY <1>5, PlaceLeft DEF SlotTimeout
  <2>2. MovesRun(a, "lost")
    BY <1>5, <1>t, <2>1 DEF MovesRun, SlotTimeout
  <2> QED
    BY <2>2, SlotsMoved
<1>6. ASSUME NEW rotates \in BOOLEAN, Answered(a, rotates) PROVE Coordinated'
  <2>1. MovesRun(a, "saving")
    BY <1>6, <1>t DEF MovesRun, Answered, slots
  <2> QED
    BY <2>1, SlotsMoved
<1>7. CASE AnswerLost(a)
  <2>1. MovesRun(a, "failed")
    BY <1>7, <1>t DEF MovesRun, AnswerLost, slots
  <2> QED
    BY <2>1, SlotsMoved
<1>8. CASE RefreshFails(a)
  <2>1. MovesRun(a, "failed")
    BY <1>8, <1>t DEF MovesRun, RefreshFails, slots
  <2> QED
    BY <2>1, SlotsMoved
<1>9. CASE UpstreamBlocks(a)
  <2>1. MovesRun(a, "failed")
    BY <1>9, <1>t DEF MovesRun, UpstreamBlocks
  <2> QED
    BY <2>1, SlotsMoved
<1>10. CASE Publish(a)
  <2>1. MovesRun(a, "release")
    BY <1>10, <1>t DEF MovesRun, Publish, slots
  <2> QED
    BY <2>1, SlotsMoved
<1>11. CASE releaseSlot(a)
  BY <1>11, SlotsReleased
<1>12. CASE Finish(a)
  <2>1. MovesRun(a, "none")
    BY <1>12, <1>t DEF MovesRun, Finish, slots
  <2> QED
    BY <2>1, SlotsMoved
<1> QED
  BY <1>1, <1>2, <1>3, <1>4, <1>5, <1>6, <1>7, <1>8, <1>9, <1>10, <1>11, <1>12
  DEF RunStep

LEMMA CoordinatedNext == TypeInv /\ Coordinated /\ [Next]_vars => Coordinated'
<1> SUFFICES ASSUME TypeInv, Coordinated, [Next]_vars PROVE Coordinated'
  OBVIOUS
<1>t. TypeOK /\ active \in Nat /\ waiting \in Nat
  BY RefreshAssumption DEF TypeOK, TypeInv
<1>1. ASSUME NEW c \in Callers, CallStep(c) PROVE Coordinated'
  <2>1. CASE StartRun(c)
    <3>1. callAcct[c] \in Accounts
      BY <2>1 DEF TypeInv, CallInv, StartRun
    <3>2. MovesRun(callAcct[c], "queued")
      BY <2>1, <1>t DEF MovesRun, StartRun, InSlot, InQueue, RunPCs
    <3> QED
      BY <3>1, <3>2, <1>t, SlotsMoved
  <2>2. CASE ~ StartRun(c)
    BY <1>1, <2>2, SlotsKept
    DEF CallStep, Select, NoRefresh, NeedsRefresh, Join, QueueFull, Abandon, slots, runs
  <2> QED
    BY <2>1, <2>2
<1>2. ASSUME NEW a \in Accounts, RunStep(a) PROVE Coordinated'
  BY <1>2, <1>t, CoordinatedRun
<1>3. ASSUME NEW S \in SUBSET RunsIn({"saving"}), BatchSaved(S) \/ BatchFails(S)
      PROVE  Coordinated'
  BY <1>3, <1>t, SlotsBatch DEF BatchSaved, BatchFails, slots, InSlot
<1>4. ASSUME NEW k \in Reloaders,
             \/ ReloadReads(k) \/ ReloadInstalls(k)
             \/ \E a \in Accounts : DeleteAccount(k, a)
      PROVE  Coordinated'
  BY <1>4, SlotsKept DEF ReloadReads, ReloadInstalls, DeleteAccount, slots, runs
<1>5. CASE BlockEnds
  BY <1>5, SlotsKept DEF BlockEnds, runs
<1>6. ASSUME NEW n \in Concurrency, SetConcurrency(n) PROVE Coordinated'
  BY <1>6, SlotsKept DEF SetConcurrency, runs
<1>7. CASE UNCHANGED vars
  BY <1>7, SlotsKept DEF vars
<1> QED
  BY <1>1, <1>2, <1>3, <1>4, <1>5, <1>6, <1>7 DEF Next

LEMMA CoordinatedInit == Init => Coordinated
<1> SUFFICES ASSUME Init PROVE Coordinated
  OBVIOUS
<1>1. RunsIn(InSlot) = {} /\ RunsIn(InQueue) = {} /\ RunsIn({"parked"}) = {}
  BY DEF Init, RunsIn, InSlot, InQueue
<1> QED
  BY <1>1, FS_EmptySet DEF Init, Coordinated, SlotsConserved, ParkedHasWaker

(* No slot and no place in the refresh queue leaks on any path of run and   *)
(* execute, and a run asleep on the notify channel always has a run that    *)
(* will close it, whatever RefreshConcurrency is set to meanwhile.          *)
THEOREM CoordinatorKept == Spec => []CoordinatorSafe
<1>1. TypeInv /\ Coordinated => CoordinatorSafe
  BY DEF TypeInv, Coordinated, CoordinatorSafe
<1> QED
  BY <1>1, TypeInit, TypeNext, CoordinatedInit, CoordinatedNext, PTL DEF Spec

-----------------------------------------------------------------------------
(* Where the versions of one account can be.  The file holds what config    *)
(* holds, unless a deletion could not be written; a reader of config and a  *)
(* run that has saved hold nothing newer than the file.                     *)
Recorded(a) ==
  /\ config[a] # Gone => disk[a] = config[a]
  /\ config[a] <= issued[a]
  /\ accepted[a] <= issued[a]
  /\ runPc[a] = "saving" => runNew[a] = issued[a]
  /\ runPc[a] = "publish" /\ disk[a] # Gone => runNew[a] <= disk[a]
  /\ \A k \in Reloaders :
       snapshot[k][a] # Gone /\ disk[a] # Gone => snapshot[k][a] <= disk[a]

RotationInv == RotationSafe /\ \A a \in Accounts : Recorded(a)

(* The invariant of one account. *)
AccountInv(a) ==
  /\ Recorded(a)
  /\ pool[a] # Gone /\ disk[a] # Gone => pool[a] <= disk[a]
  /\ config[a] # Gone /\ accepted[a] > config[a] => runPc[a] = "saving" \/ forgotten[a]

LEMMA RotationParts == RotationInv <=> \A a \in Accounts : AccountInv(a)
BY DEF RotationInv, RotationSafe, DurableBeforeVisible, RotationRecorded, AccountInv

LEMMA RotationInit == Init => RotationInv
<1> SUFFICES ASSUME Init, NEW a \in Accounts PROVE AccountInv(a)
  BY RotationParts
<1> QED
  BY DEF Init, AccountInv, Recorded, Empty, Gone

(* The types of what AccountInv compares. *)
LEMMA AccountTypes ==
  ASSUME TypeOK, NEW a \in Accounts
  PROVE  /\ config[a] \in Int /\ disk[a] \in Int /\ pool[a] \in Int
         /\ issued[a] \in Nat /\ accepted[a] \in Nat /\ runNew[a] \in Nat
         /\ Gone \in Int
         /\ \A k \in Reloaders : snapshot[k][a] \in Int
BY DEF TypeOK, Copies, Versions, Gone

(* A step that leaves the copies alone, and the run of a away from the two  *)
(* control points where its answer is not yet recorded.                     *)
LEMMA AccountKept ==
  ASSUME NEW a \in Accounts, AccountInv(a),
         UNCHANGED <<config, disk, pool, issued, accepted, snapshot>>,
         runNew'[a] = runNew[a] \/ runPc'[a] \notin {"saving", "publish"},
         runPc'[a] \in {"saving", "publish"} => runPc[a] = runPc'[a],
         runPc[a] = "saving" => runPc'[a] = "saving" \/ forgotten'[a],
         forgotten[a] => forgotten'[a]
  PROVE  AccountInv(a)'
BY DEF AccountInv, Recorded

LEMMA RotationRun ==
  ASSUME TypeOK, RotationInv, NEW b \in Accounts, RunStep(b)
  PROVE  RotationInv'
<1> SUFFICES ASSUME NEW a \in Accounts PROVE AccountInv(a)'
  BY DEF RotationInv, RotationSafe, DurableBeforeVisible, RotationRecorded, AccountInv
<1>i. AccountInv(a)
  BY RotationParts
<1>t. /\ config[a] \in Int /\ disk[a] \in Int /\ pool[a] \in Int
      /\ issued[a] \in Nat /\ accepted[a] \in Nat /\ runNew[a] \in Nat
      /\ Gone \in Int
      /\ \A k \in Reloaders : snapshot[k][a] \in Int
  BY AccountTypes
<1> USE DEF TypeOK
<1>1. CASE RunBlocked(b)
  BY <1>1, <1>i, AccountKept DEF RunBlocked, provider, reloads
<1>2. CASE RunReady(b)
  BY <1>2, <1>i, AccountKept DEF RunReady, provider, reloads
<1>3. CASE acquireSlot(b)
  BY <1>3, <1>i, AccountKept DEF acquireSlot, provider, reloads
<1>4. CASE ParkForSlot(b)
  BY <1>4, <1>i, AccountKept DEF ParkForSlot, provider, reloads
<1>5. CASE SlotTimeout(b)
  BY <1>5, <1>i, AccountKept DEF SlotTimeout, provider, reloads
<1>6. ASSUME NEW rotates \in BOOLEAN, Answered(b, rotates) PROVE AccountInv(a)'
  BY <1>6, <1>i, <1>t DEF Answered, reloads, AccountInv, Recorded
<1>7. CASE AnswerLost(b)
  BY <1>7, <1>i, <1>t DEF AnswerLost, reloads, AccountInv, Recorded
<1>8. CASE RefreshFails(b)
  BY <1>8, <1>i, AccountKept DEF RefreshFails, provider, reloads
<1>9. CASE UpstreamBlocks(b)
  BY <1>9, <1>i, AccountKept DEF UpstreamBlocks, provider, reloads
<1>10. CASE Publish(b)
  BY <1>10, <1>i, <1>t DEF Publish, provider, reloads, AccountInv, Recorded
<1>11. CASE releaseSlot(b)
  BY <1>11, <1>i, AccountKept DEF releaseSlot, Signalled, AfterRelease, provider, reloads
<1>12. CASE Finish(b)
  BY <1>12, <1>i, AccountKept DEF Finish, provider, reloads
<1> QED
  BY <1>1, <1>2, <1>3, <1>4, <1>5, <1>6, <1>7, <1>8, <1>9, <1>10, <1>11, <1>12
  DEF RunStep

LEMMA RotationNext == TypeInv /\ RotationInv /\ [Next]_vars => RotationInv'
<1> SUFFICES ASSUME TypeInv, RotationInv, [Next]_vars PROVE RotationInv'
  OBVIOUS
<1> USE DEF TypeInv
<1>1. ASSUME NEW b \in Accounts, RunStep(b) PROVE RotationInv'
  BY <1>1, RotationRun
<1>2. ASSUME ~ \E b \in Accounts : RunStep(b) PROVE RotationInv'
  <2> SUFFICES ASSUME NEW a \in Accounts PROVE AccountInv(a)'
    BY DEF RotationInv, RotationSafe, DurableBeforeVisible, RotationRecorded, AccountInv
  <2>i. AccountInv(a)
    BY RotationParts
  <2>t. /\ config[a] \in Int /\ disk[a] \in Int /\ pool[a] \in Int
        /\ issued[a] \in Nat /\ accepted[a] \in Nat /\ runNew[a] \in Nat
        /\ Gone \in Int
        /\ \A k \in Reloaders : snapshot[k][a] \in Int
    BY AccountTypes
  <2>1. ASSUME NEW c \in Callers, CallStep(c) PROVE AccountInv(a)'
    <3>1. CASE StartRun(c)
      <4>1. callAcct[c] \in Accounts
        BY <3>1 DEF CallInv, StartRun
      <4> QED
        BY <3>1, <4>1, <2>i, AccountKept DEF StartRun, provider, reloads, TypeOK
    <3>2. CASE ~ StartRun(c)
      BY <2>1, <3>2, <2>i, AccountKept
      DEF CallStep, Select, NoRefresh, NeedsRefresh, Join, QueueFull, Abandon,
          provider, reloads, runs
    <3> QED
      BY <3>1, <3>2
  <2>2. ASSUME NEW S \in SUBSET RunsIn({"saving"}), BatchSaved(S) PROVE AccountInv(a)'
    <3>1. CASE a \in S
      <4>1. runPc[a] = "saving" /\ runPc'[a] = "publish"
        BY <2>2, <3>1 DEF BatchSaved, RunsIn
      <4>2. /\ config'[a] = IF config[a] # Gone THEN runNew[a] ELSE Gone
            /\ disk'[a] = config'[a]
        BY <2>2, <3>1 DEF BatchSaved, Updated
      <4> QED
        BY <2>2, <2>i, <2>t, <4>1, <4>2
        DEF BatchSaved, provider, reloads, AccountInv, Recorded
    <3>2. CASE a \notin S
      <4>1. runPc'[a] = runPc[a] /\ config'[a] = config[a] /\ disk'[a] = config[a]
        BY <2>2, <3>2 DEF BatchSaved, Updated
      <4> QED
        BY <2>2, <2>i, <2>t, <4>1
        DEF BatchSaved, provider, reloads, AccountInv, Recorded
    <3> QED
      BY <3>1, <3>2
  <2>3. ASSUME NEW S \in SUBSET RunsIn({"saving"}), BatchFails(S) PROVE AccountInv(a)'
    BY <2>3, <2>i, AccountKept DEF BatchFails, provider, reloads, RunsIn
  <2>4. ASSUME NEW k \in Reloaders, ReloadReads(k) PROVE AccountInv(a)'
    BY <2>4, <2>i, <2>t
    DEF ReloadReads, provider, runs, AccountInv, Recorded, TypeOK
  <2>5. ASSUME NEW k \in Reloaders, ReloadInstalls(k) PROVE AccountInv(a)'
    BY <2>5, <2>i, <2>t
    DEF ReloadInstalls, provider, runs, AccountInv, Recorded, TypeOK, Empty
  <2>6. ASSUME NEW k \in Reloaders, NEW b \in Accounts, DeleteAccount(k, b)
        PROVE  AccountInv(a)'
    BY <2>6, <2>i, <2>t
    DEF DeleteAccount, provider, runs, AccountInv, Recorded, TypeOK, Gone
  <2>7. CASE BlockEnds
    BY <2>7, <2>i, AccountKept DEF BlockEnds, provider, reloads, runs
  <2>8. ASSUME NEW n \in Concurrency, SetConcurrency(n) PROVE AccountInv(a)'
    BY <2>8, <2>i, AccountKept DEF SetConcurrency, provider, reloads, runs
  <2>9. CASE UNCHANGED vars
    BY <2>9, <2>i, AccountKept DEF vars
  <2> QED
    BY <1>2, <2>1, <2>2, <2>3, <2>4, <2>5, <2>6, <2>7, <2>8, <2>9 DEF Next
<1> QED
  BY <1>1, <1>2

(* A version reaches the pool only once it is on the file, through any      *)
(* interleaving of refreshes, batches, reloads and deletions, and a rotated *)
(* refresh token is recorded unless its answer or its write was lost.       *)
THEOREM RotationKept == Spec => []RotationSafe
<1>1. RotationInv => RotationSafe
  BY DEF RotationInv
<1> QED
  BY <1>1, TypeInit, TypeNext, RotationInit, RotationNext, PTL DEF Spec

(* No step of a refresh, of a batch or of a reload brings an account back   *)
(* into config once it was deleted (UpdateAccountCredentialsBatch skips     *)
(* it).                                                                     *)
THEOREM DeletionKept == Spec => DeletedStaysDeleted
<1>1. ASSUME TypeInv, [Next]_vars, NEW a \in Accounts, config[a] = Gone
      PROVE  config'[a] = Gone
  <2>1. CASE config' = config
    BY <1>1, <2>1
  <2>2. ASSUME NEW S \in SUBSET RunsIn({"saving"}), BatchSaved(S) PROVE config'[a] = Gone
    BY <1>1, <2>2 DEF BatchSaved, Updated
  <2>3. ASSUME NEW k \in Reloaders, NEW b \in Accounts, DeleteAccount(k, b)
        PROVE  config'[a] = Gone
    BY <1>1, <2>3 DEF DeleteAccount, TypeInv, TypeOK
  <2>4. ASSUME NEW c \in Callers, CallStep(c) PROVE config' = config
    BY <2>4
    DEF CallStep, Select, NoRefresh, NeedsRefresh, Join, QueueFull, StartRun, Abandon
  <2>5. ASSUME NEW b \in Accounts, RunStep(b) PROVE config' = config
    BY <2>5
    DEF RunStep, RunBlocked, RunReady, acquireSlot, ParkForSlot, SlotTimeout, Answered,
        AnswerLost, RefreshFails, UpstreamBlocks, Publish, releaseSlot, Finish
  <2> QED
    BY <1>1, <2>1, <2>2, <2>3, <2>4, <2>5
    DEF Next, BatchFails, ReloadReads, ReloadInstalls, BlockEnds, SetConcurrency, vars
<1>2. TypeInv /\ [Next]_vars => [\A a \in Accounts : config[a] = Gone => config'[a] = Gone]_vars
  BY <1>1
<1> QED
  BY <1>2, TypeInit, TypeNext, PTL DEF Spec, DeletedStaysDeleted

-----------------------------------------------------------------------------
(***************************************************************************)
(* AutoRefresh, for every set of scenes, every length of the cooldown and  *)
(* of a token's life, and runs of any size.                                *)
(***************************************************************************)

AutoTypes ==
  /\ plan \in RefreshScenes /\ clock \in Nat /\ cursor \in Nat
  /\ fail \in [Listed -> Int]
  /\ kept \in [until : [Listed -> Int], cursor : Nat]
  /\ acct \in [Listed -> [on : BOOLEAN, expires : Int, last : Int]]
  /\ DOMAIN recent = Listed /\ DOMAIN cause = Listed

StageOf(r, a) == IF a \in DOMAIN r.stage THEN r.stage[a] ELSE "out"

\* An account has a result when the run is done with it.
RunOk(r, listed) ==
  /\ r = [by |-> r.by, stage |-> r.stage, result |-> r.result, seen |-> r.seen, urgent |-> r.urgent]
  /\ DOMAIN r.stage \subseteq listed
  /\ \A a \in DOMAIN r.stage : r.seen[a] \in Int
  /\ \A a \in listed : a \in DOMAIN r.result <=> StageOf(r, a) = "done"
  /\ r.urgent \subseteq DOMAIN r.stage \/ DOMAIN r.stage \subseteq r.urgent

Infos == {"info failed", "usage unavailable"}
Good == {"success", "partial"}

(* What holds of one account: its cooldown in memory and in the durable     *)
(* copy, why it cools, its status, and how far the run is with it.          *)
AccountOk(now, until, stored, why, status, stage, seen, result) ==
  /\ now < stored => until = stored
  /\ now < until => until = stored \/ why = "forgiven"
  /\ (IF stage = "done" THEN result.status ELSE status.status) \in Good => ~(now < until)
  /\ why = "token" /\ now < until => stage # "token"
  /\ why = "token" /\ now < until =>
       (IF stage = "done" THEN result.reason ELSE status.reason) \notin Infos
  /\ why = "info" /\ now < until =>
       IF stage = "done" THEN result.reason = "info failed" ELSE status.reason \in Infos
  /\ stage = "info" => ~(now < until)
  /\ stage = "todo" /\ now < seen - RefreshBefore => ~(now < until)
  /\ stage = "done" /\ result.reason \in {"token failed", "info failed"} => ~result.info

OneOk(a) == AccountOk(clock, fail[a], kept.until[a], cause[a], recent[a], StageOf(run, a),
                      run.seen[a], run.result[a])

AutoInv == AutoTypes /\ RunOk(run, Listed) /\ \A a \in Listed : OneOk(a)

-----------------------------------------------------------------------------
(* The least of two. *)
LEMMA LeastOfTwo ==
  ASSUME NEW x \in Int, NEW y \in Int
  PROVE  Min({x, y}) = IF x <= y THEN x ELSE y
<1>1. \E m \in {x, y} : \A n \in {x, y} : m <= n
  OBVIOUS
<1>2. Min({x, y}) \in {x, y} /\ \A n \in {x, y} : Min({x, y}) <= n
  BY <1>1 DEF Min
<1> QED
  BY <1>2

LEMMA DueList ==
  ASSUME AutoTypes
  PROVE  /\ dueAutoRefreshAccounts \in Seq(Listed)
         /\ \A i \in 1 .. Len(dueAutoRefreshAccounts) : Due(dueAutoRefreshAccounts[i])
         /\ \E h \in 0 .. Len(dueAutoRefreshAccounts) : \A i \in 1 .. Len(dueAutoRefreshAccounts) :
              i <= h <=> tokenRefreshUrgency(dueAutoRefreshAccounts[i])
<1> DEFINE urgent == {a \in Listed : tokenRefreshUrgency(a)}
           dues == {a \in Listed : Due(a)}
           due == Sublist(plan.order, dues)
           soon(t) == {a \in urgent : acct[a].expires = t}
           at(t) == Sublist(due, soon(t))
           n == clock + RefreshBefore
           lists == [t \in 1 .. n |-> at(t)]
           first == FlattenSeq(lists)
           rest == Sublist(due, Listed \ urgent)
           all == dueAutoRefreshAccounts
<1>1. plan.order \in Seq(Listed) /\ n \in Nat
  BY RefreshRunAssumption DEF AutoTypes, Listed
<1>2. due \in Seq(Listed) /\ ToSet(due) \subseteq dues
  <2> HIDE DEF dues
  <2> QED
    BY <1>1, SublistMembers
<1>3. ASSUME NEW t \in 1 .. n PROVE at(t) \in Seq(Listed) /\ ToSet(at(t)) \subseteq dues \cap urgent
  <2>1. soon(t) \subseteq urgent
    OBVIOUS
  <2> HIDE DEF due, soon, urgent, dues
  <2>2. at(t) \in Seq(Listed) /\ ToSet(at(t)) = ToSet(due) \cap soon(t)
    BY <1>2, SublistMembers
  <2> QED
    BY <1>2, <2>1, <2>2
<1>4. rest \in Seq(Listed) /\ ToSet(rest) \subseteq dues \ urgent
  <2> HIDE DEF due, urgent, dues
  <2>1. rest \in Seq(Listed) /\ ToSet(rest) = ToSet(due) \cap (Listed \ urgent)
    BY <1>2, SublistMembers
  <2> QED
    BY <1>2, <2>1
<1>5. lists \in Seq(Seq(Listed)) /\ Len(lists) = n /\ \A i \in 1 .. Len(lists) : ToSet(lists[i]) \subseteq dues \cap urgent
  <2> HIDE DEF at, dues, urgent, n
  <2>1. lists \in [1 .. n -> Seq(Listed)]
    BY <1>3
  <2>2. lists \in Seq(Seq(Listed)) /\ Len(lists) = n
    BY <1>1, <2>1, LenProperties, SeqDef
  <2> QED
    BY <1>3, <2>2
<1>6. first \in Seq(Listed) /\ ToSet(first) \subseteq dues \cap urgent
  <2> HIDE DEF lists, dues, urgent
  <2> QED
    BY <1>5, FlattenMembers
<1>7. all = first \o rest
  BY DEF dueAutoRefreshAccounts
<1> HIDE DEF all, first, rest, due, lists, n
<1>8. /\ all \in Seq(Listed) /\ Len(all) = Len(first) + Len(rest)
      /\ \A i \in 1 .. Len(first) + Len(rest) : all[i] = IF i <= Len(first) THEN first[i] ELSE rest[i - Len(first)]
  BY <1>4, <1>6, <1>7, ConcatProperties
<1>9. Len(first) \in Nat /\ Len(rest) \in Nat /\ DOMAIN first = 1 .. Len(first) /\ DOMAIN rest = 1 .. Len(rest)
  BY <1>4, <1>6, LenProperties
<1>10. ASSUME NEW i \in 1 .. Len(all)
       PROVE  all[i] \in dues /\ (i <= Len(first) <=> all[i] \in urgent)
  <2> HIDE DEF dues, urgent
  <2>1. CASE i <= Len(first)
    <3>1. i \in DOMAIN first /\ all[i] = first[i]
      BY <1>8, <1>9, <2>1
    <3>2. all[i] \in ToSet(first)
      BY <3>1 DEF ToSet
    <3> QED
      BY <1>6, <2>1, <3>2
  <2>2. CASE ~(i <= Len(first))
    <3>1. i - Len(first) \in DOMAIN rest /\ all[i] = rest[i - Len(first)]
      BY <1>8, <1>9, <2>2
    <3>2. all[i] \in ToSet(rest)
      BY <3>1 DEF ToSet
    <3> QED
      BY <1>4, <2>2, <3>2
  <2> QED
    BY <2>1, <2>2
<1>11. Len(first) \in 0 .. Len(all)
  BY <1>8, <1>9
<1>12. \A i \in 1 .. Len(all) : Due(all[i]) /\ (i <= Len(first) <=> tokenRefreshUrgency(all[i]))
  BY <1>10
<1> QED
  BY <1>8, <1>11, <1>12 DEF all

(* What a run takes of the list: members of the list, and an urgent account *)
(* is left out only when the run has nothing else.                          *)
LEMMA Selection ==
  ASSUME AutoTypes, NEW due \in Seq(Listed),
         \E h \in 0 .. Len(due) : \A i \in 1 .. Len(due) : i <= h <=> tokenRefreshUrgency(due[i])
  PROVE  LET next == nextAutoRefreshAccounts(due)
             urgents == {a \in ToSet(due) : tokenRefreshUrgency(a)}
         IN  /\ next.cursor \in Nat
             /\ ToSet(next.selected) \subseteq ToSet(due)
             /\ urgents \subseteq ToSet(next.selected) \/ ToSet(next.selected) \subseteq urgents
<1> DEFINE most == IF plan.most = 0 THEN Len(due) ELSE Min({plan.most, Len(due)})
           Splits(n) == /\ \A i \in 1 .. n : tokenRefreshUrgency(due[i])
                        /\ n = Len(due) \/ ~tokenRefreshUrgency(due[n + 1])
           head == CHOOSE n \in 0 .. Len(due) : Splits(n)
           urgent == SubSeq(due, 1, Min({head, most}))
           regular == SubSeq(due, head + 1, Len(due))
           left == Min({most - Len(urgent), Len(regular)})
           start == IF regular = <<>> THEN 0 ELSE cursor % Len(regular)
           more == [i \in 1 .. left |-> regular[((start + i - 1) % Len(regular)) + 1]]
           next == nextAutoRefreshAccounts(due)
           urgents == {a \in ToSet(due) : tokenRefreshUrgency(a)}
<1> HIDE DEF most, Splits, head, urgent, regular, left, start, more, next, urgents
<1>1. /\ Len(due) \in Nat /\ DOMAIN due = 1 .. Len(due) /\ plan.most \in Nat /\ cursor \in Nat
      /\ \A i \in 1 .. Len(due) : due[i] \in Listed
  BY RefreshRunAssumption, LenProperties, ElementOfSeq DEF AutoTypes
<1>2. PICK h \in 0 .. Len(due) : \A i \in 1 .. Len(due) : i <= h <=> tokenRefreshUrgency(due[i])
  OBVIOUS
<1>h. h \in Int /\ 0 <= h /\ h <= Len(due) /\ Len(due) \in Int
  BY <1>1, <1>2
<1>3. head \in 0 .. Len(due) /\ Splits(head)
  <2>1. Splits(h)
    <3>1. \A i \in 1 .. h : i \in 1 .. Len(due) /\ i <= h
      BY <1>1
    <3>2. h # Len(due) => h + 1 \in 1 .. Len(due) /\ ~(h + 1 <= h)
      BY <1>h
    <3> QED
      BY <1>2, <3>1, <3>2 DEF Splits
  <2> QED
    BY <2>1, Zenon DEF head
<1>4. head = h
  <2>1. ~(head < h)
    <3>1. head < h => head + 1 \in 1 .. Len(due) /\ head + 1 <= h /\ head # Len(due)
      BY <1>h, <1>3
    <3> QED
      BY <1>2, <1>3, <3>1 DEF Splits
  <2>2. ~(h < head)
    <3>1. h < head => h + 1 \in 1 .. head /\ h + 1 \in 1 .. Len(due) /\ ~(h + 1 <= h)
      BY <1>1, <1>2, <1>3
    <3> QED
      BY <1>2, <1>3, <3>1 DEF Splits
  <2> QED
    BY <1>2, <1>3, <2>1, <2>2
<1>5. most \in 0 .. Len(due)
  BY <1>1, LeastOfTwo DEF most
<1>6. Min({head, most}) = IF head <= most THEN head ELSE most
  BY <1>3, <1>5, LeastOfTwo
<1>7. /\ Min({head, most}) \in 0 .. Len(due) /\ Len(urgent) = Min({head, most})
      /\ \A i \in 1 .. Min({head, most}) : urgent[i] = due[i]
      /\ urgent \in Seq(ToSet(due)) /\ DOMAIN urgent = 1 .. Min({head, most})
  <2> DEFINE k == Min({head, most})
  <2>1. k \in 0 .. Len(due)
    BY <1>3, <1>5, <1>6
  <2> HIDE DEF k
  <2>2. k \in Int /\ \A i \in 1 .. k : due[i] \in ToSet(due)
    BY <1>1, <2>1 DEF ToSet
  <2>3. /\ SubSeq(due, 1, k) \in Seq(ToSet(due)) /\ Len(SubSeq(due, 1, k)) = IF 1 <= k THEN k - 1 + 1 ELSE 0
        /\ \A i \in 1 .. k - 1 + 1 : SubSeq(due, 1, k)[i] = due[1 + i - 1]
    BY <2>2, SubSeqProperties
  <2>4. urgent = SubSeq(due, 1, k)
    BY DEF urgent, k
  <2>5. urgent \in Seq(ToSet(due)) /\ Len(urgent) = k /\ \A i \in 1 .. k : urgent[i] = due[i]
    BY <1>1, <2>1, <2>3, <2>4
  <2>6. DOMAIN urgent = 1 .. k
    BY <2>5, LenProperties
  <2> QED
    BY <2>1, <2>5, <2>6 DEF k
<1>8. /\ Len(regular) = Len(due) - head
      /\ \A i \in 1 .. Len(due) - head : regular[i] = due[i + head]
  <2>1. head + 1 \in Int /\ Len(due) \in Int /\ \A i \in head + 1 .. Len(due) : due[i] \in ToSet(due)
    <3>1. \A i \in head + 1 .. Len(due) : i \in DOMAIN due
      BY <1>1, <1>3
    <3> QED
      BY <1>1, <1>3, <3>1 DEF ToSet
  <2>2. /\ Len(SubSeq(due, head + 1, Len(due))) = IF head + 1 <= Len(due) THEN Len(due) - (head + 1) + 1 ELSE 0
        /\ \A i \in 1 .. Len(due) - (head + 1) + 1 :
             SubSeq(due, head + 1, Len(due))[i] = due[(head + 1) + i - 1]
    BY <2>1, SubSeqProperties
  <2>3. \A i \in 1 .. Len(due) - head : i \in 1 .. Len(due) - (head + 1) + 1 /\ (head + 1) + i - 1 = i + head
    BY <1>1, <1>3
  <2>4. head \in Int /\ head <= Len(due) /\ Len(due) \in Int
    BY <1>1, <1>3
  <2>5. Len(regular) = Len(due) - head
    BY <2>2, <2>4 DEF regular
  <2>6. \A i \in 1 .. Len(due) - head : regular[i] = due[i + head]
    BY <2>2, <2>3 DEF regular
  <2> QED
    BY <2>5, <2>6
<1>9. left = IF most - Len(urgent) <= Len(regular) THEN most - Len(urgent) ELSE Len(regular)
  <2>1. most - Len(urgent) \in Int /\ Len(regular) \in Int
    BY <1>1, <1>3, <1>5, <1>7, <1>8
  <2> QED
    BY <2>1, LeastOfTwo DEF left
<1>10. ToSet(urgent) = {due[i] : i \in 1 .. Min({head, most})}
  BY <1>7 DEF ToSet
<1>11. ToSet(urgent) \subseteq urgents
  <2>1. ASSUME NEW i \in 1 .. Min({head, most}) PROVE due[i] \in urgents
    <3>1. i \in 1 .. Len(due) /\ i <= h
      BY <1>1, <1>3, <1>4, <1>5, <1>6
    <3> QED
      BY <1>1, <1>2, <3>1 DEF ToSet, urgents
  <2> QED
    BY <1>10, <2>1
<1>12. next = IF left <= 0 THEN [selected |-> urgent, cursor |-> cursor]
              ELSE [selected |-> urgent \o more, cursor |-> (start + left) % Len(regular)]
  BY DEF nextAutoRefreshAccounts, next, start, more, left, regular, urgent, head, Splits, most
<1>13. CASE left <= 0
  <2>1. next.selected = urgent /\ next.cursor = cursor
    BY <1>12, <1>13
  <2> QED
    BY <1>1, <1>11, <2>1 DEF urgents, next
<1>14. CASE ~(left <= 0)
  <2>1. next.selected = urgent \o more /\ next.cursor = (start + left) % Len(regular)
    BY <1>12, <1>14
  <2>2. Len(regular) \in Nat \ {0} /\ left \in Nat /\ Min({head, most}) = head
    <3>1. /\ head \in Int /\ 0 <= head /\ head <= Len(due) /\ Len(due) \in Int
          /\ most \in Int /\ 0 <= most /\ most <= Len(due)
      BY <1>1, <1>3, <1>5
    <3>2. /\ Len(urgent) = IF head <= most THEN head ELSE most
          /\ Len(regular) = Len(due) - head
      BY <1>6, <1>7, <1>8
    <3>3. ~(left <= 0) /\ left = IF most - Len(urgent) <= Len(regular) THEN most - Len(urgent) ELSE Len(regular)
      BY <1>9, <1>14
    <3>4. Len(regular) \in Nat \ {0} /\ left \in Nat /\ head <= most
      BY <3>1, <3>2, <3>3
    <3> QED
      BY <1>6, <3>4
  <2>3. start \in Nat
    BY <1>1, <2>2 DEF start
  <2>4. next.cursor \in Nat
    BY <2>1, <2>2, <2>3
  <2>5. ASSUME NEW i \in 1 .. left PROVE more[i] \in ToSet(due)
    <3> DEFINE j == ((start + i - 1) % Len(regular)) + 1
    <3>1. j \in 1 .. Len(regular)
      <4>1. start + i - 1 \in Nat
        BY <2>3, <2>2
      <4> QED
        BY <2>2, <4>1
    <3>2. more[i] = regular[j]
      BY DEF more
    <3> HIDE DEF j
    <3>3. j + head \in DOMAIN due /\ regular[j] = due[j + head]
      BY <1>1, <1>3, <1>8, <3>1
    <3> QED
      BY <3>2, <3>3 DEF ToSet
  <2>6. more \in Seq(ToSet(due)) /\ ToSet(more) \subseteq ToSet(due)
    <3>1. more \in [1 .. left -> ToSet(due)]
      BY <2>5 DEF more
    <3>2. DOMAIN more = 1 .. left
      BY <3>1
    <3>3. more \in Seq(ToSet(due))
      BY <2>2, <3>1, SeqDef
    <3>4. \A i \in 1 .. left : more[i] \in ToSet(due)
      BY <2>5
    <3> QED
      BY <3>2, <3>3, <3>4 DEF ToSet
  <2>7. urgent \in Seq(ToSet(due))
    BY <1>7
  <2>8. ToSet(urgent \o more) = ToSet(urgent) \cup ToSet(more)
    BY <2>6, <2>7, ConcatMembers
  <2>9. urgents \subseteq ToSet(urgent)
    <3>1. ASSUME NEW i \in 1 .. Len(due), tokenRefreshUrgency(due[i]) PROVE due[i] \in ToSet(urgent)
      <4>1. i \in 1 .. Min({head, most})
        BY <1>2, <1>4, <2>2, <3>1
      <4> QED
        BY <1>10, <4>1
    <3> QED
      BY <1>1, <3>1 DEF ToSet, urgents
  <2>10. urgents \subseteq ToSet(due)
    BY DEF urgents
  <2> QED
    BY <1>11, <2>1, <2>4, <2>6, <2>8, <2>9, <2>10 DEF next, urgents
<1> QED
  BY <1>13, <1>14

-----------------------------------------------------------------------------
(* One account: what a step may do to it. *)
LEMMA NotNegative == \A n \in Nat : ~(n < 0)
OBVIOUS

LEMMA SameOk ==
  ASSUME NEW now, NEW until, NEW stored, NEW why, NEW status, NEW stage, NEW seen, NEW r,
         AccountOk(now, until, stored, why, status, stage, seen, r),
         NEW result, stage = "done" => result = r
  PROVE  AccountOk(now, until, stored, why, status, stage, seen, result)
<1>1. CASE stage = "done"
  BY <1>1
<1>2. CASE stage # "done"
  BY <1>2 DEF AccountOk
<1> QED
  BY <1>1, <1>2

LEMMA OutOk ==
  ASSUME NEW now, NEW until, NEW stored, NEW why, NEW status, NEW s, NEW r,
         AccountOk(now, until, stored, why, status, "out", s, r), NEW seen, NEW result
  PROVE  AccountOk(now, until, stored, why, status, "out", seen, result)
BY DEF AccountOk

LEMMA WaitsOk ==
  ASSUME NEW now, NEW until, NEW stored, NEW why, NEW status, NEW s, NEW r,
         AccountOk(now, until, stored, why, status, "out", s, r), NEW seen, NEW result,
         now < seen - RefreshBefore => ~(now < until)
  PROVE  AccountOk(now, until, stored, why, status, "todo", seen, result)
BY DEF AccountOk

LEMMA TicksOk ==
  ASSUME NEW now \in Nat, NEW until \in Int, NEW stored \in Int, NEW why, NEW status, NEW stage,
         NEW seen, NEW result, stage = "todo" => seen \in Int,
         AccountOk(now, until, stored, why, status, stage, seen, result)
  PROVE  AccountOk(now + 1, until, stored, why, status, stage, seen, result)
<1>1. /\ now + 1 < until => now < until
      /\ now + 1 < stored => now < stored
  OBVIOUS
<1>2. stage = "todo" /\ now + 1 < seen - RefreshBefore => now < seen - RefreshBefore
  <2>1. RefreshBefore \in Int
    BY RefreshRunAssumption
  <2> QED
    BY <2>1
<1> HIDE DEF Infos, Good
<1> QED
  BY <1>1, <1>2 DEF AccountOk

LEMMA FailedOk ==
  ASSUME NEW now, NEW until, NEW status, NEW seen, NEW why, NEW reason,
         (why = "token" /\ reason = "token failed") \/ (why = "info" /\ reason = "info failed")
  PROVE  AccountOk(now, until, until, why, status, "done", seen, Result("failed", reason, FALSE))
<1>1. /\ why = "token" => reason = "token failed"
      /\ why = "info" => reason = "info failed"
  OBVIOUS
<1> QED
  BY <1>1 DEF AccountOk, Result, Infos, Good

LEMMA ClearedOk ==
  ASSUME NEW now \in Nat, NEW status, NEW stage, NEW seen, NEW result,
         stage = "done" /\ result.reason \in {"token failed", "info failed"} => ~result.info
  PROVE  AccountOk(now, 0, 0, "none", status, stage, seen, result)
<1>1. ~(now < 0)
  BY NotNegative
<1> QED
  BY <1>1 DEF AccountOk

LEMMA PassedOk ==
  ASSUME NEW now, NEW until, NEW stored, NEW why, NEW status, NEW stage, NEW s, NEW r,
         AccountOk(now, until, stored, why, status, stage, s, r), stage # "done",
         NEW cause2, cause2 = why \/ why = "info", cause2 \notin {"info", "token"} \/ cause2 = why,
         cause2 = "info" => ~(now < until),
         NEW result, result.status \notin Good, result.reason \notin Infos \cup {"token failed"}, NEW seen
  PROVE  AccountOk(now, until, stored, cause2, status, "done", seen, result)
BY DEF AccountOk, Infos

LEMMA EnabledOk ==
  ASSUME NEW now \in Nat, NEW until, NEW stored, NEW why, NEW status, NEW stage, NEW seen, NEW result,
         AccountOk(now, until, stored, why, status, stage, seen, result)
  PROVE  AccountOk(now, until, 0, "forgiven", status, stage, seen, result)
<1>1. ~(now < 0)
  BY NotNegative
<1> QED
  BY <1>1 DEF AccountOk

LEMMA RestartedOk ==
  ASSUME NEW now \in Nat, NEW stored \in Int, NEW why, NEW seen, NEW result
  PROVE  AccountOk(now, IF stored > now THEN stored ELSE 0, stored,
                   IF why = "info" THEN "reason lost" ELSE why, NoStatus, "out", seen, result)
<1>1. ~(now < 0) /\ (now < stored => stored > now)
  OBVIOUS
<1>2. NoStatus.status \notin Good /\ NoStatus.reason \notin Infos
  BY DEF NoStatus, Good, Infos
<1> QED
  BY <1>1, <1>2 DEF AccountOk

LEMMA FinishedOk ==
  ASSUME NEW now, NEW until, NEW stored, NEW why, NEW status, NEW s, NEW r, NEW saved \in BOOLEAN,
         AccountOk(now, until, stored, why, status, "done", s, r), NEW seen, NEW result
  PROVE  AccountOk(now, until, stored, why, Status(r, saved), "out", seen, result)
<1>1. CASE r.info /\ ~saved
  <2>1. /\ Status(r, saved).status = "failed" /\ "failed" \notin Good
        /\ Status(r, saved).reason = "not persisted" /\ "not persisted" \notin Infos
    BY <1>1 DEF Status, Good, Infos
  <2>2. why = "info" => ~(now < until)
    BY <1>1 DEF AccountOk
  <2> QED
    BY <2>1, <2>2 DEF AccountOk
<1>2. CASE ~(r.info /\ ~saved)
  <2>1. Status(r, saved).status = r.status /\ Status(r, saved).reason = r.reason
    BY <1>2 DEF Status
  <2> QED
    BY <2>1 DEF AccountOk, Infos
<1> QED
  BY <1>1, <1>2

-----------------------------------------------------------------------------
(* The run: what a step of one account does to it. *)
LEMMA NoRunOk ==
  ASSUME NEW L
  PROVE  RunOk(NoRun, L) /\ \A a : StageOf(NoRun, a) = "out"
<1>1. /\ NoRun.stage = <<>> /\ NoRun.result = <<>> /\ NoRun.urgent = {}
      /\ NoRun = [by |-> NoRun.by, stage |-> NoRun.stage, result |-> NoRun.result,
                  seen |-> NoRun.seen, urgent |-> NoRun.urgent]
  BY DEF NoRun
<1>2. DOMAIN <<>> = {}
  BY EmptySeq
<1> QED
  BY <1>1, <1>2 DEF RunOk, StageOf

LEMMA StagedRun ==
  ASSUME NEW L, NEW r, RunOk(r, L), NEW a, a \in DOMAIN r.stage, r.stage[a] # "done",
         NEW s, s # "done"
  PROVE  LET new == [r EXCEPT !.stage[a] = s]
         IN  /\ RunOk(new, L)
             /\ StageOf(new, a) = s /\ new.seen = r.seen /\ new.result = r.result
             /\ \A b \in L : b # a => StageOf(new, b) = StageOf(r, b)
<1> DEFINE new == [r EXCEPT !.stage[a] = s]
<1>1. /\ new.by = r.by /\ new.result = r.result /\ new.seen = r.seen /\ new.urgent = r.urgent
      /\ new.stage = [r.stage EXCEPT ![a] = s]
      /\ new = [by |-> new.by, stage |-> new.stage, result |-> new.result, seen |-> new.seen,
                urgent |-> new.urgent]
  BY DEF RunOk
<1> HIDE DEF new
<1>2. /\ DOMAIN new.stage = DOMAIN r.stage /\ new.stage[a] = s
      /\ \A b \in DOMAIN r.stage : b # a => new.stage[b] = r.stage[b]
  BY <1>1
<1>3. StageOf(new, a) = s /\ \A b \in L : b # a => StageOf(new, b) = StageOf(r, b)
  BY <1>2 DEF StageOf
<1>4. \A b \in L : b \in DOMAIN new.result <=> StageOf(new, b) = "done"
  <2>1. ASSUME NEW b \in L PROVE b \in DOMAIN r.result <=> StageOf(new, b) = "done"
    <3>1. b \in DOMAIN r.result <=> StageOf(r, b) = "done"
      BY DEF RunOk
    <3>2. StageOf(r, a) # "done"
      BY DEF StageOf
    <3> QED
      BY <1>3, <3>1, <3>2
  <2> QED
    BY <1>1, <2>1
<1>5. /\ DOMAIN new.stage \subseteq L /\ \A b \in DOMAIN new.stage : new.seen[b] \in Int
      /\ new.urgent \subseteq DOMAIN new.stage \/ DOMAIN new.stage \subseteq new.urgent
  BY <1>1, <1>2 DEF RunOk
<1>6. RunOk(new, L)
  BY <1>1, <1>4, <1>5 DEF RunOk
<1> QED
  BY <1>1, <1>3, <1>6 DEF new

WithResult(r, a, v) == [b \in DOMAIN r.result \cup {a} |-> IF b = a THEN v ELSE r.result[b]]
DoneWith(r, a, v) == [r EXCEPT !.stage[a] = "done", !.result = WithResult(r, a, v)]

LEMMA DoneRun ==
  ASSUME NEW L, NEW r, RunOk(r, L), NEW a, a \in DOMAIN r.stage, NEW v
  PROVE  LET new == DoneWith(r, a, v)
         IN  /\ RunOk(new, L)
             /\ StageOf(new, a) = "done" /\ new.seen = r.seen /\ new.result[a] = v
             /\ \A b \in L : b # a => /\ StageOf(new, b) = StageOf(r, b)
                                      /\ StageOf(r, b) = "done" => new.result[b] = r.result[b]
<1> DEFINE mid == [r EXCEPT !.stage[a] = "done"]
           results == WithResult(r, a, v)
           new == [mid EXCEPT !.result = results]
<1>1. /\ mid.by = r.by /\ mid.result = r.result /\ mid.seen = r.seen /\ mid.urgent = r.urgent
      /\ mid.stage = [r.stage EXCEPT ![a] = "done"]
      /\ mid = [by |-> mid.by, stage |-> mid.stage, result |-> mid.result, seen |-> mid.seen,
                urgent |-> mid.urgent]
  BY DEF RunOk
<1>2. /\ DOMAIN results = {a} \cup DOMAIN r.result /\ results[a] = v
      /\ \A b \in DOMAIN r.result : b # a => results[b] = r.result[b]
  BY DEF WithResult
<1>3. DoneWith(r, a, v) = new
  BY DEF DoneWith
<1> HIDE DEF mid, results
<1>4. /\ new.by = mid.by /\ new.result = results /\ new.seen = mid.seen /\ new.urgent = mid.urgent
      /\ new.stage = mid.stage
      /\ new = [by |-> new.by, stage |-> new.stage, result |-> new.result, seen |-> new.seen,
                urgent |-> new.urgent]
  BY <1>1
<1> HIDE DEF new
<1>5. /\ DOMAIN new.stage = DOMAIN r.stage /\ new.stage[a] = "done"
      /\ \A b \in DOMAIN r.stage : b # a => new.stage[b] = r.stage[b]
  BY <1>1, <1>4
<1>6. StageOf(new, a) = "done" /\ \A b \in L : b # a => StageOf(new, b) = StageOf(r, b)
  BY <1>5 DEF StageOf
<1>7. \A b \in L : b \in DOMAIN r.result <=> StageOf(r, b) = "done"
  BY DEF RunOk
<1>8. \A b \in L : b \in DOMAIN new.result <=> StageOf(new, b) = "done"
  BY <1>2, <1>4, <1>6, <1>7
<1>9. /\ DOMAIN new.stage \subseteq L /\ \A b \in DOMAIN new.stage : new.seen[b] \in Int
      /\ new.urgent \subseteq DOMAIN new.stage \/ DOMAIN new.stage \subseteq new.urgent
  BY <1>1, <1>4, <1>5 DEF RunOk
<1>10. RunOk(new, L)
  BY <1>4, <1>8, <1>9 DEF RunOk
<1>11. /\ new.seen = r.seen /\ new.result[a] = v
       /\ \A b \in L : b # a /\ StageOf(r, b) = "done" => new.result[b] = r.result[b]
  BY <1>1, <1>2, <1>4, <1>7
<1> QED
  BY <1>3, <1>6, <1>10, <1>11 DEF results

-----------------------------------------------------------------------------
(* Steps of one account of a run. *)
LEMMA OneChanges ==
  ASSUME AutoInv, plan' = plan, clock' = clock, recent' = recent, AutoTypes',
         RunOk(run', Listed), run'.seen = run.seen, NEW a \in Listed,
         AccountOk(clock, fail'[a], kept'.until[a], cause'[a], recent[a], StageOf(run', a),
                   run'.seen[a], run'.result[a]),
         \A b \in Listed : b # a =>
           /\ fail'[b] = fail[b] /\ kept'.until[b] = kept.until[b] /\ cause'[b] = cause[b]
           /\ StageOf(run', b) = StageOf(run, b)
           /\ StageOf(run, b) = "done" => run'.result[b] = run.result[b]
  PROVE  AutoInv'
<1>1. Listed' = Listed
  BY DEF Listed
<1>2. ASSUME NEW b \in Listed PROVE OneOk(b)'
  <2>1. OneOk(b)' <=> AccountOk(clock, fail'[b], kept'.until[b], cause'[b], recent[b],
                                StageOf(run', b), run'.seen[b], run'.result[b])
    BY DEF OneOk, StageOf
  <2>2. CASE b = a
    BY <2>1, <2>2
  <2>3. CASE b # a
    <3>1. AccountOk(clock, fail[b], kept.until[b], cause[b], recent[b], StageOf(run, b),
                    run.seen[b], run.result[b])
      BY DEF AutoInv, OneOk
    <3>2. StageOf(run, b) = "done" => run'.result[b] = run.result[b]
      BY <2>3
    <3>3. AccountOk(clock, fail[b], kept.until[b], cause[b], recent[b], StageOf(run, b),
                    run.seen[b], run'.result[b])
      BY <3>1, <3>2, SameOk
    <3>4. /\ fail'[b] = fail[b] /\ kept'.until[b] = kept.until[b] /\ cause'[b] = cause[b]
          /\ StageOf(run', b) = StageOf(run, b) /\ run'.seen[b] = run.seen[b]
      BY <2>3
    <3> QED
      BY <2>1, <3>3, <3>4
  <2> QED
    BY <2>2, <2>3
<1> QED
  BY <1>1, <1>2 DEF AutoInv

LEMMA Cooled ==
  ASSUME AutoTypes, NEW a \in Listed, NEW until \in Int, NEW why, Cools(fail, kept, a, until, why)
  PROVE  /\ fail' \in [Listed -> Int] /\ kept' \in [until : [Listed -> Int], cursor : Nat]
         /\ DOMAIN cause' = Listed
         /\ fail'[a] = until /\ kept'.until[a] = until /\ cause'[a] = why
         /\ \A b \in Listed : b # a =>
              fail'[b] = fail[b] /\ kept'.until[b] = kept.until[b] /\ cause'[b] = cause[b]
<1>1. fail' = [fail EXCEPT ![a] = until] /\ fail \in [Listed -> Int]
  BY DEF Cools, AutoTypes
<1>2. kept' = [kept EXCEPT !.until[a] = until] /\ kept \in [until : [Listed -> Int], cursor : Nat]
  BY DEF Cools, AutoTypes
<1>3. cause' = [cause EXCEPT ![a] = why] /\ DOMAIN cause = Listed
  BY DEF Cools, AutoTypes
<1>4. kept'.until = [kept.until EXCEPT ![a] = until] /\ kept.until \in [Listed -> Int]
  BY <1>2
<1>5. kept' \in [until : [Listed -> Int], cursor : Nat]
  BY <1>2
<1> QED
  BY <1>1, <1>3, <1>4, <1>5

LEMMA TurnFacts ==
  ASSUME AutoInv, NEW a, NEW s, Turn(a, s)
  PROVE  /\ a \in Listed /\ a \in DOMAIN run.stage /\ run.stage[a] = s /\ StageOf(run, a) = s
         /\ AutoTypes /\ RunOk(run, Listed) /\ clock \in Nat
         /\ AccountOk(clock, fail[a], kept.until[a], cause[a], recent[a], s, run.seen[a], run.result[a])
<1>1. a \in DOMAIN run.stage /\ run.stage[a] = s /\ StageOf(run, a) = s
  BY DEF Turn, StageOf
<1>2. a \in Listed
  BY <1>1 DEF AutoInv, RunOk
<1>3. OneOk(a) /\ AutoTypes /\ RunOk(run, Listed)
  BY <1>2 DEF AutoInv
<1> QED
  BY <1>1, <1>2, <1>3 DEF OneOk, AutoTypes

LEMMA AccountDone ==
  ASSUME AutoInv, NEW a, NEW s, Turn(a, s), NEW v, Done(a, v)
  PROVE  /\ RunOk(run', Listed) /\ run'.seen = run.seen
         /\ StageOf(run', a) = "done" /\ run'.result[a] = v
         /\ \A b \in Listed : b # a => /\ StageOf(run', b) = StageOf(run, b)
                                       /\ StageOf(run, b) = "done" => run'.result[b] = run.result[b]
<1>1. RunOk(run, Listed) /\ a \in DOMAIN run.stage
  BY TurnFacts
<1> DEFINE new == DoneWith(run, a, v)
<1>3. run' = new
  BY DEF Done, WithResult, DoneWith
<1>4. /\ RunOk(new, Listed)
      /\ StageOf(new, a) = "done" /\ new.seen = run.seen /\ new.result[a] = v
      /\ \A b \in Listed : b # a => /\ StageOf(new, b) = StageOf(run, b)
                                    /\ StageOf(run, b) = "done" => new.result[b] = run.result[b]
  BY <1>1, DoneRun
<1> HIDE DEF new
<1> QED
  BY <1>3, <1>4

LEMMA AccountStaged ==
  ASSUME AutoInv, NEW a, NEW s, Turn(a, s), s # "done", NEW t, t # "done", Stage(a, t)
  PROVE  /\ RunOk(run', Listed) /\ run'.seen = run.seen /\ run'.result = run.result
         /\ StageOf(run', a) = t
         /\ \A b \in Listed : b # a => StageOf(run', b) = StageOf(run, b)
<1>1. RunOk(run, Listed) /\ a \in DOMAIN run.stage /\ run.stage[a] # "done"
  BY TurnFacts
<1> DEFINE new == [run EXCEPT !.stage[a] = t]
<1>2. /\ RunOk(new, Listed)
      /\ StageOf(new, a) = t /\ new.seen = run.seen /\ new.result = run.result
      /\ \A b \in Listed : b # a => StageOf(new, b) = StageOf(run, b)
  BY <1>1, StagedRun
<1>3. run' = new
  BY DEF Stage
<1> HIDE DEF new
<1> QED
  BY <1>2, <1>3

LEMMA RunConstants == FailureCooldown \in Nat /\ TokenLife \in Nat /\ MaxRefreshTime \in Nat
BY RefreshRunAssumption

LEMMA OneTypes ==
  ASSUME AutoTypes, OneAccount, fail' \in [Listed -> Int],
         kept' \in [until : [Listed -> Int], cursor : Nat], DOMAIN cause' = Listed,
         acct' \in [Listed -> [on : BOOLEAN, expires : Int, last : Int]]
  PROVE  AutoTypes' /\ plan' = plan /\ clock' = clock /\ recent' = recent
<1>1. Listed' = Listed /\ plan' = plan /\ clock' = clock /\ recent' = recent /\ cursor' = cursor
  BY DEF OneAccount, Listed
<1>2. /\ plan \in RefreshScenes /\ clock \in Nat /\ cursor \in Nat /\ DOMAIN recent = Listed
  BY DEF AutoTypes
<1> QED
  BY <1>1, <1>2 DEF AutoTypes

LEMMA TurnStep ==
  ASSUME AutoInv, NEW a \in Listed, refreshOneAccount(a)
  PROVE  AutoInv'
<1>1. /\ Turn(a, "todo") /\ Untouched /\ OneAccount /\ acct' = acct
      /\ fail' = fail /\ kept' = kept /\ cause' = cause
  BY DEF refreshOneAccount, Untouched
<1>2. /\ AutoTypes /\ StageOf(run, a) = "todo"
      /\ AccountOk(clock, fail[a], kept.until[a], cause[a], recent[a], "todo", run.seen[a], run.result[a])
  BY <1>1, TurnFacts
<1>3. AutoTypes' /\ plan' = plan /\ clock' = clock /\ recent' = recent
  <2>1. /\ fail' \in [Listed -> Int] /\ kept' \in [until : [Listed -> Int], cursor : Nat]
        /\ DOMAIN cause' = Listed /\ acct' \in [Listed -> [on : BOOLEAN, expires : Int, last : Int]]
    BY <1>1, <1>2 DEF AutoTypes
  <2> QED
    BY <1>1, <1>2, <2>1, OneTypes
<1>4. CASE clock < run.seen[a] - RefreshBefore /\ Stage(a, "info")
  <2>1. /\ RunOk(run', Listed) /\ run'.seen = run.seen /\ run'.result = run.result
        /\ StageOf(run', a) = "info"
        /\ \A b \in Listed : b # a => StageOf(run', b) = StageOf(run, b)
    BY <1>1, <1>4, AccountStaged
  <2>2. AccountOk(clock, fail'[a], kept'.until[a], cause'[a], recent[a], StageOf(run', a),
                  run'.seen[a], run'.result[a])
    BY <1>1, <1>2, <1>4, <2>1 DEF AccountOk
  <2> QED
    BY <1>1, <1>3, <2>1, <2>2, OneChanges
<1>5. CASE tokenRefreshBlockedByCooldown(a) /\ Done(a, Result("skipped", "token cooldown", FALSE))
  <2> DEFINE v == Result("skipped", "token cooldown", FALSE)
  <2>1. /\ RunOk(run', Listed) /\ run'.seen = run.seen
        /\ StageOf(run', a) = "done" /\ run'.result[a] = v
        /\ \A b \in Listed : b # a => /\ StageOf(run', b) = StageOf(run, b)
                                      /\ StageOf(run, b) = "done" => run'.result[b] = run.result[b]
    BY <1>1, <1>5, AccountDone
  <2>2. v.status \notin Good /\ v.reason \notin Infos \cup {"token failed"}
    BY DEF Result, Good, Infos
  <2>3. cause[a] = "info" => ~(clock < fail[a])
    BY <1>2, <1>5 DEF AccountOk, tokenRefreshBlockedByCooldown, isAutoRefreshCooling, Infos
  <2> HIDE DEF v
  <2>4. AccountOk(clock, fail[a], kept.until[a], cause[a], recent[a], "done", run'.seen[a], v)
    BY <1>2, <2>2, <2>3, PassedOk
  <2>5. AccountOk(clock, fail'[a], kept'.until[a], cause'[a], recent[a], StageOf(run', a),
                  run'.seen[a], run'.result[a])
    BY <1>1, <2>1, <2>4
  <2> QED
    BY <1>1, <1>3, <2>1, <2>5, OneChanges
<1>6. CASE ~tokenRefreshBlockedByCooldown(a) /\ Stage(a, "token")
  <2>1. /\ RunOk(run', Listed) /\ run'.seen = run.seen /\ run'.result = run.result
        /\ StageOf(run', a) = "token"
        /\ \A b \in Listed : b # a => StageOf(run', b) = StageOf(run, b)
    BY <1>1, <1>6, AccountStaged
  <2>2. clock < fail[a] => recent[a].reason \in Infos
    BY <1>6 DEF tokenRefreshBlockedByCooldown, isAutoRefreshCooling, Infos
  <2>3. AccountOk(clock, fail'[a], kept'.until[a], cause'[a], recent[a], StageOf(run', a),
                  run'.seen[a], run'.result[a])
    BY <1>1, <1>2, <2>1, <2>2 DEF AccountOk
  <2> QED
    BY <1>1, <1>3, <2>1, <2>3, OneChanges
<1> QED
  BY <1>4, <1>5, <1>6 DEF refreshOneAccount

(* The three ways an account's cooldown is written while the run holds it. *)
LEMMA DoneChanges ==
  ASSUME AutoInv, NEW a, NEW s, Turn(a, s), NEW v, Done(a, v), AutoTypes', OneAccount,
         AccountOk(clock, fail'[a], kept'.until[a], cause'[a], recent[a], "done", run.seen[a], v),
         \A b \in Listed : b # a =>
           fail'[b] = fail[b] /\ kept'.until[b] = kept.until[b] /\ cause'[b] = cause[b]
  PROVE  AutoInv'
<1>1. plan' = plan /\ clock' = clock /\ recent' = recent /\ a \in Listed
  BY TurnFacts DEF OneAccount
<1>2. /\ RunOk(run', Listed) /\ run'.seen = run.seen
      /\ StageOf(run', a) = "done" /\ run'.result[a] = v
      /\ \A b \in Listed : b # a => /\ StageOf(run', b) = StageOf(run, b)
                                    /\ StageOf(run, b) = "done" => run'.result[b] = run.result[b]
  BY AccountDone
<1>3. AccountOk(clock, fail'[a], kept'.until[a], cause'[a], recent[a], StageOf(run', a),
                run'.seen[a], run'.result[a])
  BY <1>2
<1> QED
  BY <1>1, <1>2, <1>3, OneChanges

LEMMA InfoStep ==
  ASSUME AutoInv, NEW a \in Listed, NEW end, InfoEnds(a, end)
  PROVE  AutoInv'
<1>1. Turn(a, "info") /\ OneAccount /\ acct' = acct
  BY DEF InfoEnds
<1>2. /\ AutoTypes /\ clock \in Nat
      /\ AccountOk(clock, fail[a], kept.until[a], cause[a], recent[a], "info", run.seen[a], run.result[a])
  BY <1>1, TurnFacts
<1>3. acct' \in [Listed -> [on : BOOLEAN, expires : Int, last : Int]]
  BY <1>1, <1>2 DEF AutoTypes
<1>4. ~isAutoRefreshCooling(a)
  BY <1>2 DEF AccountOk, isAutoRefreshCooling
<1>5. ASSUME clearAutoRefreshFailure(a), NEW v, Done(a, v), v.reason \notin {"token failed", "info failed"}
      PROVE  AutoInv'
  <2>1. Cools(fail, kept, a, 0, "none")
    BY <1>5 DEF clearAutoRefreshFailure
  <2>2. /\ fail' \in [Listed -> Int] /\ kept' \in [until : [Listed -> Int], cursor : Nat]
        /\ DOMAIN cause' = Listed
        /\ fail'[a] = 0 /\ kept'.until[a] = 0 /\ cause'[a] = "none"
        /\ \A b \in Listed : b # a =>
             fail'[b] = fail[b] /\ kept'.until[b] = kept.until[b] /\ cause'[b] = cause[b]
    BY <1>2, <2>1, Cooled
  <2>3. AutoTypes'
    BY <1>1, <1>2, <1>3, <2>2, OneTypes
  <2>4. AccountOk(clock, 0, 0, "none", recent[a], "done", run.seen[a], v)
    BY <1>2, <1>5, ClearedOk
  <2> QED
    BY <1>1, <1>5, <2>2, <2>3, <2>4, DoneChanges
<1>6. ASSUME end = "ok", clearAutoRefreshFailure(a), Done(a, Result("success", "", TRUE))
      PROVE  AutoInv'
  <2>1. Result("success", "", TRUE).reason \notin {"token failed", "info failed"}
    BY DEF Result
  <2> QED
    BY <1>5, <1>6, <2>1
<1>7. ASSUME end = "partial", clearAutoRefreshFailure(a), Done(a, Result("partial", "usage unavailable", TRUE))
      PROVE  AutoInv'
  <2>1. Result("partial", "usage unavailable", TRUE).reason \notin {"token failed", "info failed"}
    BY DEF Result
  <2> QED
    BY <1>5, <1>7, <2>1
<1>8. ASSUME markAutoRefreshFailure(a, "info"), Done(a, Result("failed", "info failed", FALSE))
      PROVE  AutoInv'
  <2> DEFINE until == clock + FailureCooldown
  <2>1. Cools(fail, kept, a, until, "info") /\ until \in Int
    <3>1. FailureCooldown \in Int /\ clock \in Int
      BY <1>2, RunConstants
    <3>2. clock + FailureCooldown \in Int
      BY <3>1
    <3> QED
      BY <1>8, <3>2 DEF markAutoRefreshFailure
  <2> HIDE DEF until
  <2>2. /\ fail' \in [Listed -> Int] /\ kept' \in [until : [Listed -> Int], cursor : Nat]
        /\ DOMAIN cause' = Listed
        /\ fail'[a] = until /\ kept'.until[a] = until /\ cause'[a] = "info"
        /\ \A b \in Listed : b # a =>
             fail'[b] = fail[b] /\ kept'.until[b] = kept.until[b] /\ cause'[b] = cause[b]
    BY <1>2, <2>1, Cooled
  <2>3. AutoTypes'
    BY <1>1, <1>2, <1>3, <2>2, OneTypes
  <2>4. AccountOk(clock, until, until, "info", recent[a], "done", run.seen[a],
                  Result("failed", "info failed", FALSE))
    BY FailedOk
  <2> QED
    BY <1>1, <1>8, <2>2, <2>3, <2>4, DoneChanges
<1> QED
  BY <1>4, <1>6, <1>7, <1>8 DEF InfoEnds

LEMMA TokenStep ==
  ASSUME AutoInv, NEW a \in Listed, NEW end, TokenEnds(a, end)
  PROVE  AutoInv'
<1>1. Turn(a, "token") /\ OneAccount
  BY DEF TokenEnds
<1>2. /\ AutoTypes /\ clock \in Nat /\ a \in Listed
      /\ AccountOk(clock, fail[a], kept.until[a], cause[a], recent[a], "token", run.seen[a], run.result[a])
  BY <1>1, TurnFacts
<1> DEFINE Accts == [Listed -> [on : BOOLEAN, expires : Int, last : Int]]
<1>3. acct \in Accts
  BY <1>2 DEF AutoTypes
<1>4. clock + TokenLife \in Int /\ clock + FailureCooldown \in Int
  BY <1>2, RunConstants
<1>5. ASSUME NEW until \in Int, NEW why, Cools(fail, kept, a, until, why), acct' \in Accts
      PROVE  /\ AutoTypes'
             /\ fail'[a] = until /\ kept'.until[a] = until /\ cause'[a] = why
             /\ \A b \in Listed : b # a =>
                  fail'[b] = fail[b] /\ kept'.until[b] = kept.until[b] /\ cause'[b] = cause[b]
  <2>1. /\ fail' \in [Listed -> Int] /\ kept' \in [until : [Listed -> Int], cursor : Nat]
        /\ DOMAIN cause' = Listed
        /\ fail'[a] = until /\ kept'.until[a] = until /\ cause'[a] = why
        /\ \A b \in Listed : b # a =>
             fail'[b] = fail[b] /\ kept'.until[b] = kept.until[b] /\ cause'[b] = cause[b]
    BY <1>2, <1>5, Cooled
  <2> QED
    BY <1>1, <1>2, <1>5, <2>1, OneTypes
<1>6. ASSUME acct' = [acct EXCEPT ![a].expires = clock + TokenLife], clearAutoRefreshFailure(a),
             Stage(a, "info")
      PROVE  AutoInv'
  <2>1. Cools(fail, kept, a, 0, "none") /\ acct' \in Accts
    BY <1>3, <1>4, <1>6 DEF clearAutoRefreshFailure
  <2>2. /\ AutoTypes'
        /\ fail'[a] = 0 /\ kept'.until[a] = 0 /\ cause'[a] = "none"
        /\ \A b \in Listed : b # a =>
             fail'[b] = fail[b] /\ kept'.until[b] = kept.until[b] /\ cause'[b] = cause[b]
    BY <1>5, <2>1
  <2>3. /\ RunOk(run', Listed) /\ run'.seen = run.seen /\ run'.result = run.result
        /\ StageOf(run', a) = "info"
        /\ \A b \in Listed : b # a => StageOf(run', b) = StageOf(run, b)
    BY <1>1, <1>6, AccountStaged
  <2>4. AccountOk(clock, 0, 0, "none", recent[a], "info", run'.seen[a], run'.result[a])
    BY <1>2, ClearedOk
  <2>5. plan' = plan /\ clock' = clock /\ recent' = recent
    BY <1>1 DEF OneAccount
  <2> QED
    BY <1>2, <2>2, <2>3, <2>4, <2>5, OneChanges
<1>7. ASSUME acct' \in Accts, markAutoRefreshFailure(a, "token"),
             Done(a, Result("failed", "token failed", FALSE))
      PROVE  AutoInv'
  <2> DEFINE until == clock + FailureCooldown
  <2>1. Cools(fail, kept, a, until, "token") /\ until \in Int
    BY <1>4, <1>7 DEF markAutoRefreshFailure
  <2> HIDE DEF until
  <2>2. /\ AutoTypes'
        /\ fail'[a] = until /\ kept'.until[a] = until /\ cause'[a] = "token"
        /\ \A b \in Listed : b # a =>
             fail'[b] = fail[b] /\ kept'.until[b] = kept.until[b] /\ cause'[b] = cause[b]
    BY <1>5, <1>7, <2>1
  <2>3. AccountOk(clock, until, until, "token", recent[a], "done", run.seen[a],
                  Result("failed", "token failed", FALSE))
    BY FailedOk
  <2> QED
    BY <1>1, <1>7, <2>2, <2>3, DoneChanges
<1>8. ASSUME UNCHANGED <<acct, fail, kept>>,
             cause' = [cause EXCEPT ![a] = IF @ = "info" THEN "reason lost" ELSE @],
             NEW v, Done(a, v), v.status \notin Good, v.reason \notin Infos \cup {"token failed"}
      PROVE  AutoInv'
  <2>1. fail' = fail /\ kept' = kept /\ acct' = acct /\ DOMAIN cause = Listed
    BY <1>2, <1>8 DEF AutoTypes
  <2>2. /\ DOMAIN cause' = Listed
        /\ cause'[a] = IF cause[a] = "info" THEN "reason lost" ELSE cause[a]
        /\ \A b \in Listed : b # a => cause'[b] = cause[b]
    BY <1>8, <2>1
  <2>3. AutoTypes'
    <3>1. fail' \in [Listed -> Int] /\ kept' \in [until : [Listed -> Int], cursor : Nat] /\ acct' \in Accts
      BY <1>2, <1>3, <2>1 DEF AutoTypes
    <3> QED
      BY <1>1, <1>2, <2>2, <3>1, OneTypes
  <2>4. AccountOk(clock, fail[a], kept.until[a], cause'[a], recent[a], "done", run.seen[a], v)
    <3>1. /\ cause'[a] = cause[a] \/ cause[a] = "info"
          /\ cause'[a] \notin {"info", "token"} \/ cause'[a] = cause[a]
          /\ cause'[a] # "info"
      BY <2>2
    <3> QED
      BY <1>2, <1>8, <3>1, PassedOk
  <2> QED
    BY <1>1, <1>8, <2>1, <2>2, <2>3, <2>4, DoneChanges
<1>9. CASE end = "ok"
  BY <1>6, <1>9 DEF TokenEnds
<1>10. CASE end = "failed"
  BY <1>3, <1>7, <1>10 DEF TokenEnds
<1>11. CASE end = "rejected"
  <2>1. acct' = [acct EXCEPT ![a].on = FALSE] /\ markAutoRefreshFailure(a, "token")
        /\ Done(a, Result("failed", "token failed", FALSE))
    BY <1>11 DEF TokenEnds
  <2>2. acct' \in Accts
    BY <1>3, <2>1
  <2> QED
    BY <1>7, <2>1, <2>2
<1>12. CASE end \notin {"ok", "failed", "rejected"}
  <2> DEFINE v == IF end = "local" THEN Result("failed", "local", FALSE) ELSE Result("skipped", "blocked", FALSE)
  <2>1. /\ UNCHANGED <<acct, fail, kept>> /\ Done(a, v)
        /\ cause' = [cause EXCEPT ![a] = IF @ = "info" THEN "reason lost" ELSE @]
    BY <1>12 DEF TokenEnds
  <2>2. v.status \notin Good /\ v.reason \notin Infos \cup {"token failed"}
    BY DEF Result, Good, Infos
  <2> HIDE DEF v
  <2> QED
    BY <1>8, <2>1, <2>2
<1> QED
  BY <1>9, <1>10, <1>11, <1>12

-----------------------------------------------------------------------------
(* Runs begin and end. *)
LEMMA FinishStep ==
  ASSUME AutoInv, NEW saved \in BOOLEAN, FinishRun(saved)
  PROVE  AutoInv'
<1>1. /\ \A a \in DOMAIN run.stage : run.stage[a] = "done"
      /\ plan' = plan /\ clock' = clock /\ cursor' = cursor
      /\ fail' = fail /\ kept' = kept /\ cause' = cause /\ run' = NoRun
      /\ recent' = [a \in Listed |-> IF a \in DOMAIN run.result THEN Status(run.result[a], saved) ELSE recent[a]]
  BY DEF FinishRun, Untouched, finishAutoRefreshRun
<1>2. Listed' = Listed
  BY <1>1 DEF Listed
<1>3. AutoTypes /\ RunOk(run, Listed)
  BY DEF AutoInv
<1>4. acct' \in [Listed -> [on : BOOLEAN, expires : Int, last : Int]]
  <2>1. /\ acct \in [Listed -> [on : BOOLEAN, expires : Int, last : Int]] /\ clock \in Int
        /\ acct' = [a \in Listed |-> IF a \in DOMAIN run.result /\ run.result[a].info
                                     THEN [acct[a] EXCEPT !.last = clock] ELSE acct[a]]
    BY <1>3 DEF AutoTypes, FinishRun
  <2>2. \A a \in Listed : [acct[a] EXCEPT !.last = clock] \in [on : BOOLEAN, expires : Int, last : Int]
    BY <2>1
  <2> QED
    BY <2>1, <2>2, Zenon
<1>5. DOMAIN recent' = Listed
  BY <1>1
<1>6. AutoTypes'
  BY <1>1, <1>2, <1>3, <1>4, <1>5 DEF AutoTypes
<1>7. RunOk(run', Listed) /\ \A a : StageOf(run', a) = "out"
  BY <1>1, NoRunOk
<1>8. ASSUME NEW a \in Listed PROVE OneOk(a)'
  <2>1. OneOk(a)' <=> AccountOk(clock, fail[a], kept.until[a], cause[a], recent'[a], StageOf(run', a),
                                run'.seen[a], run'.result[a])
    BY <1>1 DEF OneOk, StageOf
  <2>2. AccountOk(clock, fail[a], kept.until[a], cause[a], recent[a], StageOf(run, a),
                  run.seen[a], run.result[a])
    BY DEF AutoInv, OneOk
  <2>3. /\ a \in DOMAIN run.result <=> StageOf(run, a) = "done"
        /\ StageOf(run, a) \in {"done", "out"}
    BY <1>1, <1>3 DEF RunOk, StageOf
  <2>4. CASE a \in DOMAIN run.result
    <3>1. recent'[a] = Status(run.result[a], saved) /\ StageOf(run, a) = "done"
      BY <1>1, <2>3, <2>4
    <3>2. AccountOk(clock, fail[a], kept.until[a], cause[a], Status(run.result[a], saved), "out",
                    run'.seen[a], run'.result[a])
      BY <2>2, <3>1, FinishedOk
    <3> QED
      BY <1>7, <2>1, <3>1, <3>2
  <2>5. CASE a \notin DOMAIN run.result
    <3>1. recent'[a] = recent[a] /\ StageOf(run, a) = "out"
      BY <1>1, <2>3, <2>5
    <3>2. AccountOk(clock, fail[a], kept.until[a], cause[a], recent[a], "out", run'.seen[a], run'.result[a])
      BY <2>2, <3>1, OutOk
    <3> QED
      BY <1>7, <2>1, <3>1, <3>2
  <2> QED
    BY <2>4, <2>5
<1> QED
  BY <1>2, <1>6, <1>7, <1>8 DEF AutoInv

\* A new run of accounts that wait their turn.
LEMMA BegunRun ==
  ASSUME AutoTypes, NEW by, NEW selected, ToSet(selected) \subseteq Listed, NEW due,
         LET urgents == {a \in ToSet(due) : tokenRefreshUrgency(a)}
         IN  urgents \subseteq ToSet(selected) \/ ToSet(selected) \subseteq urgents
  PROVE  LET new == beginAutoRefreshRun(by, selected, due)
         IN  /\ RunOk(new, Listed)
             /\ \A a \in Listed : /\ StageOf(new, a) = IF a \in ToSet(selected) THEN "todo" ELSE "out"
                                  /\ a \in ToSet(selected) => new.seen[a] = acct[a].expires
<1> DEFINE new == beginAutoRefreshRun(by, selected, due)
           S == ToSet(selected)
           urgents == {a \in ToSet(due) : tokenRefreshUrgency(a)}
<1>1. /\ new.by = by /\ new.stage = [a \in S |-> "todo"] /\ new.result = <<>>
      /\ new.seen = [a \in S |-> acct[a].expires] /\ new.urgent = urgents
      /\ new = [by |-> new.by, stage |-> new.stage, result |-> new.result, seen |-> new.seen,
                urgent |-> new.urgent]
  BY DEF beginAutoRefreshRun
<1>2. urgents \subseteq S \/ S \subseteq urgents
  OBVIOUS
<1> HIDE DEF new, S, urgents
<1>3. \A a \in S : a \in Listed /\ acct[a].expires \in Int
  BY DEF AutoTypes, S
<1>4. DOMAIN new.stage = S /\ \A a \in S : new.stage[a] = "todo" /\ new.seen[a] = acct[a].expires
  BY <1>1
<1>5. DOMAIN new.result = {}
  BY <1>1, EmptySeq
<1>6. \A a \in Listed : StageOf(new, a) = IF a \in S THEN "todo" ELSE "out"
  BY <1>4 DEF StageOf
<1>7. RunOk(new, Listed)
  BY <1>1, <1>2, <1>3, <1>4, <1>5, <1>6 DEF RunOk
<1> QED
  BY <1>4, <1>6, <1>7 DEF new, S

LEMMA CursorMoved ==
  ASSUME AutoTypes, NEW c \in Nat, MoveCursor(c), UNCHANGED <<plan, acct, fail, recent, clock, cause>>
  PROVE  AutoTypes' /\ kept'.until = kept.until /\ Listed' = Listed
<1>1. kept' = [kept EXCEPT !.cursor = c] /\ cursor' = c /\ kept \in [until : [Listed -> Int], cursor : Nat]
  BY DEF MoveCursor, AutoTypes
<1>2. kept' \in [until : [Listed -> Int], cursor : Nat] /\ kept'.until = kept.until
  BY <1>1
<1>3. Listed' = Listed
  BY DEF Listed
<1> QED
  BY <1>1, <1>2, <1>3 DEF AutoTypes

LEMMA RunUntouched ==
  ASSUME AutoInv, AutoTypes', Listed' = Listed, UNCHANGED <<fail, recent, run, clock, cause>>,
         kept'.until = kept.until
  PROVE  AutoInv'
<1>1. ASSUME NEW a \in Listed PROVE OneOk(a)'
  BY DEF AutoInv, OneOk, StageOf
<1> QED
  BY <1>1 DEF AutoInv

LEMMA DueRun ==
  ASSUME AutoInv, run = NoRun, UNCHANGED <<plan, acct, fail, recent, clock, cause>>, NEW by,
         LET due == dueAutoRefreshAccounts
             next == nextAutoRefreshAccounts(due)
         IN  MoveCursor(next.cursor) /\ run' = beginAutoRefreshRun(by, next.selected, due)
  PROVE  AutoInv'
<1> DEFINE due == dueAutoRefreshAccounts
           next == nextAutoRefreshAccounts(due)
           S == ToSet(next.selected)
           urgents == {a \in ToSet(due) : tokenRefreshUrgency(a)}
<1>1. AutoTypes
  BY DEF AutoInv
<1>2. /\ due \in Seq(Listed) /\ \A i \in 1 .. Len(due) : Due(due[i])
      /\ \E h \in 0 .. Len(due) : \A i \in 1 .. Len(due) : i <= h <=> tokenRefreshUrgency(due[i])
  BY <1>1, DueList
<1>3. MoveCursor(next.cursor) /\ run' = beginAutoRefreshRun(by, next.selected, due)
  OBVIOUS
<1> HIDE DEF due
<1>4. next.cursor \in Nat /\ S \subseteq ToSet(due) /\ (urgents \subseteq S \/ S \subseteq urgents)
  BY <1>1, <1>2, Selection
<1>5. DOMAIN due = 1 .. Len(due) /\ \A i \in 1 .. Len(due) : due[i] \in Listed
  BY <1>2, LenProperties, ElementOfSeq
<1>6. \A a \in S : a \in Listed /\ Due(a)
  <2>1. \A a \in ToSet(due) : a \in Listed /\ Due(a)
    BY <1>2, <1>5 DEF ToSet
  <2> HIDE DEF S
  <2> QED
    BY <1>4, <2>1
<1>7. AutoTypes' /\ kept'.until = kept.until /\ Listed' = Listed
  BY <1>1, <1>3, <1>4, CursorMoved
<1>8. /\ RunOk(run', Listed)
      /\ \A a \in Listed : /\ StageOf(run', a) = IF a \in S THEN "todo" ELSE "out"
                           /\ a \in S => run'.seen[a] = acct[a].expires
  <2>1. S \subseteq Listed
    BY <1>6
  <2> HIDE DEF next
  <2> QED
    BY <1>1, <1>3, <1>4, <2>1, BegunRun
<1> HIDE DEF S
<1>9. ASSUME NEW a \in Listed PROVE OneOk(a)'
  <2>1. OneOk(a)' <=> AccountOk(clock, fail[a], kept.until[a], cause[a], recent[a], StageOf(run', a),
                                run'.seen[a], run'.result[a])
    BY <1>7 DEF OneOk, StageOf
  <2>2. AccountOk(clock, fail[a], kept.until[a], cause[a], recent[a], "out", run.seen[a], run.result[a])
    BY NoRunOk DEF AutoInv, OneOk
  <2>3. CASE a \notin S
    BY <1>8, <2>1, <2>2, <2>3, OutOk
  <2>4. CASE a \in S
    <3>1. StageOf(run', a) = "todo" /\ run'.seen[a] = acct[a].expires /\ Due(a)
      BY <1>6, <1>8, <2>4
    <3>2. clock < acct[a].expires - RefreshBefore => ~tokenRefreshUrgency(a)
      <4>1. clock \in Int /\ acct[a].expires \in Int /\ RefreshBefore \in Int
        BY <1>1, RefreshRunAssumption DEF AutoTypes
      <4> QED
        BY <4>1 DEF tokenRefreshUrgency
    <3>3. clock < run'.seen[a] - RefreshBefore => ~(clock < fail[a])
      BY <3>1, <3>2 DEF Due, isAutoRefreshCooling
    <3> QED
      BY <2>1, <2>2, <3>1, <3>3, WaitsOk
  <2> QED
    BY <2>3, <2>4
<1> QED
  BY <1>7, <1>8, <1>9 DEF AutoInv

LEMMA NextCursor ==
  ASSUME AutoTypes
  PROVE  nextAutoRefreshAccounts(dueAutoRefreshAccounts).cursor \in Nat
<1> DEFINE due == dueAutoRefreshAccounts
<1>1. /\ due \in Seq(Listed)
      /\ \E h \in 0 .. Len(due) : \A i \in 1 .. Len(due) : i <= h <=> tokenRefreshUrgency(due[i])
  BY DueList
<1> HIDE DEF due
<1>2. nextAutoRefreshAccounts(due).cursor \in Nat
  BY <1>1, Selection
<1> QED
  BY <1>2 DEF due

LEMMA PassStep ==
  ASSUME AutoInv, SchedulerPass \/ apiRunDue
  PROVE  AutoInv'
<1> DEFINE due == dueAutoRefreshAccounts
           next == nextAutoRefreshAccounts(due)
<1>1. UNCHANGED <<plan, acct, fail, recent, clock, cause>> /\ MoveCursor(next.cursor)
  BY DEF SchedulerPass, apiRunDue
<1>2. AutoTypes
  BY DEF AutoInv
<1>3. next.cursor \in Nat
  BY <1>2, NextCursor
<1>4. AutoTypes' /\ kept'.until = kept.until /\ Listed' = Listed
  <2> HIDE DEF next
  <2> QED
    BY <1>1, <1>2, <1>3, CursorMoved
<1>5. \/ run' = run
      \/ run = NoRun /\ \E by \in {"scheduler", "operator"} : run' = beginAutoRefreshRun(by, next.selected, due)
  <2> HIDE DEF next, due
  <2>1. CASE SchedulerPass
    BY <2>1 DEF SchedulerPass, next, due
  <2>2. CASE apiRunDue
    BY <2>2 DEF apiRunDue, next, due
  <2> QED
    BY <2>1, <2>2
<1>6. CASE run' = run
  BY <1>1, <1>4, <1>6, RunUntouched
<1>7. ASSUME run = NoRun, NEW by, run' = beginAutoRefreshRun(by, next.selected, due) PROVE AutoInv'
  BY <1>1, <1>7, DueRun
<1> HIDE DEF next, due
<1> QED
  BY <1>5, <1>6, <1>7

LEMMA ForgivenStep ==
  ASSUME AutoInv, apiRunFailed
  PROVE  AutoInv'
<1> DEFINE faulty == {a \in Listed : recent[a].status = "failed" /\ acct[a].on}
           failed == Sublist(plan.order, faulty)
           F == ToSet(failed)
           most == IF plan.most = 0 THEN Len(failed) ELSE Min({plan.most, Len(failed)})
           selected == SubSeq(failed, 1, most)
           S == ToSet(selected)
<1>1. /\ run = NoRun
      /\ fail' = [a \in Listed |-> IF a \in F THEN 0 ELSE fail[a]]
      /\ kept' = [kept EXCEPT !.until = [a \in Listed |-> IF a \in F THEN 0 ELSE kept.until[a]]]
      /\ cause' = [a \in Listed |-> IF a \in F THEN "none" ELSE cause[a]]
      /\ run' = beginAutoRefreshRun("operator", selected, <<>>)
      /\ UNCHANGED <<plan, acct, recent, cursor, clock, lastRun>>
  BY DEF apiRunFailed
<1>2. AutoTypes /\ plan.order \in Seq(Listed) /\ plan.most \in Nat /\ clock \in Nat
  BY RefreshRunAssumption DEF AutoInv, AutoTypes, Listed
<1> HIDE DEF faulty
<1>3. failed \in Seq(Listed)
  BY <1>2, SublistMembers
<1> HIDE DEF failed
<1>4. Len(failed) \in Nat /\ DOMAIN failed = 1 .. Len(failed) /\ \A i \in 1 .. Len(failed) : failed[i] \in Listed
  BY <1>3, LenProperties, ElementOfSeq
<1>5. most \in 0 .. Len(failed)
  BY <1>2, <1>4, LeastOfTwo
<1> HIDE DEF most
<1>6. S \subseteq F /\ F \subseteq Listed
  <2>1. most \in Int /\ \A i \in 1 .. most : i \in 1 .. Len(failed) /\ failed[i] \in F
    BY <1>4, <1>5 DEF ToSet
  <2> HIDE DEF F
  <2>2. selected \in Seq(F)
    BY <2>1, SubSeqProperties
  <2>3. S \subseteq F
    BY <2>2, LenProperties, ElementOfSeq DEF ToSet
  <2> QED
    BY <1>4, <2>3 DEF F, ToSet
<1> HIDE DEF selected, F
<1>7. Listed' = Listed
  BY <1>1 DEF Listed
<1>8. /\ fail' \in [Listed -> Int] /\ kept'.until = [a \in Listed |-> IF a \in F THEN 0 ELSE kept.until[a]]
      /\ kept' \in [until : [Listed -> Int], cursor : Nat] /\ DOMAIN cause' = Listed
  <2>1. fail \in [Listed -> Int] /\ kept \in [until : [Listed -> Int], cursor : Nat]
    BY <1>2 DEF AutoTypes
  <2>2. fail' \in [Listed -> Int]
    BY <1>1, <2>1
  <2> DEFINE u == [a \in Listed |-> IF a \in F THEN 0 ELSE kept.until[a]]
  <2>3. u \in [Listed -> Int]
    BY <2>1
  <2>4. kept' = [kept EXCEPT !.until = u]
    BY <1>1
  <2> HIDE DEF u
  <2>5. kept' \in [until : [Listed -> Int], cursor : Nat] /\ kept'.until = u
    BY <2>1, <2>3, <2>4
  <2> QED
    BY <1>1, <2>2, <2>5 DEF u
<1>9. AutoTypes'
  BY <1>1, <1>2, <1>7, <1>8 DEF AutoTypes
<1>10. /\ RunOk(run', Listed)
       /\ \A a \in Listed : StageOf(run', a) = IF a \in S THEN "todo" ELSE "out"
  <2>1. ToSet(<<>>) = {}
    BY EmptySeq DEF ToSet
  <2> DEFINE urgents == {a \in ToSet(<<>>) : tokenRefreshUrgency(a)}
  <2>2. urgents = {} /\ S \subseteq Listed
    BY <1>6, <2>1
  <2>3. urgents \subseteq ToSet(selected) \/ ToSet(selected) \subseteq urgents
    BY <2>2
  <2> QED
    BY <1>1, <1>2, <2>2, <2>3, BegunRun
<1> HIDE DEF S
<1>11. ASSUME NEW a \in Listed PROVE OneOk(a)'
  <2>1. OneOk(a)' <=> AccountOk(clock, fail'[a], kept'.until[a], cause'[a], recent[a], StageOf(run', a),
                                run'.seen[a], run'.result[a])
    BY <1>1 DEF OneOk, StageOf
  <2>2. CASE a \in F
    <3>1. fail'[a] = 0 /\ kept'.until[a] = 0 /\ cause'[a] = "none" /\ StageOf(run', a) # "done"
      BY <1>1, <1>8, <1>10, <2>2
    <3>2. AccountOk(clock, 0, 0, "none", recent[a], StageOf(run', a), run'.seen[a], run'.result[a])
      BY <1>2, <3>1, ClearedOk
    <3> QED
      BY <2>1, <3>1, <3>2
  <2>3. CASE a \notin F
    <3>1. /\ fail'[a] = fail[a] /\ kept'.until[a] = kept.until[a] /\ cause'[a] = cause[a]
          /\ StageOf(run', a) = "out"
      BY <1>1, <1>6, <1>8, <1>10, <2>3
    <3>2. AccountOk(clock, fail[a], kept.until[a], cause[a], recent[a], "out", run.seen[a], run.result[a])
      BY <1>1, NoRunOk DEF AutoInv, OneOk
    <3>3. AccountOk(clock, fail[a], kept.until[a], cause[a], recent[a], "out", run'.seen[a], run'.result[a])
      BY <3>2, OutOk
    <3> QED
      BY <2>1, <3>1, <3>3
  <2> QED
    BY <2>2, <2>3
<1> QED
  BY <1>7, <1>9, <1>10, <1>11 DEF AutoInv

-----------------------------------------------------------------------------
(* Time, requests, the operator and restarts. *)
LEMMA TickStep ==
  ASSUME AutoInv, RefreshTick
  PROVE  AutoInv'
<1>1. clock' = clock + 1 /\ UNCHANGED <<plan, acct, fail, kept, recent, cursor, run, lastRun, cause>>
  BY DEF RefreshTick
<1>2. AutoTypes /\ RunOk(run, Listed) /\ clock \in Nat /\ clock + 1 \in Nat
  BY DEF AutoInv, AutoTypes
<1>3. Listed' = Listed
  BY <1>1 DEF Listed
<1>4. AutoTypes' /\ RunOk(run', Listed)
  BY <1>1, <1>2, <1>3 DEF AutoTypes
<1>5. ASSUME NEW a \in Listed PROVE OneOk(a)'
  <2>1. AccountOk(clock, fail[a], kept.until[a], cause[a], recent[a], StageOf(run, a),
                  run.seen[a], run.result[a])
    BY DEF AutoInv, OneOk
  <2>2. StageOf(run, a) = "todo" => run.seen[a] \in Int
    BY <1>2 DEF RunOk, StageOf
  <2>3. fail[a] \in Int /\ kept.until[a] \in Int
    BY <1>2 DEF AutoTypes
  <2>4. AccountOk(clock + 1, fail[a], kept.until[a], cause[a], recent[a], StageOf(run, a),
                  run.seen[a], run.result[a])
    BY <1>2, <2>1, <2>2, <2>3, TicksOk
  <2> QED
    BY <1>1, <2>4 DEF OneOk, StageOf
<1> QED
  BY <1>3, <1>4, <1>5 DEF AutoInv

LEMMA FreshAccounts ==
  ASSUME NEW L, NEW f \in [L -> [on : {TRUE}, expires : {1, MaxRefreshTime + 2}, last : {0}]]
  PROVE  f \in [L -> [on : BOOLEAN, expires : Int, last : Int]]
<1>1. MaxRefreshTime + 2 \in Int
  BY RunConstants
<1>2. ASSUME NEW x \in L PROVE f[x] \in [on : BOOLEAN, expires : Int, last : Int]
  <2>1. f[x] \in [on : {TRUE}, expires : {1, MaxRefreshTime + 2}, last : {0}]
    OBVIOUS
  <2>2. \A o, e, l : o \in {TRUE} /\ e \in {1, MaxRefreshTime + 2} /\ l \in {0} =>
          o \in BOOLEAN /\ e \in Int /\ l \in Int
    BY <1>1
  <2> QED
    BY <2>1, <2>2, Zenon
<1> QED
  BY <1>2

LEMMA FreshStart ==
  ASSUME plan \in RefreshScenes, clock = 1, cursor = 0, run = NoRun,
         fail = [a \in Listed |-> 0], kept = [until |-> fail, cursor |-> 0],
         acct \in [Listed -> [on : {TRUE}, expires : {1, MaxRefreshTime + 2}, last : {0}]],
         recent = [a \in Listed |-> NoStatus], cause = [a \in Listed |-> "none"]
  PROVE  AutoInv
<1>1. fail \in [Listed -> Int] /\ kept \in [until : [Listed -> Int], cursor : Nat]
  OBVIOUS
<1>3. acct \in [Listed -> [on : BOOLEAN, expires : Int, last : Int]]
  BY FreshAccounts
<1>4. AutoTypes
  BY <1>1, <1>3 DEF AutoTypes
<1>5. RunOk(run, Listed)
  BY NoRunOk
<1>6. ASSUME NEW a \in Listed PROVE OneOk(a)
  <2>1. fail[a] = 0 /\ kept.until[a] = 0 /\ cause[a] = "none" /\ StageOf(run, a) = "out" /\ clock \in Nat
    BY NoRunOk
  <2>2. AccountOk(clock, 0, 0, "none", recent[a], "out", run.seen[a], run.result[a])
    BY <2>1, ClearedOk
  <2> QED
    BY <2>1, <2>2 DEF OneOk
<1> QED
  BY <1>4, <1>5, <1>6 DEF AutoInv

LEMMA AgainStep ==
  ASSUME AutoInv, StartOver
  PROVE  AutoInv'
<1>1. /\ plan' = plan /\ clock' = 1 /\ cursor' = 0 /\ run' = NoRun
      /\ fail' = [a \in Listed |-> 0] /\ kept' = [until |-> fail', cursor |-> 0]
      /\ acct' \in [Listed -> [on : {TRUE}, expires : {1, MaxRefreshTime + 2}, last : {0}]]
      /\ recent' = [a \in Listed |-> NoStatus] /\ cause' = [a \in Listed |-> "none"]
  BY DEF StartOver
<1>2. Listed' = Listed /\ plan \in RefreshScenes
  BY <1>1 DEF Listed, AutoInv, AutoTypes
<1>3. fail' \in [Listed -> Int] /\ kept' \in [until : [Listed -> Int], cursor : Nat]
  BY <1>1
<1>5. acct' \in [Listed -> [on : BOOLEAN, expires : Int, last : Int]]
  BY <1>1, FreshAccounts
<1>6. AutoTypes'
  BY <1>1, <1>2, <1>3, <1>5 DEF AutoTypes
<1>7. RunOk(run', Listed) /\ \A a : StageOf(run', a) = "out"
  BY <1>1, NoRunOk
<1>8. ASSUME NEW a \in Listed PROVE OneOk(a)'
  <2>1. fail'[a] = 0 /\ kept'.until[a] = 0 /\ cause'[a] = "none" /\ clock' \in Nat
    BY <1>1
  <2>2. AccountOk(clock', 0, 0, "none", recent'[a], StageOf(run', a), run'.seen[a], run'.result[a])
    BY <1>7, <2>1, ClearedOk
  <2> QED
    BY <2>1, <2>2 DEF OneOk, StageOf
<1> QED
  BY <1>2, <1>6, <1>7, <1>8 DEF AutoInv

LEMMA RenewedStep ==
  ASSUME AutoInv, NEW a \in Listed, TokenRenewedByRequest(a)
  PROVE  AutoInv'
<1>1. /\ acct' = [acct EXCEPT ![a].expires = clock + TokenLife]
      /\ UNCHANGED <<plan, fail, kept, recent, cursor, run, clock, lastRun, cause>>
  BY DEF TokenRenewedByRequest
<1>2. AutoTypes /\ clock + TokenLife \in Int
  BY RunConstants DEF AutoInv, AutoTypes
<1>3. acct' \in [Listed -> [on : BOOLEAN, expires : Int, last : Int]]
  BY <1>1, <1>2 DEF AutoTypes
<1>4. AutoTypes' /\ Listed' = Listed
  BY <1>1, <1>2, <1>3 DEF AutoTypes, Listed
<1> QED
  BY <1>1, <1>4, RunUntouched

LEMMA EnableStep ==
  ASSUME AutoInv, NEW a \in Listed, OperatorEnables(a)
  PROVE  AutoInv'
<1>1. /\ acct' = [acct EXCEPT ![a].on = TRUE] /\ kept' = [kept EXCEPT !.until[a] = 0]
      /\ cause' = [cause EXCEPT ![a] = "forgiven"]
      /\ UNCHANGED <<plan, fail, recent, cursor, run, clock, lastRun>>
  BY DEF OperatorEnables
<1>2. AutoTypes /\ RunOk(run, Listed) /\ Listed' = Listed /\ clock \in Nat
  BY <1>1 DEF AutoInv, AutoTypes, Listed
<1>3. acct' \in [Listed -> [on : BOOLEAN, expires : Int, last : Int]]
  BY <1>1, <1>2 DEF AutoTypes
<1>4. /\ kept' \in [until : [Listed -> Int], cursor : Nat]
      /\ kept'.until = [kept.until EXCEPT ![a] = 0] /\ kept.until \in [Listed -> Int]
  BY <1>1, <1>2 DEF AutoTypes
<1>5. DOMAIN cause = Listed /\ DOMAIN cause' = Listed
  BY <1>1, <1>2 DEF AutoTypes
<1>6. AutoTypes'
  BY <1>1, <1>2, <1>3, <1>4, <1>5 DEF AutoTypes
<1>7. ASSUME NEW b \in Listed PROVE OneOk(b)'
  <2>1. OneOk(b)' <=> AccountOk(clock, fail[b], kept'.until[b], cause'[b], recent[b], StageOf(run, b),
                                run.seen[b], run.result[b])
    BY <1>1 DEF OneOk, StageOf
  <2>2. AccountOk(clock, fail[b], kept.until[b], cause[b], recent[b], StageOf(run, b),
                  run.seen[b], run.result[b])
    BY DEF AutoInv, OneOk
  <2>3. CASE b = a
    <3>1. kept'.until[b] = 0 /\ cause'[b] = "forgiven"
      BY <1>1, <1>4, <1>5, <2>3
    <3>2. AccountOk(clock, fail[b], 0, "forgiven", recent[b], StageOf(run, b), run.seen[b], run.result[b])
      BY <1>2, <2>2, EnabledOk
    <3> QED
      BY <2>1, <3>1, <3>2
  <2>4. CASE b # a
    <3>1. kept'.until[b] = kept.until[b] /\ cause'[b] = cause[b]
      BY <1>1, <1>4, <1>5, <2>4
    <3> QED
      BY <2>1, <2>2, <3>1
  <2> QED
    BY <2>3, <2>4
<1> QED
  BY <1>1, <1>2, <1>6, <1>7 DEF AutoInv

LEMMA RestartStep ==
  ASSUME AutoInv, RestartRefresh
  PROVE  AutoInv'
<1>1. /\ fail' = [a \in Listed |-> IF kept.until[a] > clock THEN kept.until[a] ELSE 0]
      /\ cause' = [a \in Listed |-> IF cause[a] = "info" THEN "reason lost" ELSE cause[a]]
      /\ cursor' = kept.cursor /\ recent' = [a \in Listed |-> NoStatus] /\ run' = NoRun
      /\ UNCHANGED <<plan, acct, kept, clock>>
  BY DEF RestartRefresh
<1>2. AutoTypes /\ clock \in Nat /\ kept \in [until : [Listed -> Int], cursor : Nat] /\ Listed' = Listed
  BY <1>1 DEF AutoInv, AutoTypes, Listed
<1>3. fail' \in [Listed -> Int] /\ cursor' \in Nat
  <2>1. kept.until \in [Listed -> Int] /\ kept.cursor \in Nat
    BY <1>2
  <2>2. \A a \in Listed : (IF kept.until[a] > clock THEN kept.until[a] ELSE 0) \in Int
    BY <2>1
  <2> QED
    BY <1>1, <2>1, <2>2
<1>4. AutoTypes'
  BY <1>1, <1>2, <1>3 DEF AutoTypes
<1>5. RunOk(run', Listed) /\ \A a : StageOf(run', a) = "out"
  BY <1>1, NoRunOk
<1>6. ASSUME NEW a \in Listed PROVE OneOk(a)'
  <2>1. kept.until[a] \in Int
    BY <1>2
  <2>2. AccountOk(clock, IF kept.until[a] > clock THEN kept.until[a] ELSE 0, kept.until[a],
                  IF cause[a] = "info" THEN "reason lost" ELSE cause[a], NoStatus, "out",
                  run'.seen[a], run'.result[a])
    BY <1>2, <2>1, RestartedOk
  <2>3. /\ fail'[a] = (IF kept.until[a] > clock THEN kept.until[a] ELSE 0)
        /\ cause'[a] = (IF cause[a] = "info" THEN "reason lost" ELSE cause[a])
        /\ recent'[a] = NoStatus /\ StageOf(run', a) = "out" /\ kept' = kept /\ clock' = clock
    BY <1>1, <1>5
  <2>4. AccountOk(clock', fail'[a], kept'.until[a], cause'[a], recent'[a], StageOf(run', a),
                  run'.seen[a], run'.result[a])
    BY <2>2, <2>3
  <2> QED
    BY <2>4 DEF OneOk, StageOf
<1> QED
  BY <1>2, <1>4, <1>5, <1>6 DEF AutoInv

LEMMA AutoStep == AutoInv /\ [RefreshNext]_refreshVars => AutoInv'
<1> SUFFICES ASSUME AutoInv, [RefreshNext]_refreshVars PROVE AutoInv'
  OBVIOUS
<1>1. CASE SchedulerPass \/ apiRunDue
  BY <1>1, PassStep
<1>2. CASE apiRunFailed
  BY <1>2, ForgivenStep
<1>3. ASSUME NEW a \in Listed, refreshOneAccount(a) PROVE AutoInv'
  BY <1>3, TurnStep
<1>4. ASSUME NEW a \in Listed, NEW end, TokenEnds(a, end) PROVE AutoInv'
  BY <1>4, TokenStep
<1>5. ASSUME NEW a \in Listed, NEW end, InfoEnds(a, end) PROVE AutoInv'
  BY <1>5, InfoStep
<1>6. ASSUME NEW saved \in BOOLEAN, FinishRun(saved) PROVE AutoInv'
  BY <1>6, FinishStep
<1>7. CASE RefreshTick
  BY <1>7, TickStep
<1>8. CASE StartOver
  BY <1>8, AgainStep
<1>9. ASSUME NEW a \in Listed, TokenRenewedByRequest(a) PROVE AutoInv'
  BY <1>9, RenewedStep
<1>10. ASSUME NEW a \in Listed, OperatorEnables(a) PROVE AutoInv'
  BY <1>10, EnableStep
<1>11. CASE RestartRefresh
  BY <1>11, RestartStep
<1>12. CASE UNCHANGED refreshVars
  <2>1. UNCHANGED <<plan, acct, fail, kept, recent, cursor, run, clock, lastRun, cause>>
    BY <1>12 DEF refreshVars
  <2>2. AutoTypes' /\ Listed' = Listed
    BY <2>1 DEF AutoInv, AutoTypes, Listed
  <2> QED
    BY <2>1, <2>2, RunUntouched
<1> QED
  BY <1>1, <1>2, <1>3, <1>4, <1>5, <1>6, <1>7, <1>8, <1>9, <1>10, <1>11, <1>12 DEF RefreshNext

LEMMA AutoStart == RefreshInit => AutoInv
BY FreshStart DEF RefreshInit

LEMMA AutoSafety == AutoInv => AutoRefreshSafe
<1> SUFFICES ASSUME AutoInv PROVE AutoRefreshSafe
  OBVIOUS
<1>1. ASSUME NEW a \in Listed
      PROVE  AccountOk(clock, fail[a], kept.until[a], cause[a], recent[a], StageOf(run, a),
                       run.seen[a], run.result[a])
  BY DEF AutoInv, OneOk
<1>2. BackoffKept
  <2>1. ASSUME NEW a \in Listed, Turn(a, "token") PROVE ~(cause[a] = "token" /\ isAutoRefreshCooling(a))
    <3>1. StageOf(run, a) = "token"
      BY <2>1 DEF Turn, StageOf
    <3> QED
      BY <1>1, <3>1 DEF AccountOk, isAutoRefreshCooling
  <2> QED
    BY <2>1 DEF BackoffKept
<1>3. run = NoRun => \A a \in Listed : StageOf(run, a) = "out"
  BY NoRunOk
<1>4. UsageNeverBlocksToken
  <2>1. ASSUME run = NoRun, NEW a \in Listed, cause[a] = "info" PROVE ~tokenRefreshBlockedByCooldown(a)
    <3>1. StageOf(run, a) = "out"
      BY <1>3, <2>1
    <3>2. clock < fail[a] => recent[a].reason \in Infos
      BY <1>1, <2>1, <3>1 DEF AccountOk
    <3> QED
      BY <3>2 DEF tokenRefreshBlockedByCooldown, isAutoRefreshCooling, Infos
  <2> QED
    BY <2>1 DEF UsageNeverBlocksToken
<1>5. CooldownsAgree
  <2>1. ASSUME NEW a \in Listed
        PROVE  /\ clock < kept.until[a] => isAutoRefreshCooling(a)
               /\ isAutoRefreshCooling(a) => clock < kept.until[a] \/ cause[a] = "forgiven"
    BY <1>1 DEF AccountOk, isAutoRefreshCooling
  <2>2. ASSUME NEW a \in Listed, run = NoRun, recent[a].status \in {"success", "partial"}
        PROVE  ~isAutoRefreshCooling(a)
    <3>1. StageOf(run, a) = "out"
      BY <1>3, <2>2
    <3> QED
      BY <1>1, <2>2, <3>1 DEF AccountOk, isAutoRefreshCooling, Good
  <2> QED
    BY <2>1, <2>2 DEF CooldownsAgree
<1>6. UrgentFirst
  BY DEF AutoInv, RunOk, UrgentFirst
<1> QED
  BY <1>2, <1>4, <1>5, <1>6 DEF AutoRefreshSafe

(* For every set of scenes, any accounts, limits of a run and lengths of    *)
(* the cooldown, and any order of passes, answers, operator's commands and  *)
(* restarts: a bounded run takes the expiring tokens first, a refused token *)
(* is left alone for its cooldown and never for the failure of a usage      *)
(* query, and the cooldowns on disk are those that hold (handler.go).       *)
THEOREM AutoRefreshKept == RefreshRunsSpec => []AutoRefreshSafe
<1>1. RefreshRunsSpec => []AutoInv
  BY AutoStart, AutoStep, PTL DEF RefreshRunsSpec
<1> QED
  BY <1>1, AutoSafety, PTL

-----------------------------------------------------------------------------
(* ModelCatalog: the aggregate. *)
ListedInfos == UNION {ToSet(l) : l \in Listings}
CapNames == UNION {ToSet(info.caps) : info \in ListedInfos}
InfoType ==
  [id : {info.id : info \in ListedInfos}, name : {info.name : info \in ListedInfos} \cup {NoName},
   window : Int, pick : BOOLEAN, caps : Seq(CapNames)]

\* What one entry of the aggregate says of s, all that is listed.
At(s, m) == {i \in 1 .. Len(s) : s[i].id = m}
NamedAt(s, m) == {i \in At(s, m) : s[i].name # NoName}
FirstName(e, s) ==
  \/ NamedAt(s, e.id) = {} /\ e.name = NoName
  \/ \E i \in NamedAt(s, e.id) : e.name = s[i].name /\ \A j \in NamedAt(s, e.id) : i <= j
LargestWindow(e, s) ==
  /\ \E i \in At(s, e.id) : e.window = s[i].window
  /\ \A i \in At(s, e.id) : s[i].window <= e.window
AllCaps(e, s) == ToSet(e.caps) = UNION {ToSet(s[i].caps) : i \in At(s, e.id)}
AnyPick(e, s) == e.pick = (\E i \in At(s, e.id) : s[i].pick)
Combines(e, s) == FirstName(e, s) /\ LargestWindow(e, s) /\ AllCaps(e, s) /\ AnyPick(e, s)

Aggregates(c, s) ==
  /\ c \in Seq(InfoType) /\ s \in Seq(InfoType)
  /\ \A j, k \in 1 .. Len(c) : c[j].id = c[k].id => j = k
  /\ \A k \in 1 .. Len(c) : c[k].id # BlankModel /\ At(s, c[k].id) # {}
  /\ \A i \in 1 .. Len(s) : s[i].id # BlankModel => \E k \in 1 .. Len(c) : c[k].id = s[i].id
  /\ \A k \in 1 .. Len(c) : Combines(c[k], s)

LEMMA ListOver ==
  ASSUME NEW X, NEW Y, NEW s \in Seq(X), ToSet(s) \subseteq Y
  PROVE  s \in Seq(Y)
<1>1. Len(s) \in Nat /\ s \in [1 .. Len(s) -> X]
  BY LenProperties
<1>2. s \in [1 .. Len(s) -> Y]
  BY <1>1 DEF ToSet
<1> QED
  BY <1>1, <1>2, SeqDef

LEMMA ListingTyped ==
  ASSUME NEW l \in Listings
  PROVE  l \in Seq(InfoType) /\ l # Asked
<1>1. /\ l \in Seq(ToSet(l)) /\ l # Asked
      /\ \A info \in ToSet(l) :
           /\ info = ModelInfo(info.id, info.name, info.window, info.pick, info.caps)
           /\ info.window \in Nat /\ info.pick \in BOOLEAN /\ info.caps \in Seq(ToSet(info.caps))
  BY CatalogAssumption DEF CatalogAssumption
<1>2. ASSUME NEW info \in ToSet(l) PROVE info \in InfoType
  <2>1. info \in ListedInfos
    BY DEF ListedInfos
  <2>2. ToSet(info.caps) \subseteq CapNames
    BY <2>1 DEF CapNames
  <2>3. info.caps \in Seq(CapNames)
    <3>1. info.caps \in Seq(ToSet(info.caps))
      BY <1>1
    <3> QED
      BY <2>2, <3>1, ListOver
  <2>4. info = [id |-> info.id, name |-> info.name, window |-> info.window, pick |-> info.pick, caps |-> info.caps]
    BY <1>1 DEF ModelInfo
  <2>5. info.window \in Int /\ info.pick \in BOOLEAN
    BY <1>1
  <2>6. info.id \in {x.id : x \in ListedInfos} /\ info.name \in {x.name : x \in ListedInfos} \cup {NoName}
    BY <2>1
  <2> QED
    BY <2>3, <2>4, <2>5, <2>6 DEF InfoType
<1>3. ToSet(l) \subseteq InfoType
  BY <1>2
<1> QED
  BY <1>1, <1>3, ListOver

LEMMA MergedCaps ==
  ASSUME NEW s \in Seq(CapNames), NEW t \in Seq(CapNames)
  PROVE  /\ mergeStringLists(s, t) \in Seq(CapNames)
         /\ ToSet(mergeStringLists(s, t)) = ToSet(s) \cup ToSet(t)
<1> DEFINE S == ToSet(t) \ ToSet(s)
<1>1. Sublist(t, S) \in Seq(CapNames) /\ ToSet(Sublist(t, S)) = ToSet(t) \cap S
  BY SublistMembers
<1>2. mergeStringLists(s, t) = s \o Sublist(t, S)
  BY DEF mergeStringLists
<1> HIDE DEF S
<1>3. ToSet(s \o Sublist(t, S)) = ToSet(s) \cup ToSet(Sublist(t, S)) /\ s \o Sublist(t, S) \in Seq(CapNames)
  BY <1>1, ConcatMembers
<1> QED
  BY <1>1, <1>2, <1>3 DEF S

LEMMA LargestOfTwo ==
  ASSUME NEW a \in Int, NEW b \in Int
  PROVE  /\ Max({a, b}) \in Int /\ Max({a, b}) \in {a, b}
         /\ a <= Max({a, b}) /\ b <= Max({a, b})
<1>1. \E x \in {a, b} : \A y \in {a, b} : x >= y
  OBVIOUS
<1>2. Max({a, b}) \in {a, b} /\ \A y \in {a, b} : Max({a, b}) >= y
  BY <1>1 DEF Max
<1> QED
  BY <1>2

LEMMA MergedInfo ==
  ASSUME NEW e \in InfoType, NEW x \in InfoType
  PROVE  LET g == mergeModelInfo(e, x) IN
         /\ g \in InfoType /\ g.id = e.id
         /\ g.name = IF e.name = NoName THEN x.name ELSE e.name
         /\ g.window \in {e.window, x.window} /\ e.window <= g.window /\ x.window <= g.window
         /\ g.pick = (e.pick \/ x.pick)
         /\ ToSet(g.caps) = ToSet(e.caps) \cup ToSet(x.caps)
<1> DEFINE w == Max({e.window, x.window})
           l == mergeStringLists(e.caps, x.caps)
           nm == IF e.name = NoName THEN x.name ELSE e.name
           pk == e.pick \/ x.pick
           g == mergeModelInfo(e, x)
<1>1. /\ e.window \in Int /\ x.window \in Int /\ e.caps \in Seq(CapNames) /\ x.caps \in Seq(CapNames)
      /\ e.pick \in BOOLEAN /\ x.pick \in BOOLEAN
      /\ e.id \in {info.id : info \in ListedInfos}
      /\ nm \in {info.name : info \in ListedInfos} \cup {NoName}
  BY DEF InfoType
<1>2. w \in Int /\ w \in {e.window, x.window} /\ e.window <= w /\ x.window <= w
  BY <1>1, LargestOfTwo
<1>3. l \in Seq(CapNames) /\ ToSet(l) = ToSet(e.caps) \cup ToSet(x.caps)
  BY <1>1, MergedCaps
<1>4. g = [e EXCEPT !.name = nm, !.window = w, !.pick = pk, !.caps = l]
  BY DEF mergeModelInfo
<1> HIDE DEF w, l, nm, pk, g
<1>5. /\ g.id = e.id /\ g.name = nm /\ g.window = w /\ g.pick = pk /\ g.caps = l
      /\ g = [id |-> e.id, name |-> nm, window |-> w, pick |-> pk, caps |-> l]
  BY <1>4 DEF InfoType
<1>6. pk \in BOOLEAN
  BY <1>1 DEF pk
<1>7. g \in InfoType
  BY <1>1, <1>2, <1>3, <1>5, <1>6 DEF InfoType
<1> QED
  BY <1>2, <1>3, <1>5, <1>7 DEF nm, pk, g

LEMMA AtAppend ==
  ASSUME NEW s \in Seq(InfoType), NEW x \in InfoType
  PROVE  /\ Append(s, x) \in Seq(InfoType) /\ Len(Append(s, x)) = Len(s) + 1 /\ Len(s) \in Nat
         /\ Append(s, x)[Len(s) + 1] = x
         /\ \A i \in 1 .. Len(s) : Append(s, x)[i] = s[i] /\ i \in 1 .. Len(s) + 1
         /\ \A m : At(Append(s, x), m) = IF x.id = m THEN At(s, m) \cup {Len(s) + 1} ELSE At(s, m)
<1>1. /\ Append(s, x) \in Seq(InfoType) /\ Len(Append(s, x)) = Len(s) + 1 /\ Len(s) \in Nat
      /\ Append(s, x)[Len(s) + 1] = x
      /\ \A i \in 1 .. Len(s) : Append(s, x)[i] = s[i] /\ i \in 1 .. Len(s) + 1
  BY AppendProperties, LenProperties
<1>2. 1 .. Len(s) + 1 = (1 .. Len(s)) \cup {Len(s) + 1}
  BY <1>1
<1>3. ASSUME NEW m PROVE At(Append(s, x), m) = IF x.id = m THEN At(s, m) \cup {Len(s) + 1} ELSE At(s, m)
  <2>1. \A i : i \in At(Append(s, x), m) <=> i \in At(s, m) \/ (i = Len(s) + 1 /\ x.id = m)
    BY <1>1, <1>2 DEF At
  <2> QED
    BY <2>1
<1> QED
  BY <1>1, <1>3

\* A model of another id changes nothing for an entry.
LEMMA OtherInfo ==
  ASSUME NEW s \in Seq(InfoType), NEW x \in InfoType, NEW e, Combines(e, s), x.id # e.id
  PROVE  Combines(e, Append(s, x)) /\ At(Append(s, x), e.id) = At(s, e.id)
<1> DEFINE t == Append(s, x)
<1>1. At(t, e.id) = At(s, e.id) /\ \A i \in At(s, e.id) : t[i] = s[i]
  BY AtAppend DEF At
<1> HIDE DEF t
<1>2. NamedAt(t, e.id) = NamedAt(s, e.id) /\ \A i \in NamedAt(s, e.id) : t[i] = s[i]
  BY <1>1 DEF NamedAt
<1>3. FirstName(e, t)
  BY <1>2 DEF FirstName, Combines
<1>4. LargestWindow(e, t)
  BY <1>1 DEF LargestWindow, Combines
<1>5. AllCaps(e, t)
  BY <1>1 DEF AllCaps, Combines
<1>6. AnyPick(e, t)
  BY <1>1 DEF AnyPick, Combines
<1> QED
  BY <1>1, <1>3, <1>4, <1>5, <1>6 DEF Combines, t

\* The entry of a model that is new.
LEMMA NewInfo ==
  ASSUME NEW s \in Seq(InfoType), NEW x \in InfoType, At(s, x.id) = {}
  PROVE  Combines(x, Append(s, x)) /\ At(Append(s, x), x.id) # {}
<1> DEFINE t == Append(s, x)
           n == Len(s) + 1
<1>1. At(t, x.id) = {n} /\ t[n] = x /\ n \in Int
  BY AtAppend
<1> HIDE DEF t, n
<1>2. NamedAt(t, x.id) = IF x.name # NoName THEN {n} ELSE {}
  BY <1>1 DEF NamedAt
<1>3. FirstName(x, t)
  BY <1>1, <1>2 DEF FirstName
<1>4. LargestWindow(x, t)
  <2>1. x.window \in Int
    BY DEF InfoType
  <2> QED
    BY <1>1, <2>1 DEF LargestWindow
<1>5. AllCaps(x, t)
  BY <1>1 DEF AllCaps
<1>6. AnyPick(x, t)
  <2>1. x.pick \in BOOLEAN
    BY DEF InfoType
  <2> QED
    BY <1>1, <2>1 DEF AnyPick
<1> QED
  BY <1>1, <1>3, <1>4, <1>5, <1>6 DEF Combines, t

\* The entry of a model that is known.
LEMMA KnownInfo ==
  ASSUME NEW s \in Seq(InfoType), NEW x \in InfoType, NEW e \in InfoType, Combines(e, s), e.id = x.id
  PROVE  Combines(mergeModelInfo(e, x), Append(s, x))
<1> DEFINE t == Append(s, x)
           n == Len(s) + 1
           g == mergeModelInfo(e, x)
           A == At(s, x.id)
<1>1. /\ At(t, x.id) = A \cup {n} /\ t[n] = x /\ n \in Int
      /\ \A i \in A : t[i] = s[i] /\ i \in Int /\ i < n
  BY AtAppend DEF At
<1>2. /\ g \in InfoType /\ g.id = e.id
      /\ g.name = IF e.name = NoName THEN x.name ELSE e.name
      /\ g.window \in {e.window, x.window} /\ e.window <= g.window /\ x.window <= g.window
      /\ g.pick = (e.pick \/ x.pick)
      /\ ToSet(g.caps) = ToSet(e.caps) \cup ToSet(x.caps)
  BY MergedInfo
<1> HIDE DEF t, n, g, A
<1>3. FirstName(e, s) /\ LargestWindow(e, s) /\ AllCaps(e, s) /\ AnyPick(e, s) /\ g.id = x.id
  BY <1>2 DEF Combines
<1>4. FirstName(g, t)
  <2>1. NamedAt(s, x.id) = {i \in A : s[i].name # NoName}
    BY DEF NamedAt, A
  <2>2. NamedAt(t, x.id) = {i \in A \cup {n} : t[i].name # NoName}
    BY <1>1 DEF NamedAt
  <2>3. CASE NamedAt(s, x.id) = {} /\ e.name = NoName
    <3>1. g.name = x.name
      BY <1>2, <2>3
    <3>2. NamedAt(t, x.id) = IF x.name # NoName THEN {n} ELSE {}
      BY <1>1, <2>1, <2>2, <2>3
    <3> QED
      BY <1>1, <1>3, <3>1, <3>2 DEF FirstName
  <2>4. ASSUME NEW i \in NamedAt(s, x.id), e.name = s[i].name, \A j \in NamedAt(s, x.id) : i <= j
        PROVE  FirstName(g, t)
    <3>1. e.name # NoName /\ i \in A
      BY <2>1, <2>4
    <3>2. g.name = s[i].name
      BY <1>2, <2>4, <3>1
    <3>3. i \in NamedAt(t, x.id) /\ g.name = t[i].name
      BY <1>1, <2>1, <2>2, <2>4, <3>1, <3>2
    <3>4. \A j \in NamedAt(t, x.id) : i <= j
      BY <1>1, <2>1, <2>2, <2>4, <3>1
    <3> QED
      BY <1>3, <3>3, <3>4 DEF FirstName
  <2> QED
    BY <1>3, <2>3, <2>4 DEF FirstName
<1>5. LargestWindow(g, t)
  <2>1. e.window \in Int /\ x.window \in Int /\ g.window \in Int /\ \A i \in A : s[i].window \in Int
    <3>1. \A i \in A : s[i] \in InfoType
      BY ElementOfSeq DEF A, At
    <3> QED
      BY <1>2, <3>1 DEF InfoType
  <2>2. \E i \in A : e.window = s[i].window
    BY <1>3 DEF LargestWindow, A
  <2>3. \A i \in A : s[i].window <= e.window
    BY <1>3 DEF LargestWindow, A
  <2>4. \E i \in A \cup {n} : g.window = t[i].window
    BY <1>1, <1>2, <2>2
  <2>5. \A i \in A \cup {n} : t[i].window <= g.window
    BY <1>1, <1>2, <2>1, <2>3
  <2> QED
    BY <1>1, <1>3, <2>4, <2>5 DEF LargestWindow
<1>6. AllCaps(g, t)
  <2>1. ToSet(e.caps) = UNION {ToSet(s[i].caps) : i \in A}
    BY <1>3 DEF AllCaps, A
  <2>2. UNION {ToSet(t[i].caps) : i \in A \cup {n}} = (UNION {ToSet(s[i].caps) : i \in A}) \cup ToSet(x.caps)
    <3>1. \A c : c \in UNION {ToSet(t[i].caps) : i \in A \cup {n}} <=>
                 c \in ToSet(t[n].caps) \/ \E i \in A : c \in ToSet(t[i].caps)
      OBVIOUS
    <3>2. \A c : c \in UNION {ToSet(s[i].caps) : i \in A} <=> \E i \in A : c \in ToSet(s[i].caps)
      OBVIOUS
    <3> QED
      BY <1>1, <3>1, <3>2
  <2> QED
    BY <1>1, <1>2, <1>3, <2>1, <2>2 DEF AllCaps
<1>7. AnyPick(g, t)
  <2>1. e.pick = (\E i \in A : s[i].pick)
    BY <1>3 DEF AnyPick, A
  <2>2. (\E i \in A \cup {n} : t[i].pick) <=> x.pick \/ \E i \in A : s[i].pick
    BY <1>1
  <2>3. e.pick \in BOOLEAN /\ x.pick \in BOOLEAN
    BY DEF InfoType
  <2>4. g.pick = (\E i \in A \cup {n} : t[i].pick)
    BY <1>2, <2>1, <2>2, <2>3
  <2> QED
    BY <1>1, <1>3, <2>4 DEF AnyPick
<1> QED
  BY <1>4, <1>5, <1>6, <1>7 DEF Combines, t, g

\* One more model, in the list and in the aggregate.
LEMMA MergeOneAggregates ==
  ASSUME NEW c, NEW s, NEW x \in InfoType, Aggregates(c, s)
  PROVE  Aggregates(MergeOne(c, x), Append(s, x))
<1> DEFINE t == Append(s, x)
           n == Len(s) + 1
           known == {k \in 1 .. Len(c) : c[k].id = x.id}
           d == MergeOne(c, x)
<1>1. /\ t \in Seq(InfoType) /\ Len(t) = n /\ n \in Nat /\ t[n] = x
      /\ \A i \in 1 .. Len(s) : t[i] = s[i]
      /\ \A i \in 1 .. n : i \in 1 .. Len(s) \/ i = n
      /\ \A m : At(t, m) = IF x.id = m THEN At(s, m) \cup {n} ELSE At(s, m)
  BY AtAppend DEF Aggregates
<1>2. /\ c \in Seq(InfoType) /\ s \in Seq(InfoType) /\ Len(c) \in Nat
      /\ \A k \in 1 .. Len(c) : c[k] \in InfoType
  BY LenProperties, ElementOfSeq DEF Aggregates
<1>3. d = IF x.id = BlankModel THEN c
          ELSE IF known = {} THEN Append(c, x)
          ELSE [k \in 1 .. Len(c) |-> IF k \in known THEN mergeModelInfo(c[k], x) ELSE c[k]]
  BY DEF MergeOne
<1>4. ASSUME NEW k \in 1 .. Len(c), c[k].id # x.id
      PROVE  Combines(c[k], t) /\ At(t, c[k].id) # {}
  <2>1. Combines(c[k], s) /\ At(s, c[k].id) # {}
    BY DEF Aggregates
  <2>2. Combines(c[k], t) /\ At(t, c[k].id) = At(s, c[k].id)
    BY <1>2, <1>4, <2>1, OtherInfo
  <2> QED
    BY <2>1, <2>2
<1>a. ASSUME NEW i \in 1 .. Len(s), s[i].id # BlankModel
      PROVE  \E k \in 1 .. Len(c) : c[k].id = s[i].id
  BY <1>a DEF Aggregates
<1>b. \A j, k \in 1 .. Len(c) : c[j].id = c[k].id => j = k
  BY DEF Aggregates
<1>c. \A k \in 1 .. Len(c) : c[k].id # BlankModel /\ At(s, c[k].id) # {} /\ Combines(c[k], s)
  BY DEF Aggregates
<1> HIDE DEF t, n, known, d
<1>5. CASE x.id = BlankModel
  <2>1. d = c /\ \A k \in 1 .. Len(c) : c[k].id # x.id
    BY <1>3, <1>5, <1>c
  <2>2. \A i \in 1 .. Len(t) : t[i].id # BlankModel => \E k \in 1 .. Len(c) : c[k].id = t[i].id
    BY <1>1, <1>5, <1>a
  <2>3. Aggregates(c, t)
    BY <1>1, <1>2, <1>4, <1>b, <1>c, <2>1, <2>2 DEF Aggregates
  <2> QED
    BY <2>1, <2>3 DEF t, d
<1>6. CASE x.id # BlankModel /\ known = {}
  <2>1. d = Append(c, x) /\ \A k \in 1 .. Len(c) : c[k].id # x.id
    BY <1>3, <1>6 DEF known
  <2>2. /\ d \in Seq(InfoType) /\ Len(d) = Len(c) + 1 /\ d[Len(c) + 1] = x
        /\ \A k \in 1 .. Len(c) : d[k] = c[k] /\ k \in 1 .. Len(c) + 1
        /\ \A k \in 1 .. Len(c) + 1 : k \in 1 .. Len(c) \/ k = Len(c) + 1
    BY <1>2, <2>1, AtAppend
  <2>3. At(s, x.id) = {}
    BY <1>6, <1>a, <2>1 DEF At
  <2>4. Combines(x, t) /\ At(t, x.id) # {}
    BY <1>2, <2>3, NewInfo DEF t
  <2>5. \A j, k \in 1 .. Len(d) : d[j].id = d[k].id => j = k
    BY <1>b, <2>1, <2>2
  <2>6. \A k \in 1 .. Len(d) : d[k].id # BlankModel /\ At(t, d[k].id) # {} /\ Combines(d[k], t)
    BY <1>4, <1>6, <1>c, <2>1, <2>2, <2>4
  <2>7. \A i \in 1 .. Len(t) : t[i].id # BlankModel => \E k \in 1 .. Len(d) : d[k].id = t[i].id
    <3>1. Len(c) + 1 \in 1 .. Len(d)
      BY <1>2, <2>2
    <3> QED
      BY <1>1, <1>a, <2>2, <3>1
  <2>8. Aggregates(d, t)
    BY <1>1, <2>2, <2>5, <2>6, <2>7 DEF Aggregates
  <2> QED
    BY <2>8 DEF t, d
<1>7. CASE x.id # BlankModel /\ known # {}
  <2>1. d = [k \in 1 .. Len(c) |-> IF k \in known THEN mergeModelInfo(c[k], x) ELSE c[k]]
    BY <1>3, <1>7
  <2>2. ASSUME NEW k \in 1 .. Len(c)
        PROVE  d[k] \in InfoType /\ d[k].id = c[k].id /\ Combines(d[k], t) /\ At(t, d[k].id) # {}
    <3>1. CASE k \in known
      <4>1. d[k] = mergeModelInfo(c[k], x) /\ c[k].id = x.id
        BY <2>1, <3>1 DEF known
      <4>2. Combines(d[k], t)
        BY <1>2, <1>c, <4>1, KnownInfo DEF t
      <4>3. d[k] \in InfoType /\ d[k].id = c[k].id
        BY <1>2, <4>1, MergedInfo
      <4>4. At(t, x.id) # {}
        BY <1>1
      <4> QED
        BY <4>1, <4>2, <4>3, <4>4
    <3>2. CASE k \notin known
      <4>1. d[k] = c[k] /\ c[k].id # x.id
        BY <2>1, <3>2 DEF known
      <4> QED
        BY <1>2, <1>4, <4>1
    <3> QED
      BY <3>1, <3>2
  <2>3. d \in Seq(InfoType) /\ Len(d) = Len(c)
    <3>1. d \in [1 .. Len(c) -> InfoType]
      BY <2>1, <2>2
    <3>2. d \in Seq(InfoType)
      BY <1>2, <3>1, SeqDef
    <3> QED
      BY <1>2, <3>1, <3>2, LenProperties
  <2>4. \A i \in 1 .. Len(t) : t[i].id # BlankModel => \E k \in 1 .. Len(d) : d[k].id = t[i].id
    <3>1. \E k \in 1 .. Len(d) : d[k].id = x.id
      BY <1>7, <2>2, <2>3 DEF known
    <3> QED
      BY <1>1, <1>a, <2>2, <2>3, <3>1
  <2>5. \A j, k \in 1 .. Len(d) : d[j].id = d[k].id => j = k
    BY <1>b, <2>2, <2>3
  <2>6. \A k \in 1 .. Len(d) : d[k].id # BlankModel /\ At(t, d[k].id) # {} /\ Combines(d[k], t)
    BY <1>c, <2>2, <2>3
  <2>7. Aggregates(d, t)
    BY <1>1, <2>3, <2>4, <2>5, <2>6 DEF Aggregates
  <2> QED
    BY <2>7 DEF t, d
<1> QED
  BY <1>5, <1>6, <1>7

-----------------------------------------------------------------------------
(* The two recursions, over the models of a list and over the lists of the accounts. *)
MergeStep(c, l, f, k) == IF k = 0 THEN c ELSE MergeOne(f[k - 1], l[k])
IsMerge(c, l, f, n) == f = [k \in 0 .. n |-> MergeStep(c, l, f, k)]
MergeFcn(c, l) == CHOOSE f : IsMerge(c, l, f, Len(l))

LEMMA MergeDef ==
  ASSUME NEW c, NEW l
  PROVE  mergeUniqueModels(c, l) = MergeFcn(c, l)[Len(l)]
BY DEF mergeUniqueModels, MergeFcn, IsMerge, MergeStep

LEMMA MergeExists ==
  ASSUME NEW c, NEW l, Len(l) \in Nat
  PROVE  \A k \in 0 .. Len(l) : MergeFcn(c, l)[k] = MergeStep(c, l, MergeFcn(c, l), k)
<1> DEFINE T == {n \in Nat : \E f : IsMerge(c, l, f, n)}
<1>1. 0 \in T
  <2> DEFINE f == [k \in 0 .. 0 |-> c]
  <2>1. \A k \in 0 .. 0 : MergeStep(c, l, f, k) = c
    BY DEF MergeStep
  <2>2. IsMerge(c, l, f, 0)
    BY <2>1, Zenon DEF IsMerge
  <2> QED
    BY <2>2
<1>2. ASSUME NEW n \in Nat, n \in T PROVE n + 1 \in T
  <2>1. PICK f : IsMerge(c, l, f, n)
    BY <1>2
  <2> DEFINE g == [k \in 0 .. n + 1 |-> MergeStep(c, l, f, k)]
  <2>2. \A k \in 0 .. n : g[k] = f[k]
    <3>1. \A k \in 0 .. n : k \in 0 .. n + 1
      OBVIOUS
    <3>2. \A k \in 0 .. n : g[k] = MergeStep(c, l, f, k)
      BY <3>1
    <3>3. \A k \in 0 .. n : f[k] = MergeStep(c, l, f, k)
      BY <2>1 DEF IsMerge
    <3> QED
      BY <3>2, <3>3
  <2>3. \A k \in 0 .. n + 1 : k # 0 => k - 1 \in 0 .. n
    OBVIOUS
  <2> HIDE DEF g
  <2>4. \A k \in 0 .. n + 1 : MergeStep(c, l, f, k) = MergeStep(c, l, g, k)
    BY <2>2, <2>3 DEF MergeStep
  <2>5. IsMerge(c, l, g, n + 1)
    BY <2>4, Zenon DEF g, IsMerge
  <2> QED
    BY <2>5
<1>3. Nat \subseteq T
  <2> HIDE DEF T
  <2> QED
    BY <1>1, <1>2, NatSteps
<1>4. \E f : IsMerge(c, l, f, Len(l))
  BY <1>3
<1>5. IsMerge(c, l, MergeFcn(c, l), Len(l))
  BY <1>4, Zenon DEF MergeFcn
<1> QED
  BY <1>5 DEF IsMerge

LEMMA InfosGroup == \A a, b, d \in Seq(InfoType) : (a \o b) \o d = a \o (b \o d)
<1> TAKE a, b, d \in Seq(InfoType)
<1> QED
  BY ConcatAssociative

LEMMA MergeAggregates ==
  ASSUME NEW c, NEW s, NEW l \in Seq(InfoType), Aggregates(c, s)
  PROVE  Aggregates(mergeUniqueModels(c, l), s \o l)
<1> DEFINE f == MergeFcn(c, l)
           u(k) == s \o SubSeq(l, 1, k)
           T == {n \in Nat : n \in 0 .. Len(l) => Aggregates(f[n], u(n))}
<1>a. Len(l) \in Nat /\ s \in Seq(InfoType) /\ Len(s) \in Nat
  BY LenProperties DEF Aggregates
<1>b. \A k \in 0 .. Len(l) : f[k] = MergeStep(c, l, f, k)
  BY <1>a, MergeExists
<1> HIDE DEF f
<1>1. 0 \in T
  <2>1. f[0] = c
    BY <1>a, <1>b DEF MergeStep
  <2>2. SubSeq(l, 1, 0) = <<>>
    BY SubSeqEmpty
  <2>3. s \o <<>> = s
    BY <1>a, ConcatEmptySeq
  <2> QED
    BY <2>1, <2>2, <2>3
<1>2. ASSUME NEW n \in Nat, n \in T PROVE n + 1 \in T
  <2> SUFFICES ASSUME n + 1 \in 0 .. Len(l) PROVE Aggregates(f[n + 1], u(n + 1))
    OBVIOUS
  <2>1. n \in 0 .. Len(l) /\ n + 1 \in 1 .. Len(l) /\ (n + 1) - 1 = n /\ n + 1 # 0
    BY <1>a
  <2>2. Aggregates(f[n], u(n))
    BY <1>2, <2>1
  <2>3. f[n + 1] = MergeOne(f[n], l[n + 1])
    BY <1>b, <2>1 DEF MergeStep
  <2>4. l[n + 1] \in InfoType
    BY <2>1, ElementOfSeq
  <2>5. u(n + 1) = Append(u(n), l[n + 1])
    <3>1. SubSeq(l, 1, n) \in Seq(InfoType)
      <4>1. \A i \in 1 .. n : l[i] \in InfoType
        BY <1>a, <2>1, ElementOfSeq
      <4> QED
        BY <4>1, SubSeqProperties
    <3>2. SubSeq(l, 1, n + 1) = SubSeq(l, 1, n) \o <<l[n + 1]>>
      <4>1. 1 \in 1 .. Len(l) /\ n + 1 \in 1 .. Len(l)
        BY <1>a, <2>1
      <4>2. SubSeq(l, 1, n + 1) = SubSeq(l, 1, (n + 1) - 1) \o <<l[n + 1]>>
        BY <4>1, SubSeqRecursiveSecond
      <4> QED
        BY <2>1, <4>2
    <3>3. <<l[n + 1]>> \in Seq(InfoType)
      BY <2>4
    <3>4. u(n) \in Seq(InfoType)
      BY <1>a, <3>1, ConcatProperties
    <3>5. Append(u(n), l[n + 1]) = (s \o SubSeq(l, 1, n)) \o <<l[n + 1]>>
      BY <2>4, <3>4, AppendIsConcat
    <3>6. (s \o SubSeq(l, 1, n)) \o <<l[n + 1]>> = s \o (SubSeq(l, 1, n) \o <<l[n + 1]>>)
      BY <1>a, <3>1, <3>3, InfosGroup, Zenon
    <3> QED
      BY <3>2, <3>5, <3>6
  <2> QED
    BY <2>2, <2>3, <2>4, <2>5, MergeOneAggregates
<1>3. Nat \subseteq T
  <2> HIDE DEF T
  <2> QED
    BY <1>1, <1>2, NatSteps
<1>4. Aggregates(f[Len(l)], u(Len(l)))
  BY <1>3, <1>a
<1>5. SubSeq(l, 1, Len(l)) = l
  BY <1>a, SubSeqFull
<1> QED
  BY <1>4, <1>5, MergeDef DEF f

RebuildStep(m, order, f, k) == IF k = 0 THEN <<>> ELSE mergeUniqueModels(f[k - 1], m[order[k]])
IsRebuild(m, order, f, n) == f = [k \in 0 .. n |-> RebuildStep(m, order, f, k)]
RebuildFcn(m, order) == CHOOSE f : IsRebuild(m, order, f, Len(order))

LEMMA RebuildDef ==
  ASSUME NEW m
  PROVE  rebuildCachedModelsLocked(m) = RebuildFcn(m, InOrder(DOMAIN m))[Len(InOrder(DOMAIN m))]
BY DEF rebuildCachedModelsLocked, RebuildFcn, IsRebuild, RebuildStep

LEMMA RebuildExists ==
  ASSUME NEW m, NEW order, Len(order) \in Nat
  PROVE  \A k \in 0 .. Len(order) : RebuildFcn(m, order)[k] = RebuildStep(m, order, RebuildFcn(m, order), k)
<1> DEFINE T == {n \in Nat : \E f : IsRebuild(m, order, f, n)}
<1>1. 0 \in T
  <2> DEFINE f == [k \in 0 .. 0 |-> <<>>]
  <2>1. \A k \in 0 .. 0 : RebuildStep(m, order, f, k) = <<>>
    BY DEF RebuildStep
  <2>2. IsRebuild(m, order, f, 0)
    BY <2>1, Zenon DEF IsRebuild
  <2> QED
    BY <2>2
<1>2. ASSUME NEW n \in Nat, n \in T PROVE n + 1 \in T
  <2>1. PICK f : IsRebuild(m, order, f, n)
    BY <1>2
  <2> DEFINE g == [k \in 0 .. n + 1 |-> RebuildStep(m, order, f, k)]
  <2>2. \A k \in 0 .. n : g[k] = f[k]
    <3>1. \A k \in 0 .. n : k \in 0 .. n + 1
      OBVIOUS
    <3>2. \A k \in 0 .. n : g[k] = RebuildStep(m, order, f, k)
      BY <3>1
    <3>3. \A k \in 0 .. n : f[k] = RebuildStep(m, order, f, k)
      BY <2>1 DEF IsRebuild
    <3> QED
      BY <3>2, <3>3
  <2>3. \A k \in 0 .. n + 1 : k # 0 => k - 1 \in 0 .. n
    OBVIOUS
  <2> HIDE DEF g
  <2>4. \A k \in 0 .. n + 1 : RebuildStep(m, order, f, k) = RebuildStep(m, order, g, k)
    BY <2>2, <2>3 DEF RebuildStep
  <2>5. IsRebuild(m, order, g, n + 1)
    BY <2>4, Zenon DEF g, IsRebuild
  <2> QED
    BY <2>5
<1>3. Nat \subseteq T
  <2> HIDE DEF T
  <2> QED
    BY <1>1, <1>2, NatSteps
<1>4. \E f : IsRebuild(m, order, f, Len(order))
  BY <1>3
<1>5. IsRebuild(m, order, RebuildFcn(m, order), Len(order))
  BY <1>4, Zenon DEF RebuildFcn
<1> QED
  BY <1>5 DEF IsRebuild

\* What the accounts list, one account after the other.
ListedBy(m) ==
  FlattenSeq([k \in 1 .. Len(InOrder(DOMAIN m)) |-> m[InOrder(DOMAIN m)[k]]])

LEMMA OrderTyped ==
  ASSUME NEW S
  PROVE  /\ InOrder(S) \in Seq(CatalogIds) /\ ToSet(InOrder(S)) = CatalogIds \cap S
         /\ Len(InOrder(S)) \in Nat
         /\ \A k \in 1 .. Len(InOrder(S)) : InOrder(S)[k] \in CatalogIds \cap S
<1>1. CatalogAccounts \in Seq(CatalogIds)
  BY CatalogAssumption DEF CatalogAssumption
<1>2. InOrder(S) \in Seq(CatalogIds) /\ ToSet(InOrder(S)) = CatalogIds \cap S
  BY <1>1, SublistMembers DEF InOrder, CatalogIds
<1>3. DOMAIN InOrder(S) = 1 .. Len(InOrder(S)) /\ Len(InOrder(S)) \in Nat
  BY <1>2, LenProperties
<1>4. \A k \in 1 .. Len(InOrder(S)) : InOrder(S)[k] \in ToSet(InOrder(S))
  BY <1>3 DEF ToSet
<1> QED
  BY <1>2, <1>3, <1>4

LEMMA NothingAggregates == Aggregates(<<>>, <<>>)
<1>1. <<>> \in Seq(InfoType) /\ Len(<<>>) = 0
  BY EmptySeq
<1> QED
  BY <1>1 DEF Aggregates

LEMMA RebuildAggregates ==
  ASSUME NEW m, \A a \in DOMAIN m : m[a] \in Seq(InfoType)
  PROVE  Aggregates(rebuildCachedModelsLocked(m), ListedBy(m))
<1> DEFINE order == InOrder(DOMAIN m)
           n == Len(order)
           f == RebuildFcn(m, order)
           q == [k \in 1 .. n |-> m[order[k]]]
           h == FlatFcn(q)
           T == {k \in Nat : k \in 1 .. n => Aggregates(f[k], h[k])}
<1>1. n \in Nat /\ \A k \in 1 .. n : order[k] \in DOMAIN m
  BY OrderTyped
<1>2. \A k \in 0 .. n : f[k] = RebuildStep(m, order, f, k)
  BY <1>1, RebuildExists
<1>3. q \in Seq(Seq(InfoType)) /\ Len(q) = n /\ \A k \in 1 .. n : q[k] = m[order[k]] /\ q[k] \in Seq(InfoType)
  <2> HIDE DEF n, order
  <2>1. q \in [1 .. n -> Seq(InfoType)]
    BY <1>1
  <2>2. q \in Seq(Seq(InfoType))
    BY <1>1, <2>1, SeqDef
  <2>3. Len(q) = n
    BY <1>1, <2>1, <2>2, LenProperties
  <2> QED
    BY <2>1, <2>2, <2>3
<1>4. \A k \in 1 .. n : h[k] = FlatStep(q, h, k)
  <2>1. \A k \in 1 .. Len(q) : FlatFcn(q)[k] = FlatStep(q, FlatFcn(q), k)
    BY <1>3, FlatExists
  <2> QED
    BY <1>3, <2>1
<1>5. rebuildCachedModelsLocked(m) = f[n] /\ ListedBy(m) = IF n = 0 THEN q ELSE h[n]
  <2>1. rebuildCachedModelsLocked(m) = f[n]
    BY RebuildDef
  <2>2. ListedBy(m) = FlattenSeq(q)
    BY DEF ListedBy
  <2>3. FlattenSeq(q) = IF Len(q) = 0 THEN q ELSE FlatFcn(q)[Len(q)]
    BY FlatDef
  <2> QED
    BY <1>3, <2>1, <2>2, <2>3
<1> HIDE DEF order, n, f, q, h
<1>6. f[0] = <<>>
  BY <1>1, <1>2 DEF RebuildStep
<1>7. \A k \in 1 .. n : f[k] = mergeUniqueModels(f[k - 1], q[k])
  <2>1. \A k \in 1 .. n : k \in 0 .. n /\ k # 0
    BY <1>1
  <2> QED
    BY <1>2, <1>3, <2>1 DEF RebuildStep
<1>8. 0 \in T
  OBVIOUS
<1>9. ASSUME NEW k \in Nat, k \in T PROVE k + 1 \in T
  <2> SUFFICES ASSUME k + 1 \in 1 .. n PROVE Aggregates(f[k + 1], h[k + 1])
    OBVIOUS
  <2>1. (k + 1) - 1 = k
    OBVIOUS
  <2>2. f[k + 1] = mergeUniqueModels(f[k], q[k + 1]) /\ q[k + 1] \in Seq(InfoType)
    BY <1>3, <1>7, <2>1
  <2>3. h[k + 1] = IF k + 1 = 1 THEN q[k + 1] ELSE h[k] \o q[k + 1]
    BY <1>4, <2>1 DEF FlatStep
  <2>4. CASE k = 0
    <3>1. Aggregates(mergeUniqueModels(<<>>, q[k + 1]), <<>> \o q[k + 1])
      BY <2>2, NothingAggregates, MergeAggregates
    <3>2. <<>> \o q[k + 1] = q[k + 1]
      BY <2>2, ConcatEmptySeq
    <3> QED
      BY <1>6, <2>2, <2>3, <2>4, <3>1, <3>2
  <2>5. CASE k # 0
    <3>1. k \in 1 .. n
      BY <1>1, <2>5
    <3>2. Aggregates(f[k], h[k])
      BY <1>9, <3>1
    <3>3. h[k + 1] = h[k] \o q[k + 1]
      <4>1. k + 1 # 1
        BY <2>5
      <4> QED
        BY <2>3, <4>1, Zenon
    <3>4. Aggregates(mergeUniqueModels(f[k], q[k + 1]), h[k] \o q[k + 1])
      BY <2>2, <3>2, MergeAggregates
    <3> QED
      BY <2>2, <3>3, <3>4
  <2> QED
    BY <2>4, <2>5
<1>10. Nat \subseteq T
  <2> HIDE DEF T
  <2> QED
    BY <1>8, <1>9, NatSteps
<1>11. CASE n = 0
  <2>1. q = <<>>
    BY <1>3, <1>11, EmptySeq
  <2> QED
    BY <1>5, <1>6, <1>11, <2>1, NothingAggregates
<1>12. CASE n # 0
  <2>1. n \in 1 .. n /\ n \in T
    BY <1>1, <1>10, <1>12
  <2> QED
    BY <1>5, <1>12, <2>1
<1> QED
  BY <1>11, <1>12

LEMMA LargestIs ==
  ASSUME NEW S \in SUBSET Int, NEW x \in S, \A y \in S : y <= x
  PROVE  Max(S) = x
<1>1. \A y \in S : x >= y
  OBVIOUS
<1>2. Max(S) \in S /\ \A y \in S : Max(S) >= y
  BY <1>1 DEF Max
<1>3. Max(S) >= x /\ x >= Max(S) /\ Max(S) \in Int /\ x \in Int
  BY <1>1, <1>2
<1> QED
  BY <1>3

LEMMA LeastIs ==
  ASSUME NEW S \in SUBSET Int, NEW x \in S, \A y \in S : x <= y
  PROVE  Min(S) = x
<1>1. Min(S) \in S /\ \A y \in S : Min(S) <= y
  BY DEF Min
<1>2. Min(S) <= x /\ x <= Min(S) /\ Min(S) \in Int /\ x \in Int
  BY <1>1
<1> QED
  BY <1>2

\* In the words of the model.
LEMMA AggregatesExact ==
  ASSUME Aggregates(cachedModels, ListedBy(modelsByAccount))
  PROVE  AggregateExact
<1> DEFINE c == cachedModels
           s == ListedBy(modelsByAccount)
           of(m) == {i \in 1 .. Len(s) : s[i].id = m}
           named(m) == {i \in of(m) : s[i].name # NoName}
           Says(e) == /\ e.name = IF named(e.id) = {} THEN NoName ELSE s[Min(named(e.id))].name
                      /\ e.window = Max({s[i].window : i \in of(e.id)})
                      /\ e.pick = (\E i \in of(e.id) : s[i].pick)
                      /\ ToSet(e.caps) = UNION {ToSet(s[i].caps) : i \in of(e.id)}
<1>1. /\ Len(c) \in Nat /\ Len(s) \in Nat /\ DOMAIN c = 1 .. Len(c) /\ DOMAIN s = 1 .. Len(s)
      /\ \A i \in 1 .. Len(s) : s[i] \in InfoType
  BY LenProperties, ElementOfSeq DEF Aggregates
<1>2. /\ \A j, k \in 1 .. Len(c) : c[j].id = c[k].id => j = k
      /\ \A k \in 1 .. Len(c) : c[k].id # BlankModel /\ At(s, c[k].id) # {}
      /\ \A i \in 1 .. Len(s) : s[i].id # BlankModel => \E k \in 1 .. Len(c) : c[k].id = s[i].id
      /\ \A k \in 1 .. Len(c) : Combines(c[k], s)
  BY DEF Aggregates
<1>3. AggregateExact <=>
        /\ IsInjective([k \in 1 .. Len(c) |-> c[k].id])
        /\ {e.id : e \in ToSet(c)} = {info.id : info \in ToSet(s)} \ {BlankModel}
        /\ \A e \in ToSet(c) : Says(e)
  BY DEF AggregateExact, ListedBy
<1> HIDE DEF c, s
<1>4. IsInjective([k \in 1 .. Len(c) |-> c[k].id])
  BY <1>2 DEF IsInjective
<1>5. \A m : of(m) = At(s, m) /\ named(m) = NamedAt(s, m)
  BY DEF At, NamedAt
<1>6. {e.id : e \in ToSet(c)} = {info.id : info \in ToSet(s)} \ {BlankModel}
  <2>1. ASSUME NEW k \in 1 .. Len(c) PROVE c[k].id # BlankModel /\ \E info \in ToSet(s) : info.id = c[k].id
    <3>1. PICK i \in 1 .. Len(s) : s[i].id = c[k].id
      BY <1>2 DEF At
    <3> QED
      BY <1>1, <1>2, <3>1 DEF ToSet
  <2>2. ASSUME NEW i \in 1 .. Len(s), s[i].id # BlankModel PROVE \E e \in ToSet(c) : e.id = s[i].id
    BY <1>1, <1>2, <2>2 DEF ToSet
  <2>3. \A e \in ToSet(c) : \E k \in 1 .. Len(c) : e = c[k]
    BY <1>1 DEF ToSet
  <2>4. \A info \in ToSet(s) : \E i \in 1 .. Len(s) : info = s[i]
    BY <1>1 DEF ToSet
  <2>5. \A e \in ToSet(c) : e.id # BlankModel /\ \E info \in ToSet(s) : info.id = e.id
    BY <2>1, <2>3
  <2>6. \A info \in ToSet(s) : info.id # BlankModel => \E e \in ToSet(c) : e.id = info.id
    BY <2>2, <2>4
  <2> QED
    BY <2>5, <2>6
<1>7. ASSUME NEW k \in 1 .. Len(c) PROVE Says(c[k])
  <2> DEFINE e == c[k]
  <2>1. FirstName(e, s) /\ LargestWindow(e, s) /\ AllCaps(e, s) /\ AnyPick(e, s)
    BY <1>2 DEF Combines
  <2> HIDE DEF e
  <2>2. e.name = IF named(e.id) = {} THEN NoName ELSE s[Min(named(e.id))].name
    <3>1. CASE NamedAt(s, e.id) = {}
      BY <1>5, <2>1, <3>1 DEF FirstName
    <3>2. ASSUME NEW i \in NamedAt(s, e.id), e.name = s[i].name, \A j \in NamedAt(s, e.id) : i <= j
          PROVE  e.name = s[Min(NamedAt(s, e.id))].name
      <4>1. NamedAt(s, e.id) \in SUBSET Int
        BY DEF NamedAt, At
      <4>2. Min(NamedAt(s, e.id)) = i
        BY <3>2, <4>1, LeastIs
      <4> QED
        BY <3>2, <4>2
    <3> QED
      BY <1>5, <2>1, <3>1, <3>2 DEF FirstName
  <2>3. e.window = Max({s[i].window : i \in of(e.id)})
    <3> DEFINE W == {s[i].window : i \in At(s, e.id)}
    <3>1. W \in SUBSET Int
      <4>1. \A i \in At(s, e.id) : s[i].window \in Int
        BY <1>1 DEF At, InfoType
      <4> QED
        BY <4>1
    <3>2. e.window \in W /\ \A y \in W : y <= e.window
      BY <2>1 DEF LargestWindow
    <3> HIDE DEF W
    <3>3. Max(W) = e.window
      BY <3>1, <3>2, LargestIs
    <3> QED
      BY <1>5, <3>3 DEF W
  <2>4. e.pick = (\E i \in of(e.id) : s[i].pick)
    BY <1>5, <2>1 DEF AnyPick
  <2>5. ToSet(e.caps) = UNION {ToSet(s[i].caps) : i \in of(e.id)}
    BY <1>5, <2>1 DEF AllCaps
  <2> QED
    BY <2>2, <2>3, <2>4, <2>5 DEF e
<1>8. \A e \in ToSet(c) : \E k \in 1 .. Len(c) : e = c[k]
  BY <1>1 DEF ToSet
<1> HIDE DEF Says
<1>9. \A e \in ToSet(c) : Says(e)
  BY <1>7, <1>8
<1> QED
  BY <1>3, <1>4, <1>6, <1>9

-----------------------------------------------------------------------------
(* ModelCatalog: the tasks.  reach is what a task may touch, lists are the  *)
(* pool's, over says that Close has joined.                                 *)
MapsTo(V) == UNION {[D -> V] : D \in SUBSET CatalogIds}
TaskKinds == {"idle", "once", "scheduled", "all", "one", "warm", "batch"}
TaskStages == {"idle", "list", "prune", "fetch"}
TaskType ==
  [kind : TaskKinds, flag : BOOLEAN, background : BOOLEAN, stage : TaskStages,
   seen : SUBSET CatalogIds, todo : Seq(CatalogIds), flight : MapsTo(Listings \cup {Asked})]
IdsOf(l) == {info.id : info \in ToSet(l)} \ {BlankModel}
Touched(t) == t.seen \cup ToSet(t.todo) \cup DOMAIN t.flight

TaskSound(t, reach, lists, over) ==
  /\ t \in TaskType /\ Touched(t) \subseteq reach
  /\ \A a \in DOMAIN t.flight : t.flight[a] # Asked => IdsOf(t.flight[a]) \subseteq lists[a]
  /\ over => ~t.background
WillDrop(t) == t.stage = "prune" \/ (t.stage = "list" /\ ~t.flag)
Reachable == on \cup excused

CatalogType ==
  /\ on \in SUBSET CatalogIds /\ excused \in SUBSET CatalogIds
  /\ modelsByAccount \in MapsTo(Listings) /\ autoRefreshModelNext \in Nat
  /\ modelLists \in [CatalogIds -> SUBSET {info.id : info \in ListedInfos}]
  /\ modelsRefreshing \in BOOLEAN /\ closing \in BOOLEAN /\ joined \in BOOLEAN
TasksSound ==
  /\ tasks \in [TaskSlots -> TaskType]
  /\ \A s \in TaskSlots : TaskSound(tasks[s], Reachable, modelLists, joined)
Dropping == DOMAIN modelsByAccount \subseteq Reachable \/ \E s \in TaskSlots : WillDrop(tasks[s])
Passing ==
  /\ modelsRefreshing = (\E s \in TaskSlots : tasks[s].flag)
  /\ \A s, u \in TaskSlots : tasks[s].flag /\ tasks[u].flag => s = u
Aggregated == Aggregates(cachedModels, ListedBy(modelsByAccount))

(* The inductive invariant: what a task may touch is on or excused, so what  *)
(* it fetches is never an entry that a pass had to drop; a listing it holds  *)
(* is already in the pool's list; an entry to be dropped has a pass that     *)
(* will.                                                                     *)
CatalogInv ==
  /\ CatalogType /\ TasksSound /\ Dropping /\ Passing /\ Aggregated /\ ShownIsRouted
  /\ joined => closing

LEMMA NoEntries == ASSUME NEW V PROVE <<>> \in MapsTo(V) /\ DOMAIN <<>> = {}
<1>1. DOMAIN <<>> = {} /\ <<>> \in [{} -> V]
  OBVIOUS
<1> QED
  BY <1>1 DEF MapsTo

LEMMA MapProperties ==
  ASSUME NEW V, NEW f \in MapsTo(V)
  PROVE  /\ DOMAIN f \in SUBSET CatalogIds /\ f = [b \in DOMAIN f |-> f[b]]
         /\ \A b \in DOMAIN f : f[b] \in V
<1>1. PICK D \in SUBSET CatalogIds : f \in [D -> V]
  BY DEF MapsTo
<1> QED
  BY <1>1

LEMMA FewerEntries ==
  ASSUME NEW V, NEW f \in MapsTo(V), NEW S
  PROVE  /\ Only(f, S) \in MapsTo(V) /\ DOMAIN Only(f, S) = DOMAIN f \cap S
         /\ \A b \in DOMAIN f \cap S : Only(f, S)[b] = f[b]
         /\ DOMAIN f \subseteq S => Only(f, S) = f
<1> DEFINE D == DOMAIN f
<1>1. D \in SUBSET CatalogIds /\ f = [b \in D |-> f[b]] /\ \A b \in D : f[b] \in V
  BY MapProperties
<1> HIDE DEF D
<1>2. Only(f, S) = [b \in D \cap S |-> f[b]]
  BY DEF Only, D
<1>3. Only(f, S) \in [D \cap S -> V] /\ DOMAIN Only(f, S) = D \cap S /\ \A b \in D \cap S : Only(f, S)[b] = f[b]
  BY <1>1, <1>2
<1>4. D \cap S \in SUBSET CatalogIds
  BY <1>1
<1>5. Only(f, S) \in MapsTo(V)
  BY <1>3, <1>4 DEF MapsTo
<1>6. D \subseteq S => Only(f, S) = f
  <2>1. D \subseteq S => D \cap S = D
    OBVIOUS
  <2> QED
    BY <1>1, <1>2, <2>1
<1> QED
  BY <1>3, <1>5, <1>6 DEF D

Extends(w, f, a, v, V) ==
  /\ w \in MapsTo(V) /\ DOMAIN w = DOMAIN f \cup {a} /\ w[a] = v
  /\ \A b \in DOMAIN f \ {a} : w[b] = f[b]

LEMMA OneMoreEntry ==
  ASSUME NEW V, NEW f \in MapsTo(V), NEW a \in CatalogIds, NEW v \in V
  PROVE  Extends(WithEntry(f, a, v), f, a, v, V)
<1> DEFINE D == DOMAIN f
<1>1. D \in SUBSET CatalogIds /\ \A b \in D : f[b] \in V
  BY MapProperties
<1> HIDE DEF D
<1>2. WithEntry(f, a, v) = [b \in D \cup {a} |-> IF b = a THEN v ELSE f[b]]
  BY DEF WithEntry, D
<1>3. /\ WithEntry(f, a, v) \in [D \cup {a} -> V] /\ DOMAIN WithEntry(f, a, v) = D \cup {a}
      /\ WithEntry(f, a, v)[a] = v
      /\ \A b \in D \ {a} : WithEntry(f, a, v)[b] = f[b]
  BY <1>1, <1>2
<1>4. D \cup {a} \in SUBSET CatalogIds
  BY <1>1
<1> QED
  BY <1>3, <1>4 DEF MapsTo, D, Extends

\* A task that starts.
LEMMA TaskStarts ==
  ASSUME NEW k \in TaskKinds, NEW f \in BOOLEAN, NEW b \in BOOLEAN, NEW g \in TaskStages, NEW todo \in Seq(CatalogIds),
         NEW reach, NEW lists, NEW over, ToSet(todo) \subseteq reach, over => ~b
  PROVE  /\ TaskSound(Task(k, f, b, g, todo), reach, lists, over)
         /\ Task(k, f, b, g, todo).flag = f /\ Task(k, f, b, g, todo).stage = g
<1> DEFINE t == Task(k, f, b, g, todo)
<1>1. /\ t.kind = k /\ t.flag = f /\ t.background = b /\ t.stage = g /\ t.seen = {} /\ t.todo = todo
      /\ t.flight = <<>>
      /\ t = [kind |-> k, flag |-> f, background |-> b, stage |-> g, seen |-> {}, todo |-> todo, flight |-> <<>>]
  BY DEF Task
<1>2. <<>> \in MapsTo(Listings \cup {Asked}) /\ DOMAIN <<>> = {}
  BY NoEntries
<1> HIDE DEF t
<1>3. t \in TaskType
  BY <1>1, <1>2 DEF TaskType
<1>4. Touched(t) \subseteq reach
  BY <1>1, <1>2 DEF Touched
<1> QED
  BY <1>1, <1>2, <1>3, <1>4 DEF TaskSound, t

LEMMA Idle ==
  ASSUME NEW reach, NEW lists, NEW over
  PROVE  TaskSound(IdleTask, reach, lists, over) /\ ~IdleTask.flag /\ ~WillDrop(IdleTask)
<1>1. <<>> \in Seq(CatalogIds) /\ ToSet(<<>>) = {}
  BY DEF ToSet
<1>2. /\ TaskSound(Task("idle", FALSE, FALSE, "idle", <<>>), reach, lists, over)
      /\ Task("idle", FALSE, FALSE, "idle", <<>>).flag = FALSE
      /\ Task("idle", FALSE, FALSE, "idle", <<>>).stage = "idle"
  <2>1. "idle" \in TaskKinds /\ "idle" \in TaskStages /\ ToSet(<<>>) \subseteq reach
    BY <1>1 DEF TaskKinds, TaskStages
  <2>2. FALSE \in BOOLEAN /\ (over => ~FALSE)
    BY Zenon
  <2> QED
    BY <1>1, <2>1, <2>2, TaskStarts, Zenon
<1> QED
  BY <1>2 DEF IdleTask, WillDrop

LEMMA TaskFields ==
  ASSUME NEW t \in TaskType
  PROVE  /\ t.seen \subseteq CatalogIds /\ t.todo \in Seq(CatalogIds) /\ t.flight \in MapsTo(Listings \cup {Asked})
         /\ t.flag \in BOOLEAN /\ t.background \in BOOLEAN /\ t.kind \in TaskKinds /\ t.stage \in TaskStages
BY DEF TaskType

LEMMA TaskOutlives ==
  ASSUME NEW t, NEW r, NEW r2, NEW lists, NEW lists2, NEW over,
         TaskSound(t, r, lists, over), Touched(t) \subseteq r2,
         \A a \in CatalogIds : lists[a] \subseteq lists2[a]
  PROVE  TaskSound(t, r2, lists2, over)
<1>1. DOMAIN t.flight \subseteq CatalogIds
  <2>1. t.flight \in MapsTo(Listings \cup {Asked})
    BY TaskFields DEF TaskSound
  <2> QED
    BY <2>1, MapProperties
<1> QED
  BY <1>1 DEF TaskSound

\* What a step that changes one task has to keep.
FlagKept(s, t) ==
  \/ t.flag = tasks[s].flag /\ modelsRefreshing' = modelsRefreshing
  \/ ~tasks[s].flag /\ t.flag /\ ~modelsRefreshing /\ modelsRefreshing'
  \/ ~t.flag /\ modelsRefreshing' = (modelsRefreshing /\ ~tasks[s].flag)
DropKept(s, t) ==
  \/ WillDrop(t)
  \/ DOMAIN modelsByAccount' \subseteq Reachable'
  \/ /\ DOMAIN modelsByAccount' \subseteq DOMAIN modelsByAccount \cup Reachable' /\ Reachable \subseteq Reachable'
     /\ WillDrop(tasks[s]) => WillDrop(t)

LEMMA TaskMoves ==
  ASSUME CatalogInv, NEW s \in TaskSlots, NEW t, tasks' = [tasks EXCEPT ![s] = t],
         TaskSound(t, Reachable', modelLists', joined'),
         \A u \in TaskSlots \ {s} : Touched(tasks[u]) \subseteq Reachable',
         \A a \in CatalogIds : modelLists[a] \subseteq modelLists'[a],
         joined' = joined, FlagKept(s, t), DropKept(s, t)
  PROVE  TasksSound' /\ Passing' /\ Dropping'
<1>1. /\ tasks \in [TaskSlots -> TaskType] /\ t \in TaskType
      /\ \A u \in TaskSlots : TaskSound(tasks[u], Reachable, modelLists, joined)
  BY DEF CatalogInv, TasksSound, TaskSound
<1>2. /\ tasks' \in [TaskSlots -> TaskType] /\ tasks'[s] = t
      /\ \A u \in TaskSlots \ {s} : tasks'[u] = tasks[u]
  BY <1>1
<1>3. TasksSound'
  <2>1. \A u \in TaskSlots \ {s} : TaskSound(tasks[u], Reachable', modelLists', joined)
    BY <1>1, TaskOutlives
  <2>2. \A u \in TaskSlots : TaskSound(tasks'[u], Reachable', modelLists', joined')
    BY <1>2, <2>1
  <2> QED
    BY <1>2, <2>2 DEF TasksSound
<1>4. Passing'
  <2>1. /\ modelsRefreshing = (\E u \in TaskSlots : tasks[u].flag)
        /\ \A v, u \in TaskSlots : tasks[v].flag /\ tasks[u].flag => v = u
        /\ modelsRefreshing \in BOOLEAN
    BY DEF CatalogInv, Passing, CatalogType
  <2>2. \A u \in TaskSlots : tasks[u].flag \in BOOLEAN /\ tasks'[u].flag \in BOOLEAN
    BY <1>1, <1>2, TaskFields
  <2>3. modelsRefreshing' = (\E u \in TaskSlots : tasks'[u].flag)
    <3>1. t.flag \in BOOLEAN
      BY <1>1, TaskFields
    <3>2. (\E u \in TaskSlots : tasks'[u].flag) <=> t.flag \/ \E u \in TaskSlots \ {s} : tasks[u].flag
      BY <1>2
    <3>3. (\E u \in TaskSlots : tasks[u].flag) <=> tasks[s].flag \/ \E u \in TaskSlots \ {s} : tasks[u].flag
      OBVIOUS
    <3>4. tasks[s].flag => ~\E u \in TaskSlots \ {s} : tasks[u].flag
      BY <2>1
    <3> QED
      BY <2>1, <2>2, <3>1, <3>2, <3>3, <3>4 DEF FlagKept
  <2>4. \A v, u \in TaskSlots : tasks'[v].flag /\ tasks'[u].flag => v = u
    <3>1. t.flag => tasks[s].flag \/ ~\E u \in TaskSlots : tasks[u].flag
      BY <2>1 DEF FlagKept
    <3> QED
      BY <1>2, <2>1, <3>1
  <2> QED
    BY <2>3, <2>4 DEF Passing
<1>5. Dropping'
  <2>1. CASE WillDrop(t)
    BY <1>2, <2>1 DEF Dropping
  <2>2. CASE DOMAIN modelsByAccount' \subseteq Reachable'
    BY <2>2 DEF Dropping
  <2>3. CASE /\ DOMAIN modelsByAccount' \subseteq DOMAIN modelsByAccount \cup Reachable'
             /\ Reachable \subseteq Reachable'
             /\ WillDrop(tasks[s]) => WillDrop(t)
    <3>1. CASE DOMAIN modelsByAccount \subseteq Reachable
      BY <2>3, <3>1 DEF Dropping
    <3>2. ASSUME NEW u \in TaskSlots, WillDrop(tasks[u]) PROVE Dropping'
      <4>1. WillDrop(tasks'[u])
        BY <1>2, <2>3, <3>2
      <4> QED
        BY <4>1 DEF Dropping
    <3> QED
      BY <3>1, <3>2 DEF CatalogInv, Dropping
  <2> QED
    BY <2>1, <2>2, <2>3 DEF DropKept
<1> QED
  BY <1>3, <1>4, <1>5

\* Most steps write neither the entries nor the aggregate.
LEMMA EntriesStay ==
  ASSUME CatalogInv, UNCHANGED <<modelsByAccount, cachedModels>>,
         \A a \in CatalogIds : modelLists[a] \subseteq modelLists'[a]
  PROVE  Aggregated' /\ ShownIsRouted'
<1>1. DOMAIN modelsByAccount \subseteq CatalogIds
  BY MapProperties DEF CatalogInv, CatalogType
<1>2. Aggregated'
  BY DEF CatalogInv, Aggregated, ListedBy
<1>3. ShownIsRouted'
  BY <1>1 DEF CatalogInv, ShownIsRouted
<1> QED
  BY <1>2, <1>3

LEMMA TaskWords ==
  /\ "once" \in TaskKinds /\ "scheduled" \in TaskKinds /\ "all" \in TaskKinds /\ "one" \in TaskKinds
  /\ "warm" \in TaskKinds /\ "batch" \in TaskKinds
  /\ "list" \in TaskStages /\ "fetch" \in TaskStages /\ "prune" \in TaskStages
BY DEF TaskKinds, TaskStages

LEMMA Truths == TRUE \in BOOLEAN /\ FALSE \in BOOLEAN
BY Zenon

LEMMA StartFacts ==
  ASSUME CatalogInv, NEW s \in TaskSlots
  PROVE  /\ tasks = [tasks EXCEPT ![s] = tasks[s]]
         /\ TaskSound(tasks[s], Reachable, modelLists, joined) /\ tasks[s] \in TaskType
         /\ \A u \in TaskSlots : Touched(tasks[u]) \subseteq Reachable
         /\ tasks[s] = IdleTask => ~tasks[s].flag /\ ~WillDrop(tasks[s])
         /\ Reachable \subseteq CatalogIds /\ CatalogIds = ToSet(CatalogAccounts)
<1>1. \A u \in TaskSlots : TaskSound(tasks[u], Reachable, modelLists, joined)
  BY DEF CatalogInv, TasksSound
<1>2. tasks \in [TaskSlots -> TaskType]
  BY DEF CatalogInv, TasksSound
<1>3. \A u \in TaskSlots : Touched(tasks[u]) \subseteq Reachable
  BY <1>1 DEF TaskSound
<1>4. Reachable \subseteq CatalogIds
  BY DEF CatalogInv, CatalogType, Reachable
<1>5. tasks = [tasks EXCEPT ![s] = tasks[s]]
  BY <1>2
<1> QED
  BY <1>1, <1>2, <1>3, <1>4, <1>5, Idle DEF CatalogIds

\* A step that starts a task, or none, and writes nothing of the catalogue.
LEMMA StartKeeps ==
  ASSUME CatalogInv, CatalogType', NEW s \in TaskSlots, NEW t, tasks' = [tasks EXCEPT ![s] = t],
         UNCHANGED <<modelsByAccount, cachedModels, modelLists, closing, joined>>,
         TaskSound(t, Reachable', modelLists, joined),
         \A u \in TaskSlots \ {s} : Touched(tasks[u]) \subseteq Reachable',
         FlagKept(s, t), DropKept(s, t)
  PROVE  CatalogInv'
<1>1. \A a \in CatalogIds : modelLists[a] \subseteq modelLists'[a]
  OBVIOUS
<1>2. TasksSound' /\ Passing' /\ Dropping'
  BY <1>1, TaskMoves
<1>3. Aggregated' /\ ShownIsRouted'
  BY <1>1, EntriesStay
<1> QED
  BY <1>2, <1>3 DEF CatalogInv

LEMMA PassStarts ==
  ASSUME CatalogInv, NEW s \in TaskSlots,
         refreshModelsCacheAsyncOnce(s) \/ refreshScheduledModelCaches(s) \/ apiRefreshAllAccountsModels(s)
  PROVE  CatalogInv'
<1>1. /\ CatalogType' /\ Reachable' = Reachable
      /\ UNCHANGED <<modelsByAccount, cachedModels, modelLists, closing, joined>>
  BY DEF CatalogInv, CatalogType, Reachable, refreshModelsCacheAsyncOnce, refreshScheduledModelCaches,
         apiRefreshAllAccountsModels
<1>2. /\ tasks = [tasks EXCEPT ![s] = tasks[s]]
      /\ TaskSound(tasks[s], Reachable, modelLists, joined)
      /\ \A u \in TaskSlots : Touched(tasks[u]) \subseteq Reachable
      /\ tasks[s] = IdleTask => ~tasks[s].flag /\ ~WillDrop(tasks[s])
  BY StartFacts
<1>3. joined \in BOOLEAN /\ closing \in BOOLEAN /\ (joined => closing)
  BY DEF CatalogInv, CatalogType
<1>4. <<>> \in Seq(CatalogIds) /\ ToSet(<<>>) \subseteq Reachable
  BY DEF ToSet
<1>5. ASSUME NEW k \in TaskKinds, NEW f \in BOOLEAN, NEW b \in BOOLEAN, joined => ~b,
             tasks[s] = IdleTask, tasks' = [tasks EXCEPT ![s] = Task(k, f, b, "list", <<>>)],
             IF f THEN ~modelsRefreshing /\ modelsRefreshing' ELSE UNCHANGED modelsRefreshing
      PROVE  CatalogInv'
  <2> DEFINE t == Task(k, f, b, "list", <<>>)
  <2>1. TaskSound(t, Reachable, modelLists, joined) /\ t.flag = f
    <3>1. TaskSound(Task(k, f, b, "list", <<>>), Reachable, modelLists, joined)
      <4>1. /\ k \in TaskKinds /\ "list" \in TaskStages /\ <<>> \in Seq(CatalogIds)
            /\ ToSet(<<>>) \subseteq Reachable
        BY <1>4, TaskWords
      <4>2. f \in BOOLEAN /\ b \in BOOLEAN
        OBVIOUS
      <4>3. joined => ~b
        BY <1>5, Zenon
      <4> QED
        BY <4>1, <4>2, <4>3, TaskStarts, Zenon
    <3> QED
      BY <3>1 DEF Task
  <2> HIDE DEF t
  <2>2. ~tasks[s].flag /\ ~WillDrop(tasks[s])
    BY <1>2, <1>5
  <2>3. tasks[s].flag \in BOOLEAN
    BY StartFacts, TaskFields
  <2>4. FlagKept(s, t)
    BY <1>5, <2>1, <2>2, <2>3 DEF FlagKept
  <2>5. DropKept(s, t)
    BY <1>1, <2>2 DEF DropKept
  <2>6. tasks' = [tasks EXCEPT ![s] = t]
    BY <1>5 DEF t
  <2> QED
    BY <1>1, <1>2, <2>1, <2>4, <2>5, <2>6, StartKeeps
<1>6. CASE refreshModelsCacheAsyncOnce(s)
  <2>1. CASE closing
    <3>1. UNCHANGED tasks /\ ~modelsRefreshing /\ ~modelsRefreshing' /\ modelsRefreshing' \in BOOLEAN
      BY <1>1, <1>6, <2>1 DEF refreshModelsCacheAsyncOnce, startBackgroundTask, CatalogType
    <3>2. tasks' = [tasks EXCEPT ![s] = tasks[s]]
      BY <1>2, <3>1
    <3>3. modelsRefreshing' = modelsRefreshing
      BY <3>1 DEF CatalogInv, CatalogType
    <3>4. FlagKept(s, tasks[s]) /\ DropKept(s, tasks[s])
      BY <1>1, <3>3 DEF FlagKept, DropKept
    <3> QED
      BY <1>1, <1>2, <3>2, <3>4, StartKeeps
  <2>2. CASE ~closing
    <3>1. /\ tasks[s] = IdleTask /\ tasks' = [tasks EXCEPT ![s] = Task("once", TRUE, TRUE, "list", <<>>)]
          /\ ~modelsRefreshing /\ modelsRefreshing' /\ ~joined
      BY <1>3, <1>6, <2>2 DEF refreshModelsCacheAsyncOnce, startBackgroundTask, Start
    <3> QED
      BY <1>5, <3>1, TaskWords, Truths, Zenon
  <2> QED
    BY <2>1, <2>2
<1>7. CASE refreshScheduledModelCaches(s)
  <2>1. /\ tasks[s] = IdleTask /\ tasks' = [tasks EXCEPT ![s] = Task("scheduled", TRUE, TRUE, "list", <<>>)]
        /\ ~modelsRefreshing /\ modelsRefreshing' /\ ~joined
    BY <1>7 DEF refreshScheduledModelCaches, Start
  <2> QED
    BY <1>5, <2>1, TaskWords, Truths, Zenon
<1>8. CASE apiRefreshAllAccountsModels(s)
  <2>1. /\ tasks[s] = IdleTask /\ tasks' = [tasks EXCEPT ![s] = Task("all", FALSE, FALSE, "list", <<>>)]
        /\ UNCHANGED modelsRefreshing
    BY <1>8 DEF apiRefreshAllAccountsModels, Start
  <2> QED
    BY <1>5, <2>1, TaskWords, Truths, Zenon
<1> QED
  BY <1>6, <1>7, <1>8

LEMMA ListOfOne ==
  ASSUME NEW a \in CatalogIds
  PROVE  <<a>> \in Seq(CatalogIds) /\ ToSet(<<a>>) = {a} /\ <<>> \in Seq(CatalogIds) /\ ToSet(<<>>) = {}
BY DEF ToSet

LEMMA AccountSteps ==
  ASSUME CatalogInv, NEW s \in TaskSlots, NEW a \in CatalogIds,
         apiRefreshAccountModels(s, a) \/ ChangeAccount(s, a) \/ ChangeBatch(s, a)
  PROVE  CatalogInv'
<1>1. /\ CatalogType'
      /\ UNCHANGED <<modelsByAccount, cachedModels, modelLists, modelsRefreshing, closing, joined>>
  <2>1. on' \in SUBSET CatalogIds /\ excused' \in SUBSET CatalogIds
    BY DEF CatalogInv, CatalogType, apiRefreshAccountModels, ChangeAccount, ChangeBatch
  <2>2. UNCHANGED <<modelsByAccount, cachedModels, modelLists, modelsRefreshing, autoRefreshModelNext, closing, joined>>
    BY DEF apiRefreshAccountModels, ChangeAccount, ChangeBatch
  <2> QED
    BY <2>1, <2>2 DEF CatalogInv, CatalogType
<1>2. /\ tasks = [tasks EXCEPT ![s] = tasks[s]]
      /\ TaskSound(tasks[s], Reachable, modelLists, joined)
      /\ \A u \in TaskSlots : Touched(tasks[u]) \subseteq Reachable
      /\ tasks[s] = IdleTask => ~tasks[s].flag /\ ~WillDrop(tasks[s])
      /\ tasks[s].flag \in BOOLEAN
  BY StartFacts, TaskFields
<1>3. joined \in BOOLEAN /\ closing \in BOOLEAN /\ (joined => closing)
  BY DEF CatalogInv, CatalogType
<1>4. ASSUME NEW k \in TaskKinds, NEW b \in BOOLEAN, NEW g \in TaskStages, NEW todo \in Seq(CatalogIds),
             ToSet(todo) \subseteq Reachable', joined => ~b,
             \A u \in TaskSlots \ {s} : Touched(tasks[u]) \subseteq Reachable',
             g = "list" \/ Reachable \subseteq Reachable',
             tasks[s] = IdleTask, tasks' = [tasks EXCEPT ![s] = Task(k, FALSE, b, g, todo)]
      PROVE  CatalogInv'
  <2> DEFINE t == Task(k, FALSE, b, g, todo)
  <2>1. TaskSound(t, Reachable', modelLists, joined) /\ t.flag = FALSE /\ t.stage = g
    <3>1. TaskSound(Task(k, FALSE, b, g, todo), Reachable', modelLists, joined)
      <4>1. k \in TaskKinds /\ g \in TaskStages /\ todo \in Seq(CatalogIds) /\ ToSet(todo) \subseteq Reachable'
        BY <1>4
      <4>2. FALSE \in BOOLEAN /\ b \in BOOLEAN
        BY Zenon
      <4>3. joined => ~b
        BY <1>4, Zenon
      <4> QED
        BY <4>1, <4>2, <4>3, TaskStarts, Zenon
    <3> QED
      BY <3>1 DEF Task
  <2>2. tasks' = [tasks EXCEPT ![s] = t]
    BY <1>4
  <2> HIDE DEF t
  <2>3. FlagKept(s, t)
    BY <1>1, <1>2, <1>4, <2>1 DEF FlagKept
  <2>4. DropKept(s, t)
    BY <1>1, <1>2, <1>4, <2>1 DEF DropKept, WillDrop
  <2> QED
    BY <1>1, <1>4, <2>1, <2>2, <2>3, <2>4, StartKeeps
<1>5. ASSUME UNCHANGED tasks, Reachable \subseteq Reachable'
      PROVE  CatalogInv'
  <2>1. tasks' = [tasks EXCEPT ![s] = tasks[s]]
    BY <1>2, <1>5
  <2>2. FlagKept(s, tasks[s]) /\ DropKept(s, tasks[s])
    BY <1>1, <1>5 DEF FlagKept, DropKept
  <2>3. TaskSound(tasks[s], Reachable', modelLists, joined)
    BY <1>2, <1>5, TaskOutlives
  <2>4. \A u \in TaskSlots \ {s} : Touched(tasks[u]) \subseteq Reachable'
    BY <1>2, <1>5
  <2> QED
    BY <1>1, <2>1, <2>2, <2>3, <2>4, StartKeeps
<1>6. <<a>> \in Seq(CatalogIds) /\ ToSet(<<a>>) = {a} /\ <<>> \in Seq(CatalogIds) /\ ToSet(<<>>) = {}
  BY ListOfOne
<1>7. CASE apiRefreshAccountModels(s, a)
  <2>1. tasks[s] = IdleTask /\ tasks' = [tasks EXCEPT ![s] = Task("one", FALSE, FALSE, "fetch", <<a>>)]
    BY <1>7 DEF apiRefreshAccountModels, Start
  <2>2. Reachable \subseteq Reachable' /\ a \in Reachable'
    BY <1>7 DEF apiRefreshAccountModels, Reachable
  <2>3. \A u \in TaskSlots \ {s} : Touched(tasks[u]) \subseteq Reachable'
    BY <1>2, <2>2
  <2>4. ToSet(<<a>>) \subseteq Reachable'
    BY <1>6, <2>2
  <2> QED
    BY <1>4, <1>6, <2>1, <2>2, <2>3, <2>4, TaskWords, Truths, Zenon
<1>8. CASE ChangeAccount(s, a)
  <2>1. Reachable \subseteq Reachable' /\ (a \notin on => a \in Reachable')
    BY <1>8 DEF ChangeAccount, Reachable
  <2>2. CASE a \in on \/ closing
    <3>1. UNCHANGED tasks
      BY <1>8, <2>2 DEF ChangeAccount, startBackgroundTask
    <3> QED
      BY <1>5, <2>1, <3>1
  <2>3. CASE a \notin on /\ ~closing
    <3>1. tasks[s] = IdleTask /\ tasks' = [tasks EXCEPT ![s] = Task("warm", FALSE, TRUE, "fetch", <<a>>)]
      BY <1>8, <2>3 DEF ChangeAccount, startBackgroundTask, Start
    <3>2. \A u \in TaskSlots \ {s} : Touched(tasks[u]) \subseteq Reachable'
      BY <1>2, <2>1
    <3>3. ToSet(<<a>>) \subseteq Reachable' /\ ~joined
      BY <1>3, <1>6, <2>1, <2>3
    <3> QED
      BY <1>4, <1>6, <2>1, <3>1, <3>2, <3>3, TaskWords, Truths, Zenon
  <2> QED
    BY <2>2, <2>3
<1>9. CASE ChangeBatch(s, a)
  <2> DEFINE todo == IF a \in on THEN <<>> ELSE <<a>>
  <2>1. tasks[s] = IdleTask /\ tasks' = [tasks EXCEPT ![s] = Task("batch", FALSE, FALSE, "list", todo)]
    BY <1>9 DEF ChangeBatch, Start
  <2>2. todo \in Seq(CatalogIds) /\ ToSet(todo) \subseteq Reachable'
    BY <1>6, <1>9 DEF ChangeBatch, Reachable
  <2>3. \A u \in TaskSlots \ {s} : Touched(tasks[u]) \subseteq Reachable'
    <3>1. CASE a \in on
      <4>1. on' = on \ {a} /\ excused' = IF Reaches(a) THEN excused \cup {a} ELSE excused
        BY <1>9, <3>1 DEF ChangeBatch
      <4>2. CASE Reaches(a)
        BY <1>2, <4>1, <4>2 DEF Reachable
      <4>3. CASE ~Reaches(a)
        <5>1. \A u \in TaskSlots : a \notin Touched(tasks[u])
          BY <4>3 DEF Reaches, Touched
        <5> QED
          BY <1>2, <4>1, <4>3, <5>1 DEF Reachable
      <4> QED
        BY <4>2, <4>3
    <3>2. CASE a \notin on
      BY <1>2, <1>9, <3>2 DEF ChangeBatch, Reachable
    <3> QED
      BY <3>1, <3>2
  <2> HIDE DEF todo
  <2> QED
    BY <1>4, <2>1, <2>2, <2>3, TaskWords, Truths, Zenon
<1> QED
  BY <1>7, <1>8, <1>9

LEMMA EndsTask ==
  ASSUME CatalogInv, CatalogType', NEW s \in TaskSlots, EndTask(s), ~WillDrop(tasks[s]),
         UNCHANGED <<on, excused, modelsByAccount, cachedModels, modelLists, closing, joined>>
  PROVE  CatalogInv'
<1>1. tasks' = [tasks EXCEPT ![s] = IdleTask] /\ modelsRefreshing' = (modelsRefreshing /\ ~tasks[s].flag)
  BY DEF EndTask
<1>2. Reachable' = Reachable
  BY DEF Reachable
<1>3. TaskSound(IdleTask, Reachable, modelLists, joined) /\ ~IdleTask.flag
  BY Idle
<1>4. FlagKept(s, IdleTask)
  BY <1>1, <1>3, Zenon DEF FlagKept
<1>5. DropKept(s, IdleTask)
  BY <1>2 DEF DropKept
<1>6. \A u \in TaskSlots \ {s} : Touched(tasks[u]) \subseteq Reachable
  BY StartFacts
<1> QED
  BY <1>1, <1>2, <1>3, <1>4, <1>5, <1>6, StartKeeps

\* A step of a task that goes on, with nothing written to the catalogue.
LEMMA GoesOn ==
  ASSUME CatalogInv, CatalogType', NEW s \in TaskSlots, NEW t \in TaskType, tasks' = [tasks EXCEPT ![s] = t],
         UNCHANGED <<on, excused, modelsByAccount, cachedModels, modelsRefreshing, closing, joined>>,
         \A a \in CatalogIds : modelLists[a] \subseteq modelLists'[a],
         t.flag = tasks[s].flag, t.background = tasks[s].background,
         WillDrop(tasks[s]) => WillDrop(t),
         Touched(t) \subseteq Reachable,
         \A a \in DOMAIN t.flight : t.flight[a] # Asked => IdsOf(t.flight[a]) \subseteq modelLists'[a]
  PROVE  CatalogInv'
<1>1. Reachable' = Reachable
  BY DEF Reachable
<1>2. TaskSound(tasks[s], Reachable, modelLists, joined) /\ \A u \in TaskSlots : Touched(tasks[u]) \subseteq Reachable
  BY StartFacts
<1>3. joined' => ~t.background
  BY <1>2, Zenon DEF TaskSound
<1>4. TaskSound(t, Reachable', modelLists', joined')
  BY <1>1, <1>3 DEF TaskSound
<1>5. FlagKept(s, t)
  BY DEF FlagKept
<1>6. DropKept(s, t)
  BY <1>1 DEF DropKept
<1>7. TasksSound' /\ Passing' /\ Dropping'
  BY <1>1, <1>2, <1>4, <1>5, <1>6, TaskMoves
<1>8. Aggregated' /\ ShownIsRouted'
  BY EntriesStay
<1> QED
  BY <1>7, <1>8 DEF CatalogInv

LEMMA ReadEnabledKeeps ==
  ASSUME CatalogInv, NEW s \in TaskSlots, ReadEnabled(s)
  PROVE  CatalogInv'
<1>1. tasks[s] \in TaskType /\ TaskSound(tasks[s], Reachable, modelLists, joined) /\ tasks[s].flag \in BOOLEAN
  BY StartFacts, TaskFields
<1>2. /\ UNCHANGED <<on, modelsByAccount, cachedModels, modelLists, autoRefreshModelNext, closing, joined, excused>>
      /\ tasks[s].stage = "list"
  BY DEF ReadEnabled
<1>3. CASE on = {} /\ tasks[s].flag
  <2>1. EndTask(s)
    BY <1>3 DEF ReadEnabled
  <2>2. ~WillDrop(tasks[s])
    BY <1>2, <1>3 DEF WillDrop
  <2>3. CatalogType'
    <3>1. modelsRefreshing' \in BOOLEAN
      BY <2>1 DEF EndTask
    <3> QED
      BY <1>2, <3>1 DEF CatalogInv, CatalogType
  <2> QED
    BY <1>2, <2>1, <2>2, <2>3, EndsTask
<1>4. CASE ~(on = {} /\ tasks[s].flag)
  <2> DEFINE t == [tasks[s] EXCEPT !.stage = "prune", !.seen = on]
  <2>1. tasks' = [tasks EXCEPT ![s].stage = "prune", ![s].seen = on] /\ UNCHANGED modelsRefreshing
    BY <1>4 DEF ReadEnabled
  <2>2. tasks' = [tasks EXCEPT ![s] = t]
    BY <2>1
  <2>3. CatalogType' /\ on \in SUBSET CatalogIds
    BY <1>2, <2>1 DEF CatalogInv, CatalogType
  <2>4. t \in TaskType
    BY <1>1, <2>3, TaskWords DEF TaskType
  <2>5. /\ t.flag = tasks[s].flag /\ t.background = tasks[s].background /\ t.stage = "prune" /\ t.seen = on
        /\ t.todo = tasks[s].todo /\ t.flight = tasks[s].flight
    BY <1>1 DEF TaskType
  <2> HIDE DEF t
  <2>6. WillDrop(t)
    BY <2>5 DEF WillDrop
  <2>7. Touched(t) \subseteq Reachable
    BY <1>1, <2>5 DEF Touched, TaskSound, Reachable
  <2>8. \A a \in DOMAIN t.flight : t.flight[a] # Asked => IdsOf(t.flight[a]) \subseteq modelLists'[a]
    BY <1>1, <1>2, <2>5 DEF TaskSound
  <2>9. \A a \in CatalogIds : modelLists[a] \subseteq modelLists'[a]
    BY <1>2
  <2> QED
    BY <1>2, <2>1, <2>2, <2>3, <2>4, <2>5, <2>6, <2>7, <2>8, <2>9, GoesOn
<1> QED
  BY <1>3, <1>4

LEMMA QueueMembers ==
  ASSUME NEW q \in Seq(CatalogIds), q # <<>>
  PROVE  /\ Head(q) \in ToSet(q) /\ Head(q) \in CatalogIds
         /\ Tail(q) \in Seq(CatalogIds) /\ ToSet(Tail(q)) \subseteq ToSet(q)
<1>1. /\ Len(q) \in Nat /\ Len(q) > 0 /\ DOMAIN q = 1 .. Len(q) /\ \A i \in 1 .. Len(q) : q[i] \in CatalogIds
  BY LenProperties, ElementOfSeq, EmptySeq
<1>2. /\ Head(q) = q[1] /\ Tail(q) \in Seq(CatalogIds) /\ Len(Tail(q)) = Len(q) - 1
      /\ \A i \in 1 .. Len(Tail(q)) : Tail(q)[i] = q[i + 1]
  BY HeadTailProperties
<1>3. DOMAIN Tail(q) = 1 .. Len(Tail(q))
  BY <1>2, LenProperties
<1>4. 1 \in DOMAIN q
  BY <1>1
<1>5. \A i \in 1 .. Len(Tail(q)) : i + 1 \in DOMAIN q
  BY <1>1, <1>2
<1> QED
  BY <1>1, <1>2, <1>3, <1>4, <1>5 DEF ToSet

LEMMA FetchSteps ==
  ASSUME CatalogInv, NEW s \in TaskSlots,
         TakeJob(s) \/ DropJobs(s) \/ FinishTask(s) \/ \E a \in CatalogIds : FetchFails(s, a)
  PROVE  CatalogInv'
<1>1. tasks[s] \in TaskType /\ TaskSound(tasks[s], Reachable, modelLists, joined)
  BY StartFacts
<1>2. /\ tasks[s].todo \in Seq(CatalogIds) /\ tasks[s].flight \in MapsTo(Listings \cup {Asked})
      /\ ToSet(tasks[s].todo) \subseteq Reachable /\ DOMAIN tasks[s].flight \subseteq Reachable
      /\ tasks[s].seen \subseteq Reachable
      /\ \A a \in DOMAIN tasks[s].flight :
           tasks[s].flight[a] # Asked => IdsOf(tasks[s].flight[a]) \subseteq modelLists[a]
  BY <1>1, TaskFields DEF TaskSound, Touched
<1>3. ASSUME NEW todo \in Seq(CatalogIds), NEW flight \in MapsTo(Listings \cup {Asked}),
             ToSet(todo) \subseteq Reachable, DOMAIN flight \subseteq Reachable,
             \A a \in DOMAIN flight : flight[a] # Asked => IdsOf(flight[a]) \subseteq modelLists[a],
             tasks' = [tasks EXCEPT ![s] = [tasks[s] EXCEPT !.todo = todo, !.flight = flight]],
             UNCHANGED <<on, modelsByAccount, cachedModels, modelLists, modelsRefreshing, autoRefreshModelNext,
                         closing, joined, excused>>
      PROVE  CatalogInv'
  <2> DEFINE t == [tasks[s] EXCEPT !.todo = todo, !.flight = flight]
  <2>1. tasks' = [tasks EXCEPT ![s] = t]
    BY <1>3
  <2>2. t \in TaskType
    BY <1>1 DEF TaskType
  <2>3. /\ t.flag = tasks[s].flag /\ t.background = tasks[s].background /\ t.stage = tasks[s].stage
        /\ t.seen = tasks[s].seen /\ t.todo = todo /\ t.flight = flight
    BY <1>1 DEF TaskType
  <2> HIDE DEF t
  <2>4. WillDrop(tasks[s]) => WillDrop(t)
    BY <2>3 DEF WillDrop
  <2>5. Touched(t) \subseteq Reachable
    BY <1>2, <1>3, <2>3 DEF Touched
  <2>6. \A a \in DOMAIN t.flight : t.flight[a] # Asked => IdsOf(t.flight[a]) \subseteq modelLists'[a]
    BY <1>3, <2>3
  <2>7. CatalogType' /\ \A a \in CatalogIds : modelLists[a] \subseteq modelLists'[a]
    BY <1>3 DEF CatalogInv, CatalogType
  <2> QED
    BY <1>3, <2>1, <2>2, <2>3, <2>4, <2>5, <2>6, <2>7, GoesOn
<1>4. CASE TakeJob(s)
  <2> DEFINE a == Head(tasks[s].todo)
             todo == Tail(tasks[s].todo)
             flight == WithEntry(tasks[s].flight, a, Asked)
  <2>1. /\ tasks[s].todo # <<>>
        /\ tasks' = [tasks EXCEPT ![s].todo = Tail(@), ![s].flight = WithEntry(@, Head(tasks[s].todo), Asked)]
        /\ UNCHANGED <<on, modelsByAccount, cachedModels, modelLists, modelsRefreshing, autoRefreshModelNext,
                       closing, joined, excused>>
    BY <1>4 DEF TakeJob
  <2>2. a \in ToSet(tasks[s].todo) /\ a \in CatalogIds /\ todo \in Seq(CatalogIds)
        /\ ToSet(todo) \subseteq ToSet(tasks[s].todo)
    BY <1>2, <2>1, QueueMembers
  <2>3. tasks' = [tasks EXCEPT ![s] = [tasks[s] EXCEPT !.todo = todo, !.flight = flight]]
    BY <1>1, <2>1 DEF TaskType
  <2>4. /\ flight \in MapsTo(Listings \cup {Asked}) /\ DOMAIN flight = DOMAIN tasks[s].flight \cup {a}
        /\ flight[a] = Asked /\ \A b \in DOMAIN tasks[s].flight \ {a} : flight[b] = tasks[s].flight[b]
    <3> DEFINE f == tasks[s].flight
               V == Listings \cup {Asked}
    <3>1. Asked \in V /\ f \in MapsTo(V) /\ a \in CatalogIds
      BY <1>2, <2>2
    <3>2. flight = WithEntry(f, a, Asked)
      OBVIOUS
    <3> HIDE DEF a, f, V, flight
    <3>3. Extends(flight, f, a, Asked, V)
      BY <3>1, <3>2, OneMoreEntry
    <3> QED
      BY <3>3 DEF f, V, Extends
  <2> HIDE DEF a, todo, flight
  <2>5. ToSet(todo) \subseteq Reachable /\ DOMAIN flight \subseteq Reachable
    BY <1>2, <2>2, <2>4
  <2>6. \A b \in DOMAIN flight : flight[b] # Asked => IdsOf(flight[b]) \subseteq modelLists[b]
    BY <1>2, <2>4
  <2> QED
    BY <1>3, <2>1, <2>2, <2>3, <2>4, <2>5, <2>6
<1>5. CASE DropJobs(s)
  <2>1. /\ tasks' = [tasks EXCEPT ![s].todo = <<>>]
        /\ UNCHANGED <<on, modelsByAccount, cachedModels, modelLists, modelsRefreshing, autoRefreshModelNext,
                       closing, joined, excused>>
    BY <1>5 DEF DropJobs
  <2>2. tasks' = [tasks EXCEPT ![s] = [tasks[s] EXCEPT !.todo = <<>>, !.flight = tasks[s].flight]]
    BY <1>1, <2>1 DEF TaskType
  <2>3. <<>> \in Seq(CatalogIds) /\ ToSet(<<>>) \subseteq Reachable
    BY DEF ToSet
  <2> QED
    BY <1>2, <1>3, <2>1, <2>2, <2>3
<1>6. ASSUME NEW a \in CatalogIds, FetchFails(s, a) PROVE CatalogInv'
  <2> DEFINE flight == Only(tasks[s].flight, DOMAIN tasks[s].flight \ {a})
  <2>1. /\ tasks' = [tasks EXCEPT ![s].flight = Only(@, DOMAIN @ \ {a})]
        /\ UNCHANGED <<on, modelsByAccount, cachedModels, modelLists, modelsRefreshing, autoRefreshModelNext,
                       closing, joined, excused>>
    BY <1>6 DEF FetchFails
  <2>2. tasks' = [tasks EXCEPT ![s] = [tasks[s] EXCEPT !.todo = tasks[s].todo, !.flight = flight]]
    BY <1>1, <2>1 DEF TaskType
  <2>3. /\ flight \in MapsTo(Listings \cup {Asked}) /\ DOMAIN flight \subseteq DOMAIN tasks[s].flight
        /\ \A b \in DOMAIN flight : flight[b] = tasks[s].flight[b]
    <3> DEFINE f == tasks[s].flight
               V == Listings \cup {Asked}
               S == DOMAIN f \ {a}
    <3>1. f \in MapsTo(V) /\ flight = Only(f, S) /\ S \subseteq DOMAIN f
      BY <1>2
    <3> HIDE DEF f, V, S, flight
    <3>2. /\ flight \in MapsTo(V) /\ DOMAIN flight = DOMAIN f \cap S
          /\ \A b \in DOMAIN f \cap S : flight[b] = f[b]
      BY <3>1, FewerEntries
    <3>3. DOMAIN flight \subseteq DOMAIN f /\ \A b \in DOMAIN flight : flight[b] = f[b]
      BY <3>2
    <3> QED
      BY <3>2, <3>3 DEF f, V
  <2> HIDE DEF flight
  <2>4. DOMAIN flight \subseteq Reachable
    BY <1>2, <2>3
  <2>5. \A b \in DOMAIN flight : flight[b] # Asked => IdsOf(flight[b]) \subseteq modelLists[b]
    BY <1>2, <2>3
  <2> QED
    BY <1>2, <1>3, <2>1, <2>2, <2>3, <2>4, <2>5
<1>7. CASE FinishTask(s)
  <2>1. /\ EndTask(s) /\ tasks[s].stage = "fetch"
        /\ UNCHANGED <<on, modelsByAccount, cachedModels, modelLists, autoRefreshModelNext, closing, joined, excused>>
    BY <1>7 DEF FinishTask
  <2>2. ~WillDrop(tasks[s])
    BY <2>1 DEF WillDrop
  <2>3. CatalogType'
    <3>1. modelsRefreshing' \in BOOLEAN
      BY <2>1 DEF EndTask
    <3> QED
      BY <2>1, <3>1 DEF CatalogInv, CatalogType
  <2> QED
    BY <2>1, <2>2, <2>3, EndsTask
<1> QED
  BY <1>4, <1>5, <1>6, <1>7

LEMMA ListingCameKeeps ==
  ASSUME CatalogInv, NEW s \in TaskSlots, NEW a \in CatalogIds, NEW l \in Listings, ListingCame(s, a, l)
  PROVE  CatalogInv'
<1> DEFINE f == tasks[s].flight
           V == Listings \cup {Asked}
           flight == WithEntry(f, a, l)
           t == [tasks[s] EXCEPT !.flight = flight]
<1>1. tasks[s] \in TaskType /\ TaskSound(tasks[s], Reachable, modelLists, joined)
  BY StartFacts
<1>2. /\ a \in DOMAIN f
      /\ modelLists' = [modelLists EXCEPT ![a] = @ \cup IdsOf(l)]
      /\ tasks' = [tasks EXCEPT ![s] = t]
      /\ UNCHANGED <<on, modelsByAccount, cachedModels, modelsRefreshing, autoRefreshModelNext,
                     closing, joined, excused>>
  BY DEF ListingCame, SetModelList, IdsOf
<1>3. f \in MapsTo(V) /\ l \in V
  BY <1>1, TaskFields
<1>4. modelLists \in [CatalogIds -> SUBSET {info.id : info \in ListedInfos}]
  BY DEF CatalogInv, CatalogType
<1>5. IdsOf(l) \subseteq {info.id : info \in ListedInfos}
  BY DEF IdsOf, ListedInfos
<1>6. /\ modelLists' \in [CatalogIds -> SUBSET {info.id : info \in ListedInfos}]
      /\ IdsOf(l) \subseteq modelLists'[a] /\ \A b \in CatalogIds : modelLists[b] \subseteq modelLists'[b]
  BY <1>2, <1>4, <1>5
<1>7. CatalogType'
  BY <1>2, <1>6 DEF CatalogInv, CatalogType
<1>8. Extends(flight, f, a, l, V)
  <2> HIDE DEF V, f
  <2> QED
    BY <1>3, OneMoreEntry
<1> HIDE DEF flight
<1>9. t \in TaskType
  BY <1>1, <1>8 DEF TaskType, Extends
<1>10. /\ t.flag = tasks[s].flag /\ t.background = tasks[s].background /\ t.stage = tasks[s].stage
       /\ t.seen = tasks[s].seen /\ t.todo = tasks[s].todo /\ t.flight = flight
  BY <1>1 DEF TaskType
<1> HIDE DEF t
<1>11. WillDrop(tasks[s]) => WillDrop(t)
  BY <1>10 DEF WillDrop
<1>12. Touched(t) \subseteq Reachable
  BY <1>1, <1>2, <1>8, <1>10 DEF Touched, TaskSound, Extends
<1>13. \A b \in DOMAIN t.flight : t.flight[b] # Asked => IdsOf(t.flight[b]) \subseteq modelLists'[b]
  <2>1. DOMAIN f \in SUBSET CatalogIds
    BY <1>3, MapProperties
  <2>2. \A b \in DOMAIN f : f[b] # Asked => IdsOf(f[b]) \subseteq modelLists[b]
    BY <1>1 DEF TaskSound
  <2> QED
    BY <1>2, <1>6, <1>8, <1>10, <2>1, <2>2 DEF Extends
<1> QED
  BY <1>2, <1>6, <1>7, <1>9, <1>10, <1>11, <1>12, <1>13, GoesOn

\* A rebuilt aggregate says what the entries say.
LEMMA Rebuilt ==
  ASSUME modelsByAccount' \in MapsTo(Listings), cachedModels' = rebuildCachedModelsLocked(modelsByAccount')
  PROVE  Aggregated'
<1>1. \A a \in DOMAIN modelsByAccount' : modelsByAccount'[a] \in Seq(InfoType)
  BY MapProperties, ListingTyped
<1>2. Aggregates(rebuildCachedModelsLocked(modelsByAccount'), ListedBy(modelsByAccount'))
  BY <1>1, RebuildAggregates
<1>3. ListedBy(modelsByAccount)' = ListedBy(modelsByAccount')
  BY DEF ListedBy
<1> QED
  BY <1>2, <1>3 DEF Aggregated

LEMMA FetchKeeps ==
  ASSUME CatalogInv, NEW s \in TaskSlots, NEW a \in CatalogIds, fetchAndCacheAccountModels(s, a)
  PROVE  CatalogInv'
<1> DEFINE f == tasks[s].flight
           V == Listings \cup {Asked}
           flight == Only(f, DOMAIN f \ {a})
           t == [tasks[s] EXCEPT !.flight = flight]
           m == WithEntry(modelsByAccount, a, f[a])
<1>1. tasks[s] \in TaskType /\ TaskSound(tasks[s], Reachable, modelLists, joined)
      /\ \A u \in TaskSlots : Touched(tasks[u]) \subseteq Reachable
  BY StartFacts
<1>2. /\ a \in DOMAIN f /\ f[a] # Asked /\ modelsByAccount' = m
      /\ cachedModels' = rebuildCachedModelsLocked(modelsByAccount')
      /\ tasks' = [tasks EXCEPT ![s] = t]
      /\ UNCHANGED <<on, modelLists, modelsRefreshing, autoRefreshModelNext, closing, joined, excused>>
  BY DEF fetchAndCacheAccountModels
<1>3. f \in MapsTo(V) /\ modelsByAccount \in MapsTo(Listings)
  BY <1>1, TaskFields DEF CatalogInv, CatalogType
<1>4. f[a] \in Listings
  <2>1. f[a] \in V
    <3> HIDE DEF f, V
    <3> QED
      BY <1>2, <1>3, MapProperties
  <2> QED
    BY <1>2, <2>1
<1>5. Extends(m, modelsByAccount, a, f[a], Listings)
  <2> HIDE DEF f
  <2> QED
    BY <1>3, <1>4, OneMoreEntry
<1>6. flight \in MapsTo(V) /\ DOMAIN flight \subseteq DOMAIN f /\ \A b \in DOMAIN flight : flight[b] = f[b]
  <2> DEFINE S == DOMAIN f \ {a}
  <2>1. flight = Only(f, S) /\ S \subseteq DOMAIN f
    OBVIOUS
  <2> HIDE DEF f, V, S, flight
  <2>2. flight \in MapsTo(V) /\ DOMAIN flight = DOMAIN f \cap S /\ \A b \in DOMAIN f \cap S : flight[b] = f[b]
    BY <1>3, <2>1, FewerEntries
  <2> QED
    BY <2>2
<1> HIDE DEF flight, m
<1>7. t \in TaskType
  BY <1>1, <1>6 DEF TaskType
<1>8. /\ t.flag = tasks[s].flag /\ t.background = tasks[s].background /\ t.stage = tasks[s].stage
      /\ t.seen = tasks[s].seen /\ t.todo = tasks[s].todo /\ t.flight = flight
  BY <1>1 DEF TaskType
<1> HIDE DEF t
<1>9. Reachable' = Reachable
  BY <1>2 DEF Reachable
<1>10. TaskSound(t, Reachable', modelLists', joined')
  <2>1. Touched(t) \subseteq Reachable
    BY <1>1, <1>6, <1>8 DEF Touched, TaskSound
  <2>2. \A b \in DOMAIN t.flight : t.flight[b] # Asked => IdsOf(t.flight[b]) \subseteq modelLists[b]
    BY <1>1, <1>6, <1>8 DEF TaskSound
  <2>3. joined => ~t.background
    BY <1>1, <1>8, Zenon DEF TaskSound
  <2> QED
    BY <1>2, <1>7, <1>9, <2>1, <2>2, <2>3 DEF TaskSound
<1>11. FlagKept(s, t)
  BY <1>2, <1>8 DEF FlagKept
<1>12. DropKept(s, t)
  <2>1. a \in Reachable
    BY <1>1, <1>2 DEF Touched
  <2>2. DOMAIN modelsByAccount' \subseteq DOMAIN modelsByAccount \cup Reachable'
    BY <1>2, <1>5, <1>9, <2>1 DEF Extends
  <2>3. WillDrop(tasks[s]) => WillDrop(t)
    BY <1>8 DEF WillDrop
  <2> QED
    BY <1>9, <2>2, <2>3 DEF DropKept
<1>13. TasksSound' /\ Passing' /\ Dropping'
  BY <1>1, <1>2, <1>9, <1>10, <1>11, <1>12, TaskMoves
<1>14. modelsByAccount' \in MapsTo(Listings)
  BY <1>2, <1>5 DEF Extends
<1>15. Aggregated'
  BY <1>2, <1>14, Rebuilt
<1>16. ShownIsRouted'
  <2>1. IdsOf(f[a]) \subseteq modelLists[a]
    BY <1>1, <1>2 DEF TaskSound
  <2>2. \A b \in DOMAIN modelsByAccount : IdsOf(modelsByAccount[b]) \subseteq modelLists[b]
    BY DEF CatalogInv, ShownIsRouted, IdsOf
  <2>3. \A b \in DOMAIN modelsByAccount' : IdsOf(modelsByAccount'[b]) \subseteq modelLists'[b]
    BY <1>2, <1>5, <2>1, <2>2 DEF Extends
  <2> QED
    BY <2>3 DEF ShownIsRouted, IdsOf
<1>17. CatalogType'
  BY <1>2, <1>14 DEF CatalogInv, CatalogType
<1> QED
  BY <1>2, <1>13, <1>15, <1>16, <1>17 DEF CatalogInv

\* Where a scheduled pass goes on.
LEMMA CountOf ==
  ASSUME NEW S \in SUBSET CatalogIds
  PROVE  Cardinality(S) \in Nat
<1>1. CatalogAccounts \in Seq(CatalogIds)
  BY CatalogAssumption DEF CatalogAssumption
<1>2. /\ Len(CatalogAccounts) \in Nat /\ DOMAIN CatalogAccounts = 1 .. Len(CatalogAccounts)
      /\ CatalogAccounts \in [1 .. Len(CatalogAccounts) -> CatalogIds]
  BY <1>1, LenProperties
<1>3. CatalogAccounts \in Surjection(1 .. Len(CatalogAccounts), CatalogIds)
  BY <1>2 DEF Surjection, CatalogIds, ToSet
<1>4. IsFiniteSet(1 .. Len(CatalogAccounts))
  BY <1>2, FS_Interval
<1>5. IsFiniteSet(CatalogIds)
  BY <1>3, <1>4, FS_Surjection
<1> QED
  BY <1>5, FS_Subset, FS_CardinalityType

LEMMA SmallerOfTwo ==
  ASSUME NEW a \in Nat, NEW b \in Nat
  PROVE  Min({a, b}) \in Nat /\ Min({a, b}) <= a /\ Min({a, b}) <= b
<1>1. \E x \in {a, b} : \A y \in {a, b} : x =< y
  OBVIOUS
<1>2. Min({a, b}) \in {a, b} /\ \A y \in {a, b} : Min({a, b}) =< y
  BY <1>1 DEF Min
<1> QED
  BY <1>2

LEMMA CursorStays ==
  ASSUME NEW c \in Nat, NEW m \in Nat, NEW n \in Nat, n > 0
  PROVE  ((c % n) + Min({m, n})) % n \in Nat
<1>1. Min({m, n}) \in Nat /\ c % n \in Nat
  BY SmallerOfTwo
<1> QED
  BY <1>1

LEMMA SelectedMembers ==
  ASSUME CatalogInv, NEW task \in TaskType, NEW cooling
  PROVE  /\ Selected(task, cooling) \in Seq(CatalogIds)
         /\ ToSet(Selected(task, cooling)) \subseteq task.seen \cup ToSet(task.todo)
<1>1. task.seen \subseteq CatalogIds /\ task.todo \in Seq(CatalogIds)
  BY TaskFields
<1>2. CASE task.kind = "scheduled"
  <2> DEFINE q == InOrder(task.seen \ cooling)
             n == Len(q)
             m == Min({MaxModelsPerRun, n})
             g == [i \in 1 .. m |-> q[1 + ((autoRefreshModelNext + i - 1) % n)]]
  <2>1. Selected(task, cooling) = g
    BY <1>2 DEF Selected, nextModelRefreshAccounts
  <2>2. n \in Nat /\ \A k \in 1 .. n : q[k] \in CatalogIds \cap (task.seen \ cooling)
    BY OrderTyped
  <2>3. MaxModelsPerRun \in Nat /\ autoRefreshModelNext \in Nat
    BY CatalogAssumption DEF CatalogAssumption, CatalogInv, CatalogType
  <2>4. m \in Nat /\ m <= n
    BY <2>2, <2>3, SmallerOfTwo
  <2> HIDE DEF q, n, m
  <2>5. \A i \in 1 .. m : 1 + ((autoRefreshModelNext + i - 1) % n) \in 1 .. n
    BY <2>2, <2>3, <2>4
  <2>6. \A i \in 1 .. m : g[i] \in task.seen /\ g[i] \in CatalogIds
    BY <2>2, <2>5
  <2>7. g \in [1 .. m -> CatalogIds]
    BY <2>6
  <2>8. g \in Seq(CatalogIds)
    BY <2>4, <2>7, SeqDef
  <2>9. ToSet(g) \subseteq task.seen
    BY <2>6, <2>7 DEF ToSet
  <2> HIDE DEF g
  <2> QED
    BY <2>1, <2>8, <2>9
<1>3. CASE task.kind = "batch"
  <2>1. Selected(task, cooling) = IF closing THEN <<>> ELSE task.todo
    BY <1>3 DEF Selected
  <2>2. <<>> \in Seq(CatalogIds) /\ ToSet(<<>>) = {}
    BY DEF ToSet
  <2> QED
    BY <1>1, <2>1, <2>2
<1>4. CASE task.kind # "scheduled" /\ task.kind # "batch"
  <2>1. Selected(task, cooling) = InOrder(task.seen)
    BY <1>4 DEF Selected
  <2> QED
    BY <2>1, OrderTyped
<1> QED
  BY <1>2, <1>3, <1>4

LEMMA PruneKeeps ==
  ASSUME CatalogInv, NEW s \in TaskSlots, NEW cooling, Prune(s, cooling)
  PROVE  CatalogInv'
<1> DEFINE task == tasks[s]
           todo == Selected(task, cooling)
           n == Cardinality(task.seen \ cooling)
           m == Only(modelsByAccount, task.seen)
<1>1. /\ task \in TaskType /\ TaskSound(task, Reachable, modelLists, joined)
      /\ \A u \in TaskSlots : Touched(tasks[u]) \subseteq Reachable
  BY StartFacts
<1>2. /\ modelsByAccount' = m
      /\ cachedModels' = IF DOMAIN modelsByAccount \subseteq task.seen THEN cachedModels
                         ELSE rebuildCachedModelsLocked(modelsByAccount')
      /\ autoRefreshModelNext' = IF task.kind = "scheduled" /\ n > 0
                                 THEN ((autoRefreshModelNext % n) + Min({MaxModelsPerRun, n})) % n
                                 ELSE autoRefreshModelNext
      /\ UNCHANGED <<on, modelLists, closing, joined, excused>>
  BY DEF Prune, pruneModelsByAccount
<1>3. IF todo = <<>> THEN EndTask(s)
      ELSE /\ tasks' = [tasks EXCEPT ![s] =
                           Task(task.kind, task.flag, task.background \/ task.kind = "batch", "fetch", todo)]
           /\ UNCHANGED modelsRefreshing
  BY DEF Prune
<1>4. todo \in Seq(CatalogIds) /\ ToSet(todo) \subseteq task.seen \cup ToSet(task.todo)
  BY <1>1, SelectedMembers
<1>5. /\ task.seen \subseteq CatalogIds /\ task.kind \in TaskKinds /\ task.flag \in BOOLEAN /\ task.background \in BOOLEAN
  BY <1>1, TaskFields
<1>6. task.seen \subseteq Reachable /\ ToSet(todo) \subseteq Reachable
  BY <1>1, <1>4 DEF TaskSound, Touched
<1>7. Reachable' = Reachable
  BY <1>2 DEF Reachable
<1>8. modelsByAccount \in MapsTo(Listings)
  BY DEF CatalogInv, CatalogType
<1>a. todo # <<>> /\ task.kind = "batch" => ~closing
  BY DEF Selected
<1>9. /\ m \in MapsTo(Listings) /\ DOMAIN m = DOMAIN modelsByAccount \cap task.seen
      /\ \A b \in DOMAIN modelsByAccount \cap task.seen : m[b] = modelsByAccount[b]
      /\ DOMAIN modelsByAccount \subseteq task.seen => m = modelsByAccount
  <2> DEFINE S == task.seen
  <2> HIDE DEF S
  <2>1. /\ Only(modelsByAccount, S) \in MapsTo(Listings)
        /\ DOMAIN Only(modelsByAccount, S) = DOMAIN modelsByAccount \cap S
        /\ \A b \in DOMAIN modelsByAccount \cap S : Only(modelsByAccount, S)[b] = modelsByAccount[b]
        /\ DOMAIN modelsByAccount \subseteq S => Only(modelsByAccount, S) = modelsByAccount
    BY <1>8, FewerEntries
  <2> QED
    BY <2>1 DEF S
<1> HIDE DEF m, n, todo, task
<1>10. CatalogType'
  <2>1. autoRefreshModelNext' \in Nat
    <3>1. autoRefreshModelNext \in Nat /\ MaxModelsPerRun \in Nat
      BY CatalogAssumption DEF CatalogAssumption, CatalogInv, CatalogType
    <3>2. n \in Nat
      BY <1>5, CountOf DEF n
    <3> QED
      BY <1>2, <3>1, <3>2, CursorStays
  <2>2. modelsRefreshing' \in BOOLEAN
    <3>1. modelsRefreshing \in BOOLEAN
      BY DEF CatalogInv, CatalogType
    <3> QED
      BY <1>3, <3>1 DEF EndTask
  <2> QED
    BY <1>2, <1>9, <2>1, <2>2 DEF CatalogInv, CatalogType
<1>11. DOMAIN modelsByAccount' \subseteq Reachable'
  BY <1>2, <1>6, <1>7, <1>9
<1>12. TasksSound' /\ Passing' /\ Dropping'
  <2>1. /\ \A u \in TaskSlots \ {s} : Touched(tasks[u]) \subseteq Reachable'
        /\ \A a \in CatalogIds : modelLists[a] \subseteq modelLists'[a]
        /\ joined' = joined
    BY <1>1, <1>2, <1>7
  <2>2. \A t : DropKept(s, t)
    BY <1>11 DEF DropKept
  <2>3. CASE todo = <<>>
    <3>1. tasks' = [tasks EXCEPT ![s] = IdleTask] /\ modelsRefreshing' = (modelsRefreshing /\ ~tasks[s].flag)
      BY <1>3, <2>3 DEF EndTask
    <3>2. TaskSound(IdleTask, Reachable', modelLists', joined') /\ ~IdleTask.flag
      BY Idle
    <3>3. FlagKept(s, IdleTask)
      BY <3>1, <3>2, Zenon DEF FlagKept
    <3> QED
      BY <2>1, <2>2, <3>1, <3>2, <3>3, TaskMoves
  <2>4. CASE todo # <<>>
    <3> DEFINE b == task.background \/ task.kind = "batch"
               t == Task(task.kind, task.flag, b, "fetch", todo)
    <3>1. tasks' = [tasks EXCEPT ![s] = t] /\ UNCHANGED modelsRefreshing
      BY <1>3, <2>4
    <3>2. joined => ~b
      <4>1. joined => closing /\ ~task.background
        BY <1>1 DEF CatalogInv, TaskSound
      <4> QED
        BY <1>a, <2>4, <4>1
    <3>3. b \in BOOLEAN /\ t.flag = task.flag
      BY <1>5 DEF Task
    <3>4. TaskSound(t, Reachable, modelLists, joined)
      <4> HIDE DEF b
      <4>1. task.kind \in TaskKinds /\ "fetch" \in TaskStages /\ todo \in Seq(CatalogIds) /\ ToSet(todo) \subseteq Reachable
        BY <1>4, <1>5, <1>6, TaskWords
      <4>2. task.flag \in BOOLEAN /\ b \in BOOLEAN
        BY <1>5, <3>3
      <4> QED
        BY <3>2, <4>1, <4>2, TaskStarts, Zenon
    <3> HIDE DEF t, b
    <3>5. TaskSound(t, Reachable', modelLists', joined')
      BY <1>2, <1>7, <3>4
    <3>6. FlagKept(s, t)
      BY <3>1, <3>3 DEF FlagKept, task
    <3> QED
      BY <2>1, <2>2, <3>1, <3>5, <3>6, TaskMoves
  <2> QED
    BY <2>3, <2>4
<1>13. Aggregated'
  <2>1. CASE DOMAIN modelsByAccount \subseteq task.seen
    <3>1. UNCHANGED <<modelsByAccount, cachedModels>>
      BY <1>2, <1>9, <2>1
    <3>2. \A a \in CatalogIds : modelLists[a] \subseteq modelLists'[a]
      BY <1>2
    <3> QED
      BY <3>1, <3>2, EntriesStay
  <2>2. CASE ~(DOMAIN modelsByAccount \subseteq task.seen)
    BY <1>2, <1>9, <2>2, Rebuilt
  <2> QED
    BY <2>1, <2>2
<1>14. ShownIsRouted'
  <2>1. \A b \in DOMAIN modelsByAccount' : b \in DOMAIN modelsByAccount /\ modelsByAccount'[b] = modelsByAccount[b]
    BY <1>2, <1>9
  <2> QED
    BY <1>2, <2>1 DEF CatalogInv, ShownIsRouted
<1>15. joined' => closing'
  BY <1>2 DEF CatalogInv
<1> QED
  BY <1>10, <1>12, <1>13, <1>14, <1>15 DEF CatalogInv

LEMMA FreshCatalog == CatalogInit => CatalogInv
<1> SUFFICES ASSUME CatalogInit PROVE CatalogInv
  OBVIOUS
<1>1. modelsByAccount = <<>> /\ modelsByAccount \in MapsTo(Listings) /\ DOMAIN modelsByAccount = {}
  BY NoEntries DEF CatalogInit
<1>2. CatalogType
  BY <1>1 DEF CatalogInit, CatalogType
<1>3. TasksSound
  <2>1. \A s \in TaskSlots : TaskSound(IdleTask, Reachable, modelLists, joined)
    BY Idle
  <2>2. tasks = [s \in TaskSlots |-> IdleTask]
    BY DEF CatalogInit
  <2>3. \A s \in TaskSlots : TaskSound(tasks[s], Reachable, modelLists, joined)
    BY <2>1, <2>2
  <2>4. \A s \in TaskSlots : IdleTask \in TaskType
    BY <2>1 DEF TaskSound
  <2> QED
    BY <2>2, <2>3, <2>4 DEF TasksSound
<1>4. Dropping
  BY <1>1 DEF Dropping
<1>5. Passing
  <2>1. \A s \in TaskSlots : ~tasks[s].flag
    BY Idle DEF CatalogInit
  <2>2. modelsRefreshing = FALSE
    BY DEF CatalogInit
  <2> QED
    BY <2>1, <2>2 DEF Passing
<1>6. Aggregated
  <2> DEFINE order == InOrder(DOMAIN modelsByAccount)
  <2>1. Len(order) = 0
    <3>1. Len(order) \in Nat /\ \A k \in 1 .. Len(order) : order[k] \in {}
      BY <1>1, OrderTyped
    <3> QED
      BY <3>1
  <2>2. [k \in 1 .. Len(order) |-> modelsByAccount[order[k]]] = <<>>
    BY <2>1
  <2>3. FlattenSeq(<<>>) = <<>>
    BY EmptySeq, FlatDef
  <2>4. ListedBy(modelsByAccount) = <<>>
    BY <2>2, <2>3 DEF ListedBy
  <2>5. cachedModels = <<>>
    BY DEF CatalogInit
  <2> QED
    BY <2>4, <2>5, NothingAggregates DEF Aggregated
<1>7. ShownIsRouted
  BY <1>1 DEF ShownIsRouted
<1>8. joined => closing
  BY DEF CatalogInit
<1> QED
  BY <1>2, <1>3, <1>4, <1>5, <1>6, <1>7, <1>8 DEF CatalogInv

LEMMA EndOfProcess ==
  ASSUME CatalogInv, StopBackground \/ CloseJoins \/ Reinstall
  PROVE  CatalogInv'
<1>1. CASE StopBackground \/ CloseJoins
  <2>1. /\ UNCHANGED <<on, modelsByAccount, cachedModels, modelLists, modelsRefreshing, autoRefreshModelNext,
                       tasks, excused>>
        /\ closing' \in BOOLEAN /\ joined' \in BOOLEAN /\ (joined' => closing')
        /\ joined' => joined \/ \A s \in TaskSlots : ~tasks[s].background
    <3>1. closing \in BOOLEAN /\ joined \in BOOLEAN /\ (joined => closing)
      BY DEF CatalogInv, CatalogType
    <3>2. CASE StopBackground
      <4>1. closing' /\ joined' = joined
        BY <3>2 DEF StopBackground
      <4> QED
        BY <3>1, <3>2, <4>1 DEF StopBackground
    <3>3. CASE CloseJoins
      <4>1. joined' /\ closing' = closing /\ closing
        BY <3>3 DEF CloseJoins
      <4>2. \A s \in TaskSlots : ~tasks[s].background
        BY <3>3 DEF CloseJoins
      <4> QED
        BY <3>1, <3>3, <4>1, <4>2 DEF CloseJoins
    <3> QED
      BY <1>1, <3>2, <3>3
  <2>2. CatalogType' /\ Dropping' /\ Passing' /\ Aggregated' /\ ShownIsRouted'
    BY <2>1 DEF CatalogInv, CatalogType, Dropping, Reachable, Passing, Aggregated, ListedBy, ShownIsRouted
  <2>3. TasksSound'
    <3>1. Reachable' = Reachable
      BY <2>1 DEF Reachable
    <3>2. ASSUME NEW s \in TaskSlots PROVE TaskSound(tasks[s], Reachable, modelLists, joined')
      <4>1. TaskSound(tasks[s], Reachable, modelLists, joined)
        BY DEF CatalogInv, TasksSound
      <4>2. joined' => ~tasks[s].background
        BY <2>1, <4>1, Zenon DEF TaskSound
      <4> QED
        BY <4>1, <4>2 DEF TaskSound
    <3> QED
      BY <2>1, <3>1, <3>2 DEF CatalogInv, TasksSound
  <2> QED
    BY <2>1, <2>2, <2>3 DEF CatalogInv
<1>2. CASE Reinstall
  <2>1. CatalogInit'
    BY <1>2 DEF Reinstall, CatalogInit
  <2>2. (CatalogInit => CatalogInv)'
    BY FreshCatalog, PTL
  <2> QED
    BY <2>1, <2>2
<1> QED
  BY <1>1, <1>2

LEMMA CatalogStill ==
  ASSUME CatalogInv, UNCHANGED catalogVars
  PROVE  CatalogInv'
BY DEF catalogVars, CatalogInv, CatalogType, TasksSound, Dropping, Reachable, Passing, Aggregated, ListedBy, ShownIsRouted

LEMMA CatalogKeeps ==
  ASSUME CatalogInv, [CatalogNext]_catalogVars
  PROVE  CatalogInv'
<1>1. CASE UNCHANGED catalogVars
  BY <1>1, CatalogStill
<1>2. CASE StopBackground \/ CloseJoins \/ Reinstall
  BY <1>2, EndOfProcess
<1>3. ASSUME NEW s \in TaskSlots,
             refreshModelsCacheAsyncOnce(s) \/ refreshScheduledModelCaches(s) \/ apiRefreshAllAccountsModels(s)
      PROVE  CatalogInv'
  BY <1>3, PassStarts
<1>4. ASSUME NEW s \in TaskSlots, NEW a \in CatalogIds,
             apiRefreshAccountModels(s, a) \/ ChangeAccount(s, a) \/ ChangeBatch(s, a)
      PROVE  CatalogInv'
  BY <1>4, AccountSteps
<1>5. ASSUME NEW s \in TaskSlots, ReadEnabled(s) PROVE CatalogInv'
  BY <1>5, ReadEnabledKeeps
<1>6. ASSUME NEW s \in TaskSlots,
             TakeJob(s) \/ DropJobs(s) \/ FinishTask(s) \/ \E a \in CatalogIds : FetchFails(s, a)
      PROVE  CatalogInv'
  BY <1>6, FetchSteps
<1>7. ASSUME NEW s \in TaskSlots, NEW cooling, Prune(s, cooling) PROVE CatalogInv'
  BY <1>7, PruneKeeps
<1>8. ASSUME NEW s \in TaskSlots, NEW a \in CatalogIds, NEW l \in Listings, ListingCame(s, a, l) PROVE CatalogInv'
  BY <1>8, ListingCameKeeps
<1>9. ASSUME NEW s \in TaskSlots, NEW a \in CatalogIds, fetchAndCacheAccountModels(s, a) PROVE CatalogInv'
  BY <1>9, FetchKeeps
<1> QED
  BY <1>1, <1>2, <1>3, <1>4, <1>5, <1>6, <1>7, <1>8, <1>9 DEF CatalogNext

LEMMA CatalogIsSafe == CatalogInv => CatalogSafe
<1> SUFFICES ASSUME CatalogInv PROVE CatalogSafe
  OBVIOUS
<1>1. AggregateExact
  BY AggregatesExact DEF CatalogInv, Aggregated
<1>2. ShownIsRouted
  BY DEF CatalogInv
<1>3. OffIsDropped
  BY DEF CatalogInv, Dropping, WillDrop, Reachable, OffIsDropped
<1>4. OnePass
  <2> DEFINE F == {s \in TaskSlots : tasks[s].flag}
  <2>1. \A s, u \in F : s = u
    BY DEF CatalogInv, Passing
  <2>2. F = {} \/ \E s \in F : F = {s}
    BY <2>1
  <2> HIDE DEF F
  <2>3. Cardinality(F) <= 1
    <3>1. CASE F = {}
      BY <3>1, FS_EmptySet
    <3>2. ASSUME NEW s \in F, F = {s} PROVE Cardinality(F) <= 1
      <4>1. Cardinality({s}) = 1
        BY FS_Singleton
      <4> QED
        BY <3>2, <4>1
    <3> QED
      BY <2>2, <3>1, <3>2
  <2>4. modelsRefreshing = (\E s \in TaskSlots : tasks[s].flag)
    BY DEF CatalogInv, Passing
  <2> QED
    BY <2>3, <2>4 DEF OnePass, F
<1>5. JoinedIsQuiet
  BY DEF CatalogInv, TasksSound, TaskSound, JoinedIsQuiet
<1> QED
  BY <1>1, <1>2, <1>3, <1>4, <1>5 DEF CatalogSafe

(* The catalogue stays what its entries say, and within what the pool can    *)
(* route, for any accounts, listings and tasks: every model is shown once,   *)
(* with the first name, the largest window and all capabilities; a pass      *)
(* gives its flag back on every path; and Close leaves nothing behind        *)
(* (handler.go).                                                             *)
THEOREM CatalogKept == CatalogSpec => []CatalogSafe
<1>1. CatalogInv /\ [CatalogNext]_catalogVars => CatalogInv'
  BY CatalogKeeps
<1> QED
  BY <1>1, FreshCatalog, CatalogIsSafe, PTL DEF CatalogSpec
=============================================================================
