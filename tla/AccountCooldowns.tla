--------------------------- MODULE AccountCooldowns ---------------------------
(***************************************************************************)
(* The backoffs of accounts and their life across restarts: the error      *)
(* reports of pool/account.go (cooldowns, cooldownKinds, errorCounts,      *)
(* refreshFailures) and the debounced save, the write and the load of      *)
(* runtime_state.json in pool/runtime_state.go.                            *)
(*                                                                         *)
(* A deadline is the number of ticks until it, NoTime a key that is not in *)
(* the map.  A worker is a goroutine that reports an outcome: it changes   *)
(* the maps under AccountPool.mu and then, in a second critical section,   *)
(* asks for a save under stateSaveMu.  A save copies the maps and writes   *)
(* the file while it holds stateSaveMu, so image # NoImage also says that  *)
(* this mutex is taken.  The error count is kept up to ErrorLimit, beyond  *)
(* which nothing depends on it.  DisableAccount and MarkOverLimit have no  *)
(* caller but tests and are left out, and so is lastSuccess, which is      *)
(* stored and never read.  D_x is D with the defect x.                     *)
(***************************************************************************)
EXTENDS Integers, FiniteSets

CONSTANTS
  Accounts,
  Workers,
  Transient,      \* the backoff after ErrorLimit errors: one minute
  Short,          \* until which an old cooldown counts as transient: ten minutes
  Quota,          \* the backoff after a quota error: one hour
  RefreshFor,     \* the backoff of a failed token refresh
  Legacy,         \* ticks a cooldown saved by an older version still has
  MaxSavers,      \* bound on the timers and goroutines that are about to save
  NoImage         \* no save is in progress

NoTime == -1
Absent == -1
ErrorLimit == 3
Kinds == {"none", "unknown", "transient", "quota"}

ASSUME CooldownAssumption ==
  /\ Transient \in Nat \ {0} /\ Short \in Nat /\ Quota \in Nat /\ RefreshFor \in Nat
  /\ Transient < Quota
  /\ Legacy \subseteq Nat \ {0}
  /\ MaxSavers \in Nat \ {0}

VARIABLES
  alive,            \* the process runs
  cooldowns,        \* [Accounts -> deadline or NoTime]
  cooldownKinds,    \* [Accounts -> Kinds]
  errorCounts,      \* [Accounts -> consecutive errors or Absent]
  refreshFailures,  \* [Accounts -> deadline or NoTime]
  file,             \* [Accounts -> Entry]: runtime_state.json
  saveTimer,        \* stateSaveTimer is set
  timers,           \* timers whose callback has not yet taken stateSaveMu
  savers,           \* goroutines on their way into saveRuntimeStateTo
  image,            \* what the save in progress writes, or NoImage
  pc,               \* [Workers -> "idle" or "changed"]
  saveFailed,       \* history: the last save did not reach the file
  promised          \* history: [Accounts -> ticks left of a quota backoff]

maps == <<cooldowns, cooldownKinds, errorCounts, refreshFailures>>
saving == <<saveTimer, timers, savers, image>>
vars == <<alive, maps, file, saving, pc, saveFailed, promised>>

(* persistedAccountRuntimeState; NoEntry for an account the file leaves out. *)
Entry ==
  [errors : Absent .. ErrorLimit, cooldown : Int, kind : Kinds, refresh : Int]

ASSUME NoImageAssumption == NoImage \notin [Accounts -> Entry]

NoEntry ==
  [errors |-> Absent, cooldown |-> NoTime, kind |-> "none", refresh |-> NoTime]

(* What is left of an entry: a deadline in the past is neither saved nor loaded. *)
Running(e) ==
  [errors   |-> e.errors,
   cooldown |-> IF e.cooldown > 0 THEN e.cooldown ELSE NoTime,
   kind     |-> IF e.cooldown > 0 THEN e.kind ELSE "none",
   refresh  |-> IF e.refresh > 0 THEN e.refresh ELSE NoTime]

(* The maps at one account. *)
InMemory(a) ==
  [errors |-> errorCounts[a], cooldown |-> cooldowns[a],
   kind |-> cooldownKinds[a], refresh |-> refreshFailures[a]]

-----------------------------------------------------------------------------
(* setCooldownLocked: a running cooldown that ends later stays. *)
Sets_shortens(a, until) == TRUE

Sets(a, until) == ~ cooldowns[a] > until

setCooldownLocked(a, until, kind) ==
  IF Sets(a, until)
  THEN /\ cooldowns' = [cooldowns EXCEPT ![a] = until]
       /\ cooldownKinds' = [cooldownKinds EXCEPT ![a] = kind]
  ELSE UNCHANGED <<cooldowns, cooldownKinds>>

(* The cooldowns a success ends: transient ones, unmarked ones of older
   versions that are short, and those that are over anyway.               *)
ClearedBySuccess(a) ==
  \/ cooldownKinds[a] = "transient"
  \/ cooldownKinds[a] = "unknown" /\ cooldowns[a] =< Short
  \/ cooldowns[a] =< 0

clearTransientCooldownLocked(a) ==
  /\ cooldowns' = IF ClearedBySuccess(a) THEN [cooldowns EXCEPT ![a] = NoTime] ELSE cooldowns
  /\ cooldownKinds' = IF ClearedBySuccess(a)
                      THEN [cooldownKinds EXCEPT ![a] = "none"] ELSE cooldownKinds

(* A worker is between the change and the request for a save. *)
Changes(w) ==
  /\ alive
  /\ pc[w] = "idle"
  /\ pc' = [pc EXCEPT ![w] = "changed"]
  /\ UNCHANGED <<alive, file, saving, saveFailed>>

RecordSuccess_forgetsCount(w, a) ==
  /\ Changes(w)
  /\ clearTransientCooldownLocked(a)
  /\ errorCounts' = [errorCounts EXCEPT ![a] = Absent]
  /\ UNCHANGED <<refreshFailures, promised>>

RecordSuccess(w, a) ==
  /\ Changes(w)
  /\ clearTransientCooldownLocked(a)
  /\ errorCounts' = [errorCounts EXCEPT ![a] = 0]
  /\ UNCHANGED <<refreshFailures, promised>>

OneMore(n) ==
  IF n = Absent THEN 1 ELSE IF n < ErrorLimit THEN n + 1 ELSE ErrorLimit

RecordQuotaError(w, a) ==
  /\ Changes(w)
  /\ errorCounts' = [errorCounts EXCEPT ![a] = OneMore(@)]
  /\ setCooldownLocked(a, Quota, "quota")
  /\ promised' = IF Sets(a, Quota) THEN [promised EXCEPT ![a] = Quota] ELSE promised
  /\ UNCHANGED refreshFailures

RecordError(w, a) ==
  /\ Changes(w)
  /\ errorCounts' = [errorCounts EXCEPT ![a] = OneMore(@)]
  /\ IF errorCounts'[a] >= ErrorLimit
     THEN setCooldownLocked(a, Transient, "transient")
     ELSE UNCHANGED <<cooldowns, cooldownKinds>>
  /\ UNCHANGED <<refreshFailures, promised>>

SetRefreshFailureCooldown(w, a) ==
  /\ Changes(w)
  /\ refreshFailures' = [refreshFailures EXCEPT ![a] = RefreshFor]
  /\ UNCHANGED <<cooldowns, cooldownKinds, errorCounts, promised>>

ClearRefreshFailureCooldown(w, a) ==
  /\ Changes(w)
  /\ refreshFailures' = [refreshFailures EXCEPT ![a] = NoTime]
  /\ UNCHANGED <<cooldowns, cooldownKinds, errorCounts, promised>>

(* The operator enables accounts again. *)
ClearAccountCooldowns(w, ids) ==
  /\ Changes(w)
  /\ ids # {}
  /\ cooldowns' = [a \in Accounts |-> IF a \in ids THEN NoTime ELSE cooldowns[a]]
  /\ cooldownKinds' = [a \in Accounts |-> IF a \in ids THEN "none" ELSE cooldownKinds[a]]
  /\ errorCounts' = [a \in Accounts |-> IF a \in ids THEN Absent ELSE errorCounts[a]]
  /\ refreshFailures' = [a \in Accounts |-> IF a \in ids THEN NoTime ELSE refreshFailures[a]]
  /\ promised' = [a \in Accounts |-> IF a \in ids THEN 0 ELSE promised[a]]

-----------------------------------------------------------------------------
(* Debounced saves. *)

MutexFree == alive /\ image = NoImage

(* A goroutine about to save is taken for one that will save this change. *)
scheduleRuntimeStateSave_trustsSave(w) ==
  /\ alive
  /\ pc[w] = "changed"
  /\ pc' = [pc EXCEPT ![w] = "idle"]
  /\ IF saveTimer \/ savers > 0 \/ image # NoImage
     THEN UNCHANGED <<saveTimer, timers>>
     ELSE /\ timers + savers < MaxSavers
          /\ saveTimer' = TRUE
          /\ timers' = timers + 1
  /\ UNCHANGED <<alive, maps, file, savers, image, saveFailed, promised>>

(* Only one timer is set at a time: the one that runs will save this change. *)
scheduleRuntimeStateSave(w) ==
  /\ MutexFree
  /\ pc[w] = "changed"
  /\ pc' = [pc EXCEPT ![w] = "idle"]
  /\ IF saveTimer
     THEN UNCHANGED <<saveTimer, timers>>
     ELSE /\ timers + savers < MaxSavers
          /\ saveTimer' = TRUE
          /\ timers' = timers + 1
  /\ UNCHANGED <<alive, maps, file, savers, image, saveFailed, promised>>

(* The callback forgets stateSaveTimer, whichever timer that is by now,
   unlocks, and then saves.                                                *)
TimerFires ==
  /\ MutexFree
  /\ timers > 0
  /\ timers' = timers - 1
  /\ saveTimer' = FALSE
  /\ savers' = savers + 1
  /\ UNCHANGED <<alive, maps, file, image, pc, saveFailed, promised>>

(* FlushStats at a shutdown and on demand: stops the timer, whose callback
   may already be waiting for the mutex and then still runs, and saves.     *)
FlushRuntimeState ==
  /\ MutexFree
  /\ timers + savers < MaxSavers
  /\ saveTimer' = FALSE
  /\ timers' \in IF saveTimer THEN {timers - 1, timers} ELSE {timers}
  /\ savers' = savers + 1
  /\ UNCHANGED <<alive, maps, file, image, pc, saveFailed, promised>>

(* What saveRuntimeStateTo writes: every account with an error count, and of
   the others those whose refresh backoff runs.                            *)
Snapshot(a) ==
  IF errorCounts[a] # Absent THEN Running(InMemory(a))
  ELSE IF refreshFailures[a] > 0
       THEN [errors |-> 0, cooldown |-> NoTime, kind |-> "none",
             refresh |-> refreshFailures[a]]
       ELSE NoEntry

BeginSave ==
  /\ MutexFree
  /\ savers > 0
  /\ savers' = savers - 1
  /\ image' = [a \in Accounts |-> Snapshot(a)]
  /\ UNCHANGED <<alive, maps, file, saveTimer, timers, pc, saveFailed, promised>>

(* WriteFile and Rename: a crash before the rename leaves the old file. *)
SaveWritten ==
  /\ alive
  /\ image # NoImage
  /\ file' = image
  /\ image' = NoImage
  /\ saveFailed' = FALSE
  /\ UNCHANGED <<alive, maps, saveTimer, timers, savers, pc, promised>>

(* The directory or the file cannot be written: nothing is reported. *)
SaveFails ==
  /\ alive
  /\ image # NoImage
  /\ image' = NoImage
  /\ saveFailed' = TRUE
  /\ UNCHANGED <<alive, maps, file, saveTimer, timers, savers, pc, promised>>

-----------------------------------------------------------------------------
(* The process ends.  A quota backoff is still owed if the file has it. *)
Crash ==
  /\ alive
  /\ alive' = FALSE
  /\ saveTimer' = FALSE
  /\ timers' = 0
  /\ savers' = 0
  /\ image' = NoImage
  /\ pc' = [w \in Workers |-> "idle"]
  /\ promised' = [a \in Accounts |->
                    IF file[a].kind = "quota" /\ file[a].cooldown = promised[a]
                    THEN promised[a] ELSE 0]
  /\ cooldowns' = [a \in Accounts |-> NoTime]
  /\ cooldownKinds' = [a \in Accounts |-> "none"]
  /\ errorCounts' = [a \in Accounts |-> Absent]
  /\ refreshFailures' = [a \in Accounts |-> NoTime]
  /\ saveFailed' = FALSE
  /\ UNCHANGED file

loadRuntimeState_restartsCount ==
  /\ errorCounts' = [a \in Accounts |-> IF file[a].errors = Absent THEN Absent ELSE 0]
  /\ cooldowns' = [a \in Accounts |-> Running(file[a]).cooldown]
  /\ cooldownKinds' = [a \in Accounts |-> Running(file[a]).kind]
  /\ refreshFailures' = [a \in Accounts |-> Running(file[a]).refresh]

loadRuntimeState ==
  /\ errorCounts' = [a \in Accounts |-> file[a].errors]
  /\ cooldowns' = [a \in Accounts |-> Running(file[a]).cooldown]
  /\ cooldownKinds' = [a \in Accounts |-> Running(file[a]).kind]
  /\ refreshFailures' = [a \in Accounts |-> Running(file[a]).refresh]

(* GetPool in a new process. *)
Restart ==
  /\ ~ alive
  /\ alive' = TRUE
  /\ loadRuntimeState
  /\ UNCHANGED <<file, saving, pc, saveFailed, promised>>

Sooner(d) == IF d > 0 THEN d - 1 ELSE d
SoonerEntry(e) ==
  [errors |-> e.errors, cooldown |-> Sooner(e.cooldown),
   kind |-> e.kind, refresh |-> Sooner(e.refresh)]

Tick ==
  /\ cooldowns' = [a \in Accounts |-> Sooner(cooldowns[a])]
  /\ refreshFailures' = [a \in Accounts |-> Sooner(refreshFailures[a])]
  /\ file' = [a \in Accounts |-> SoonerEntry(file[a])]
  /\ image' = IF image = NoImage THEN NoImage ELSE [a \in Accounts |-> SoonerEntry(image[a])]
  /\ promised' = [a \in Accounts |-> Sooner(promised[a])]
  /\ UNCHANGED <<alive, cooldownKinds, errorCounts, saveTimer, timers, savers, pc, saveFailed>>

-----------------------------------------------------------------------------
(* The first start, with no file or with one of an older version, which did
   not store the kind of a cooldown.                                       *)
LegacyEntry(ticks) ==
  [errors |-> 1, cooldown |-> ticks, kind |-> "unknown", refresh |-> NoTime]

Init ==
  /\ alive = FALSE
  /\ file \in [Accounts -> {NoEntry} \union {LegacyEntry(t) : t \in Legacy}]
  /\ cooldowns = [a \in Accounts |-> NoTime]
  /\ cooldownKinds = [a \in Accounts |-> "none"]
  /\ errorCounts = [a \in Accounts |-> Absent]
  /\ refreshFailures = [a \in Accounts |-> NoTime]
  /\ saveTimer = FALSE
  /\ timers = 0
  /\ savers = 0
  /\ image = NoImage
  /\ pc = [w \in Workers |-> "idle"]
  /\ saveFailed = FALSE
  /\ promised = [a \in Accounts |-> 0]

Next ==
  \/ \E w \in Workers, a \in Accounts :
       \/ RecordSuccess(w, a) \/ RecordQuotaError(w, a) \/ RecordError(w, a)
       \/ SetRefreshFailureCooldown(w, a) \/ ClearRefreshFailureCooldown(w, a)
  \/ \E w \in Workers, ids \in SUBSET Accounts : ClearAccountCooldowns(w, ids)
  \/ \E w \in Workers : scheduleRuntimeStateSave(w)
  \/ TimerFires \/ FlushRuntimeState \/ BeginSave \/ SaveWritten \/ SaveFails
  \/ Crash \/ Restart \/ Tick

Spec == Init /\ [][Next]_vars

-----------------------------------------------------------------------------
(* Properties. *)

(* Type invariant: the maps of the pool and of the file have their types, and
   cooldowns and cooldownKinds have the same keys (setCooldownLocked,
   clearTransientCooldownLocked and ClearAccountCooldowns change both).      *)
TypeOK ==
  /\ alive \in BOOLEAN /\ saveTimer \in BOOLEAN /\ saveFailed \in BOOLEAN
  /\ cooldowns \in [Accounts -> Int]
  /\ cooldownKinds \in [Accounts -> Kinds]
  /\ errorCounts \in [Accounts -> Absent .. ErrorLimit]
  /\ refreshFailures \in [Accounts -> Int]
  /\ file \in [Accounts -> Entry]
  /\ image = NoImage \/ image \in [Accounts -> Entry]
  /\ timers \in 0 .. MaxSavers /\ savers \in 0 .. MaxSavers
  /\ pc \in [Workers -> {"idle", "changed"}]
  /\ promised \in [Accounts -> Nat]
  /\ \A a \in Accounts : cooldowns[a] = NoTime <=> cooldownKinds[a] = "none"

(* A save is on its way. *)
SavePending ==
  timers > 0 \/ savers > 0 \/ image # NoImage \/ \E w \in Workers : pc[w] = "changed"

(* The state of an account as requests see it: no count is a count of zero. *)
Seen(e) == [Running(e) EXCEPT !.errors = IF @ = Absent THEN 0 ELSE @]

(* The debounce loses no change: if a restart now would restore something
   else than the running process has - a backoff forgotten, one the operator
   cleared, another error count - then a save that will write it is still to
   come, unless the last one failed.  This is about the window between the
   timer's clearing itself and the copy, and about the accounts that
   saveRuntimeStateTo skips because they have no error count.               *)
NoUnsavedChange ==
  alive /\ ~ saveFailed /\ ~ SavePending =>
    \A a \in Accounts : Seen(file[a]) = Seen(InMemory(a))

(* A quota backoff that setCooldownLocked has stored runs its full hour, up
   to the last minute, in which a transient one may replace it: late errors
   and successes of requests in flight do not shorten or clear it, and it
   continues after a restart if it was in the file.                        *)
QuotaHeld ==
  alive => \A a \in Accounts :
    promised[a] > Transient => cooldowns[a] = promised[a] /\ cooldownKinds[a] = "quota"

(* A transient cooldown never outlives the errors that caused it: the
   account has failed three times since its last success, in memory, in the
   copy being written and in the file, so a success that resets the count
   ends the cooldown (RecordSuccess, saveRuntimeStateTo, loadRuntimeState).  *)
TransientExplained ==
  /\ \A a \in Accounts : cooldownKinds[a] = "transient" => errorCounts[a] = ErrorLimit
  /\ \A a \in Accounts : file[a].kind = "transient" => file[a].errors = ErrorLimit
(* What the pool owes its accounts across late results, saves and restarts:
   no change of a backoff is lost, a quota backoff runs its hour, and a
   transient one never outlives its errors (pool/account.go,
   pool/runtime_state.go).                                                  *)
CooldownsSafe == NoUnsavedChange /\ QuotaHeld /\ TransientExplained
=============================================================================
