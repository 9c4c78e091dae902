----------------------------- MODULE AccountStats -----------------------------
(***************************************************************************)
(* Lifetime counters of the accounts: the pool's copy (pool/account.go:    *)
(* Reload, UpdateStats, flushAccountStats, ResetStats), the configuration's*)
(* copy (config.UpdateAccountStatsBatch, ResetStatistics,                  *)
(* SetAccountsEnabled) and the handler that resets both.                   *)
(*                                                                         *)
(* Critical sections of AccountPool.mu and cfgLock are one action each.    *)
(* statsSaveMu is held through the whole of flushAccountStats: saveHolder  *)
(* is the goroutine inside.  One number stands for the counters of an      *)
(* account, which are always copied together.  The configuration is loaded *)
(* once, so its generation never changes.  D_x is D with the defect x.     *)
(***************************************************************************)
EXTENDS Integers, FiniteSets

CONSTANTS
  StatAccounts,    \* accounts in the configuration
  StatRequests,    \* requests that record an outcome
  StatReloaders,       \* goroutines that call AccountPool.Reload
  MaxCount,        \* bound on outcomes recorded for an account
  MaxSaveFaults,   \* bound on failed configuration writes
  MaxResets        \* bound on uses of apiResetStats

Timer == "timer"      \* the goroutine of statsSaveTimer
Nobody == "nobody"
Flushers == StatReloaders \cup {Timer}

ASSUME StatsAssumption ==
  /\ MaxCount \in Nat /\ MaxSaveFaults \in Nat /\ MaxResets \in Nat
  /\ Timer \notin StatReloaders /\ Nobody \notin StatReloaders

VARIABLES
  enabledIds,    \* accounts enabled in the configuration
  cfgCount,      \* [StatAccounts -> counter in cfg.Accounts]
  poolIds,       \* accounts in AccountPool.accounts
  poolCount,     \* [StatAccounts -> counter in AccountPool.accounts, 0 if not there]
  dirtyStats,    \* AccountPool.dirtyStats
  statsTimer,    \* statsSaveTimer: "nil", "armed" or "fired" (spent, not replaced)
  saveHolder,    \* who holds statsSaveMu inside flushAccountStats
  statFlushPc,       \* [Flushers -> where its flush is]
  updates,       \* what the holder copied: [ids, counts]
  reloadPc,      \* [StatReloaders -> where its Reload is]
  fetched,       \* [StatReloaders -> what GetEnabledAccounts returned]
  requestPc,     \* [StatRequests -> "idle" or "counted"]
  resetting,     \* apiResetStats: "idle" or "pool" (pool reset, config not yet)
  saveFaults,    \* failed writes so far
  resets,        \* resets so far
  recorded,      \* history: [StatAccounts -> outcomes recorded for it]
  atRisk         \* history: accounts that met a race in which the code loses counts

poolState == <<poolIds, poolCount, dirtyStats>>
flushState == <<statsTimer, saveHolder, statFlushPc, updates>>
reloadState == <<reloadPc, fetched>>
statVars ==
  <<enabledIds, cfgCount, poolIds, poolCount, dirtyStats, statsTimer, saveHolder, statFlushPc,
    updates, reloadPc, fetched, requestPc, resetting, saveFaults, resets, recorded, atRisk>>

Zero == [a \in StatAccounts |-> 0]
NoCopy == [ids |-> {}, counts |-> Zero]

StatsInit ==
  /\ enabledIds = StatAccounts /\ poolIds = StatAccounts
  /\ cfgCount = Zero /\ poolCount = Zero
  /\ dirtyStats = {} /\ statsTimer = "nil" /\ saveHolder = Nobody
  /\ statFlushPc = [f \in Flushers |-> "idle"]
  /\ updates = NoCopy
  /\ reloadPc = [r \in StatReloaders |-> "idle"]
  /\ fetched = [r \in StatReloaders |-> NoCopy]
  /\ requestPc = [q \in StatRequests |-> "idle"]
  /\ resetting = "idle" /\ saveFaults = 0 /\ resets = 0 /\ recorded = Zero
  /\ atRisk = {}

(* A write of the configuration that succeeds or fails: no operation here   *)
(* takes its change in memory back when it fails.                           *)
StatsSaveFails == saveFaults < MaxSaveFaults /\ saveFaults' = saveFaults + 1

(* A Reload from the copy its flush makes to its swap: an outcome counted in *)
(* between is in the pool only, and the swap puts the older counters there.  *)
ReloadInWindow(r) ==
  \/ reloadPc[r] = "flushing" /\ statFlushPc[r] # "waiting"
  \/ reloadPc[r] = "fetched"

-----------------------------------------------------------------------------
(* UpdateStats, and the counting part of RecordError. *)
UpdateStats(q, a) ==
  /\ requestPc[q] = "idle" /\ a \in poolIds /\ recorded[a] < MaxCount
  /\ poolCount' = [poolCount EXCEPT ![a] = @ + 1]
  /\ dirtyStats' = dirtyStats \cup {a}
  /\ recorded' = [recorded EXCEPT ![a] = @ + 1]
  /\ atRisk' = IF \E r \in StatReloaders : ReloadInWindow(r) THEN atRisk \cup {a} ELSE atRisk
  /\ requestPc' = [requestPc EXCEPT ![q] = "counted"]
  /\ UNCHANGED <<enabledIds, cfgCount, poolIds, flushState, reloadState, resetting, saveFaults, resets>>

scheduleAccountStatsSave(q) ==
  /\ requestPc[q] = "counted" /\ saveHolder = Nobody
  /\ statsTimer' = IF statsTimer = "nil" THEN "armed" ELSE statsTimer
  /\ requestPc' = [requestPc EXCEPT ![q] = "idle"]
  /\ UNCHANGED <<enabledIds, cfgCount, poolState, saveHolder, statFlushPc, updates, reloadState, resetting, saveFaults, resets, recorded, atRisk>>

(* The timer's goroutine is one: it is armed again only when it is done. *)
StatsTimerFires ==
  /\ statsTimer = "armed" /\ statFlushPc[Timer] = "idle"
  /\ statsTimer' = "fired"
  /\ statFlushPc' = [statFlushPc EXCEPT ![Timer] = "waiting"]
  /\ UNCHANGED <<enabledIds, cfgCount, poolState, saveHolder, updates, reloadState, requestPc, resetting, saveFaults, resets, recorded, atRisk>>

(* flushAccountStats: the mutex, the copy of the dirty counters (an account *)
(* that has left the pool is copied as zero), the write, the outcome.       *)
FlushCopy(f) ==
  /\ statFlushPc[f] = "waiting" /\ saveHolder = Nobody
  /\ saveHolder' = f
  /\ statsTimer' = IF statsTimer = "armed" THEN "fired" ELSE statsTimer
  /\ updates' = [ids |-> dirtyStats, counts |-> poolCount]
  /\ dirtyStats' = {}
  /\ atRisk' = atRisk \cup (dirtyStats \ poolIds)
  /\ statFlushPc' = [statFlushPc EXCEPT ![f] = "copied"]
  /\ UNCHANGED <<enabledIds, cfgCount, poolIds, poolCount, reloadState, requestPc, resetting, saveFaults, resets, recorded>>

UpdateAccountStatsBatch_adds(f) ==
  /\ statFlushPc[f] = "copied"
  /\ cfgCount' = [a \in StatAccounts |->
                    IF a \in updates.ids THEN cfgCount[a] + updates.counts[a] ELSE cfgCount[a]]
  /\ \/ /\ UNCHANGED saveFaults
        /\ statFlushPc' = [statFlushPc EXCEPT ![f] = "saved"]
     \/ /\ updates.ids # {} /\ StatsSaveFails
        /\ statFlushPc' = [statFlushPc EXCEPT ![f] = "failed"]
  /\ UNCHANGED <<enabledIds, poolState, statsTimer, saveHolder, updates, reloadState, requestPc, resetting, resets, recorded, atRisk>>
UpdateAccountStatsBatch(f) ==
  /\ statFlushPc[f] = "copied"
  /\ cfgCount' = [a \in StatAccounts |-> IF a \in updates.ids THEN updates.counts[a] ELSE cfgCount[a]]
  /\ \/ /\ UNCHANGED saveFaults
        /\ statFlushPc' = [statFlushPc EXCEPT ![f] = "saved"]
     \/ /\ updates.ids # {} /\ StatsSaveFails
        /\ statFlushPc' = [statFlushPc EXCEPT ![f] = "failed"]
  /\ UNCHANGED <<enabledIds, poolState, statsTimer, saveHolder, updates, reloadState, requestPc, resetting, resets, recorded, atRisk>>

FlushSaved(f) ==
  /\ statFlushPc[f] = "saved"
  /\ statsTimer' = "nil" /\ saveHolder' = Nobody /\ updates' = NoCopy
  /\ statFlushPc' = [statFlushPc EXCEPT ![f] = "idle"]
  /\ UNCHANGED <<enabledIds, cfgCount, poolState, reloadState, requestPc, resetting, saveFaults, resets, recorded, atRisk>>

FlushFailed_noRetry(f) ==
  /\ statFlushPc[f] = "failed"
  /\ dirtyStats' = dirtyStats \cup updates.ids
  /\ statsTimer' = "nil" /\ saveHolder' = Nobody /\ updates' = NoCopy
  /\ statFlushPc' = [statFlushPc EXCEPT ![f] = "idle"]
  /\ UNCHANGED <<enabledIds, cfgCount, poolIds, poolCount, reloadState, requestPc, resetting, saveFaults, resets, recorded, atRisk>>
FlushFailed(f) ==
  /\ statFlushPc[f] = "failed"
  /\ dirtyStats' = dirtyStats \cup updates.ids
  /\ statsTimer' = "armed" /\ saveHolder' = Nobody /\ updates' = NoCopy
  /\ statFlushPc' = [statFlushPc EXCEPT ![f] = "idle"]
  /\ UNCHANGED <<enabledIds, cfgCount, poolIds, poolCount, reloadState, requestPc, resetting, saveFaults, resets, recorded, atRisk>>

-----------------------------------------------------------------------------
(* Reload: the pending counters are flushed, the enabled accounts are read  *)
(* under cfgLock and put in place under AccountPool.mu, three separate      *)
(* steps.  Every change of an account ends in one.                          *)
Reload_noFlush(r) ==
  /\ reloadPc[r] = "idle"
  /\ reloadPc' = [reloadPc EXCEPT ![r] = "flushing"]
  /\ UNCHANGED <<enabledIds, cfgCount, poolState, flushState, fetched, requestPc, resetting, saveFaults, resets, recorded, atRisk>>
Reload(r) ==
  /\ reloadPc[r] = "idle"
  /\ reloadPc' = [reloadPc EXCEPT ![r] = "flushing"]
  /\ statFlushPc' = [statFlushPc EXCEPT ![r] = "waiting"]
  /\ UNCHANGED <<enabledIds, cfgCount, poolState, statsTimer, saveHolder, updates, fetched, requestPc, resetting, saveFaults, resets, recorded, atRisk>>

GetEnabledAccounts(r) ==
  /\ reloadPc[r] = "flushing" /\ statFlushPc[r] = "idle"
  /\ fetched' = [fetched EXCEPT ![r] = [ids |-> enabledIds, counts |-> cfgCount]]
  /\ reloadPc' = [reloadPc EXCEPT ![r] = "fetched"]
  /\ UNCHANGED <<enabledIds, cfgCount, poolState, flushState, requestPc, resetting, saveFaults, resets, recorded, atRisk>>

ReloadSwap(r) ==
  LET f == fetched[r]
  IN /\ reloadPc[r] = "fetched"
     /\ poolIds' = f.ids
     /\ poolCount' = [a \in StatAccounts |-> IF a \in f.ids THEN f.counts[a] ELSE 0]
     /\ reloadPc' = [reloadPc EXCEPT ![r] = "idle"]
     /\ fetched' = [fetched EXCEPT ![r] = NoCopy]
     /\ UNCHANGED <<enabledIds, cfgCount, dirtyStats, flushState, requestPc, resetting, saveFaults, resets, recorded, atRisk>>

(* SetAccountsEnabled, and every other operation that switches an account   *)
(* on or off in the configuration.                                        *)
SetEnabled(a) ==
  /\ enabledIds' = IF a \in enabledIds THEN enabledIds \ {a} ELSE enabledIds \cup {a}
  /\ UNCHANGED saveFaults \/ StatsSaveFails
  /\ UNCHANGED <<cfgCount, poolState, flushState, reloadState, requestPc, resetting, resets, recorded, atRisk>>

(* apiResetStats: the pool first, then the configuration. *)
ResetStats ==
  /\ resetting = "idle" /\ resets < MaxResets /\ saveHolder = Nobody
  /\ statsTimer' = "nil"
  /\ poolCount' = Zero /\ dirtyStats' = {}
  /\ resetting' = "pool" /\ resets' = resets + 1
  /\ atRisk' = StatAccounts
  /\ UNCHANGED <<enabledIds, cfgCount, poolIds, saveHolder, statFlushPc, updates, reloadState, requestPc, saveFaults, recorded>>

ResetStatistics ==
  /\ resetting = "pool"
  /\ cfgCount' = Zero
  /\ UNCHANGED saveFaults \/ StatsSaveFails
  /\ resetting' = "idle"
  /\ UNCHANGED <<enabledIds, poolState, flushState, reloadState, requestPc, resets, recorded, atRisk>>

StatsNext ==
  \/ \E q \in StatRequests : scheduleAccountStatsSave(q) \/ \E a \in StatAccounts : UpdateStats(q, a)
  \/ StatsTimerFires
  \/ \E f \in Flushers : FlushCopy(f) \/ UpdateAccountStatsBatch(f) \/ FlushSaved(f) \/ FlushFailed(f)
  \/ \E r \in StatReloaders : Reload(r) \/ GetEnabledAccounts(r) \/ ReloadSwap(r)
  \/ \E a \in StatAccounts : SetEnabled(a)
  \/ ResetStats \/ ResetStatistics

StatsSpec == StatsInit /\ [][StatsNext]_statVars

-----------------------------------------------------------------------------
(* Counters marked as dirty have a write coming: a timer armed, a flush     *)
(* waiting or under way, or a request that is about to arm the timer.       *)
(* Failed writes, flushes that a Reload runs and flushes that find nothing  *)
(* do not break the chain.                                                  *)
StatsFlushComes ==
  dirtyStats # {} =>
    \/ statsTimer = "armed"
    \/ \E f \in Flushers : statFlushPc[f] # "idle"
    \/ \E q \in StatRequests : requestPc[q] = "counted"

(* No outcome is counted twice: a write that failed is tried again, a       *)
(* Reload puts counters of the configuration in the pool and the next flush *)
(* takes them back, and neither copy ever holds more than was recorded.     *)
CountedOnce ==
  \A a \in StatAccounts : poolCount[a] <= recorded[a] /\ cfgCount[a] <= recorded[a]

(* No outcome is lost: the pool holds every outcome of its accounts, and    *)
(* the configuration holds every outcome of an account that is neither      *)
(* dirty nor in the copy a flush is about to write.  Excepted are the       *)
(* accounts at risk, whose counts the code does lose: an outcome recorded   *)
(* between the flush of a Reload and its swap (account.go:134 and 137-155)  *)
(* is overwritten by older counters; a flush of an account that has left    *)
(* the pool (account.go:1121 and 1083-1094) writes zero; and a reset, whose *)
(* purpose it is, also drops what is recorded between its two steps.        *)
NoneLost ==
  \A a \in StatAccounts \ atRisk :
    /\ a \in poolIds => poolCount[a] = recorded[a]
    /\ \/ cfgCount[a] = recorded[a]
       \/ a \in dirtyStats
       \/ /\ \E f \in Flushers : statFlushPc[f] = "copied"
          /\ a \in updates.ids /\ updates.counts[a] = recorded[a]

(* The counters as a whole: dirty counters have a write coming, no outcome  *)
(* is counted twice and, outside the races named at NoneLost, none is lost. *)
CountersSafe == StatsFlushComes /\ CountedOnce /\ NoneLost
=============================================================================
