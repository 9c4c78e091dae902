----------------------------- MODULE ApiKeyStore -----------------------------
(***************************************************************************)
(* API keys in the configuration: config/apikeys.go, the admin handlers of *)
(* proxy/admin_apikeys.go, the quota check of proxy/auth.go and the        *)
(* migration of the legacy single key that config.loadLocked does.         *)
(*                                                                         *)
(* Every critical section of cfgLock, apiKeyUsageSaveMu or                 *)
(* apiKeyUsageFlushMu is one action.  An entry keeps the value of the key, *)
(* the switch, the token quota and the tokens used; the credit quota is    *)
(* checked and counted the same way.  config.Init runs once in a process,  *)
(* so a generation is either 0 (nothing pending) or the current one.       *)
(* publicAPIAuthenticationRequired is taken to hold: otherwise nothing is  *)
(* authenticated and nothing is charged.                                   *)
(* D_x is D with the defect x, and no part of the specification.           *)
(***************************************************************************)
EXTENDS Integers, FiniteSets, FiniteSetsExt

CONSTANTS
  KeyValues,        \* values a key may have
  KeyIds,           \* identifiers of entries
  NoKey,            \* the empty value
  Clients,          \* requests that authenticate and record usage
  KeyEditors,       \* administrators inside apiUpdateApiKey
  Quotas,           \* token limits an operator sets
  MaxUsage,         \* most tokens one request is charged
  UsageCap,         \* usage beyond which the count tells nothing apart
  MaxFaults,        \* bound on failed writes and crashes
  KeyLineups        \* who takes part: records of values, clients and editors

ASSUME KeyAssumption ==
  /\ IsFiniteSet(KeyValues) /\ IsFiniteSet(Clients)
  /\ NoKey \notin KeyValues \cup KeyIds
  /\ IsFiniteSet(Quotas) /\ Quotas # {} /\ Quotas \subseteq Nat \ {0}
  /\ MaxUsage \in Nat /\ MaxFaults \in Nat
  /\ UsageCap \in Nat /\ UsageCap >= Max(Quotas) + Cardinality(Clients) * MaxUsage
  /\ \A l \in KeyLineups :
       l.values \subseteq KeyValues /\ l.clients \subseteq Clients /\ l.editors \subseteq KeyEditors

VARIABLES
  lineup,        \* the member of KeyLineups this behaviour is about; never changes
  apiKeys,       \* cfg.ApiKeys: [KeyIds -> entry or Absent]
  legacyKey,     \* cfg.ApiKey
  keyFile,       \* the file: what a Save wrote of the two
  usagePending,  \* apiKeyUsageSaveGeneration # 0
  usageTimer,    \* a timer that will run flushApiKeyUsage is armed
  flushWaiting,  \* flushApiKeyUsage was called and waits for the flush mutex
  flushPc,       \* where the flush that holds the mutex is
  clientPc,      \* [Clients -> where the request is]
  clientKey,     \* [Clients -> the id in its context]
  editing,       \* [KeyEditors -> the entry apiUpdateApiKey has read: id and usage]
  unflushed,     \* history: ids whose usage is in no file yet
  deleted,       \* history: keys deleted and not added since
  faults         \* failed writes and crashes so far

clients == <<clientPc, clientKey>>
flushing == <<usagePending, usageTimer, flushWaiting, flushPc>>
keyVars ==
  <<lineup, apiKeys, legacyKey, keyFile, usagePending, usageTimer, flushWaiting, flushPc,
    clientPc, clientKey, editing, unflushed, deleted, faults>>

Absent == [key |-> NoKey, enabled |-> FALSE, limit |-> 0, used |-> 0, migrated |-> FALSE]
Entry(k, on, lim) == [Absent EXCEPT !.key = k, !.enabled = on, !.limit = lim]
Present == {i \in KeyIds : apiKeys[i].key # NoKey}
Values(f) == {f[i].key : i \in {j \in KeyIds : f[j].key # NoKey}}
NoEdit == [id |-> NoKey, used |-> 0, migrated |-> FALSE]

(* A deployment that was upgraded (the legacy key, not migrated yet) or one *)
(* that never had a key.                                                    *)
KeyInit ==
  /\ lineup \in KeyLineups
  /\ apiKeys = [i \in KeyIds |-> Absent]
  /\ legacyKey = NoKey
  /\ \E old \in lineup.values \cup {NoKey} : keyFile = [keys |-> apiKeys, legacy |-> old]
  /\ usagePending = FALSE /\ usageTimer = FALSE
  /\ flushWaiting = FALSE /\ flushPc = "down"
  /\ clientPc = [c \in Clients |-> "idle"]
  /\ clientKey = [c \in Clients |-> NoKey]
  /\ editing = [e \in KeyEditors |-> NoEdit]
  /\ unflushed = {} /\ deleted = {} /\ faults = 0

Up == flushPc # "down"

(* Save writes the whole configuration or reports an error. *)
Saved(keys) ==
  /\ keyFile' = [keys |-> keys, legacy |-> legacyKey]
  /\ unflushed' = {} /\ UNCHANGED faults
NotSaved ==
  /\ faults < MaxFaults /\ faults' = faults + 1
  /\ UNCHANGED <<keyFile, unflushed>>

-----------------------------------------------------------------------------
(* AddApiKey and, for more than one value, AddApiKeys: values that exist,   *)
(* in the list or earlier in the batch, are left out, one write follows,    *)
(* and a write that fails takes the new entries out again.                  *)
Fresh_batchOnly(batch) == {i \in DOMAIN batch : \A j \in DOMAIN batch : j = i \/ batch[j] # batch[i]}
Fresh(batch) ==
  {i \in DOMAIN batch :
     /\ batch[i] \notin Values(apiKeys)
     /\ \A j \in DOMAIN batch : j < i => batch[j] # batch[i]}

(* newUUID: an identifier nothing refers to. *)
Unused(i) ==
  /\ apiKeys[i] = Absent
  /\ \A c \in Clients : clientKey[c] # i
  /\ \A e \in KeyEditors : editing[e].id # i

AddApiKeys(batch, ids, on, lim) ==
  LET added == {ids[n] : n \in Fresh(batch)}
      keys == [i \in KeyIds |->
                 IF i \in added
                 THEN Entry(batch[CHOOSE n \in Fresh(batch) : ids[n] = i], on, lim)
                 ELSE apiKeys[i]]
  IN /\ Up /\ Fresh(batch) # {}
     /\ \A n \in Fresh(batch) : Unused(ids[n])
     /\ \/ /\ apiKeys' = keys /\ Saved(keys)
           /\ deleted' = deleted \ Values(keys)
        \/ UNCHANGED <<apiKeys, deleted>> /\ NotSaved
     /\ UNCHANGED <<legacyKey, flushing, clients, editing>>

(* apiUpdateApiKey reads the entry, lets the request change it and hands    *)
(* the whole entry to UpdateApiKeyEntry, another critical section.  The value,   *)
(* the switch and the limit of the patch may be any; the counter is the one *)
(* that was read.                                                           *)
apiUpdateApiKey(e, i) ==
  /\ Up /\ editing[e] = NoEdit /\ i \in Present
  /\ editing' = [editing EXCEPT ![e] =
                 [id |-> i, used |-> apiKeys[i].used, migrated |-> apiKeys[i].migrated]]
  /\ UNCHANGED <<apiKeys, legacyKey, keyFile, flushing, clients, unflushed, deleted, faults>>

(* The counters are not taken from the patch, and Migrated stays once it is *)
(* set.  A collision is refused; a write that fails leaves the change in    *)
(* memory.                                                                  *)
Patched_usage(i, patch) == [apiKeys EXCEPT ![i] = patch]
Patched(i, patch) ==
  [apiKeys EXCEPT ![i] = [patch EXCEPT !.used = apiKeys[i].used,
                                       !.migrated = apiKeys[i].migrated \/ patch.migrated]]

UpdateApiKeyEntry(e, k, on, lim) ==
  LET i == editing[e].id
      keys == Patched(i, [key |-> k, enabled |-> on, limit |-> lim,
                          used |-> editing[e].used, migrated |-> editing[e].migrated])
  IN /\ Up /\ editing[e] # NoEdit
     /\ editing' = [editing EXCEPT ![e] = NoEdit]
     /\ IF i \notin Present \/ \E j \in Present \ {i} : apiKeys[j].key = k
        THEN UNCHANGED <<apiKeys, keyFile, unflushed, deleted, faults>>
        ELSE /\ apiKeys' = keys
             /\ deleted' = deleted \ {k}
             /\ Saved(keys) \/ NotSaved
     /\ UNCHANGED <<legacyKey, flushing, clients>>

DeleteApiKey(i) ==
  LET keys == [apiKeys EXCEPT ![i] = Absent]
  IN /\ Up /\ i \in Present
     /\ apiKeys' = keys
     /\ \/ Saved(keys) /\ deleted' = deleted \cup {apiKeys[i].key}
        \/ NotSaved /\ UNCHANGED deleted
     /\ UNCHANGED <<legacyKey, flushing, clients, editing>>

ResetApiKeyUsage(i) ==
  LET keys == [apiKeys EXCEPT ![i].used = 0]
  IN /\ Up /\ i \in Present /\ apiKeys[i].used > 0
     /\ apiKeys' = keys
     /\ Saved(keys) \/ NotSaved
     /\ UNCHANGED <<legacyKey, flushing, clients, editing, deleted>>

-----------------------------------------------------------------------------
(* authenticate.  Entries win over the legacy key; a request that the       *)
(* legacy key lets in has no entry and is charged to none.                  *)
ApiKeyOverLimit_strict(n) == n.limit > 0 /\ n.used > n.limit
ApiKeyOverLimit(n) == n.limit > 0 /\ n.used >= n.limit

Matches(k) == {i \in Present : apiKeys[i].key = k}
Accepts(k) ==
  IF Present # {}
  THEN \E i \in Matches(k) : apiKeys[i].enabled /\ ~ApiKeyOverLimit(apiKeys[i])
  ELSE k = legacyKey

authenticate(c, k) ==
  /\ Up /\ clientPc[c] = "idle" /\ Accepts(k)
  /\ clientPc' = [clientPc EXCEPT ![c] = "running"]
  /\ clientKey' = [clientKey EXCEPT ![c] = IF Present = {} THEN NoKey ELSE CHOOSE i \in Matches(k) : TRUE]
  /\ UNCHANGED <<apiKeys, legacyKey, keyFile, flushing, editing, unflushed, deleted, faults>>

Finished(c) == clientKey' = [clientKey EXCEPT ![c] = NoKey]

(* RecordApiKeyUsage: the counter under cfgLock, the save scheduled after   *)
(* it is released.  A key that is gone, or no key, is not charged.          *)
RecordApiKeyUsage(c, n) ==
  LET i == clientKey[c]
  IN /\ Up /\ clientPc[c] = "running"
     /\ i # NoKey => apiKeys[i].used + n <= UsageCap
     /\ IF i # NoKey /\ i \in Present
        THEN /\ apiKeys' = [apiKeys EXCEPT ![i].used = @ + n]
             /\ unflushed' = unflushed \cup {i}
             /\ clientPc' = [clientPc EXCEPT ![c] = "recorded"]
             /\ UNCHANGED clientKey
        ELSE /\ clientPc' = [clientPc EXCEPT ![c] = "idle"] /\ Finished(c)
             /\ UNCHANGED <<apiKeys, unflushed>>
     /\ UNCHANGED <<legacyKey, keyFile, flushing, editing, deleted, faults>>

scheduleApiKeyUsageSave(c) ==
  /\ Up /\ clientPc[c] = "recorded"
  /\ clientPc' = [clientPc EXCEPT ![c] = "idle"] /\ Finished(c)
  /\ usagePending' = TRUE /\ usageTimer' = TRUE
  /\ UNCHANGED <<apiKeys, legacyKey, keyFile, flushWaiting, flushPc, editing, unflushed, deleted, faults>>

(* The timer runs flushApiKeyUsage in a goroutine of its own. *)
UsageTimerFires ==
  /\ Up /\ usageTimer /\ usageTimer' = FALSE /\ flushWaiting' = TRUE
  /\ UNCHANGED <<apiKeys, legacyKey, keyFile, usagePending, flushPc, clients, editing, unflushed, deleted, faults>>

(* FlushStats calls FlushPendingWrites: the timer is stopped, then the same. *)
FlushPendingWrites ==
  /\ Up /\ usagePending /\ usageTimer' = FALSE /\ flushWaiting' = TRUE
  /\ UNCHANGED <<apiKeys, legacyKey, keyFile, usagePending, flushPc, clients, editing, unflushed, deleted, faults>>

flushApiKeyUsage ==
  /\ flushPc = "idle" /\ flushWaiting
  /\ flushWaiting' = FALSE /\ usagePending' = FALSE
  /\ flushPc' = IF usagePending THEN "taken" ELSE "idle"
  /\ UNCHANGED <<apiKeys, legacyKey, keyFile, usageTimer, clients, editing, unflushed, deleted, faults>>

FlushSave ==
  /\ flushPc = "taken"
  /\ \/ Saved(apiKeys) /\ flushPc' = "idle"
     \/ NotSaved /\ flushPc' = "failed"
  /\ UNCHANGED <<apiKeys, legacyKey, usagePending, usageTimer, flushWaiting, clients, editing, deleted>>

FlushRearm_keepsZero ==
  /\ flushPc = "failed" /\ flushPc' = "idle" /\ usageTimer' = TRUE
  /\ UNCHANGED <<apiKeys, legacyKey, keyFile, usagePending, flushWaiting, clients, editing, unflushed, deleted, faults>>
FlushRearm ==
  /\ flushPc = "failed" /\ flushPc' = "idle"
  /\ usagePending' = TRUE /\ usageTimer' = TRUE
  /\ UNCHANGED <<apiKeys, legacyKey, keyFile, flushWaiting, clients, editing, unflushed, deleted, faults>>

-----------------------------------------------------------------------------
(* The process ends: requests, edits and what is in memory only are lost. *)
KeyCrash ==
  /\ Up /\ faults < MaxFaults /\ faults' = faults + 1
  /\ flushPc' = "down"
  /\ usagePending' = FALSE /\ usageTimer' = FALSE /\ flushWaiting' = FALSE
  /\ clientPc' = [c \in Clients |-> "idle"]
  /\ clientKey' = [c \in Clients |-> NoKey]
  /\ editing' = [e \in KeyEditors |-> NoEdit]
  /\ unflushed' = {}
  /\ UNCHANGED <<apiKeys, legacyKey, keyFile, deleted>>

(* loadLocked.  A legacy key is promoted to an entry when there is none,    *)
(* without limits and switched on when the deployment required a key;       *)
(* the write of the migrated list must succeed for the process to start.    *)
KeyLoad_always(i, on) ==
  LET promoted == keyFile.legacy # NoKey /\ keyFile.legacy \notin Values(keyFile.keys)
      keys == IF promoted
              THEN [keyFile.keys EXCEPT ![i] = [Entry(keyFile.legacy, on, 0) EXCEPT !.migrated = TRUE]]
              ELSE keyFile.keys
  IN /\ ~Up /\ flushPc' = "idle"
     /\ apiKeys' = keys /\ legacyKey' = keyFile.legacy
     /\ keyFile' = [keyFile EXCEPT !.keys = keys]
     /\ UNCHANGED <<usagePending, usageTimer, flushWaiting, clients, editing, unflushed, deleted, faults>>
KeyLoad(i, on) ==
  LET promoted == keyFile.legacy # NoKey /\ Values(keyFile.keys) = {}
      keys == IF promoted
              THEN [keyFile.keys EXCEPT ![i] = [Entry(keyFile.legacy, on, 0) EXCEPT !.migrated = TRUE]]
              ELSE keyFile.keys
  IN /\ ~Up /\ flushPc' = "idle"
     /\ apiKeys' = keys /\ legacyKey' = keyFile.legacy
     /\ keyFile' = [keyFile EXCEPT !.keys = keys]
     /\ UNCHANGED <<usagePending, usageTimer, flushWaiting, clients, editing, unflushed, deleted, faults>>

KeyNext ==
  /\ \/ \E n \in 1..2, lim \in Quotas :
          \E batch \in [1..n -> lineup.values], ids \in [1..n -> KeyIds] :
            (n = 2 => ids[1] # ids[2]) /\ AddApiKeys(batch, ids, TRUE, lim)
     \/ \E e \in lineup.editors, i \in KeyIds : apiUpdateApiKey(e, i)
     \/ \E e \in lineup.editors, k \in lineup.values, on \in BOOLEAN, lim \in Quotas :
          UpdateApiKeyEntry(e, k, on, lim)
     \/ \E i \in KeyIds : DeleteApiKey(i) \/ ResetApiKeyUsage(i)
     \/ \E c \in lineup.clients, k \in lineup.values : authenticate(c, k)
     \/ \E c \in lineup.clients, n \in {0, MaxUsage} : RecordApiKeyUsage(c, n)
     \/ \E c \in lineup.clients : scheduleApiKeyUsageSave(c)
     \/ UsageTimerFires \/ FlushPendingWrites
     \/ flushApiKeyUsage \/ FlushSave \/ FlushRearm
     \/ KeyCrash
     \/ \E i \in KeyIds, on \in BOOLEAN : KeyLoad(i, on)
  /\ UNCHANGED lineup

KeySpec == KeyInit /\ [][KeyNext]_keyVars

-----------------------------------------------------------------------------
(* No two entries share a value, whatever additions, batches, edits that    *)
(* started from an older read, failed writes and restarts do: FindApiKey-   *)
(* ByValue and the usage it is charged to depend on the first match.        *)
KeyValuesUnique ==
  \A i, j \in KeyIds :
    i # j /\ apiKeys[i].key # NoKey => apiKeys[i].key # apiKeys[j].key

(* Usage that is in no file has a save coming: a recorder that has not      *)
(* scheduled yet, a flush under way, or a pending generation with a timer   *)
(* or a waiting flush behind it.  A failed write does not break the chain.  *)
UsageSaveComes ==
  unflushed # {} =>
    \/ \E c \in Clients : clientPc[c] = "recorded"
    \/ flushPc \in {"taken", "failed"}
    \/ usagePending /\ (usageTimer \/ flushWaiting)

(* The quota is checked when a request starts and charged when it ends, so  *)
(* requests that run together pass it together; the overshoot is at most    *)
(* what they are charged, however the entry is edited between.  A migrated  *)
(* entry starts without a limit.                                            *)
QuotaOvershootBounded ==
  \A i \in KeyIds : ~apiKeys[i].migrated =>
    \E limit \in Quotas : apiKeys[i].used <= (limit - 1) + Cardinality(Clients) * MaxUsage

(* An edit that read the entry before requests were charged does not take   *)
(* their usage back: only a reset, or the deletion of the entry, lowers the *)
(* counter while the process runs.                                          *)
UsageNotLost ==
  [][\A i \in KeyIds :
       Up /\ flushPc' # "down" => apiKeys'[i].used = 0 \/ apiKeys'[i].used >= apiKeys[i].used]_keyVars

(* A value that was deleted, and not added since, is refused, through       *)
(* edits, failed writes, crashes and the migration at the next start.  The  *)
(* one exception is the legacy value when no entry is left: the legacy key  *)
(* is then valid again, and is migrated again by a restart.                 *)
DeletedKeyRefused ==
  \A k \in deleted : Up /\ Accepts(k) => k = legacyKey /\ Present \subseteq Matches(k)

(* The keys as a whole: values identify entries, usage is on its way to the *)
(* file, quotas are overshot by no more than what runs together, and what   *)
(* was deleted is refused.                                                  *)
KeysSafe == KeyValuesUnique /\ UsageSaveComes /\ QuotaOvershootBounded /\ DeletedKeyRefused
=============================================================================
