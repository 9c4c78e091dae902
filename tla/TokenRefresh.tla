----------------------------- MODULE TokenRefresh -----------------------------
(***************************************************************************)
(* Coordinated token refresh: proxy/refresh_coordinator.go, the account    *)
(* copies of config (memory and file) and of the pool that it updates, and *)
(* the two operations that write the pool's copy behind its back,          *)
(* AccountPool.Reload and the deletion of an account.                      *)
(*                                                                         *)
(* Credentials are numbered in the order the identity provider issues      *)
(* them: version n stands for the tokens and the expiry of one answer.     *)
(* The provider (external) accepts the refresh token of every version from *)
(* accepted[a] on; an answer that rotates the refresh token revokes the    *)
(* versions before it.  Gone is an account that is not in the list.        *)
(* D_x is D with the defect x, and no part of the specification.           *)
(*                                                                         *)
(* Every critical section of tokenRefreshCoordinator.mu, of AccountPool.mu *)
(* and of cfgLock is one action.                                           *)
(***************************************************************************)
EXTENDS Integers, FiniteSets

CONSTANTS
  Accounts,
  NoAccount,        \* account of a caller that has none
  Callers,          \* goroutines that call RefreshContext
  Reloaders,        \* goroutines that reload the pool or delete an account
  Concurrency,      \* values of RefreshConcurrency the operator may set
  QueueCapacity,    \* RefreshQueueCapacity
  MaxVersion        \* bound on the credentials the provider issues

Gone == -1

ASSUME RefreshAssumption ==
  /\ IsFiniteSet(Accounts)
  /\ NoAccount \notin Accounts
  /\ Concurrency \subseteq Nat \ {0}
  /\ Concurrency # {}
  /\ QueueCapacity \in Nat
  /\ MaxVersion \in Nat

VARIABLES
  config,     \* [Accounts -> version in cfg.Accounts]
  disk,       \* [Accounts -> version in the file of the last Save]
  pool,       \* [Accounts -> version in AccountPool.accounts]
  issued,     \* [Accounts -> last version the provider issued]
  accepted,   \* [Accounts -> first version the provider still accepts]
  blocked,    \* upstreamBlockedUntil is in the future
  limit,      \* RefreshConcurrency
  active,     \* tokenRefreshCoordinator.active
  waiting,    \* .waiting
  runPc,      \* [Accounts -> where the run of inFlight[a] is]
  runCred,    \* [Accounts -> the version the run presents]
  runNew,     \* [Accounts -> the version it obtained]
  callPc,     \* [Callers -> where RefreshContext is]
  callAcct,   \* [Callers -> the account it refreshes]
  callCred,   \* [Callers -> the version in its copy of the account]
  loadPc,     \* [Reloaders -> where Reload is]
  snapshot,   \* [Reloaders -> the accounts it read from config]
  forgotten   \* history: [Accounts -> an answer was lost or not saved]

provider == <<issued, accepted>>
slots == <<blocked, limit, active, waiting>>
runs == <<runPc, runCred, runNew>>
calls == <<callPc, callAcct, callCred>>
reloads == <<loadPc, snapshot>>
vars ==
  <<config, disk, pool, issued, accepted, blocked, limit, active, waiting,
    runPc, runCred, runNew, callPc, callAcct, callCred, loadPc, snapshot, forgotten>>

RunPCs ==
  {"none",      \* no entry in inFlight
   "queued",    \* goroutine started, before execute's block check
   "trying",    \* in acquireSlot, before the lock
   "parked",    \* waits on the notify channel
   "woken",     \* the notify channel it holds is closed
   "upstream",  \* has a slot, request with the provider
   "saving",    \* answer received, in the persistence batch
   "publish",   \* saved, pool not updated yet
   "failed",    \* error result, slot not released yet
   "release",   \* success, slot not released yet
   "lost",      \* error result, holds no slot
   "done"}      \* success, holds no slot

InQueue == {"queued", "trying", "parked", "woken"}
InSlot == {"upstream", "saving", "publish", "failed", "release"}
RunsIn(S) == {a \in Accounts : runPc[a] \in S}

CallPCs == {"idle", "held", "look", "wait"}
LoadPCs == {"idle", "deleted", "read"}

Empty == [a \in Accounts |-> Gone]

Init ==
  /\ config = [a \in Accounts |-> 0]
  /\ disk = config /\ pool = config
  /\ issued = config /\ accepted = config
  /\ blocked = FALSE
  /\ limit \in Concurrency
  /\ active = 0 /\ waiting = 0
  /\ runPc = [a \in Accounts |-> "none"]
  /\ runCred = config /\ runNew = config
  /\ callPc = [c \in Callers |-> "idle"]
  /\ callAcct = [c \in Callers |-> NoAccount]
  /\ callCred = [c \in Callers |-> 0]
  /\ loadPc = [k \in Reloaders |-> "idle"]
  /\ snapshot = [k \in Reloaders |-> Empty]
  /\ forgotten = [a \in Accounts |-> FALSE]

-----------------------------------------------------------------------------
(* RefreshContext.  The caller holds a copy of the account it selected.     *)
Select(c, a) ==
  /\ callPc[c] = "idle" /\ pool[a] # Gone
  /\ callPc' = [callPc EXCEPT ![c] = "held"]
  /\ callAcct' = [callAcct EXCEPT ![c] = a]
  /\ callCred' = [callCred EXCEPT ![c] = pool[a]]
  /\ UNCHANGED <<config, disk, pool, provider, slots, runs, reloads, forgotten>>

(* RefreshContext returns; the caller's copy leaves the model with it. *)
Returned(S) ==
  /\ callPc' = [c \in Callers |-> IF c \in S THEN "idle" ELSE callPc[c]]
  /\ callAcct' = [c \in Callers |-> IF c \in S THEN NoAccount ELSE callAcct[c]]
  /\ callCred' = [c \in Callers |-> IF c \in S THEN 0 ELSE callCred[c]]

(* copyRuntimeCredentialFields from the pool, if the account is there. *)
Latest(c) == IF pool[callAcct[c]] # Gone THEN pool[callAcct[c]] ELSE callCred[c]

(* The token in the copy is good for longer than TokenRefreshBeforeSeconds  *)
(* and the refresh is not forced, or a recent block is still in force.      *)
NoRefresh(c) ==
  /\ callPc[c] = "held"
  /\ Returned({c})
  /\ UNCHANGED <<config, disk, pool, provider, slots, runs, reloads, forgotten>>

NeedsRefresh(c) ==
  /\ callPc[c] = "held" /\ ~blocked
  /\ callPc' = [callPc EXCEPT ![c] = "look"]
  /\ callCred' = [callCred EXCEPT ![c] = Latest(c)]
  /\ UNCHANGED <<config, disk, pool, provider, slots, runs, callAcct, reloads,
                 forgotten>>

Join(c) ==
  /\ callPc[c] = "look" /\ runPc[callAcct[c]] # "none"
  /\ callPc' = [callPc EXCEPT ![c] = "wait"]
  /\ callCred' = [callCred EXCEPT ![c] = 0]
  /\ UNCHANGED <<config, disk, pool, provider, slots, runs, callAcct, reloads,
                 forgotten>>

QueueFull(c) ==
  /\ callPc[c] = "look" /\ runPc[callAcct[c]] = "none" /\ waiting >= QueueCapacity
  /\ Returned({c})
  /\ UNCHANGED <<config, disk, pool, provider, slots, runs, reloads, forgotten>>

StartRun(c) ==
  LET a == callAcct[c] IN
  /\ callPc[c] = "look" /\ runPc[a] = "none" /\ waiting < QueueCapacity
  /\ waiting' = waiting + 1
  /\ runPc' = [runPc EXCEPT ![a] = "queued"]
  /\ runCred' = [runCred EXCEPT ![a] = callCred[c]]
  /\ callPc' = [callPc EXCEPT ![c] = "wait"]
  /\ callCred' = [callCred EXCEPT ![c] = 0]
  /\ UNCHANGED <<config, disk, pool, provider, blocked, limit, active, runNew,
                 callAcct, reloads, forgotten>>

(* The caller's context ends or its own timer fires; the run goes on. *)
Abandon(c) ==
  /\ callPc[c] = "wait"
  /\ Returned({c})
  /\ UNCHANGED <<config, disk, pool, provider, slots, runs, reloads, forgotten>>

-----------------------------------------------------------------------------
(* run and execute, one goroutine per account in inFlight.                  *)
LeaveQueue == IF waiting > 0 THEN waiting - 1 ELSE waiting

RunBlocked_keepsPlace(a) ==
  /\ runPc[a] = "queued" /\ blocked
  /\ runPc' = [runPc EXCEPT ![a] = "lost"]
  /\ UNCHANGED <<config, disk, pool, provider, slots, runCred, runNew, calls,
                 reloads, forgotten>>

RunBlocked(a) ==
  /\ runPc[a] = "queued" /\ blocked
  /\ waiting' = LeaveQueue
  /\ runPc' = [runPc EXCEPT ![a] = "lost"]
  /\ UNCHANGED <<config, disk, pool, provider, blocked, limit, active, runCred,
                 runNew, calls, reloads, forgotten>>

RunReady(a) ==
  /\ runPc[a] = "queued" /\ ~blocked
  /\ runPc' = [runPc EXCEPT ![a] = "trying"]
  /\ UNCHANGED <<config, disk, pool, provider, slots, runCred, runNew, calls,
                 reloads, forgotten>>

acquireSlot(a) ==
  /\ runPc[a] \in {"trying", "woken"} /\ active < limit
  /\ active' = active + 1
  /\ waiting' = LeaveQueue
  /\ runPc' = [runPc EXCEPT ![a] = "upstream"]
  /\ UNCHANGED <<config, disk, pool, provider, blocked, limit, runCred, runNew,
                 calls, reloads, forgotten>>

ParkForSlot(a) ==
  /\ runPc[a] \in {"trying", "woken"} /\ active >= limit
  /\ runPc' = [runPc EXCEPT ![a] = "parked"]
  /\ UNCHANGED <<config, disk, pool, provider, slots, runCred, runNew, calls,
                 reloads, forgotten>>

(* The task timeout; select may prefer it to a closed notify channel. *)
SlotTimeout(a) ==
  /\ runPc[a] \in {"parked", "woken"}
  /\ waiting' = LeaveQueue
  /\ runPc' = [runPc EXCEPT ![a] = "lost"]
  /\ UNCHANGED <<config, disk, pool, provider, blocked, limit, active, runCred,
                 runNew, calls, reloads, forgotten>>

(* auth.RefreshTokenContext: the provider answers with a new access token   *)
(* and a new refresh token, or keeps the refresh token it was shown.        *)
Answered(a, rotates) ==
  /\ runPc[a] = "upstream" /\ runCred[a] >= accepted[a]
  /\ issued[a] < MaxVersion
  /\ issued' = [issued EXCEPT ![a] = @ + 1]
  /\ accepted' = [accepted EXCEPT ![a] = IF rotates THEN issued[a] + 1 ELSE @]
  /\ runNew' = [runNew EXCEPT ![a] = issued[a] + 1]
  /\ runPc' = [runPc EXCEPT ![a] = "saving"]
  /\ UNCHANGED <<config, disk, pool, slots, runCred, calls, reloads,
                 forgotten>>

(* The provider rotated the token; the answer did not arrive in time.       *)
AnswerLost(a) ==
  /\ runPc[a] = "upstream" /\ runCred[a] >= accepted[a]
  /\ issued[a] < MaxVersion
  /\ issued' = [issued EXCEPT ![a] = @ + 1]
  /\ accepted' = [accepted EXCEPT ![a] = issued[a] + 1]
  /\ forgotten' = [forgotten EXCEPT ![a] = TRUE]
  /\ runPc' = [runPc EXCEPT ![a] = "failed"]
  /\ UNCHANGED <<config, disk, pool, slots, runCred, runNew, calls, reloads>>

(* Refused, out of reach, or timed out before the provider did anything. *)
RefreshFails(a) ==
  /\ runPc[a] = "upstream"
  /\ runPc' = [runPc EXCEPT ![a] = "failed"]
  /\ UNCHANGED <<config, disk, pool, provider, slots, runCred, runNew, calls,
                 reloads, forgotten>>

(* The provider's edge blocks this server: markRefreshUpstreamBlocked. *)
UpstreamBlocks(a) ==
  /\ runPc[a] = "upstream"
  /\ blocked' = TRUE
  /\ runPc' = [runPc EXCEPT ![a] = "failed"]
  /\ UNCHANGED <<config, disk, pool, provider, limit, active, waiting, runCred,
                 runNew, calls, reloads, forgotten>>

(* flushSoon and UpdateAccountCredentialsBatch: one write for the requests  *)
(* S collected meanwhile, from several accounts.  An account deleted in the *)
(* meantime is skipped.                                                     *)
Updated_readds(S) == [a \in Accounts |-> IF a \in S THEN runNew[a] ELSE config[a]]

Updated(S) ==
  [a \in Accounts |-> IF a \in S /\ config[a] # Gone THEN runNew[a] ELSE config[a]]

BatchSaved_firstOnly(S) ==
  LET first == CHOOSE a \in S : TRUE IN
  /\ S # {}
  /\ config' = Updated({first})
  /\ disk' = Updated({first})
  /\ runPc' = [a \in Accounts |-> IF a \in S THEN "publish" ELSE runPc[a]]
  /\ UNCHANGED <<pool, provider, slots, runCred, runNew, calls, reloads, forgotten>>

BatchSaved(S) ==
  /\ S # {}
  /\ config' = Updated(S)
  /\ disk' = Updated(S)
  /\ runPc' = [a \in Accounts |-> IF a \in S THEN "publish" ELSE runPc[a]]
  /\ UNCHANGED <<pool, provider, slots, runCred, runNew, calls, reloads, forgotten>>

BatchFails_published(S) ==
  /\ S # {}
  /\ runPc' = [a \in Accounts |-> IF a \in S THEN "publish" ELSE runPc[a]]
  /\ forgotten' = [a \in Accounts |-> forgotten[a] \/ a \in S]
  /\ UNCHANGED <<config, disk, pool, provider, slots, runCred, runNew, calls, reloads>>

(* Save fails: config is rolled back and every request gets the error. *)
BatchFails(S) ==
  /\ S # {}
  /\ runPc' = [a \in Accounts |-> IF a \in S THEN "failed" ELSE runPc[a]]
  /\ forgotten' = [a \in Accounts |-> forgotten[a] \/ a \in S]
  /\ UNCHANGED <<config, disk, pool, provider, slots, runCred, runNew, calls, reloads>>

(* AccountPool.UpdateCredentials *)
Publish(a) ==
  /\ runPc[a] = "publish"
  /\ pool' = [pool EXCEPT ![a] = IF @ # Gone THEN runNew[a] ELSE @]
  /\ runPc' = [runPc EXCEPT ![a] = "release"]
  /\ UNCHANGED <<config, disk, provider, slots, runCred, runNew, calls, reloads,
                 forgotten>>

Signalled_nobody == runPc

(* Closing notify wakes every parked run. *)
Signalled == [b \in Accounts |-> IF runPc[b] = "parked" THEN "woken" ELSE runPc[b]]

AfterRelease(a) == IF runPc[a] = "release" THEN "done" ELSE "lost"

releaseSlot(a) ==
  /\ runPc[a] \in {"failed", "release"}
  /\ active' = IF active > 0 THEN active - 1 ELSE active
  /\ runPc' = [Signalled EXCEPT ![a] = AfterRelease(a)]
  /\ UNCHANGED <<config, disk, pool, provider, blocked, limit, waiting, runCred,
                 runNew, calls, reloads, forgotten>>

Answers_onSuccess(a) ==
  {c \in Callers : callPc[c] = "wait" /\ callAcct[c] = a /\ runPc[a] = "done"}

(* run: the result is stored, inFlight cleared and done closed, and every   *)
(* caller in wait returns, with the new credentials on success              *)
(* (applyCoordinatedRefreshResult).                                         *)
Answers(a) == {c \in Callers : callPc[c] = "wait" /\ callAcct[c] = a}

Finish(a) ==
  /\ runPc[a] \in {"lost", "done"}
  /\ Returned(Answers(a))
  /\ runPc' = [runPc EXCEPT ![a] = "none"]
  /\ runCred' = [runCred EXCEPT ![a] = 0]
  /\ runNew' = [runNew EXCEPT ![a] = 0]
  /\ UNCHANGED <<config, disk, pool, provider, slots, reloads, forgotten>>

-----------------------------------------------------------------------------
(* AccountPool.Reload: the accounts are read from config before p.mu is     *)
(* taken, and installed under it.                                           *)
ReloadReads(k) ==
  /\ loadPc[k] \in {"idle", "deleted"}
  /\ loadPc' = [loadPc EXCEPT ![k] = "read"]
  /\ snapshot' = [snapshot EXCEPT ![k] = config]
  /\ UNCHANGED <<config, disk, pool, provider, slots, runs, calls, forgotten>>

ReloadInstalls(k) ==
  /\ loadPc[k] = "read"
  /\ pool' = snapshot[k]
  /\ loadPc' = [loadPc EXCEPT ![k] = "idle"]
  /\ snapshot' = [snapshot EXCEPT ![k] = Empty]
  /\ UNCHANGED <<config, disk, provider, slots, runs, calls, forgotten>>

(* apiDeleteAccount: config.DeleteAccount, then Reload.  When Save fails    *)
(* the account has left cfg.Accounts all the same, and Reload is skipped.   *)
DeleteAccount(k, a) ==
  /\ loadPc[k] = "idle" /\ config[a] # Gone
  /\ config' = [config EXCEPT ![a] = Gone]
  /\ \/ /\ disk' = config'
        /\ loadPc' = [loadPc EXCEPT ![k] = "deleted"]
     \/ UNCHANGED <<disk, loadPc>>
  /\ UNCHANGED <<pool, provider, slots, runs, calls, snapshot, forgotten>>

-----------------------------------------------------------------------------
BlockEnds ==
  /\ blocked
  /\ blocked' = FALSE
  /\ UNCHANGED <<config, disk, pool, provider, limit, active, waiting, runs, calls,
                 reloads, forgotten>>

SetConcurrency(n) ==
  /\ limit # n
  /\ limit' = n
  /\ UNCHANGED <<config, disk, pool, provider, blocked, active, waiting, runs, calls,
                 reloads, forgotten>>

CallStep(c) ==
  \/ \E a \in Accounts : Select(c, a)
  \/ NoRefresh(c) \/ NeedsRefresh(c)
  \/ Join(c) \/ QueueFull(c) \/ StartRun(c) \/ Abandon(c)

RunStep(a) ==
  \/ RunBlocked(a) \/ RunReady(a)
  \/ acquireSlot(a) \/ ParkForSlot(a) \/ SlotTimeout(a)
  \/ (\E rotates \in BOOLEAN : Answered(a, rotates))
  \/ AnswerLost(a) \/ RefreshFails(a) \/ UpstreamBlocks(a)
  \/ Publish(a) \/ releaseSlot(a) \/ Finish(a)

Next ==
  \/ \E c \in Callers : CallStep(c)
  \/ \E a \in Accounts : RunStep(a)
  \/ \E S \in SUBSET RunsIn({"saving"}) : BatchSaved(S) \/ BatchFails(S)
  \/ \E k \in Reloaders :
       \/ ReloadReads(k) \/ ReloadInstalls(k)
       \/ \E a \in Accounts : DeleteAccount(k, a)
  \/ BlockEnds
  \/ \E n \in Concurrency : SetConcurrency(n)

Spec == Init /\ [][Next]_vars

(* The run goroutine is straight-line code bounded by the task timeout,     *)
(* which ends the wait for a slot and the upstream request; the batch is    *)
(* written 20 ms after its first request.  Nothing is assumed of callers.   *)
Fairness ==
  \A a \in Accounts :
    /\ WF_vars(RunStep(a))
    /\ WF_vars(SlotTimeout(a))
    /\ WF_vars(RefreshFails(a))
    /\ WF_vars(\E S \in SUBSET RunsIn({"saving"}) :
                 a \in S /\ (BatchSaved(S) \/ BatchFails(S)))

FairSpec == Spec /\ Fairness

-----------------------------------------------------------------------------
(* Properties. *)
Versions == 0 .. MaxVersion
Copies == Versions \cup {Gone}

(* Every copy holds a version the provider issued, and the refresh queue    *)
(* never grows past RefreshQueueCapacity.                                   *)
TypeOK ==
  /\ config \in [Accounts -> Copies]
  /\ disk \in [Accounts -> Copies]
  /\ pool \in [Accounts -> Copies]
  /\ issued \in [Accounts -> Versions]
  /\ accepted \in [Accounts -> Versions]
  /\ blocked \in BOOLEAN
  /\ limit \in Concurrency
  /\ active \in Nat
  /\ waiting \in 0 .. QueueCapacity
  /\ runPc \in [Accounts -> RunPCs]
  /\ runCred \in [Accounts -> Versions]
  /\ runNew \in [Accounts -> Versions]
  /\ callPc \in [Callers -> CallPCs]
  /\ callAcct \in [Callers -> Accounts \cup {NoAccount}]
  /\ callCred \in [Callers -> Versions]
  /\ loadPc \in [Reloaders -> LoadPCs]
  /\ snapshot \in [Reloaders -> [Accounts -> Copies]]
  /\ forgotten \in [Accounts -> BOOLEAN]

(* active and waiting are the runs that hold a slot and the runs that are   *)
(* queued for one: no error path, timeout or block leaks either, so refresh *)
(* capacity never shrinks.                                                  *)
SlotsConserved ==
  /\ active = Cardinality(RunsIn(InSlot))
  /\ waiting = Cardinality(RunsIn(InQueue))

(* A run asleep on the notify channel has somebody who will close it, even  *)
(* when the operator changes RefreshConcurrency while it sleeps.            *)
ParkedHasWaker == RunsIn({"parked"}) # {} => active > 0

(* The coordinator as a whole: no slot or place in the queue leaks, and a   *)
(* run that sleeps is woken.                                                *)
CoordinatorSafe == TypeOK /\ SlotsConserved /\ ParkedHasWaker

(* Credentials reach the pool only after they are in the file: a restart    *)
(* never falls back to a refresh token older than one that was in use.      *)
DurableBeforeVisible ==
  \A a \in Accounts : pool[a] # Gone /\ disk[a] # Gone => pool[a] <= disk[a]

(* A refresh token the provider rotated is in config, or its answer is on   *)
(* the way there, unless that answer was lost or the file write failed:     *)
(* batching and deletions of other accounts drop nobody's credentials.      *)
RotationRecorded ==
  \A a \in Accounts :
    config[a] # Gone /\ accepted[a] > config[a] => runPc[a] = "saving" \/ forgotten[a]

(* Rotated credentials survive: on the file before they are used, and       *)
(* recorded unless their answer or their write was lost.                    *)
RotationSafe == DurableBeforeVisible /\ RotationRecorded

(* A refresh that completes after its account was deleted does not bring it *)
(* back into config (TestRefreshDoesNotResurrectDeletedAccount).            *)
DeletedStaysDeleted ==
  [][\A a \in Accounts : config[a] = Gone => config'[a] = Gone]_vars

(* Nobody waits forever for a shared refresh, whatever becomes of its run.  *)
CallerAnswered == \A c \in Callers : callPc[c] = "wait" ~> callPc[c] # "wait"

(* Concurrent callers share one upstream refresh ("pool reload broke        *)
(* single-flight"): no request presents credentials that this process has   *)
(* already exchanged and saved.                                             *)
NoStaleRefresh ==
  \A a \in Accounts :
    runPc[a] = "upstream" /\ config[a] # Gone => runCred[a] >= config[a]
=============================================================================
