# Kiro-Go-Plus: a TLA+ model

Kiro-Go-Plus is a Go proxy that offers the Claude, OpenAI and Responses APIs and
serves them from a pool of upstream Kiro accounts. This directory holds TLA+
specifications of the parts of it that decide, under concurrency and failure,
*who may call upstream, with which credentials, and when*, *what the client is told*
and *what is remembered*; TLC configurations that check them on small instances; and
TLAPS proofs of the most important invariants for instances of any size. All paths and line numbers below are relative to the
repository (`src/` in `PROJECT.json`).

Run from this directory:

    tlc -workers 2 -config UpstreamSlots.cfg MCUpstreamProtection     # one run
    tlc -workers 2 -config Services.cfg MCServices                    # a suite, about four minutes
    tlapm UpstreamProtection_proofs.tla                               # the proofs of a chapter

## 1. Inventory

### How a request flows

1. `authenticate` (`proxy/auth.go`) copies the API key's entry and checks its quota;
   `apiKeyAdmissionManager.Acquire` (`proxy/api_admission.go`) lets it in, queues it
   or refuses it.
2. The handler loop (`proxy/handler.go`, `responses_handler.go`, `websearch.go`)
   asks the pool for an account: `AccountPool.AcquireForModel`
   (`pool/protection.go`) takes a slot and returns a guard. Without one the
   failover controller (`proxy/account_failover.go`) waits in the pool's bounded
   availability queue.
3. `ensureValidTokenContext` refreshes the access token if needed through the
   shared coordinator (`proxy/refresh_coordinator.go`), which persists what it got
   (`config.UpdateAccountCredentialsBatch`) and publishes it to the pool.
4. `callKiroAPISingleModel` (`proxy/kiro.go`) walks the endpoints; each attempt is
   admitted by the endpoint's and the proxy's circuit (`proxy/upstream_health.go`).
5. The answer is decoded, translated and streamed; success or failure is reported
   to the pool, the guard is released, and after a failure the loop starts again
   with another account.

Operators change settings, limits and accounts through the admin API at any time,
and background tasks refresh tokens, model lists and usage.

### Components

| component | state | operations | hard part |
|---|---|---|---|
| Upstream protection, `pool/protection.go` | slots per account, account/model, profile/model; 429 circuits; affinity table; waiting count | acquire, release, report success or 429, forget affinity, wait | settings change under load; half-open probes; wake-ups |
| Endpoint and proxy circuits, `proxy/upstream_health.go`, used by `proxy/kiro.go` | circuit per key, bounded maps | begin, success, failure, release, evict | every return path must end its admission; nested calls |
| API key admission, `proxy/api_admission.go` | in-flight, waiting, minute window | acquire, reserve, reconcile, release | lost wake-ups; limits edited while queued; window rollover |
| Token refresh, `proxy/refresh_coordinator.go` | single-flight table, slots, queue, block; config, file and pool copies | refresh, join, persist batch, publish | rotation of refresh tokens; failing saves; deletion; reload |
| Account pool, `pool/account.go`, `inventory.go`, `runtime_state.go` | accounts, cooldowns and kinds, error counts, statistics, saved runtime state | select, record, reload, save | lost updates, restart, cooldown kinds |
| Failover, `proxy/account_failover.go`, `upstream_error.go` | attempt budget, excluded accounts, deadlines | next account, wait, classify | budgets, waits racing deadlines |
| Configuration, `config/*.go` | the configuration in memory and in the file, secrets, API keys and their usage | setters, normalisers, save | partial failure of a save, batched usage |
| Streaming: `eventstream*.go`, `meaningful_stream.go`, `activity_watchdog.go`, `tool_assembly.go`, `thinking_tags.go`, `sse.go` | decoder buffers, open blocks, timers | feed, flush, stop | chunk boundaries, watchdog races, commitment to the client |
| Translation: `translator.go`, `responses_input.go`, ... | none | pure | history repair |
| Responses store, prompt cache, request logs and archive | bounded tables and files | put, get, expire, rotate, persist | eviction, crash between two files |
| Web search, model fallback, model health | rounds, chains, probe results | loop, fall back, probe | budgets over several calls |
| Admin authentication, import watcher, login flows | sessions, files, polls | login, import, poll | expiry, cancellation, repeated import |
| Process services: `internal/*`, `logger` | lock file, client cache | | small |

`PROJECT.json` lists all components with their files and status, and under
`hazards` the forty places where this code is hardest to test, with the
properties that watch them.

### What makes them correct

* **Protection**: counters equal what is really outstanding; an admission respects
  the limits its operation has read; a circuit never stays closed to traffic for ever; at most
  one half-open probe; a queue place is given back once; only the owner of an
  affinity binding forgets it, and only the oldest one is evicted.
* **Circuits**: every admission ends exactly once; the map stays bounded and never
  drops an entry in use; an open circuit is not prolonged by stragglers.
* **Admission**: leases, queue places and reservations are conserved; nobody sleeps
  beside a free slot; limits hold through edits.
* **Account backoffs**: a hard backoff is not shortened by stragglers; what the
  process knows reaches the file, so a restart continues the same backoffs.
* **Refresh**: credentials reach requests only after they are durable; a rotated
  token is never dropped silently; a deleted account stays deleted; slots are
  conserved; every caller gets an answer; a token is not exchanged twice. The
  scheduled runs take expiring tokens first and leave refused ones alone.
* **Stores** (keys, accounts, counters, settings, routes, responses, logs, archive,
  prompt cache): what was acknowledged reaches the file or has a write coming, what
  was deleted or cleared does not come back, bounds hold, and a restart continues
  with what was in force.
* **A request on its way**: budgets over nested retries hold, nothing shown is
  repeated, an account pays only for what was heard of it, the client is told the
  real failure.
* **Streams**: tool calls are assembled from their own fragments, the gate neither
  loses nor reorders, timers neither forget nor invent, and the client sees one
  well-formed response whatever happens behind it.
* **Conversations**: whatever state of repair they come in, tool results answer the
  calls before them, outputs are not lost, and the payload fits the window.

## 2. Modules and how they correspond to the code

Common conventions. Every critical section of a mutex is one action; code between
two critical sections is an interleaving point. Time is the number of ticks until
a deadline (`NoTime`, -1, is Go's zero time), and a `Tick` lets time pass. What
another component decides is an arbitrary choice. A definition `D_x` is `D` with
the defect `x`; no specification uses it, the `mutants` in `PROJECT.json` put it in
the place of `D` to show that a property can fail.

### UpstreamProtection (`pool/protection.go`, loops of the handlers)

State: `up` (the saved settings), `read` (per request, the settings its next operation
works with), `accountUpstream`, `upstream`, `profiles` (the
three maps of the pool; an absent key reads as `ZeroState`, as in Go),
`affinity`/`seenBefore` (bindings and the order of their `lastSeen`),
`waitingRequests`, and for every request goroutine `pc` and `call` (the model it
asked for, the model it will report success under, its route, its account and
whether it holds an unreleased guard).

| action | code |
|---|---|
| `Start` | a client request, a health probe (never reported) or a web search (acquires under one model, reports under another) |
| `AcquireForModel`, `AcquireUnprotected` | `AcquireForModel` with protection on (prune affinity, prefer the bound account, take the first free candidate) and off (nil guard) |
| `RecordUpstreamSuccess`, `RecordUpstreamRateLimited`, `OtherFailure` | the reports after a call |
| `ForgetAffinity`, `RetryCall` | the integrity retry with the same guard |
| `Release` | `UpstreamRequestGuard.Release`, then `releaseUpstreamSlot`, which reopens an abandoned probe, deletes idle state and wakes the queue |
| `JoinQueue`, `LeaveQueue`, `GiveUp`, `NextRound` | `WaitForAvailabilityWithStatus` and the failover controller |
| `UpdateUpstreamProtection`, `NotifyAvailability` | the operator saves settings; then the queue is woken, as it is by other changes of accounts |

Every operation calls `GetUpstreamProtectionConfig` before it takes the pool's lock
(`protection.go:226`, 298, 337, 565, 78). The read may happen at any time after the
previous step of its request, so `read[r]` follows `up` until, at a save, the request
*may* have read already; then it keeps the old settings until its step (`ReadsNext`). So
an admission can use limits that have been lowered meanwhile, and a release a base
cooldown that has been replaced.

The jitter of a cooldown is a choice (`Cooldowns`). Which accounts are routable,
and their order, is any subset in any order.

### UpstreamHealth (`proxy/upstream_health.go`, `callKiroAPISingleModel`)

State: `circuit` (per endpoint scope and per proxy), and for every *frame* - the
d-th nested invocation of `callKiroAPISingleModel` by one request - `pc` and
`lease` (the proxy and endpoint admission it holds, what it will report for the
proxy, attempts left). Actions follow the function: `BeginProxy`, `BeginEndpoint`,
`LoopEnds`, `SendFails`, `Abandon` (the returns that end no endpoint admission:
client gone, local configuration error), `Respond`, `ResponseEnds`, `Recurse`
(token refresh, history fallback, region recovery), `ReleaseAfterNested`, `Return`
(the deferred end of the proxy admission).

### ApiKeyAdmission (`proxy/api_admission.go`)

One key; keys share only a mutex. State: the key's limits in the configuration
(`entry`), the counters of `apiKeyAdmissionState`, and per request the copy of the
limits it authenticated with, its reservation and whether it was settled.
`windowStarted` becomes `elapsed` (a minute has passed and nobody has looked), and
a reservation of an earlier window is 0, since `ReconcileTokens` never subtracts
it. Actions: `Arrive`, one turn of the loop of `Acquire` (`RateLimited`, `Grant`,
`Refuse`, `Park`), `GiveUp` and `cancelWait` (two critical sections, hence two
actions), `ReserveTokens`/`ReserveNothing`/`TokensExceeded`, `ReconcileTokens`,
`Release`, `MinutePasses`, `UpdateApiKey`.

### TokenRefresh (`proxy/refresh_coordinator.go`, parts of `config.go`, `account.go`, `handler.go`)

Credentials are numbered in the order in which the provider (external) issues
them; `accepted[a]` is the oldest version whose refresh token it still takes.
State: the three copies `config`, `disk`, `pool`; the coordinator's `active`,
`waiting`, `blocked`, `limit`; one run per account (`runPc`, `runCred`, `runNew`),
callers, and reloaders. Callers: `Select`, `NoRefresh`/`NeedsRefresh` (the copy of
the credentials and the decision), then under the lock `Join`, `QueueFull` or
`StartRun`; `Abandon`. Runs: `RunBlocked`, `RunReady`, `acquireSlot`,
`ParkForSlot`, `SlotTimeout`, the provider's `Answered`/`AnswerLost`,
`RefreshFails`, `UpstreamBlocks`, the batch `BatchSaved`/`BatchFails`, `Publish`,
`releaseSlot`, `Finish`. Around them: `ReloadReads`/`ReloadInstalls` (Reload reads
the configuration before it takes the pool's lock), `DeleteAccount` with a save
that may fail, `SetConcurrency`, `BlockEnds`.

### AccountCooldowns (`pool/account.go`, `pool/runtime_state.go`)

State: the maps `cooldowns`, `cooldownKinds`, `errorCounts`, `refreshFailures`, the
account part of `runtime_state.json` (`file`), the debounce (`saveTimer`, `timers`,
`savers`) and the copy being written (`image`, which also stands for `stateSaveMu`
being held). A report (`RecordSuccess`, `RecordError`, `RecordQuotaError`,
`SetRefreshFailureCooldown`, `ClearRefreshFailureCooldown`,
`ClearAccountCooldowns`) changes the maps in one critical section and asks for a
save in another (`scheduleRuntimeStateSave`). `TimerFires` and `FlushRuntimeState`
lead to `BeginSave` (the copy), then `SaveWritten` or `SaveFails`; `Crash` and
`Restart` (`loadRuntimeState`) come at any time. Deadlines are whole ticks; the file
keeps whole seconds.

### Stores

Each of these keeps something in memory and in a file, under one mutex per table and
another for the save; every critical section is an action, a save may fail, and a
crash or restart comes at any time.

| module | code | state | actions |
|---|---|---|---|
| `ApiKeyStore` | `config/apikeys.go`, `proxy/auth.go`, `proxy/admin_apikeys.go` | entries, pending usage, timer, file, legacy key | add, edit in two steps, delete, reset, authenticate with quota check, record usage, flush, crash, load with migration |
| `AccountRegistry` | `config/config.go`, the account handlers | accounts with identity, credentials version, switch, ban; file | add, import by identity, edit, ban, lift, refresh, delete, batch updates, load |
| `AccountStats` | `pool/account.go`, `config.UpdateAccountStatsBatch` | counters of pool and configuration, dirty set, flush under `statsSaveMu` | record, schedule, copy, write, fail, reload in three steps, reset in two |
| `ConfigSettings` | `config/config.go` | settings in memory and file | update, save, stop, an edited file, load; normalisers and getters as functions |
| `EndpointRoutes` | `proxy/account_endpoint_routes.go` | cooldowns, preferences, file, debounced save | failure, success, select, forget, save, restart |
| `ResponsesStore` | `proxy/responses_store.go` | files, index | save with eviction, read by owner (a plain file becomes a new, larger one), expire, purge, statistics, failing system calls (a write, a removal, the listing as a whole or at one file) |
| `RequestLogs` | `proxy/request_log.go`, `request_detail.go` | two bounded lists, files, timers | record, configure, clear, save, crash, start |
| `LogArchive` | `proxy/log_archive.go` | queue, command, open file, rotated files | enqueue, write, rotate, cleanup, reconfigure, flush, clear, close |
| `PromptCache` | `proxy/cache_tracker.go`, `cache_persistence.go` | entries, reservations, generation, file | read the settings, compute, store, give back, trim, configure section by section, clear, flush, prune, restart |
| `ModelCatalog` | `proxy/handler.go`, `pool/account.go` | entries per account, aggregate, pool lists, tasks, flags | passes, single fetches in two steps, account changes, stop, join |

### A request on its way

`Failover` follows one request through the account loop, the replay of a cut
stream, the model fallback and the endpoint loop, with the classification of errors
as a function of status and body marker; `sent`, `since`, `told`, `shownAt` are
history. `AutoRefresh` models the scheduled and manual refresh runs of
`proxy/handler.go`. `PayloadHistory` is the conversation of a request as a sequence
of turns: translation (Claude, transparent Claude, OpenAI), truncation, a second
truncation with the model's window, repair before each call and the one fall back
to plain history. A text is a sequence of pieces; sizes count pieces.

### Streams

| module | code |
|---|---|
| `ToolStream` | `parseEventStreamWithOptions` and `pendingToolUseSet` of `proxy/kiro.go`: frames that show an id, a name, an index or none of them |
| `StreamGate` | `proxy/meaningful_stream.go`: what is held back until it is worth an answer |
| `StreamTimers` | `proxy/activity_watchdog.go`, `eventstream.go`, `tool_assembly.go`: timers whose callbacks run late |
| `StreamDelivery` | the three streaming and three buffered handlers, their retries, guards, reservations, heartbeat and logs |
| `WireProtocol` | abstract: what a client may see on one response |
| `RequestTrace` | `proxy/request_detail.go`: the bounded timeline of one request |
| `TokenUsage` | usage envelopes merged (`kiro.go`) and resolved under the accounting modes (`cache_tracker.go`) |

**Refinement.** `StreamDelivery` instantiates `WireProtocol` with a mapping of its
sent events (`Wire == INSTANCE WireProtocol WITH ...`), and the run `Services` checks
`WellFormedResponse == Wire!WireSpec` as a property: every step of a handler, its
heartbeat and its retries is a step of the protocol or leaves the wire alone.
`Streams_proofs` proves the same for every value of the constants.

## 3. Runs

| run | module | checks | shows |
|---|---|---|---|
| `UpstreamSlots` | MCUpstreamProtection | `SlotsSafe`, `GuardsAccounted`, `AdmissionWithinLimits` | three requests, one account and profile, any two of three settings (strict; soft with a profile limit; off) switched at any time, also between an operation's read of them and its lock |
| `UpstreamAffinity` | MCUpstreamProtection | `AffinityEvictsOldest`, `ForgetsOnlyOwnBinding`, `ProfileAdmissionWithinLimit` | two requests, two accounts (one with a limited profile), three routes, a table of two entries; a profile limit that does not change holds |
| `UpstreamLiveness` | MCUpstreamProtection | `ProbeResolved`, `QueueDrains` | two requests and web searches, fair scheduling |
| `UpstreamProfileChange` | MCUpstreamProtection | `ProfileAdmissionWithinLimit` violated | a profile limit configured while requests run is exceeded afterwards |
| `UpstreamHalfOpen` | MCUpstreamProtection | `SingleHalfOpenProbe` violated | two half-open probes at once |
| `Gates` | MCGates | `AdmissionAccounted`, `HoldersWithinLimits`, `ReservationsCovered`, `CircuitsSafe`, `CooldownNotExtended`, `GateSafe` | ApiKeyAdmission: three requests, limits edited and removed while they wait and run. UpstreamHealth: nested calls, eviction at the limit, clients that leave. StreamGate: six kinds of request |
| `HealthCancel` | MCUpstreamHealth | `ProbeResolved` violated | a canceled probe leaves its endpoint refused for ever |
| `RefreshDurability` | MCTokenRefresh | `RotationSafe`, `DeletedStaysDeleted` | two accounts, shared batches, reload and deletion |
| `RefreshLiveness` | MCTokenRefresh | `CoordinatorSafe`, `CallerAnswered` | slots that are raised and lowered while runs wait |
| `RefreshStale` | MCTokenRefresh | `NoStaleRefresh` violated | a refresh repeated with the token it has just replaced |
| `Services` | MCServices | `KeysSafe`, `UsageNotLost`, `AccountsSafe`, `CredentialsNeverOlder`, `CountersSafe`, `SettingsSafe`, `DeliverySafe`, `WellFormedResponse`, `ToolsSafe`, `TimersSafe`, `RoutesSafe`, `FailoverSafe`, `AutoRefreshSafe`, `ResponsesSafe`, `CatalogSafe` | twelve components, one at a time |
| `Records` | MCRecords | `CooldownsSafe`, `TraceSafe`, `LogsSafe`, `ArchiveSafe`, `CacheSafe`, `AccountingSafe`, `HistorySafe` | seven components, one at a time |

`Gates`, `Services` and `Records` put components side by side that share no variable:
`part` is chosen at the start, the component of that name moves and the others stay
in an initial state. The state graph is the disjoint union of theirs, so nothing is
lost against separate runs, and a property of one component is checked in all of its
states. A *scene* (lineup, style, dialect, journey, plan: a variable that is chosen
at the start and never changes) does the same inside a component: it combines the
few actors and settings that can meet, instead of all with all.

The `...Safe` properties are conjunctions of named parts; the parts are stated, each
with its comment, at the end of their module. What they say:

* `SlotsSafe`: slot counters equal the guards still out, and never go below zero.
  `GuardsAccounted`: queue places, profile counters and probe flags belong to
  requests that exist. `AdmissionWithinLimits`: no admission beyond the limits its
  operation read. `AffinityEvictsOldest`: what expires or is evicted is older than what
  stays.
* `AdmissionAccounted`, `CircuitsSafe`: the same for API keys and circuits, with no
  lost wake-up and a bounded registry.
* `RotationSafe`, `CoordinatorSafe`: credentials are durable before they are visible,
  rotations are recorded; slots and queue places are conserved and a parked run has
  somebody to wake it.
* `KeysSafe`: values identify keys, usage has a save coming, a quota is overshot by
  no more than what runs together, a deleted key is refused. `UsageNotLost`: a step
  that loses usage is a crash or a reset.
* `AccountsSafe`: ids are unique, a banned account is off, the file has the
  credentials in use, a deleted account is gone. `CredentialsNeverOlder`: no step but
  a restart installs older credentials.
* `CountersSafe`: a dirty counter has a write coming, no outcome is counted twice and
  none is lost: the pool has every outcome of its accounts, and the configuration has
  it too unless the account is dirty or in the copy being written. The code breaks the
  last part in three races, and the property excepts the accounts that met one
  (`atRisk`): an outcome recorded between the flush of a `Reload` and its swap
  (`account.go:134`, `137-155`) is overwritten by the counters read before it; a flush
  of an account that left the pool while dirty writes zero (`account.go:1083`); a reset
  drops what is recorded between its two steps.
* `SettingsSafe`: settings in force survive file and restart, are shown as they are,
  and keep their order.
* `DeliverySafe`: one call answers, everything taken is given back, one log entry.
* `ToolsSafe`, `GateSafe`, `TimersSafe`: fragments, order and completeness of tool
  calls; order and retries at the gate; watched calls and their timers. The last says
  that everything watched has a timer due when its silence reaches the limit, and that
  what is cut off was silent for the limit. The idle reader keeps the second only for
  the silence before its last read (`eventstream.go:262-286`): a read that comes after
  the timer has expired arms it again, and the callback that waits for the lock cuts
  the stream off all the same; the property excuses exactly that case.
* `RoutesSafe`: without a pending save a restart restores exactly what holds, an
  endpoint is never both cooling and preferred, tables are bounded.
* `FailoverSafe`: budgets, no replay, explained penalties, the true error.
* `AutoRefreshSafe`: token backoff, usage failures never block tokens, durable
  cooldowns, urgent accounts first.
* `ResponsesSafe`: the index counts every file on disk but those a failed listing passed
  over, limits hold but for failures, answers are the owner's.
* `CatalogSafe`: the aggregate is what the entries say, what is shown can be routed,
  accounts that are off are dropped, one pass at a time, nothing runs after the join.
* `CooldownsSafe`, `TraceSafe`, `LogsSafe`, `ArchiveSafe`, `CacheSafe`,
  `AccountingSafe`: as described at their ends; in short, backoffs survive, the
  decisive events and the long gaps of a timeline are kept and its detail fits the limit
  it was closed with, entries reach their file once and in order, usage adds up. Of the
  prompt cache `CacheSafe` says that reservations belong to their request, that what is
  not marked as changed is in the file but for what is stored while a clear is between
  the memory and the file (`missed`), that limits hold while they are being changed, and
  that a later turn keeps the breakpoints of its prefix: all of them after a turn without
  tool results, those in front of the calling answer after one with, since the
  translator may turn the calls and the results into text.
* `HistorySafe`: repair suffices and is idempotent, calls and results are paired, the
  history is clean, outputs arrive, truncation ends within the limit.

### Bounds

* Requests, calls, callers: two or three. The races found and excluded are between
  a holder, a newcomer and a straggler; three requests give all three roles.
* Settings in `UpstreamSlots`: three, two of them in a behaviour, switched back and forth
  as often as the operator likes; an admission, a release or a report may still work with
  the one while the other is saved. The proofs allow any number of settings.
* Limits of one or two, queues and tables of one entry: the limit is reached, and
  the case *one below the limit* happens too.
* `MaxRateLimits`, `MaxTokens`, `MaxVersion`, `MaxAbandoned`, `MaxAttempts`, `MaxSavers` are
  guards on counters that grow without bound in the code; each is large enough for
  the counted thing to happen and be repeated where repetition matters
  (`MaxVersion = 2` in `RefreshStale`).
* Saturated rather than bounded, without loss: `requests` above `MaxRequests`
  (beyond every limit), consecutive failures above the threshold, `openCount` above
  the longest cooldown.
* `abandoned` counts the admissions lost in the two returns that `HealthCancel`
  shows to leak. `LeasesCounted` (a part of `CircuitsSafe`) is exact up to it, so no other path leaks.
* Cooldowns in `Records`: backoffs of 1 tick (transient, and the limit for unmarked
  old entries) and 2 ticks (quota) keep the order of one minute and one hour; an old
  entry may last longer than a quota backoff. One account: accounts
  share only the timer and the copy, which holds all of them. The proofs have no
  such bounds.
* `Services`: two keys, two requests and an editor; two accounts and an import; two
  requests, a reload and a reset on one counter; each setting with values below, at
  and above its bounds; three fragments of two tools per call and one replay; two
  tool calls; time up to twice the idle limit; two
  endpoints and three reports, two pairs in a table of one; two accounts, models and
  three or four sends per request; two accounts due in runs of one; three responses
  in a store of two; two tasks on two accounts.
* `Records`: two goroutines on one account; six events on a timeline of four; two
  requests in logs of one or two entries; three records in a queue of two with files
  of three; two overlapping requests with two attempts in a cache of three entries, and
  one request against a change of the settings in its nine sections, or two changes;
  two of five usage events in all modes; histories of up to four turns with two tools,
  where a window of six pieces forces every stage of the truncation.
* `MaxFaults`, `MaxRegFaults`, `MaxSaveFaults`, `MaxLogFaults`, `MaxArchiveFaults`:
  one failing write, at any place; a second one adds nothing that
  the first has not done. `MaxStoreFaults = 2`: a listing that fails and a call after it.
* `MaxVersion = 1` in `RefreshDurability` and `RefreshLiveness`: one exchange per
  account, which is what a batch, a failing save and a deletion race against.
* Symmetry of requests, accounts, routes or callers only in runs without liveness.

### Fairness

* Protection: an upstream call ends (it carries first-token, idle and total
  timeouts), and its release and report follow in straight-line code; a queue timer
  fires; time passes. No client has to send anything and no operator has to act.
* Circuits: the same for one invocation; a nested call that was made is run.
* Refresh: a run goroutine is straight-line code under the task timeout, which ends
  the wait for a slot and the HTTP request; a batch is flushed 20 ms after its
  first request. Callers may stop at any time.

## 4. Findings

The four violation runs are disagreements between the code and what a test, a
document or a comment of the repository says; `PROJECT.json` quotes the lines.

1. `UpstreamHalfOpen`: the release of *any* request of a key ends its half-open
   probe, also of a request admitted before the circuit opened. A second probe
   starts while the first still runs.
2. `UpstreamProfileChange`: `releaseUpstreamSlot` decrements a profile counter that
   did not count the request if its limit was configured later.
3. `HealthCancel`: the early returns of `callKiroAPISingleModel` on a canceled
   client and on a local configuration error release the proxy but not the endpoint.
4. `RefreshStale`: `RefreshContext` copies the credentials before it looks for a
   refresh in flight.

Seen while modelling and without a run of their own: the endpoint circuits clear a
probe in the same way as the pool's (`upstream_health.go:237`); a web search
reports success under the client's model and a 429 under its own
(`websearch.go:364`); in its last minute a quota cooldown is replaced by a transient
one, which a late success clears (`account.go:591`); the idle reader cuts off a stream whose data came after its timer had
expired and before the callback ran, against its comment (`eventstream.go:222`); a `Reload` that read the configuration before a deletion or
a refresh installs the older copy in the pool (`account.go:136`); outcomes
recorded while a `Reload` is between its flush and its swap are overwritten in the pool
and, at the next flush, in the configuration (`account.go:134-155`); counters of an
account that left the pool while dirty, as after a failed write, are written as zero
(`account.go:1083`); the uncached
tokens of an early usage frame are added to the reads of a later one (`kiro.go:2360`);
when all endpoints of an account cool down, the account's model is cooled as after a
429 (`account_endpoint_routes.go:314`); after a restart a cooldown of a failed usage
query also blocks the token (`handler.go:953`); a fetch under way adds the models of
an account that was switched off (`handler.go:1838`); reading a plain response of an older
version encrypts it without enforcing the limit on bytes (`responses_store.go:152`); when the listing of
the responses fails, as a whole or at a file (`responses_store.go:292-307`), the index counts as
loaded all the same, and the files it missed are outside the limits until they are written again
or the process restarts (`overlooked` in `ResponsesStore`); a prompt prefix stored between
the two steps of clearing the cache counts as written although the file is removed
(`cache_persistence.go:206`), and a restart before the next change forgets it. The models contain all of
these, and the comments of the properties say what they excuse.

## 5. Proofs

Eight modules of proofs are checked by TLAPS for every value of the constants that
meets the `ASSUME`s of the modules: finitely many requests (or any set of them,
where nothing is counted), settings as the configuration's normaliser leaves them
and any relation `Updates` of what may replace which, natural limits, names that mean nothing kept apart from real ones. `DeliveryAssumption`
says that a request has one of the three protocols and streams or not;
`RegistryAssumption` that a lineup is made of the declared accounts, users and keys;
`StatsAssumption` that the timer and nobody are no reloaders;
`KeyAssumption` that no entry has the empty value or the empty id; `FailoverAssumption`
that budgets, hops and status codes are natural numbers; `RouteTimes` and `RouteTables`
that a cooldown lasts, that a preference lives longer than a tick and that tables are
made of finitely many endpoints; `RefreshRunAssumption` that periods are natural numbers
and accounts a list; `CatalogAssumption` that a listing is a list of records of models and
is told from a request without an answer; `ResponsesAssumption` that the store may hold a file at all and
that encrypting makes none smaller. Each chapter below
names the inductive invariant and why the property alone is not enough.

`Lists` and `DataLemmas` are what several chapters share. `Sublist` is `SelectSeq` by a
function that a proof can unfold. The lemmas are proved by induction, over the least
member of a set of numbers or of finite sets (`LeastNat`, `FiniteSteps`): a member may be
taken out of a sum first, whichever the library's fold takes (`TotalRemove`,
`TotalAdd`, `TotalMonotonic`, `TotalUnion`); a sublist and a flattened list have the
members they should (`SublistMembers`, `FlattenMembers`) in the order they had
(`SublistEmbeds`, `FlattenOrdered`).

`UpstreamProtection_proofs`:

* `TypeCorrect` - `TypeOK /\ CallInv`. `CallInv` (a request past admission has an
  account and a model, a guard exists only between admission and release) is what
  makes the type inductive: without it a release could index a map with no account.
* `SlotsConserved`, `ProfileBounded` - one lemma (`SlotNext`) for both counters. A
  step either keeps every guard with its account and model (`HoldersKept`), or adds
  one holder (`SlotTaken`) or removes one (`SlotFreed`); cardinality does the rest.
  The floor at zero in the code is never needed for accounts and account/models,
  and is needed for profiles, which is why they are only bounded.
* `SlotsCountedRight` - `SlotsSafe` from the two above, and `NothingOrphaned` -
  `GuardsAccounted` from the three results on profiles, queue and probes, as the run
  checks them.
* `AdmissionSafe` - an action property: from conservation, the counters that
  `stateBusy` compares with the limits are the real ones. The limits are those the request
  has read, not the ones saved by the time it holds the lock.
* `QueueConserved` - waking moves a request inside the queue; only `JoinQueue` and
  `LeaveQueue` change the set.
* `ProbesHeld` - strengthened by `ProbeCounted`: a probe has seen a 429, so
  `Reopened` clears it whichever holder is released.
* `OldestBindingEvicted` - `AffinityEvictsOldest` from `AffinityInv`: the times of the
  bindings order them (there is a rank for each, below the time of the last use), so a
  full table has an oldest entry and the eviction removes exactly that one. Without the
  order the loop that evicts could find nobody.
* `OwnBindingsForgotten` - `ForgetsOnlyOwnBinding`, from types alone: the owner is compared
  in the same critical section that deletes.

`ApiKeys_proofs` (admission, for every set of requests and limits, the store of keys and the
store of responses):

* `AdmissionTypes`.
* `LeasesConserved`, `QueueConserved` - through `Conserved`, which adds
  `QueuedHasQueue`: a queued request's own limits have a queue, since they were
  copied once; without it `Refuse` could drop a queued request's place.
* `WakeupsKept` - inductive as it stands, because the slot count only falls in
  `Release`, which wakes everybody under the same lock.
* `AdmissionBalanced` - `AdmissionAccounted`, the conjunction the run checks.
* `HoldersLimited` - for every set of running requests; the newest member of a set
  was admitted when the counter, by `LeasesConserved`, had room for all of it.
* `ReservationsKept` - `ReservationsCovered` through `OwedCovered`: the sum of what the
  unsettled requests have reserved in this window is at most the counter, and who
  holds no lease has reserved nothing. The second half is what lets a release leave the
  sum alone. `WindowOwed` says the same after a window has ended unseen: the counter and every
  reservation are then 0, so a settlement that comes late takes nothing from another request.
* `KeysSafeAlways` (any entries, values, quotas, clients and editors of the store) -
  `KeysSafe`, the conjunction the run checks, through `StoreInv`.
  `FileInv` and `MemoryInv` state the same of the list in the file and of the one in
  memory: values distinct, each entry with a value, and `Clear` - of the deleted values
  a list has at most the legacy one, and then alone. Both lists are needed because a
  save can fail and a start reads the file, which is also where the legacy key is
  migrated again. `QuotaOvershootBounded` is not inductive, since
  it does not see the requests that will still be charged; `ChargeInv` counts them:
  usage and what every running request can still add stay within the bound
  (`Within`), so a request that passed the quota check has room for its own charge
  and for those of all others. `EditInv` types what an edit read before it writes.
  `UsageSaveComes` has its own small invariant (`SaveInv`).
* `UsageNotLostAlways` - `UsageNotLost`, an action property: an edit writes the counter
  that the entry has when it is written, not the one it read.
* `ResponsesKept` (any file names, owners, sizes, limits, number of failing calls) -
  `ResponsesSafe` from `ResponsesInv`. `CountsDisk` keeps the index, with
  the files a failed listing passed over (`overlooked`), at or above the directory, its total the sum of its entries, and both equal as long as no call has
  failed; only then do the limits on the index limit the directory. `Enforced` is the
  central lemma: among the heads of the age order there is a least one that suffices (all of
  them do, `AllPassed`), what it takes is no newer than what it leaves (`PassedOlder`),
  and what the index loses in bytes is what the disk loses. Encrypting a plain file on a
  read makes it larger without enforcing anything, so the limit on bytes holds but for
  that growth (`grown`) until the next save or purge.

`Records_proofs`, on the cooldowns (any accounts, workers and bound on savers):

* `CooldownTypes` - strengthened by `EntryInv` (a running cooldown in the file has a
  kind, else a restart would restore one without) and `TimerInv` (`stateSaveTimer`
  refers to a timer that will still run).
* `QuotaKept` - with `OwedInFile`: while the process is down the file holds what is
  owed. A step leaves an account alone, renews its backoff or is the operator's.
* `TransientHasErrors` - with the same statement about the copy being written.
* `ChangesSaved` - `NoUnsavedChange` from `CountedInv` (a cooling account has an error
  count, so the save does not skip it) and `CopiedInv` (when no copy is to come, the
  last one is up to date). The timer forgotten by a late callback does no harm: it
  still runs.
* `CooldownsKept` - `CooldownsSafe`, the conjunction the run checks.

`TokenRefresh_proofs`, on the coordinator (any accounts, callers, reloaders, limits and
queue), the background runs and the catalogue:

* `RefreshTypes` - with `CallInv`: a caller that is not idle has an account.
* `CoordinatorKept` - `CoordinatorSafe` from `Coordinated`: slots and queue places are
  the runs that hold them, and a run that is parked has another that will wake it.
  Neither is inductive alone: a slot that is returned must wake somebody, which needs
  the count, and the count needs that a parked run holds nothing.
* `RotationKept` - `RotationSafe` through `AccountInv`, one conjunct per place where a
  version of the credentials can be: the file is never behind the pool, nor behind a
  snapshot that a reload will still install, nor behind a run about to publish.
  `Recorded` is what makes it inductive: configuration and file agree outside a
  batch, and a run that is saving has the newest version.
* `DeletionKept` - `DeletedStaysDeleted`, an action property.
* `AutoRefreshKept` (any plans, cooldown and life of a token, runs of any size) -
  `AutoRefreshSafe` from `AutoInv`. The property speaks of an account's cooldown, its
  durable copy, its status and the run that handles it; `AccountOk` relates
  them for one account at each stage of the run: a cooldown of the copy is the one in memory,
  an account that is being asked for usage is not cooling, a cooldown for a refused
  token keeps the run away from the token. `DueList` shows that the list of a run is
  urgent accounts first, by the lemmas on sublists and flattening, and the cut to a run's
  size keeps that.
* `CatalogKept` (any accounts, listings, tasks) - `CatalogSafe` from `CatalogInv`. A pass, a
  single fetch and a change of an account overlap, so the entries alone do not say what
  comes: `TasksSound` says that whatever a task may still touch is an account that is on or
  one the code excuses (it was switched off alone, or under a pass or fetch), and
  that a listing it has received is already the pool's; `Dropping` that an entry of no such
  account has a pass that will prune it; `Passing` that the flag is the flag of one task.
  `Aggregated` relates the list shown to the entries: what one merge does to
  an entry (`MergeOneAggregates`) carried through the models of a listing (`MergeAggregates`) and
  the listings of all accounts (`RebuildAggregates`), each by induction on the list.

`UpstreamHealth_proofs` (any calls, depth of nesting, endpoints, proxies, entry limit):

* `HealthTypes` - with `LeaseInv`: which leases a frame has at each of its places.
* `CircuitsKept` - `CircuitsSafe` through `KeyInv` for each key: `inFlight` is the number
  of leases plus what the two leaking returns left behind (`abandoned`). Two more
  facts are needed: an absent entry counts nothing (so an eviction, which takes only
  idle entries, drops no lease), and a probe runs only when the cooldown has
  passed.
* `CooldownsEnd` - `CooldownNotExtended`, from the same.
* `RoutesKept` (any endpoints, pairs, limits, reports, times of failure) - `RoutesSafe` from
  `RoutesInv`. That a restart restores what holds cannot be seen from the saved tables
  alone: `BehindInv` says that what is on disk of a preference never outlasts memory and
  that `persisted` never promises more than the disk or the copy under way has;
  `AgreeInv` that with no save to come the copy, or else the file, agrees with
  memory up to the half of its life within which a preference is not written again. Both
  survive evictions because a table only loses entries (`Thinner`).

`Records_proofs`, on the counters and the records of the accounts; any accounts, requests,
reloaders, imports, users and keys) and on the archive of the logs:

* `CountersKept` - `CountersSafe` from `CountedInv` (no copy of a counter, in the pool,
  the configuration, a reload or a flush, is above what happened), `ChainInv` (a
  change that is dirty has somebody on the way to write it, whoever holds the save
  lock) and `NoneLostInv` (where the outcomes of an account outside the races are: in
  the pool, in the configuration unless dirty or being written, and, from the copy of a
  reload's flush to its swap, in all that the reload takes). They are needed because a
  flush copies and clears the dirty set before it writes, and a reload flushes, reads
  and installs in three steps.
* `AccountsKept` - `AccountsSafe` from `RegInv`, which states `ListInv` (ids distinct,
  each record sound: a banned account is off) for the list in memory *and* for the
  list in the file, since a start makes the one of the other. An import merges into
  the account of the same identity (`UpsertAccountByIdentity`), which keeps the id,
  so the ids stay distinct.
* `CredentialsKept` - `CredentialsNeverOlder`.
* `ArchiveKept` (any records, capacities, rotation size, failing calls) - `ArchiveSafe` from
  `ArcInv`. `Stored` says that the files, oldest first, and the queue after them are one
  list cut into pieces, ordered as the records were accepted; a write moves the cut,
  a rotation adds one, retention and a failed clear take pieces away (`Shrinks`). That a clear
  is final and a flush complete needs in addition that what they were promised (`erased`,
  `flushed`) is neither in the queue nor, for a clear, in a file, at each phase of
  the worker and of its caller.

`Failover_proofs` (any accounts, settings, answers, fallback rules and events):

* `FailoverKept` - `FailoverSafe` through `RequestInv`: `Kept` holds of a request wherever
  it is (budgets, explained penalties, shown output), `Placed` says what each place
  adds. The property speaks of the end of a call; what makes it inductive is what a call
  knows on its way: every error it may still return is either one that nobody pays for
  (`Blameless`) or was told by this account (`Heard`), it has shown nothing, and as
  long as it has had no answer it has sent nothing (`Idle`), which is why the error of a
  skipped endpoint never hides a real one. One lemma per action; `Failed` is the state
  after an answer, from which all ways on (the same endpoint, the next one, a new call, the
  return) are proved once. Where the guards of a `CASE` overlap the first is meant; the
  proof holds whichever is taken.
* `GateKept` (any request and any order of events) - `GateSafe` of `StreamGate` from
  `GateInv`. The property says that the handler gets every event once, in order. What is held
  back breaks that for as long as it is held, so the invariant is stated of what the
  handler *would have got if everything held were delivered now* (`Delivered`,
  `ToBeGot`); delivering changes nothing of it. `HeldBack` says what may be held, and
  `Promised` what a commitment rests on.

`Streams_proofs` (any styles of request, tools, accounts, retries, callbacks; any limit,
clock and number of timers):

* `ResponsesWellFormed` - `WellFormedResponse`: `StreamDelivery` implements `WireProtocol`.
  The handler decides with its own locals (`activeBlock`, `nextContentIndex`, the tools that are
  open) while the client counts what it has got; between the two lie the events that
  were made and not yet written. `Path(p, out, q)` says that the events `out` lead from
  the position `p` to the position `q` by steps the protocol allows; `Track` that the
  waiting events lead from the client's position to the one the locals describe
  (`End`: the blocks they hold open, the numbers they have used), and that the locals
  are consistent (`Shape`: tools have numbers of their own, Chat has no blocks, an open Responses
  item has the next number; `Fresh`: an attempt without output has no tools). One lemma
  per operator shows that it keeps `Track`; the ways to send a segment are composed by
  the splitter of thinking tags in finitely many patterns (`Pieces`, `Ends3`), so one
  lemma per sender suffices. Emitting takes the first event of the path; a heartbeat
  does not move.
* `OneCallAnswersAlways` - `DeliverySafe`, from the same `DeliveryInv`: text and tools
  commit the attempt (`Counted`), and `Answered` says that only the call that runs and has committed
  has answered, so `canRetry` and the checks after a failed call are enough.
* `TimersKept` - `TimersSafe` of `StreamTimers`. `MonitorOk` says that a call under assembly
  is `Covered` by a timer or by a callback on its way, and that a number is used once: a
  callback never bears the number of a timer that still runs, so the late one that finds
  another number may go, and the one that finds its own knows that no timer of the call is
  left and may arm one. One lemma per operation of the monitor (arm, drop, renew, expire,
  fire); an adoption is a drop and an arming. A `spare` call is one that is about to get
  its timer. The watchdog needs the same of its single timer. `ReaderWatches` says that the
  reader's timer is due when the silence reaches the limit, that without a timer it has
  been reached, and that a callback which waits beside a timer was overtaken by a read;
  `CutInv` follows from these for what is cut off.

Only model-checked, and why:

* Liveness (`ProbeResolved`, `QueueDrains`, `CallerAnswered`): fairness is outside the
  prover's reach. That an endpoint's probe is resolved in the end is false
  (`HealthCancel`); its safe part is in `CircuitsSafe`.
* `ProfileAdmissionWithinLimit` under constant settings, and what the four findings violate.
* `CacheSafe`, `AccountingSafe`, `HistorySafe`, `TraceSafe`, `LogsSafe`: their functions
  (a truncation, a merge of usage frames, the compaction of a timeline) are chains of recursions and
  `SelectSeq`s whose results the properties compare as wholes. Sums, sublists and flattened
  lists are proved above; for these chains each step would need a theory of its own.
  `SelectSeq` has no definition the prover can unfold, and a theorem of the library that takes an
  operator cannot be cited, so each would first be rewritten as `Sublist` was.
* `SettingsSafe`, `ToolsSafe`: not yet proved; see the plan.

## 6. Not modelled

Latencies, counters kept for display, logging, JSON shapes, HTTP details, the bytes
of event frames, encryption of secrets and responses, token estimation, redaction.
In the modelled components: the selection order of accounts, the values of jitter,
the length of waits, images, tool schemas and system prompts. Panics: a guard is
released by explicit calls, so a recovered panic would leak it; none was found on
the path. Whole components that are left out, with the reason, are in
`PROJECT.json`: admin authentication, login flows, customer API, process services
(sequential, or operating-system calls), development tooling and the web UI.

## 7. Plan

Modelled so far, in this order: protection, circuits, admission and refresh; cooldowns;
the stores of keys, accounts, counters and settings; streams; logs; prompt cache and
usage; routes, failover, scheduled refresh, responses, catalogue, conversations.

Next:

1. Theorems: `ToolsSafe` and `SettingsSafe`, then `LogsSafe`.
2. Abstract specifications: a *semaphore with settings* that UpstreamProtection and
   ApiKeyAdmission implement, a *circuit breaker* for both circuits, a *debounced
   durable map* that AccountCooldowns, EndpointRoutes and RequestLogs implement.
3. Composition of Failover with StreamDelivery over one upstream call, so that
   delivery sees exactly the failures that Failover produces.
4. Web search rounds, model health probes, admin sessions.
