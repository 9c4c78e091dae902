---------------------------- MODULE PromptCache ----------------------------
(***************************************************************************)
(* The local prompt cache of cache_tracker.go and cache_persistence.go: it *)
(* remembers the prefixes of the prompts that succeeded, per scope, and    *)
(* tells the next request how much of its prompt was seen before.  A       *)
(* request reserves the prefix it is about to create, so that a parallel   *)
(* one does not report the same creation; the entries are bounded, expire, *)
(* are written to disk by a background flush and read back at the start.   *)
(*                                                                         *)
(* A fingerprint (a hash over the blocks so far) is the sequence of block  *)
(* values itself.  Entries are kept in one sequence, most recently used    *)
(* first.  Only the equality of generation numbers matters to the code:    *)
(* `clean' is stateGeneration = persistedGeneration, and a flush under way *)
(* remembers whether the generation it read is still the current one.      *)
(* All scopes are taken to lie in one shard, and the mark that follows an  *)
(* unlock at once belongs to the step: a flush in between only writes once *)
(* more.  A scene fixes the requests, their prompts and how many attempts  *)
(* they make, the settings at the start, those the administrator may       *)
(* change them to, which of "clear" and "crash" may happen, and how often  *)
(* there is such an intervention.  D_x is D with the defect x.             *)
(***************************************************************************)
EXTENDS Integers, Sequences, SequencesExt, FiniteSets, FiniteSetsExt

CONSTANTS Requests, Payloads, CacheScenes, Nothing,
          ShortTTL, LongTTL, ReservationTTL,
          MaxTime

ASSUME PromptCacheTimes == 0 < ShortTTL /\ ShortTTL < LongTTL

\* missed: the entries in memory when the file was last removed although
\* persistence was on.
VARIABLES now, policy, entries, pending, tries, clean, disk, flush, job,
          cadmin, creq, ended, sent, missed, configs, cscene
trackVars  == <<entries, pending, ended, sent>>     \* under the shard lock
fileVars   == <<clean, disk, flush, missed>>        \* the two generations and the file
policyVars == <<policy, cadmin, configs>>
cacheVars  == <<trackVars, fileVars, policyVars, now, tries, job, creq, cscene>>
-----------------------------------------------------------------------------
(* Profiles: the breakpoints of a payload.                                 *)

minCacheableTokensForModel(model) == IF model = "opus" THEN 3 ELSE 2

\* extractPromptCacheTTL, parsePromptCacheTTLValue, normalizePromptCacheTTL:
\* a cache_control asks for nothing (0), up to five minutes, or more.
normalizePromptCacheTTL(ttl) ==
    CASE ttl <= 0 -> 0
      [] ttl > ShortTTL -> LongTTL
      [] OTHER -> ShortTTL

effectivePromptCacheTTL(maxTTL, ttl) ==
    LET asked == IF ttl <= 0 THEN ShortTTL ELSE ttl
    IN  IF maxTTL > 0 /\ maxTTL < asked THEN maxTTL ELSE asked

\* The cache controls of a Claude request in the order of its prompt: tools,
\* system, messages; a billing header is not part of the prompt.
flattenClaudeCacheBlocks(req) ==
    SelectSeq(req.tools \o req.system \o FlattenSeq(req.messages),
              LAMBDA b : ~b.billing)

\* The last explicit one survives the translation to Kiro.
promptCacheTTLFromClaudeRequest(req) ==
    LET explicit == SelectSeq(flattenClaudeCacheBlocks(req), LAMBDA b : b.ttl > 0)
    IN  IF explicit = <<>> THEN 0 ELSE Last(explicit).ttl

automaticKiroProfileTTL(payload, maxTTL) ==
    LET explicit == promptCacheTTLFromClaudeRequest(payload.claude)
    IN  IF explicit > 0 THEN normalizePromptCacheTTL(explicit)
        ELSE IF maxTTL > 0 THEN normalizePromptCacheTTL(maxTTL) ELSE ShortTTL

kiroUserCacheBlocks(m) == <<m.content>> \o m.tools \o m.results

kiroHistoryCacheBlocks(h) ==
    (IF h.user = Nothing THEN <<>> ELSE kiroUserCacheBlocks(h.user))
        \o (IF h.assistant = Nothing THEN <<>> ELSE <<h.assistant>>)

\* The prelude costs no tokens; the current tools go ahead of the history.
KiroBlocks(payload) ==
    <<[v |-> payload.model, tokens |-> 0]>>
        \o payload.current.tools
        \o FlattenSeq([i \in DOMAIN payload.history |->
                          kiroHistoryCacheBlocks(payload.history[i])])
        \o <<payload.current.content>> \o payload.current.results

\* Every block ends a breakpoint: the values so far and their tokens.
buildKiroPayloadProfile(blocks) ==
    [i \in DOMAIN blocks |->
        [fp |-> [j \in 1..i |-> blocks[j].v],
         tokens |-> FoldLeft(LAMBDA n, b : n + Max({b.tokens, 0}), 0,
                             SubSeq(blocks, 1, i))]]

\* Clamped to the estimate of the payload, and strictly increasing.
finalizePromptCacheProfile(points, total) ==
    FoldLeft(LAMBDA kept, p :
                LET t == Min({p.tokens, total})
                    before == IF kept = <<>> THEN 0 ELSE Last(kept).tokens
                IN  IF t <= before THEN kept
                    ELSE Append(kept, [p EXCEPT !.tokens = t]),
             <<>>, points)

BuildKiroProfile(payload) ==
    LET points == buildKiroPayloadProfile(KiroBlocks(payload))
        total  == IF payload.total <= 0 THEN Last(points).tokens
                                        ELSE payload.total
    IN  finalizePromptCacheProfile(points, total)

\* The profiles of the payloads, evaluated once.
Profile == [q \in DOMAIN Payloads |-> BuildKiroProfile(Payloads[q])]

ScopeKey(mode, key) == IF mode = "account_api_key" THEN key ELSE "account"
-----------------------------------------------------------------------------
(* Entries and reservations.                                               *)

Same(x, y)  == x.scope = y.scope /\ x.fp = y.fp
Live(e)     == e.expires > now
Has(es, scope, fp) ==
    \E i \in DOMAIN es : es[i].scope = scope /\ es[i].fp = fp

putEntryLocked(es, e) == <<e>> \o SelectSeq(es, LAMBDA x : ~Same(x, e))

pruneExpiredAccountLocked(es, scope) ==
    SelectSeq(es, LAMBDA e : e.scope # scope \/ Live(e))

prunePendingAccountLocked(ps, scope) ==
    {p \in ps : p.scope # scope \/ Live(p)}

\* The least recently used entries of the scope go.
enforceAccountLimitLocked(es, scope, max) ==
    LET Rank(e) == Cardinality({i \in DOMAIN es :
                        /\ es[i].scope = scope
                        /\ \E j \in DOMAIN es : es[j] = e /\ i <= j})
    IN  SelectSeq(es, LAMBDA e : e.scope # scope \/ Rank(e) <= max)

enforceAllAccountLimits(es, max) ==
    FoldSet(LAMBDA s, kept : enforceAccountLimitLocked(kept, s, max), es,
            {es[i].scope : i \in DOMAIN es})

enforceGlobalLimit(es, max) == SubSeq(es, 1, Min({Len(es), max}))

clampEntryTTLs(es, maxTTL) ==
    [i \in DOMAIN es |->
        IF es[i].ttl <= maxTTL THEN es[i]
        ELSE [es[i] EXCEPT !.ttl = maxTTL,
                           !.expires = Min({@, now + maxTTL})]]

\* The longest stored breakpoint, 0 when there is none.
Matched(es, scope, bps, min) ==
    Max({0} \cup {i \in DOMAIN bps :
                    bps[i].tokens >= min /\ Has(es, scope, bps[i].fp)})

Ended(ps, kept) == {p.tok : p \in ps \ kept}

NoRequest == [st |-> "idle"]

markStateChanged(changed) ==
    /\ clean' = (clean /\ ~changed)
    /\ flush' = IF flush # Nothing /\ changed THEN [flush EXCEPT !.fresh = FALSE]
                                           ELSE flush
-----------------------------------------------------------------------------
(* A request: profile, an attempt per account, and its outcome.            *)

\* An attempt reads the settings: the profile is built by the first one, while
\* the cache is on, the scope and the longest time to live for every account.
StartAttempt(r, q, key) ==
    /\ tries < cscene.tries
    /\ \/ creq[r].st = "idle" /\ policy.on
       \/ creq[r].st = "retry" /\ creq[r].q = q
    /\ Profile[q] # <<>>
    /\ tries' = tries + 1
    /\ creq' = [creq EXCEPT ![r] =
          [st |-> "looking", q |-> q, tok |-> tries + 1,
           ttl |-> IF @.st = "retry" THEN @.ttl
                   ELSE automaticKiroProfileTTL(Payloads[q], policy.maxTTL),
           scope |-> ScopeKey(policy.mode, key), maxTTL |-> policy.maxTTL]]
    /\ UNCHANGED <<trackVars, fileVars, policyVars, now, job>>

\* Under the lock of the shard the matched entry is refreshed; the newest
\* missing breakpoint is reserved unless another request is creating it.
ComputeDetailed(r) ==
    LET c     == creq[r]
        bps   == Profile[c.q]
        min   == minCacheableTokensForModel(Payloads[c.q].model)
        last  == Last(bps).tokens
        es    == pruneExpiredAccountLocked(entries, c.scope)
        ps    == prunePendingAccountLocked(pending, c.scope)
        m     == IF last < min THEN 0 ELSE Matched(es, c.scope, bps, min)
        hit   == CHOOSE e \in Range(es) : e.scope = c.scope /\ e.fp = bps[m].fp
        ttl   == effectivePromptCacheTTL(c.maxTTL, hit.ttl)
        known == IF m = 0 THEN ps
                 ELSE {x \in ps : ~(x.scope = c.scope /\ x.fp = bps[m].fp)}
        newest == bps[Len(bps)].fp
        inFlight == \E x \in known : x.scope = c.scope /\ x.fp = newest
        mine  == [scope |-> c.scope, fp |-> newest, tok |-> c.tok,
                  expires |-> now + ReservationTTL]
        reserves == last >= min /\ m < Len(bps) /\ ~inFlight
    IN  /\ c.st = "looking"
        /\ entries' = IF m = 0 THEN es
                      ELSE putEntryLocked(es, [hit EXCEPT !.ttl = ttl,
                                                          !.expires = now + ttl])
        /\ pending' = IF reserves THEN known \cup {mine} ELSE known
        /\ ended' = ended \cup Ended(pending, pending')
        /\ markStateChanged(es # entries \/ m > 0)
        /\ creq' = [creq EXCEPT ![r] =
              [st |-> "calling", q |-> c.q, ttl |-> c.ttl, scope |-> c.scope,
               read |-> IF m = 0 THEN Nothing ELSE bps[m].fp,
               res |-> IF reserves THEN mine ELSE Nothing]]
        /\ UNCHANGED <<policyVars, now, tries, job, disk, missed, sent>>

\* The upstream call failed: the reservation is given back, by token.
Retrying(c) == [st |-> "retry", q |-> c.q, ttl |-> c.ttl]

ReleaseReservation_any(r) ==
    /\ creq[r].st = "calling"
    /\ pending' = {p \in pending : creq[r].res = Nothing
                        \/ ~(p.scope = creq[r].res.scope /\ p.fp = creq[r].res.fp)}
    /\ creq' = [creq EXCEPT ![r] = Retrying(@)]
    /\ UNCHANGED <<fileVars, policyVars, now, tries, job, entries, ended, sent>>

ReleaseReservation(r) ==
    /\ creq[r].st = "calling"
    /\ pending' = {p \in pending : creq[r].res = Nothing
                                     \/ p.tok # creq[r].res.tok}
    /\ creq' = [creq EXCEPT ![r] = Retrying(@)]
    /\ UNCHANGED <<fileVars, policyVars, now, tries, job, entries, ended, sent>>

\* No account is left to try.
GiveUp(r) ==
    /\ creq[r].st = "retry"
    /\ creq' = [creq EXCEPT ![r] = NoRequest]
    /\ UNCHANGED <<trackVars, fileVars, policyVars, now, tries, job>>

\* The call succeeded: Update reads the settings before it takes the lock.
ReadSettings(r) ==
    /\ creq[r].st = "calling"
    /\ creq' = [creq EXCEPT ![r] = [st |-> "storing", q |-> @.q, ttl |-> @.ttl,
                   scope |-> @.scope, maxTTL |-> policy.maxTTL,
                   per |-> policy.per, total |-> policy.total]]
    /\ UNCHANGED <<trackVars, fileVars, policyVars, now, tries, job>>

\* Under the lock of the shard, every breakpoint large enough is stored.
Update(r) ==
    LET c     == creq[r]
        min   == minCacheableTokensForModel(Payloads[c.q].model)
        bps   == SelectSeq(Profile[c.q], LAMBDA b : b.tokens >= min)
        ttl   == effectivePromptCacheTTL(c.maxTTL, c.ttl)
        es    == pruneExpiredAccountLocked(entries, c.scope)
        put   == FoldLeft(LAMBDA acc, b : putEntryLocked(acc,
                     [scope |-> c.scope, fp |-> b.fp, ttl |-> ttl,
                      expires |-> now + ttl]), es, bps)
        fps   == {bps[i].fp : i \in DOMAIN bps}
    IN  /\ c.st = "storing"
        /\ entries' = enforceAccountLimitLocked(put, c.scope, c.per)
        /\ pending' = {x \in prunePendingAccountLocked(pending, c.scope) :
                         x.scope # c.scope \/ x.fp \notin fps}
        /\ ended' = ended \cup Ended(pending, pending')
        /\ sent' = sent \cup {<<c.scope, f>> : f \in fps}
        /\ markStateChanged(bps # <<>> \/ es # entries)
        /\ creq' = [creq EXCEPT ![r] = [st |-> "trimming", total |-> c.total]]
        /\ UNCHANGED <<policyVars, now, tries, job, disk, missed>>

\* Update has dropped the lock; it then enforces the total it read before.
Trim(r) ==
    /\ creq[r].st = "trimming"
    /\ entries' = enforceGlobalLimit(entries, creq[r].total)
    /\ markStateChanged(entries' # entries)
    /\ creq' = [creq EXCEPT ![r] = NoRequest]
    /\ UNCHANGED <<policyVars, now, tries, job, pending, ended, sent, disk, missed>>
-----------------------------------------------------------------------------
(* Administration: one request at a time, one step per critical section.   *)

NoChange == [step |-> "idle"]
StepTo(step) == cadmin' = [cadmin EXCEPT !.step = step]

Clear ==
    /\ entries' = <<>>
    /\ pending' = {}
    /\ ended' = ended \cup Ended(pending, {})
    /\ markStateChanged(TRUE)

apiClearPromptCache ==
    /\ cadmin = NoChange /\ configs < cscene.configs /\ "clear" \in cscene.admin
    /\ configs' = configs + 1
    /\ Clear
    /\ cadmin' = [step |-> "remove", to |-> policy]
    /\ UNCHANGED <<now, policy, tries, job, creq, sent, disk, missed>>

\* The settings are saved; the tracker still has the old ones.
apiUpdatePromptCache(s) ==
    /\ cadmin = NoChange /\ configs < cscene.configs
    /\ configs' = configs + 1
    /\ policy' = [policy EXCEPT !.persist = s.persist]
    /\ cadmin' = [step |-> "ttl", to |-> s, newly |-> s.persist /\ ~policy.persist]
    /\ UNCHANGED <<trackVars, fileVars, now, tries, job, creq>>

ConfigureEfficiencyRange ==
    /\ cadmin.step = "ttl" /\ StepTo("clamp")
    /\ policy' = [policy EXCEPT !.maxTTL = cadmin.to.maxTTL]
    /\ UNCHANGED <<trackVars, fileVars, now, tries, job, creq, configs>>

ConfigurePolicy ==
    LET s == cadmin.to
        clearState == (policy.on /\ ~s.on) \/ policy.mode # s.mode
    IN  /\ cadmin.step = "policy" /\ StepTo(IF clearState THEN "clear" ELSE "limits")
        /\ policy' = [policy EXCEPT !.on = s.on, !.mode = s.mode]
        /\ UNCHANGED <<trackVars, fileVars, now, tries, job, creq, configs>>

ConfigureLimits ==
    /\ cadmin.step = "limits" /\ StepTo("accounts")
    /\ policy' = [policy EXCEPT !.per = cadmin.to.per, !.total = cadmin.to.total]
    /\ UNCHANGED <<trackVars, fileVars, now, tries, job, creq, configs>>

\* What the configuration makes of the entries, between the settings.
ConfigureEntries ==
    /\ \/ /\ cadmin.step = "clamp" /\ StepTo("policy")
          /\ entries' = clampEntryTTLs(entries, cadmin.to.maxTTL)
       \/ /\ cadmin.step = "accounts" /\ StepTo("total")
          /\ entries' = enforceAllAccountLimits(entries, cadmin.to.per)
       \/ /\ cadmin.step = "total" /\ StepTo("mark")
          /\ entries' = enforceGlobalLimit(entries, cadmin.to.total)
    /\ markStateChanged(entries' # entries)
    /\ UNCHANGED <<pending, ended, sent, disk, missed, policy, configs, now, tries, job, creq>>

ConfigureClear ==
    /\ cadmin.step = "clear" /\ StepTo("limits")
    /\ Clear
    /\ UNCHANGED <<sent, disk, missed, policy, configs, now, tries, job, creq>>

\* Persistence newly turned on: what there is has to be written.
ConfigurePersistence ==
    /\ cadmin.step = "mark"
    /\ StepTo(IF cadmin.to.persist THEN "flush" ELSE "remove")
    /\ markStateChanged(cadmin.newly)
    /\ UNCHANGED <<trackVars, disk, missed, policy, configs, now, tries, job, creq>>
-----------------------------------------------------------------------------
(* The background job, the disk and restarts.                              *)

\* Under persistMu; what is in memory now counts as written.
RemovePersisted ==
    /\ cadmin.step = "remove" /\ flush = Nothing
    /\ disk' = Nothing
    /\ clean' = TRUE
    /\ missed' = IF policy.persist THEN Range(SelectSeq(entries, Live)) ELSE {}
    /\ cadmin' = NoChange
    /\ UNCHANGED <<trackVars, policy, configs, now, tries, flush, job, creq>>

\* The periodic job looks at the setting before it flushes.
backgroundPromptCacheGC ==
    /\ ~job /\ policy.persist
    /\ job' = TRUE
    /\ UNCHANGED <<trackVars, fileVars, policyVars, now, tries, creq>>

\* Flush reads the generation first ...
CacheFlushBegin ==
    /\ flush = Nothing
    /\ \/ cadmin.step = "flush" /\ cadmin' = NoChange /\ UNCHANGED job
       \/ job /\ job' = FALSE /\ UNCHANGED cadmin
    /\ flush' = IF clean THEN Nothing ELSE [fresh |-> TRUE, snap |-> Nothing]
    /\ UNCHANGED <<trackVars, policy, configs, now, tries, clean, disk, missed, creq>>

\* ... then copies the live entries ...
CacheFlushCopy ==
    /\ flush # Nothing /\ flush.snap = Nothing
    /\ flush' = [flush EXCEPT !.snap = SelectSeq(entries, Live)]
    /\ UNCHANGED <<trackVars, policyVars, now, tries, clean, disk, missed, job, creq>>

\* ... and renames the file into place, or fails before that.
CacheFlushEnd_current(ok) ==
    /\ flush # Nothing /\ flush.snap # Nothing
    /\ disk' = IF ok THEN flush.snap ELSE disk
    /\ clean' = (clean \/ ok)
    /\ flush' = Nothing
    /\ UNCHANGED <<trackVars, policyVars, now, tries, missed, job, creq>>

CacheFlushEnd(ok) ==
    /\ flush # Nothing /\ flush.snap # Nothing
    /\ disk' = IF ok THEN flush.snap ELSE disk
    /\ clean' = (clean \/ (ok /\ flush.fresh))
    /\ flush' = Nothing
    /\ UNCHANGED <<trackVars, policyVars, now, tries, missed, job, creq>>

PruneExpired ==
    /\ \E x \in Range(entries) \cup pending : ~Live(x)
    /\ entries' = SelectSeq(entries, Live)
    /\ pending' = {p \in pending : Live(p)}
    /\ ended' = ended \cup Ended(pending, pending')
    /\ markStateChanged(entries' # entries)
    /\ UNCHANGED <<policyVars, now, tries, disk, missed, job, creq, sent>>

\* What Load makes of the file: expired entries go, the others are held to
\* the time to live and to the limits of the settings s.
LoadCache(es, s) ==
    LET live == SelectSeq(es, Live)
        held == [i \in DOMAIN live |->
                    LET ttl == effectivePromptCacheTTL(s.maxTTL, live[i].ttl)
                    IN  [live[i] EXCEPT !.ttl = ttl,
                                        !.expires = Min({@, now + ttl})]]
    IN  enforceGlobalLimit(enforceAllAccountLimits(held, s.per), s.total)

\* The process stops at any point and starts again with the saved settings.
CacheRestart ==
    LET s == IF cadmin = NoChange THEN policy ELSE cadmin.to
    IN  /\ "crash" \in cscene.admin
        /\ configs < cscene.configs \/ cadmin # NoChange
        /\ configs' = Min({configs + 1, cscene.configs})
        /\ policy' = s
        /\ entries' = IF s.persist /\ disk # Nothing THEN LoadCache(disk, s) ELSE <<>>
        /\ disk' = IF s.persist THEN disk ELSE Nothing
        /\ clean' = ~(s.persist /\ disk # Nothing)
        /\ pending' = {} /\ flush' = Nothing /\ cadmin' = NoChange
        /\ job' = FALSE /\ missed' = {}
        /\ ended' = ended \cup Ended(pending, {})
        /\ creq' = [r \in Requests |-> NoRequest]
        /\ UNCHANGED <<now, tries, sent>>

Later ==
    /\ now < MaxTime
    /\ now' = now + 1
    /\ UNCHANGED <<trackVars, fileVars, policyVars, tries, job, creq>>

\* When everything is used up, another installation.
Reinstall ==
    /\ now = MaxTime /\ configs = cscene.configs
    /\ \A r \in Requests : creq[r].st = "idle"
    /\ now' = 0 /\ policy' = cscene.first /\ entries' = <<>>
    /\ pending' = {} /\ tries' = 0 /\ clean' = TRUE /\ disk' = Nothing
    /\ flush' = Nothing /\ cadmin' = NoChange /\ job' = FALSE /\ missed' = {}
    /\ creq' = [r \in Requests |-> NoRequest]
    /\ ended' = {} /\ sent' = {} /\ configs' = 0

CacheInit ==
    /\ now = 0 /\ cscene \in CacheScenes /\ policy = cscene.first
    /\ entries = <<>> /\ pending = {}
    /\ tries = 0 /\ clean = TRUE /\ disk = Nothing /\ flush = Nothing
    /\ job = FALSE /\ missed = {}
    /\ cadmin = NoChange /\ creq = [r \in Requests |-> NoRequest]
    /\ ended = {} /\ sent = {} /\ configs = 0

CacheNext == UNCHANGED cscene /\ (
    \/ \E r \in cscene.crew, q \in cscene.prompts, k \in cscene.keys : StartAttempt(r, q, k)
    \/ \E r \in Requests : ComputeDetailed(r) \/ ReleaseReservation(r) \/ GiveUp(r)
                              \/ ReadSettings(r) \/ Update(r) \/ Trim(r)
    \/ \E s \in cscene.updates : apiUpdatePromptCache(s)
    \/ ConfigureEfficiencyRange \/ ConfigurePolicy \/ ConfigureLimits
    \/ ConfigureEntries \/ ConfigureClear \/ ConfigurePersistence
    \/ apiClearPromptCache \/ RemovePersisted
    \/ backgroundPromptCacheGC \/ CacheFlushBegin \/ CacheFlushCopy
    \/ \E ok \in BOOLEAN : CacheFlushEnd(ok)
    \/ PruneExpired \/ CacheRestart \/ Later \/ Reinstall)
-----------------------------------------------------------------------------
\* A reservation lasts until its request stores the prefix or fails, until
\* another request stores that prefix, until it expires or until the cache is
\* cleared: a late failure never gives back the reservation of a newer request.
ReservationKept ==
    \A r \in Requests :
        (creq[r].st = "calling" /\ creq[r].res # Nothing
            /\ creq[r].res.tok \notin ended) => creq[r].res \in pending

\* One creation at a time: two tries that both report the creation of the
\* same prefix in the same scope do so only after the first one's reservation
\* had ended.
CreatedOnce ==
    \A r, s \in Requests :
        (/\ r # s /\ creq[r].st = "calling" /\ creq[s].st = "calling"
         /\ creq[r].res # Nothing /\ creq[s].res # Nothing
         /\ creq[r].res.scope = creq[s].res.scope
         /\ creq[r].res.fp = creq[s].res.fp)
            => {creq[r].res.tok, creq[s].res.tok} \cap ended # {}

\* A prefix is reported as read only when a request of the same scope that
\* succeeded had sent exactly that prefix; nothing else gets into the cache,
\* from the disk included.
ReadWasSent ==
    /\ \A r \in Requests : (creq[r].st = "calling" /\ creq[r].read # Nothing)
                              => <<creq[r].scope, creq[r].read>> \in sent
    /\ \A i \in DOMAIN entries : <<entries[i].scope, entries[i].fp>> \in sent

\* While nothing is marked as changed, the file holds the live entries of the
\* memory: a change made during a flush is never taken for written.  There is
\* one exception.  apiClearPromptCache clears the memory and then removes the
\* file, with persistence on, and the removal counts as written whatever an
\* Update has stored between the two (cache_persistence.go:206): these entries
\* stay without a file until the next change.  While persistence is on and no
\* administration is under way, they are the only live entries without one.
CleanMeansWritten ==
    clean => IF disk # Nothing
             THEN SelectSeq(disk, Live) = SelectSeq(entries, Live)
             ELSE policy.persist /\ cadmin = NoChange
                    => Range(SelectSeq(entries, Live)) \subseteq missed

\* The cache is within its limits: no scope holds more entries than a limit
\* that was in force, and once no update is under way the total holds too;
\* while the settings stay as they are, these are the limits configured.
\* (An update that read the settings before they were lowered stores and trims
\* by the old ones.)
WithinLimits ==
    LET ps == {cscene.first} \cup (IF configs = 0 THEN {} ELSE cscene.updates)
        Of(s) == {i \in DOMAIN entries : entries[i].scope = s}
    IN  /\ \A i \in DOMAIN entries :
              Cardinality(Of(entries[i].scope)) <= Max({p.per : p \in ps})
        /\ (\A r \in Requests : creq[r].st \notin {"storing", "trimming"})
              => Len(entries) <= Max({p.total : p \in ps})

\* The next turn of a conversation: the message just sent becomes history and
\* its tools stay in front.  The translator may then tell its tool results in
\* words (`told') and leave nothing but text, or nothing at all, of the answer
\* that had called for them (`left'; translator.go:2290-2329).
NextTurn(p, told, left, answer, next) ==
    LET said == [p.current EXCEPT !.tools = <<>>]
        past == p.history
        tools == said.results # <<>>
    IN  [p EXCEPT !.history =
             Append(IF tools /\ past # <<>> THEN [past EXCEPT ![Len(past)].assistant = left]
                                            ELSE past,
                    [user |-> IF tools THEN [said EXCEPT !.content = told, !.results = <<>>]
                                       ELSE said,
                     assistant |-> answer]),
                  !.current = [p.current EXCEPT !.content = next, !.results = <<>>],
                  !.total = 0]

KeepsPrefix(payload) ==
    LET p == [payload EXCEPT !.total = 0]
        Word(v) == [v |-> v, tokens |-> 1]
        settled == Len(KiroBlocks(p)) -
            (IF p.current.results = <<>> THEN 0 ELSE Len(p.current.results) + 2)
        kept == {b \in Range(BuildKiroProfile(p)) : Len(b.fp) <= settled}
    IN  \A left \in {Word("left"), Nothing} :
            kept \subseteq Range(BuildKiroProfile(
                NextTurn(p, Word("told"), left, Word("answer"), Word("next"))))

\* Evaluated once.
Stable == {q \in DOMAIN Payloads : KeepsPrefix(Payloads[q])}

\* A later turn keeps the breakpoints of the turn before, as long as nothing is
\* cut from its history: all of them after a turn without tool results; after
\* one with tool results those in front of the answer that called for them.
PrefixStable ==
    \A r \in Requests : creq[r].st = "calling" => creq[r].q \in Stable

\* The prompt cache is safe: reservations, reads, persistence and bounds.
CacheSafe == /\ ReservationKept /\ CreatedOnce /\ ReadWasSent
             /\ CleanMeansWritten /\ WithinLimits /\ PrefixStable
=============================================================================
