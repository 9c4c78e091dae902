----------------------------- MODULE TokenUsage -----------------------------
(***************************************************************************)
(* Token accounting of one request: the usage envelopes of the upstream    *)
(* events (kiro.go) are merged into one running usage, and the end of the  *)
(* request turns it, with what the local prompt cache matched, into the    *)
(* usage the client is shown and the cache's statistics (cache_tracker.go).*)
(*                                                                         *)
(* A counter an envelope does not carry is NoCount; Given is the presence  *)
(* bit of the code.  Rates are in tenths.  A scene fixes the accounting    *)
(* mode, its range and what the local cache said.  D_x is D with the       *)
(* defect x.                                                               *)
(***************************************************************************)
EXTENDS Integers, Sequences, SequencesExt, FiniteSets, FiniteSetsExt

CONSTANTS UsageEvents, UsageScenes, MaxUsageEvents, MaxRecorded, MaxTokenInt

VARIABLES uscene, usage, peak, frames, report, cstats
usageVars == <<uscene, usage, peak, frames, report, cstats>>

NoCount == -1
Fields == {"input", "output", "thinking", "uncached", "read", "create", "c5", "c1"}
CacheFields == {"uncached", "read", "create", "c5", "c1"}
NoUsage == [f \in Fields |-> NoCount]

N(x) == Max({x, 0})
Given(u, f) == u[f] # NoCount
HasCacheBreakdown(u) == \E f \in CacheFields : Given(u, f)

saturatingTokenAdd(a, b) == Min({N(a) + N(b), MaxTokenInt})

\* math.Round(a * b / c) of numbers that are not negative.
Round(a, b, c) == (2 * a * b + c) \div (2 * c)
-----------------------------------------------------------------------------
(* Envelopes of one event.                                                 *)

usageMapPriority(key) ==
    CASE key = "tokenUsage" -> 400
      [] key = "usage" -> 300
      [] key = "metadataEvent" -> 250
      [] key = "metrics" -> 200
      [] key = "meteringEvent" -> 150
      [] OTHER -> 0

\* Nested details raise a counter; a total stands in for a missing input.
parseTokenUsageCandidate(e) ==
    LET m   == e.fields
        Get(k) == IF k \in DOMAIN m THEN m[k] ELSE NoCount
        out == Get("output")
        inp == IF Get("input") = NoCount /\ Get("total") > 0
                  /\ Get("total") >= N(out)
               THEN Get("total") - N(out) ELSE Get("input")
        u == [f \in Fields |->
                CASE f = "input" -> inp
                  [] f = "thinking" -> Max({Get("thinking"), Get("details")})
                  [] f = "c5" -> Max({Get("c5"), Get("n5")})
                  [] f = "c1" -> Max({Get("c1"), Get("n1")})
                  [] OTHER -> Get(f)]
    IN  [usage |-> u, priority |-> usageMapPriority(e.key),
         completeness |-> Cardinality({k \in DOMAIN m : k # "total"})
                            + (IF inp # Get("input") THEN 1 ELSE 0)]

Outranks(c, r) == \/ c.priority > r.priority
                  \/ c.priority = r.priority /\ c.completeness > r.completeness

\* One counter of the running merge, [v, rank], meets a candidate.
mergeField(old, c, f) ==
    LET v == c.usage[f]
        new == [v |-> v, rank |-> [priority |-> c.priority,
                                   completeness |-> c.completeness]]
    IN  CASE v = NoCount -> old
          [] old.v = NoCount -> new
          [] v = 0 /\ old.v > 0 ->
                IF f \in CacheFields /\ Outranks(c, old.rank) THEN new ELSE old
          [] old.v = 0 /\ v > 0 -> new
          [] Outranks(c, old.rank) -> new
          [] ~Outranks(old.rank, c) /\ v > old.v -> new
          [] OTHER -> old

Breakdown(u) == saturatingTokenAdd(u.uncached, saturatingTokenAdd(u.read, u.create))

\* The buckets are made consistent with each other and with the input.  An
\* uncached count that was missing is filled in; a positive one is from then on
\* taken for one that upstream sent.
normalizeKiroTokenUsage(u) ==
    LET nested  == saturatingTokenAdd(u.c5, u.c1)
        hasNest == Given(u, "c5") \/ Given(u, "c1")
        create  == IF ~Given(u, "create") /\ hasNest THEN nested ELSE u.create
        w       == [u EXCEPT !.create = create]
        buckets == saturatingTokenAdd(w.read, create)
        complete == /\ Given(w, "uncached")
                    /\ Given(w, "read") \/ create # NoCount
                    /\ N(w.uncached) > 0 \/ buckets > 0
        input   == IF ~Given(w, "input") \/ (complete /\ Breakdown(w) > w.input)
                   THEN Breakdown(w)
                   ELSE IF complete THEN w.input
                   ELSE Max({w.input, buckets, N(w.uncached)})
        rescale == create # NoCount /\ hasNest /\ nested # create
        c5      == IF nested = 0 THEN 0
                   ELSE Min({(N(u.c5) * create) \div nested, create})
        c1      == IF nested = 0 THEN 0 ELSE create - c5
    IN  IF ~HasCacheBreakdown(w) THEN w
        ELSE [w EXCEPT !.input = input,
                       !.uncached = IF @ = NoCount /\ input > buckets
                                    THEN input - buckets ELSE @,
                       !.c5 = IF rescale THEN c5 ELSE @,
                       !.c1 = IF rescale THEN c1 ELSE @]

\* A candidate of lower confidence goes first; paths, unique, break ties.  The
\* uncached count that normalisation fills in has no presence bit and is not
\* merged any further.
mergeTokenUsageCandidates(cs) ==
    LET sorted == SortSeq(cs, LAMBDA a, b : Outranks(b, a))
        Merge(m, c) == [f \in Fields |-> mergeField(m[f], c, f)]
        start == [f \in Fields |-> [v |-> NoCount,
                                    rank |-> [priority |-> 0, completeness |-> 0]]]
        merged == FoldLeft(Merge, start, sorted)
    IN  [normalizeKiroTokenUsage([f \in Fields |-> merged[f].v])
            EXCEPT !.uncached = merged["uncached"].v]

collectUsageCandidates(event) ==
    SelectSeq([i \in DOMAIN event |-> parseTokenUsageCandidate(event[i])],
              LAMBDA c : c.completeness > 0)

\* Counters of successive events are cumulative.
mergeTokenUsageProgress_last(current, next) ==
    normalizeKiroTokenUsage([f \in Fields |->
        IF next[f] = NoCount THEN current[f] ELSE next[f]])

mergeTokenUsageProgress(current, next) ==
    normalizeKiroTokenUsage([f \in Fields |-> Max({current[f], next[f]})])

updateTokenUsageFromEvent(event, current) ==
    mergeTokenUsageProgress(current,
                            mergeTokenUsageCandidates(collectUsageCandidates(event)))
-----------------------------------------------------------------------------
(* What the local cache says, and the usage that is reported.              *)

computePromptCacheTTLBreakdown(profile, matched) ==
    LET Delta(i) == N(profile[i].tokens
                        - Max({matched, IF i = 1 THEN 0 ELSE profile[i - 1].tokens}))
        SumOf(long) == FoldSet(LAMBDA i, n : n + Delta(i), 0,
                            {i \in DOMAIN profile : profile[i].long = long})
    IN  [c5 |-> SumOf(FALSE), c1 |-> SumOf(TRUE)]

NoReport == [create |-> 0, read |-> 0, c5 |-> 0, c1 |-> 0]

\* The tail of ComputeDetailed: read efficiency scales the match; a creation
\* that another request has in flight is not counted again.
LocalUsage(s) ==
    LET last == Last(s.profile).tokens
        split == computePromptCacheTTLBreakdown(s.profile, s.matched)
        Counted(n) == IF s.inFlight THEN 0 ELSE n
    IN  [create |-> Counted(last - s.matched),
         read |-> Min({Round(s.matched, s.rate, 10), last}),
         c5 |-> Counted(split.c5), c1 |-> Counted(split.c1)]

LocalStatus(s, u) ==
    CASE s.matched = 0 -> [status |-> "miss", reason |-> "prefix_not_found"]
      [] OTHER -> [status |-> IF u.create > 0 THEN "partial_hit" ELSE "hit",
                   reason |-> CASE u.read = 0 -> "read_efficiency_zero"
                                [] s.inFlight -> "cache_creation_in_flight"
                                [] OTHER -> ""]

\* Clamped to the input, keeping the creation/read ratio and the split.
reconcilePromptCacheUsage(u, input) ==
    LET total  == saturatingTokenAdd(u.create, u.read)
        create == IF total > input
                  THEN Min({Round(u.create, input, total), input}) ELSE u.create
        read   == IF total > input THEN input - create ELSE u.read
        split  == saturatingTokenAdd(u.c5, u.c1)
        c5     == CASE create = 0 -> 0
                    [] split = 0 -> create
                    [] OTHER -> Min({Round(u.c5, create, split), create})
    IN  IF input <= 0 THEN NoReport
        ELSE [create |-> create, read |-> read, c5 |-> c5, c1 |-> create - c5]

Ceil(a, b)  == (a + b - 1) \div b
Clamp(x, lo, hi) == Min({Max({x, lo}), hi})

\* An integer number of tokens inside the range, when there is one.
targetPromptCacheReadTokens_rounded(input, rate, lo, hi) ==
    Clamp(Round(input, Clamp(rate, lo, hi), 10), 0, input)

targetPromptCacheReadTokens(input, rate, lo, hi) ==
    LET desired == Round(input, Clamp(rate, lo, hi), 10)
        least == Ceil(input * lo, 10)
        most  == (input * hi) \div 10
    IN  IF least <= most THEN Clamp(desired, least, most)
                         ELSE Clamp(desired, 0, input)

resolveInputTokenCount(up, s) ==
    IF up.input > 0 THEN up.input
    ELSE IF s.context > 0 THEN s.context ELSE N(s.estimate)

resolvePromptCacheUsageForMode(s, up) ==
    LET input == resolveInputTokenCount(up, s)
        local == reconcilePromptCacheUsage(LocalUsage(s), input)
        named == [create |-> N(up.create), read |-> N(up.read),
                  c5 |-> N(up.c5), c1 |-> N(up.c1)]
        split == computePromptCacheTTLBreakdown(s.profile, 0)
        whole == IF named.create > 0 /\ named.c5 + named.c1 = 0
                 THEN [named EXCEPT !.c5 = split.c5, !.c1 = split.c1] ELSE named
        base  == IF HasCacheBreakdown(up)
                 THEN reconcilePromptCacheUsage(whole, input) ELSE local
        warm  == s.matched > 0 \/ named.read > 0
        goal  == [NoReport EXCEPT !.read =
                    targetPromptCacheReadTokens(input, s.rate, s.lo, s.hi)]
    IN  [mode |-> s.mode, input |-> input,
         target |-> s.mode = "aggregator_target" /\ warm /\ input > 0,
         usage |-> CASE s.mode = "actual" /\ ~HasCacheBreakdown(up) -> NoReport
                     [] s.mode = "aggregator_target" /\ warm /\ input > 0 ->
                          reconcilePromptCacheUsage(goal, input)
                     [] OTHER -> base]

Status(read, create) == IF read = 0 THEN "miss"
                        ELSE IF create > 0 THEN "partial_hit" ELSE "hit"

finalizePromptCacheDiagnostic(s, up, r) ==
    LET local == LocalStatus(s, LocalUsage(s)) IN
    CASE r.target -> [source |-> "target",
                      status |-> Status(r.usage.read, r.usage.create),
                      reason |-> IF r.usage.read = 0 THEN "read_efficiency_zero"
                                 ELSE ""]
      [] ~r.target /\ s.mode = "actual" /\ ~HasCacheBreakdown(up) ->
            [source |-> "upstream", status |-> "skipped",
             reason |-> "upstream_cache_usage_unavailable"]
      [] ~r.target /\ HasCacheBreakdown(up) ->
            [source |-> "upstream", status |-> Status(r.usage.read, r.usage.create),
             reason |-> IF r.usage.read = 0 THEN "upstream_no_cache_read" ELSE ""]
      [] OTHER -> [source |-> "local", status |-> local.status,
                   reason |-> local.reason]

\* buildClaudeUsageMap: what is left after the cache is ordinary input.
buildClaudeUsageMap(r) ==
    LET u == reconcilePromptCacheUsage(r.usage, r.input)
    IN  [input |-> N(r.input - u.create - u.read), usage |-> u]

RecordDecision(st, r, d) ==
    LET total  == IF r.input <= 0 THEN r.usage.read + r.usage.create ELSE r.input
        read   == Min({r.usage.read, total})
        create == Min({r.usage.create, total - read})
        hit    == IF read > 0 THEN 1 ELSE 0
    IN  IF d.status = "skipped" THEN [st EXCEPT !.skipped = @ + 1]
        ELSE [st EXCEPT !.tracked = @ + 1, !.hits = @ + hit,
                        !.misses = @ + 1 - hit, !.input = @ + total,
                        !.read = @ + read, !.create = @ + create,
                        !.uncached = @ + total - read - create]
-----------------------------------------------------------------------------
ZeroStats == [tracked |-> 0, hits |-> 0, misses |-> 0, skipped |-> 0,
              input |-> 0, read |-> 0, create |-> 0, uncached |-> 0]
NoResult == [done |-> FALSE]

UsageInit == /\ uscene \in UsageScenes /\ usage = NoUsage /\ peak = NoUsage
             /\ frames = 0 /\ report = NoResult /\ cstats = ZeroStats

\* An event of the stream arrives.
UsageEvent(e) ==
    /\ ~report.done /\ frames < MaxUsageEvents
    /\ frames' = frames + 1
    /\ usage' = updateTokenUsageFromEvent(e, usage)
    /\ peak' = [f \in Fields |-> Max({peak[f], usage[f]})]
    /\ UNCHANGED <<uscene, report, cstats>>

\* The stream ended well: the usage is resolved, shown and recorded.
FinishUsage ==
    LET r == resolvePromptCacheUsageForMode(uscene, usage)
        d == finalizePromptCacheDiagnostic(uscene, usage, r)
    IN  /\ ~report.done /\ cstats.tracked + cstats.skipped < MaxRecorded
        /\ report' = [done |-> TRUE, result |-> r, diagnostic |-> d,
                      shown |-> buildClaudeUsageMap(r)]
        /\ cstats' = RecordDecision(cstats, r, d)
        /\ UNCHANGED <<uscene, usage, peak, frames>>

\* The next request; the statistics are cleared once enough are recorded.
NextUsage ==
    /\ report.done
    /\ usage' = NoUsage /\ peak' = NoUsage /\ frames' = 0 /\ report' = NoResult
    /\ cstats' = IF cstats.tracked + cstats.skipped = MaxRecorded
                 THEN ZeroStats ELSE cstats
    /\ UNCHANGED uscene

UsageNext == \/ \E i \in DOMAIN UsageEvents : UsageEvent(UsageEvents[i])
             \/ FinishUsage \/ NextUsage
-----------------------------------------------------------------------------
\* Counters only advance while the stream runs, the cached tokens stay within
\* the input, and the split of the creation adds up.  (The uncached bucket may
\* overlap the read one: a count filled in after an early frame stays when a
\* later frame reports reads, and then raises the input.)
UsageCoherent ==
    /\ \A f \in {"input", "output", "thinking", "read", "create"} : usage[f] >= peak[f]
    /\ N(usage.read) + N(usage.create) <= N(usage.input)
    /\ (Given(usage, "create") /\ (Given(usage, "c5") \/ Given(usage, "c1"))
           /\ N(usage.c5) + N(usage.c1) > 0)
          => N(usage.c5) + N(usage.c1) = usage.create

\* The report never shows more cached tokens than input, its split adds up, and
\* input, read and creation together are the input of the request.
ReportCoherent ==
    report.done =>
        LET u == report.result.usage  s == report.shown IN
        /\ u.read + u.create <= report.result.input
        /\ u.c5 + u.c1 = u.create
        /\ s.input + s.usage.read + s.usage.create = report.result.input
        /\ s.usage = u

\* Mode "actual" reports only what upstream said; a target keeps the read rate
\* inside the configured range whenever some whole number of tokens is.
ModeRespected ==
    report.done =>
        LET r == report.result
            input == r.input
            fits == \E n \in 0..input : 10 * n \in (input * uscene.lo)..(input * uscene.hi)
        IN  /\ (r.mode = "actual" /\ ~HasCacheBreakdown(usage)) => r.usage = NoReport
            /\ (r.target /\ fits) =>
                  10 * r.usage.read \in (input * uscene.lo)..(input * uscene.hi)
            /\ report.diagnostic.source # "local" =>
                  ((report.diagnostic.status \in {"hit", "partial_hit"})
                      <=> r.usage.read > 0)

\* The statistics balance: every tracked request hit or missed, and its input
\* was read, created or neither.
StatsBalance ==
    /\ cstats.tracked = cstats.hits + cstats.misses
    /\ cstats.input = cstats.read + cstats.create + cstats.uncached

\* Token accounting is safe.
AccountingSafe == UsageCoherent /\ ReportCoherent /\ ModeRespected /\ StatsBalance
=============================================================================
