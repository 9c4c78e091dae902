---------------------------- MODULE ConfigSettings ----------------------------
(***************************************************************************)
(* The settings of config/config.go: the sections with their defaults and  *)
(* bounds, the getters, the updates, the file and what a start makes of a  *)
(* file that an older version or an editor left.  One group of settings is *)
(* edited at a time (focus): settings that do not depend on each other are *)
(* not combined.  Sizes above 1 MiB are counted in MiB, efficiencies in    *)
(* hundredths.                                                             *)
(* D_x is D with the defect x, and no part of the specification.           *)
(***************************************************************************)
EXTENDS Integers, Sequences, FiniteSets, SequencesExt

CONSTANT Missing        \* a key the file does not have

VARIABLES
  focus,      \* [section, fields]: what is edited; never changes
  memory,     \* cfg: field -> value
  onFile,     \* config.json: field -> value or Missing
  hasSection, \* the file has the section's key
  cfgUp       \* the process runs

cfgVars == <<focus, memory, onFile, hasSection, cfgUp>>

-----------------------------------------------------------------------------
(* Rows: a number below lo becomes low, above hi it becomes hi; a word is   *)
(* trimmed and lowered, and def when it is none of those allowed.          *)
Num(lo, low, def, hi) == [kind |-> "num", lo |-> lo, low |-> low, def |-> def, hi |-> hi]
Or(lo, def, hi) == Num(lo, def, def, hi)
Clamped(lo, def, hi) == Num(lo, lo, def, hi)
Ptr(lo, def, hi) == [Clamped(lo, def, hi) EXCEPT !.kind = "ptr"]
Flag(def) == [kind |-> "flag", def |-> def]
Word(def, allowed) == [kind |-> "word", def |-> def, allowed |-> allowed]
Text(def) == [kind |-> "text", def |-> def]
Row(kind) == [kind |-> kind]
NoLimit == 2000000000

UpstreamProtection ==
  [Enabled |-> Flag(TRUE), MaxPerAccountConcurrency |-> Or(1, 10, 10000),
   MaxPerAccountModelConcurrency |-> Or(1, 5, 10000), ConcurrencyMode |-> Word("adaptive", {"hard"}),
   SoftMaxPerAccountConcurrency |-> Or(1, 16, 1000), SoftMaxPerAccountModelConcurrency |-> Or(1, 5, 1000),
   QueueCapacity |-> Or(1, 256, 100000), PerModelConcurrency |-> Row("limits"),
   RateLimitCooldownMs |-> Or(1, 2000, 3600000), MaxRateLimitCooldownMs |-> Or(1, 60000, 86400000),
   RouteAffinityTTLSeconds |-> Or(1, 3600, 604800), RouteAffinityMaxEntries |-> Or(1, 20000, 1000000)]

PromptCache ==
  [PromptCacheEnabled |-> Flag(TRUE), PromptCachePersistEnabled |-> Flag(TRUE),
   PromptCacheNamespaceMode |-> Word("account", {"account_api_key"}),
   PromptCacheAccountingMode |-> Word("official_actual", {"matched_prefix", "aggregator_target"}),
   CacheReadEfficiency |-> Clamped(0, 87, 100), CacheReadEfficiencyMin |-> Clamped(0, 87, 100),
   CacheReadEfficiencyMax |-> Clamped(0, 87, 100), KvCacheTTLSecs |-> Num(60, 60, 3600, NoLimit),
   CacheMaxEntriesPerAccount |-> Or(1, 2048, 100000), CacheMaxEntriesTotal |-> Or(1, 50000, 1000000)]

Routing == [LoadBalancingMode |-> Word("weighted", {"priority", "balanced"})]

AutoRefresh ==
  [Enabled |-> Flag(TRUE), IntervalMinutes |-> Or(1, 10, NoLimit),
   TokenRefreshBeforeSeconds |-> Or(1, 1800, NoLimit), FailureCooldownSeconds |-> Or(1, 300, NoLimit),
   MaxAccountsPerRun |-> Clamped(0, 0, NoLimit), RefreshConcurrency |-> Or(1, 5, 50),
   RefreshQueueCapacity |-> Or(1, 2000, 100000), RefreshTaskTimeoutSeconds |-> Or(10, 120, 600),
   RefreshJitterSeconds |-> Clamped(0, 30, 3600), RefreshModels |-> Flag(TRUE),
   ModelIntervalMinutes |-> Or(30, 60, 10080), MaxModelsPerRun |-> Clamped(0, 25, NoLimit),
   ModelRefreshConcurrency |-> Or(1, 3, 20)]

Retry ==
  [MaxAccountAttempts |-> Or(0, 8, 100), AccountSelectionTimeoutSeconds |-> Or(10, 120, 3600),
   MaxUpstreamAttempts |-> Or(1, 12, 200), MaxRetryDurationSeconds |-> Or(0, 900, 86400),
   PreOutputStreamRetries |-> Ptr(0, 1, 3), PreOutputRetryBackoffMs |-> Or(100, 700, 5000),
   FirstTokenTimeoutSeconds |-> Or(5, 45, 600), StreamIdleTimeoutSeconds |-> Or(15, 120, 3600),
   ToolAssemblyTimeoutSeconds |-> Or(0, 180, 3600), ToolArgumentIdleTimeoutSeconds |-> Or(0, 180, 3600),
   EmptyResponseRetries |-> Clamped(0, 2, 20), EndpointFailureThreshold |-> Or(1, 3, 20),
   EndpointCircuitCooldownSeconds |-> Or(5, 30, 900), ProxyFailureThreshold |-> Or(1, 3, 20),
   ProxyCircuitCooldownSeconds |-> Or(5, 60, 900)]

LongTool ==
  [Enabled |-> Flag(TRUE), DefaultMaxToolTokens |-> Or(1024, 8192, 128000), TruncationRetries |-> Or(0, 1, 5),
   ActionableOutputTimeoutSeconds |-> Or(30, 120, 600), FallbackEnabled |-> Flag(FALSE),
   FallbackModel |-> Text("claude-sonnet-5")]

ResponsesStorage ==
  [DefaultStore |-> Flag(FALSE), TTLHours |-> Or(1, 720, 8760), MaxFiles |-> Or(1, 10000, 1000000),
   MaxBytes |-> Or(1, 1024, 1048576), MaxHistoryBytes |-> Or(65536, 4194304, 67108864),
   GCIntervalMinutes |-> Or(1, 60, 1440)]

ModelRegistry ==
  [NegativeCacheTTLSeconds |-> Or(60, 3600, 604800),
   UseOfficialModelNames |-> [kind |-> "ptrflag", def |-> TRUE], Models |-> Row("models")]

ModelFallback ==
  [Enabled |-> Flag(FALSE),
   DefaultTrigger |-> Word("model_unavailable", {"upstream_error", "always"}), MaxHops |-> Or(1, 1, 5),
   Rules |-> Row("rules")]

Health ==
  [MinReadyAccounts |-> Clamped(0, 1, NoLimit), MinReadyRatio |-> Clamped(0, 0, 100), WebhookURL |-> Text(""),
   WebhookEnabled |-> Flag(FALSE), WebhookCooldownSeconds |-> Or(10, 300, 86400)]

Diagnostics ==
  [Enabled |-> Flag(FALSE), IncludeRequestSummary |-> Flag(FALSE), MaxEntries |-> Or(1, 200, 2000)]

(* Up to zero the default, up to the minimum the minimum. *)
Floored(min, def, hi) == [kind |-> "floored", lo |-> min, low |-> def, def |-> def, hi |-> hi]
RequestLog ==
  [MaxEntries |-> Floored(100, 1000, 20000), DetailedLogEnabled |-> Flag(FALSE),
   DetailedMaxEntries |-> Floored(1, 100, 1000), MaxDetailBytes |-> Floored(16384, 262144, 1048576)]

LogArchive ==
  [Enabled |-> Flag(FALSE), IncludeDetails |-> Flag(FALSE), RetentionDays |-> Or(0, 90, 3650),
   MaxBytes |-> Or(64, 4096, 10240)]

ImportWatcher == [Enabled |-> Flag(FALSE), IntervalSeconds |-> Or(5, 15, 3600)]
WebSearch == [Enabled |-> Flag(FALSE), MaxRounds |-> Or(1, 5, 20)]
CountTokens ==
  [ApiURL |-> Text(""), Enabled |-> Flag(FALSE), ApiKey |-> Text(""), AuthType |-> Word("x-api-key", {"bearer"}),
   CountTokensApiURL |-> Text("")]

Sections ==
  [upstreamProtection |-> UpstreamProtection, promptCache |-> PromptCache, routing |-> Routing,
   autoRefresh |-> AutoRefresh, retry |-> Retry, longTool |-> LongTool, responsesStorage |-> ResponsesStorage,
   modelRegistry |-> ModelRegistry, modelFallback |-> ModelFallback, health |-> Health,
   diagnostics |-> Diagnostics, requestLog |-> RequestLog, logArchive |-> LogArchive,
   importWatcher |-> ImportWatcher, webSearch |-> WebSearch, countTokens |-> CountTokens]

Field(f) == Sections[focus.section][f]

-----------------------------------------------------------------------------
(* Values.  plain: written without blanks and capitals.  A text is "", a    *)
(* name or only blanks.                                                     *)
Spelt(w, plain) == [w |-> w, plain |-> plain]
Limit(plain, n) == [plain |-> plain, n |-> n]
ModelEntry(id, window, tokens, words) == [id |-> id, window |-> window, tokens |-> tokens, words |-> words]
Rule(id, source, match) == [id |-> id, source |-> source, match |-> match]

Default(r) ==
  CASE r.kind \in {"num", "ptr", "floored", "flag", "ptrflag", "text"} -> r.def
    [] r.kind = "word" -> Spelt(r.def, TRUE)
    [] r.kind = "limits" -> {}
    [] OTHER -> <<>>
Defaults == [f \in focus.fields |-> Default(Field(f))]
(* What json.Unmarshal leaves of a key that is not there. *)
ZeroValue(r) ==
  CASE r.kind \in {"num", "floored"} -> 0
    [] r.kind = "flag" -> FALSE
    [] r.kind = "text" -> ""
    [] r.kind = "word" -> Spelt("", TRUE)
    [] r.kind = "limits" -> {}
    [] r.kind \in {"models", "rules"} -> <<>>
    [] OTHER -> Missing
Written1(r) == {r.def} \cup {r.lo - 1, r.lo} \cup (IF r.hi = NoLimit THEN {} ELSE {r.hi + 1})
Inputs(r) ==
  CASE r.kind \in {"num", "ptr", "floored"} -> Written1(r)
    [] r.kind \in {"flag", "ptrflag"} -> BOOLEAN
    [] r.kind = "text" -> {"", " ", "name"}
    [] r.kind = "word" -> {Spelt(w, p) : w \in {r.def, "error", "nonsense"} \cup r.allowed, p \in BOOLEAN}
    [] r.kind = "limits" -> {{}, {Limit(TRUE, 3), Limit(FALSE, 20000)}, {Limit(FALSE, 0)}}
    [] r.kind = "models" ->
         {<<>>, <<ModelEntry("a", 0, 200000, <<Spelt("k", FALSE), Spelt("k", TRUE)>>), ModelEntry("b", 1024, 0, <<>>)>>,
          <<ModelEntry("a", 512, 0, <<>>)>>, <<ModelEntry("a", 2048, 512, <<>>)>>,
          <<ModelEntry("a", 0, 0, <<Spelt("k", TRUE)>>), ModelEntry("b", 0, -1, <<Spelt("k", TRUE)>>)>>,
          <<ModelEntry("a", 0, 0, <<>>), ModelEntry("a", 0, 0, <<>>)>>}
    [] OTHER -> {<<>>, <<Rule("", "m", "")>>, <<Rule("x", "m", "exact"), Rule("x", "n", "exact")>>,
                 <<Rule("x", "", "exact")>>, <<Rule("x", "m", "nonsense")>>}

-----------------------------------------------------------------------------
(* The normalisers.  When two spellings of one model have a limit, the      *)
(* order of a Go map decides which counts: the last one.                    *)
Alias(w) == IF w = "error" THEN "upstream_error" ELSE w
normalizeModelEntry(e) ==
  [e EXCEPT !.window = IF @ <= 0 THEN 200000 ELSE @,
            !.tokens = IF @ < 0 THEN 0 ELSE IF @ > 128000 THEN 128000 ELSE @,
            !.words = FoldLeft(LAMBDA ws, k : IF \E i \in DOMAIN ws : ws[i].w = k.w THEN ws
                                              ELSE Append(ws, Spelt(k.w, TRUE)), <<>>, @)]
normalizeModelFallbackRule(r) ==
  [r EXCEPT !.id = IF @ = "" THEN "generated" ELSE @, !.match = IF @ = "" THEN "exact" ELSE @]
normalizePerModel(limits, last) ==
  LET kept == {l \in limits : l.n > 0}
      counted == IF Cardinality(kept) > 1 THEN {l \in kept : l.plain = last} ELSE kept
  IN {Limit(TRUE, IF l.n > 10000 THEN 10000 ELSE l.n) : l \in counted}
AtLeast(r, v) ==
  CASE r.kind \in {"num", "ptr"} -> IF v = Missing THEN r.def ELSE IF v < r.lo THEN r.low ELSE v
    [] r.kind = "floored" -> IF v <= 0 THEN r.def ELSE IF v < r.lo THEN r.lo ELSE v
    [] r.kind = "ptrflag" -> IF v = Missing THEN r.def ELSE v
    [] OTHER -> v
AtMost(r, v) == IF r.kind \in {"num", "ptr", "floored"} /\ v > r.hi THEN r.hi ELSE v
NormalWord(f, r, v) ==
  LET known == {r.def} \cup r.allowed
      word == IF f = "DefaultTrigger" THEN Alias(v.w) ELSE v.w
  IN Spelt(IF word \in known /\ (v.plain \/ f # "DefaultTrigger") THEN word ELSE r.def, TRUE)
Normal(f, v, last) ==
  LET r == Field(f)
  IN CASE r.kind = "limits" -> normalizePerModel(v, last)
       [] r.kind = "models" -> [i \in DOMAIN v |-> normalizeModelEntry(v[i])]
       [] r.kind = "rules" -> [i \in DOMAIN v |-> normalizeModelFallbackRule(v[i])]
       [] r.kind = "word" -> NormalWord(f, r, v)
       [] r.kind = "text" -> IF v \in {"", " "} THEN r.def ELSE v
       [] OTHER -> AtMost(r, AtLeast(r, v))

(* The settings that depend on each other. *)
Larger(a, b) == IF a > b THEN a ELSE b
normalizePromptCacheEfficiency_unordered(m) ==
  [m EXCEPT !.CacheReadEfficiency = (m.CacheReadEfficiencyMin + m.CacheReadEfficiencyMax) \div 2]
normalizePromptCacheEfficiency(m) ==
  LET a == m.CacheReadEfficiencyMin
      b == m.CacheReadEfficiencyMax
  IN [m EXCEPT !.CacheReadEfficiencyMin = IF a > b THEN b ELSE a,
               !.CacheReadEfficiencyMax = IF a > b THEN a ELSE b,
               !.CacheReadEfficiency = (a + b) \div 2]
Coupled(m) ==
  CASE "MaxRateLimitCooldownMs" \in focus.fields ->
         [m EXCEPT !.MaxRateLimitCooldownMs = Larger(@, m.RateLimitCooldownMs)]
    [] "CacheMaxEntriesTotal" \in focus.fields ->
         [m EXCEPT !.CacheMaxEntriesTotal = Larger(@, m.CacheMaxEntriesPerAccount)]
    [] "CacheReadEfficiencyMin" \in focus.fields -> normalizePromptCacheEfficiency(m)
    [] "WebhookEnabled" \in focus.fields -> [m EXCEPT !.WebhookEnabled = @ /\ m.WebhookURL # ""]
    [] "ApiURL" \in focus.fields -> [m EXCEPT !.Enabled = @ /\ m.ApiURL # ""]
    [] OTHER -> m
normalizeLocked(m) ==
  {Coupled([f \in focus.fields |-> Normal(f, m[f], last)]) : last \in BOOLEAN}

-----------------------------------------------------------------------------
(* The getters: most repeat the lower bounds, some all, some none. *)
LowerBounds(m) == [f \in focus.fields |-> AtLeast(Field(f), m[f])]
BothBounds(m) == [f \in focus.fields |-> AtMost(Field(f), AtLeast(Field(f), m[f]))]
GetUpstreamProtectionConfig(m) == LowerBounds(m)
GetPromptCacheConfig(m) ==
  IF "CacheReadEfficiencyMin" \in focus.fields
  THEN LET n == normalizePromptCacheEfficiency(BothBounds(m))
       IN IF m.CacheReadEfficiencyMin = 0 /\ m.CacheReadEfficiencyMax = 0 /\ m.CacheReadEfficiency > 0
          THEN [f \in focus.fields |-> m.CacheReadEfficiency] ELSE n
  ELSE IF "CacheMaxEntriesTotal" \in focus.fields /\ m.CacheMaxEntriesTotal < m.CacheMaxEntriesPerAccount
  THEN [m EXCEPT !.CacheMaxEntriesTotal = Larger(50000, m.CacheMaxEntriesPerAccount)]
  ELSE IF "KvCacheTTLSecs" \in focus.fields /\ m.KvCacheTTLSecs < 60 THEN [m EXCEPT !.KvCacheTTLSecs = 3600]
  ELSE m
GetRetryConfig(m) == LowerBounds(m)
GetLongToolConfig(m) ==
  [f \in focus.fields |-> IF f = "FallbackModel" /\ m[f] \in {"", " "} THEN LongTool[f].def
                          ELSE AtLeast(Field(f), m[f])]
GetResponsesStorageConfig(m) == LowerBounds(m)
GetRequestLogConfig(m) == BothBounds(m)
GetLogArchiveConfig(m) == BothBounds(m)
GetAsStored(m) == m
Get(m) ==
  CASE focus.section = "upstreamProtection" -> GetUpstreamProtectionConfig(m)
    [] focus.section = "promptCache" -> GetPromptCacheConfig(m)
    [] focus.section = "retry" -> GetRetryConfig(m)
    [] focus.section = "longTool" -> GetLongToolConfig(m)
    [] focus.section = "responsesStorage" -> GetResponsesStorageConfig(m)
    [] focus.section = "requestLog" -> GetRequestLogConfig(m)
    [] focus.section = "logArchive" -> GetLogArchiveConfig(m)
    [] focus.section \in {"autoRefresh", "diagnostics", "importWatcher"} -> BothBounds(m)
    [] OTHER -> GetAsStored(m)

-----------------------------------------------------------------------------
(* The updates: three sections refuse what the normaliser would mend. *)
validateModelEntries(models) ==
  /\ \A i \in DOMAIN models : models[i].window >= 1024 /\ models[i].tokens \notin 1..1023
  /\ \A i, j \in DOMAIN models : i # j =>
       /\ models[i].id # models[j].id
       /\ Range(models[i].words) \cap Range(models[j].words) = {}
validateModelFallbackRules(rules) ==
  /\ \A i \in DOMAIN rules : rules[i].source # "" /\ rules[i].match = "exact"
  /\ \A i, j \in DOMAIN rules : i # j => rules[i].id # rules[j].id
(* The form as it is checked, after the mending that comes before the check. *)
Prepared(m) ==
  [f \in focus.fields |->
     CASE f \in {"MaxHops", "MaxRounds"} /\ m[f] = 0 -> Field(f).def
       [] f = "DefaultTrigger" -> Spelt(IF m[f].w = "" THEN Field(f).def ELSE Alias(m[f].w), TRUE)
       [] f = "Models" -> [i \in DOMAIN m[f] |-> normalizeModelEntry(m[f][i])]
       [] f = "Rules" -> [i \in DOMAIN m[f] |-> normalizeModelFallbackRule(m[f][i])]
       [] OTHER -> m[f]]
Accepted(m) ==
  \A f \in focus.fields :
    CASE f \in {"MaxHops", "MaxRounds"} -> m[f] \in Field(f).lo..Field(f).hi
      [] f = "DefaultTrigger" -> m[f].w \in {Field(f).def} \cup Field(f).allowed
      [] f = "Models" -> validateModelEntries(m[f])
      [] f = "Rules" -> validateModelFallbackRules(m[f])
      [] OTHER -> TRUE

(* omitempty leaves out a pointer that is nil, never one to zero. *)
Save_omitsZero(m) == [f \in focus.fields |-> IF Field(f).kind = "ptr" /\ m[f] = 0 THEN Missing ELSE m[f]]
Save(m) == m

(* The form shows what the getter gave; a field of it is changed, and all   *)
(* of it comes back.  The change stays in memory when the file cannot be    *)
(* written.  The legacy URL and the derived efficiency are on no form.      *)
UpdateSettings(f, v) ==
  LET form == Prepared([Get(memory) EXCEPT ![f] = v])
  IN /\ cfgUp /\ f \notin {"CountTokensApiURL", "CacheReadEfficiency"} /\ Accepted(form)
     /\ \E m \in normalizeLocked(form) :
          /\ memory' = m
          /\ \/ onFile' = Save(m) /\ hasSection' = TRUE
             \/ UNCHANGED <<onFile, hasSection>>
     /\ UNCHANGED <<focus, cfgUp>>

-----------------------------------------------------------------------------
(* The start. *)
DefaultsIfMissing ==
  [upstreamProtection |-> {"ConcurrencyMode", "SoftMaxPerAccountConcurrency",
                           "SoftMaxPerAccountModelConcurrency", "QueueCapacity"},
   promptCache |-> DOMAIN PromptCache, routing |-> DOMAIN Routing, autoRefresh |-> {"RefreshModels"},
   retry |-> {"MaxAccountAttempts", "AccountSelectionTimeoutSeconds", "MaxRetryDurationSeconds",
              "ToolAssemblyTimeoutSeconds", "ToolArgumentIdleTimeoutSeconds"},
   logArchive |-> {"RetentionDays", "MaxBytes"}]
TakesDefault(f) == focus.section \in DOMAIN DefaultsIfMissing /\ f \in DefaultsIfMissing[focus.section]
Unmarshalled(f) ==
  CASE onFile[f] # Missing -> onFile[f]
    [] f = "PromptCacheAccountingMode" -> Spelt("matched_prefix", TRUE)
    [] f = "CacheReadEfficiencyMin" ->
         IF onFile["CacheReadEfficiencyMax"] # Missing THEN onFile["CacheReadEfficiencyMax"]
         ELSE IF onFile["CacheReadEfficiency"] # Missing THEN onFile["CacheReadEfficiency"] ELSE 87
    [] f = "CacheReadEfficiencyMax" ->
         IF onFile["CacheReadEfficiencyMin"] # Missing THEN onFile["CacheReadEfficiencyMin"]
         ELSE IF onFile["CacheReadEfficiency"] # Missing THEN onFile["CacheReadEfficiency"] ELSE 87
    [] TakesDefault(f) -> Default(Field(f))
    [] OTHER -> ZeroValue(Field(f))
(* The old keys of the token counter are read when the new ones are empty. *)
migrateCountTokensProviderLocked(m) ==
  IF "CountTokensApiURL" \in focus.fields /\ m.ApiURL = "" /\ m.CountTokensApiURL # ""
  THEN [m EXCEPT !.ApiURL = m.CountTokensApiURL, !.Enabled = TRUE] ELSE m
loadedFrom(has, file) ==
  normalizeLocked(migrateCountTokensProviderLocked(
    IF has THEN file ELSE Defaults))
Migrated ==
  \/ /\ focus.section = "upstreamProtection"
     /\ ~hasSection \/ \E f \in focus.fields : TakesDefault(f) /\ onFile[f] = Missing
  \/ \E f \in focus.fields : f = "PromptCacheAccountingMode" /\ onFile[f] = Missing
(* Keys of the prompt cache are top-level ones: there is no section to miss. *)
loadLocked ==
  /\ ~cfgUp
  /\ \E m \in loadedFrom(hasSection, [f \in focus.fields |-> Unmarshalled(f)]) :
       /\ memory' = m
       /\ IF Migrated THEN onFile' = Save(m) /\ hasSection' = TRUE ELSE UNCHANGED <<onFile, hasSection>>
  /\ cfgUp' = TRUE /\ UNCHANGED focus

StopProcess ==
  /\ cfgUp /\ cfgUp' = FALSE /\ memory' = Defaults
  /\ UNCHANGED <<focus, onFile, hasSection>>
(* While it is down the file is edited, or comes from an older version.     *)
(* Averages of averages are left out.                                       *)
EfficiencyBound ==
  "CacheReadEfficiency" \in focus.fields =>
    onFile'["CacheReadEfficiency"] \in Inputs(PromptCache.CacheReadEfficiency) \cup {Missing}
EditFile ==
  /\ ~cfgUp /\ UNCHANGED <<focus, memory, cfgUp>>
  /\ \/ \E f \in focus.fields : \E v \in Inputs(Field(f)) \cup {Missing} :
          onFile' = [onFile EXCEPT ![f] = v] /\ hasSection' = TRUE
     \/ focus.section # "promptCache" /\ hasSection' = FALSE /\ UNCHANGED onFile
  /\ EfficiencyBound

Groups ==
  {{"RateLimitCooldownMs", "MaxRateLimitCooldownMs"}, {"CacheMaxEntriesPerAccount", "CacheMaxEntriesTotal"},
   {"CacheReadEfficiency", "CacheReadEfficiencyMin", "CacheReadEfficiencyMax"}, {"WebhookURL", "WebhookEnabled"},
   {"ApiURL", "Enabled"}}
Focuses ==
  {[section |-> s, fields |-> g] : s \in DOMAIN Sections, g \in Groups}
    \cup UNION {{[section |-> s, fields |-> {f}] : f \in DOMAIN Sections[s]} : s \in DOMAIN Sections}
Alone == {"CountTokensApiURL"} \cup UNION (Groups \ {{"ApiURL", "Enabled"}}) \cup {"ApiURL"}
FocusesChecked ==
  {fo \in Focuses : /\ fo.fields \subseteq DOMAIN Sections[fo.section]
                    /\ Cardinality(fo.fields) = 1 => fo.fields \cap Alone = {}}

SettingsInit ==
  /\ focus \in FocusesChecked
  /\ memory = Defaults /\ onFile = Save(memory)
  /\ hasSection = TRUE /\ cfgUp = TRUE
SettingsNext ==
  \/ \E f \in focus.fields : \E v \in Inputs(Field(f)) : UpdateSettings(f, v)
  \/ StopProcess \/ EditFile \/ loadLocked
SettingsSpec == SettingsInit /\ [][SettingsNext]_cfgVars

-----------------------------------------------------------------------------
(* What is in force would be in force again after the file was written and  *)
(* read: no default, bound or omitted key turns a setting into another one. *)
SettingsSurvive == cfgUp => loadedFrom(TRUE, Save(memory)) = {memory}

(* The getters, which have bounds of their own, show what is in force. *)
ShownIsInForce == cfgUp => Get(memory) = memory

(* Settings that bound each other keep their order. *)
BoundsOrdered ==
  cfgUp =>
    /\ "MaxRateLimitCooldownMs" \in focus.fields =>
         memory.RateLimitCooldownMs <= memory.MaxRateLimitCooldownMs
    /\ "CacheMaxEntriesTotal" \in focus.fields =>
         memory.CacheMaxEntriesPerAccount <= memory.CacheMaxEntriesTotal
    /\ "CacheReadEfficiencyMin" \in focus.fields =>
         memory.CacheReadEfficiencyMin <= memory.CacheReadEfficiencyMax

(* Whatever was sent to the admin API or stood in the file, the settings in *)
(* force are stable, shown as they are, and ordered.                        *)
SettingsSafe == SettingsSurvive /\ ShownIsInForce /\ BoundsOrdered
=============================================================================
