------------------------------- MODULE MCRecords -------------------------------
(* Components that keep records of the past and share no variable, checked   *)
(* side by side: part is the one that moves.                               *)
EXTENDS AccountCooldowns, RequestTrace, RequestLogs, LogArchive,
        PromptCache, TokenUsage, PayloadHistory

CONSTANTS a1, b1, b2, d1, d2, d3, g1, g2, o1, o2, t1, t2, w1, w2, word

VARIABLE part

-----------------------------------------------------------------------------
(* The instances. *)
LegacyTicks == {1, 3}
WorkerSymmetry == Permutations(Workers)

LoadsChecked ==
  {Load({"progress", "error"}, BOOLEAN, 6), Load({"thinking", "tool_start", "truncated"}, {FALSE}, 6),
   Load({"text", "tool_start", "tool_delta", "upstream_attempt"}, {FALSE}, 4),
   Load({"tool_use", "tool_stop", "usage", "complete", "credits"}, {FALSE}, 3)}

LogScenesChecked ==
  {Scene({g1, g2}, {FALSE}, {Limits(1, 1, 1), Limits(2, 1, 1)}, {"crash", "fault"}, {"log"}),
   Scene({g1, g2}, {TRUE}, {Limits(1, 2, 2)}, {"clear", "crash"}, {"details"}),
   Scene({g1, g2}, {TRUE}, {Limits(1, 2, 2)}, {"crash", "fault"}, {"details"}),
   Scene({g1}, {TRUE}, {Limits(1, 2, 2)}, {"clear", "crash", "fault"}, {"details"}),
   Scene({g1, g2}, {TRUE}, {Limits(1, 2, 2), Limits(1, 1, 1)}, {}, {"details"}),
   Scene({g1}, BOOLEAN, {Limits(1, 1, 1)}, {"close", "again", "fault"}, Stores)}
DetailSizesChecked == [r \in LogRequests |-> IF r = g1 THEN 1 ELSE 3]

ArchiveScenesChecked ==
  {ArchiveScene({d1, d2, d3}, {}, {"flush"}), ArchiveScene({d1, d2, d3}, {}, {"clear"}),
   ArchiveScene({d1, d2, d3}, {}, {"days"}),
   ArchiveScene({d1, d2}, {[enabled |-> e, details |-> FALSE] : e \in BOOLEAN}, {}),
   ArchiveScene({d1, d2}, {}, {"flush", "clear", "close"})}

Block(v, n) == [v |-> v, tokens |-> n]
Message(content, results) == [content |-> content, tools |-> <<>>, results |-> results]
Control(ttl, billing) == [ttl |-> ttl, billing |-> billing]
Claude(system, messages) == [tools |-> <<>>, system |-> system, messages |-> messages]
PayloadsChecked ==
  [short |-> [model |-> "haiku", claude |-> Claude(<<>>, <<>>), history |-> <<>>, total |-> 2,
              current |-> Message(Block("hi", 2), <<>>)],
   long  |-> [model |-> "haiku", total |-> 0,
              claude |-> Claude(<<Control(1, TRUE)>>, <<<<Control(2, FALSE), Control(0, FALSE)>>>>),
              history |-> <<[user |-> Message(Block("hi", 2), <<>>),
                             assistant |-> Block("hello", 1)]>>,
              current |-> Message(Block("go", 1), <<Block("out", 1)>>)]]
CachePolicy(on, mode, per, total, ttl, persist) ==
  [on |-> on, mode |-> mode, per |-> per, total |-> total, maxTTL |-> ttl, persist |-> persist]
CacheScene(crew, most, prompts, keys, first, updates, kinds, times) ==
  [crew |-> crew, tries |-> most, prompts |-> prompts, keys |-> keys, first |-> first,
   updates |-> updates, admin |-> kinds, configs |-> times]
CacheScenesChecked ==
  {CacheScene({b1, b2}, 2, {"short", "long"}, {"k1"}, CachePolicy(TRUE, "account_api_key", 3, 3, 2, FALSE),
              {}, {"clear"}, 1),
   CacheScene({b1}, 2, {"short", "long"}, {"k1"}, CachePolicy(TRUE, "account_api_key", 3, 3, 2, TRUE),
              {}, {"clear", "crash"}, 1),
   CacheScene({b1}, 1, {"long"}, {"k1"}, CachePolicy(TRUE, "account_api_key", 3, 3, 2, FALSE),
              {CachePolicy(TRUE, "account_api_key", 1, 2, 1, TRUE), CachePolicy(FALSE, "account", 3, 3, 2, FALSE)},
              {"crash"}, 1),
   CacheScene({b1}, 1, {"long"}, {"k1"}, CachePolicy(TRUE, "account_api_key", 3, 3, 2, TRUE),
              {CachePolicy(TRUE, "account_api_key", 1, 2, 1, FALSE)}, {"crash"}, 1),
   CacheScene({b1}, 1, {"short"}, {"k1"}, CachePolicy(TRUE, "account", 1, 1, 1, FALSE),
              {CachePolicy(TRUE, "account", 1, 1, 1, TRUE)}, {"clear"}, 2),
   CacheScene({b1}, 2, {"short", "long"}, {"k1", "k2"}, CachePolicy(TRUE, "account_api_key", 2, 3, 2, FALSE),
              {}, {"crash"}, 1)}

Envelope(key, fields) == [key |-> key, fields |-> fields]
UsageEventsChecked ==
  <<<<Envelope("tokenUsage", [input |-> 9, output |-> 2, read |-> 0])>>,
    <<Envelope("tokenUsage", [input |-> 9, read |-> 7, create |-> 1, n1 |-> 3, n5 |-> 1]),
      Envelope("metrics", [read |-> 0, input |-> 0])>>,
    <<Envelope("usage", [total |-> 8, output |-> 3]),
      Envelope("metadataEvent", [uncached |-> 2, c5 |-> 4])>>,
    <<Envelope("meteringEvent", [output |-> 0, details |-> 1]), Envelope("other", [x |-> 1])>>,
    <<Envelope("usage", [input |-> 5, thinking |-> 1, read |-> 0]),
      Envelope("usage", [input |-> 6, thinking |-> 2, read |-> 3])>>>>
UsageScene(mode, matched, rate, inFlight) ==
  [mode |-> mode, matched |-> matched, rate |-> rate, lo |-> 6, hi |-> 8,
   inFlight |-> inFlight, estimate |-> 6, context |-> 0,
   profile |-> <<[tokens |-> 3, long |-> FALSE], [tokens |-> 7, long |-> TRUE]>>]
UsageScenesChecked ==
  {UsageScene("actual", 3, 5, FALSE), UsageScene("matched_prefix", 0, 5, TRUE),
   UsageScene("matched_prefix", 3, 0, TRUE), UsageScene("matched_prefix", 3, 10, FALSE),
   UsageScene("aggregator_target", 0, 5, FALSE), UsageScene("aggregator_target", 7, 9, FALSE)}

Said == Turn("user", <<word>>, <<>>, <<>>)
UserTurns ==
  {Said, Turn("user", <<>>, <<>>, <<ToolResult(t1, o1)>>),
   Turn("user", <<word>>, <<>>, <<ToolResult(t2, o2), ToolResult(BlankId, o1)>>)}
CallsOne == Turn("assistant", <<Called>>, <<t1>>, <<>>)
AssistantTurns ==
  {CallsOne, Turn("assistant", <<word, Called>>, <<>>, <<>>), Turn("assistant", <<>>, <<t2, t1>>, <<>>),
   Turn("assistant", <<word>>, <<t1, t1>>, <<>>), Turn("assistant", <<>>, <<BlankId>>, <<>>)}
HistoriesChecked ==
  {<<>>, <<Said, Said>>} \cup {<<u, a>> : u \in UserTurns, a \in AssistantTurns}
    \cup {<<Said, CallsOne, u, a>> : u \in UserTurns, a \in AssistantTurns}
    \cup {<<a, Said, a, CallsOne>> : a \in AssistantTurns}
ClientRequestsChecked ==
  {ClientRequest(turns, text, results, defined, transparent, 99) :
     turns \in HistoriesChecked, text \in {<<>>, <<word>>},
     results \in {<<>>, <<ToolResult(t1, o2)>>, <<ToolResult(t1, o1), ToolResult(t2, o2)>>,
                  <<ToolResult(t1, o1), ToolResult(t1, o2)>>},
     defined \in BOOLEAN, transparent \in BOOLEAN}
Returned(id, out) == Turn("tool", <<>>, <<>>, <<ToolResult(id, out)>>)
OpenAIRequestsChecked ==
  {ClientRequest(<<Said, a>> \o turns, <<>>, <<>>, defined, FALSE, 99) :
     a \in AssistantTurns, defined \in BOOLEAN,
     turns \in {<<Returned(t1, o1)>>, <<Returned(t1, o1), Returned(t2, o2)>>, <<Returned(t1, o2), Said>>,
                <<Returned(t1, o1), Returned(t2, o2), CallsOne, Returned(t1, o2)>>,
                <<Returned(t1, o1), CallsOne, Said, Returned(t1, o1)>>}}

-----------------------------------------------------------------------------
recordVars == <<vars, traceVars, logVars, arcVars>>
ledgerVars == <<cacheVars, usageVars, payloadVars>>

RecordsInit ==
  /\ part \in {"cooldowns", "trace", "logs", "archive", "cache", "usage", "history"}
  /\ Init /\ (part = "cooldowns" \/ file = [a \in Accounts |-> NoEntry])
  /\ TraceInit /\ (part = "trace" \/ load = (CHOOSE l \in Loads : TRUE))
  /\ LogsInit /\ (part = "logs" \/ (scene = (CHOOSE s \in LogScenes : TRUE)
                                     /\ logCfg = (CHOOSE c \in scene.limits : TRUE)))
  /\ ArchiveInit /\ (part = "archive" \/ arcScene = (CHOOSE s \in ArchiveScenes : TRUE))
  /\ CacheInit /\ (part = "cache" \/ cscene = (CHOOSE s \in CacheScenes : TRUE))
  /\ UsageInit /\ (part = "usage" \/ uscene = (CHOOSE s \in UsageScenes : TRUE))
  /\ PayloadInit

HistoriesNext ==
  \/ part = "cooldowns" /\ Next /\ UNCHANGED <<traceVars, logVars, arcVars>>
  \/ part = "trace" /\ TraceNext /\ UNCHANGED <<vars, logVars, arcVars>>
  \/ part = "logs" /\ LogsNext /\ UNCHANGED <<vars, traceVars, arcVars>>
  \/ part = "archive" /\ ArchiveNext /\ UNCHANGED <<vars, traceVars, logVars>>
LedgersNext ==
  \/ part = "cache" /\ CacheNext /\ UNCHANGED <<usageVars, payloadVars>>
  \/ part = "usage" /\ UsageNext /\ UNCHANGED <<cacheVars, payloadVars>>
  \/ part = "history" /\ PayloadNext /\ UNCHANGED <<cacheVars, usageVars>>

RecordsNext ==
  /\ \/ HistoriesNext /\ UNCHANGED ledgerVars
     \/ LedgersNext /\ UNCHANGED recordVars
  /\ UNCHANGED part

RecordsSpec == RecordsInit /\ [][RecordsNext]_<<part, recordVars, ledgerVars>>
=============================================================================
