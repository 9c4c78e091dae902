--------------------------- MODULE PayloadHistory ---------------------------
(***************************************************************************)
(* The conversation a request carries (translator.go).  A client sends     *)
(* turns with tool calls and results in any state of repair; the upstream  *)
(* accepts tool results only when they answer, one to one, the calls of    *)
(* the turn just before.  Between the two: the translation, which writes   *)
(* all other tool activity into plain text or, on the transparent path,    *)
(* keeps complete pairs; the truncation to the model's window; and the     *)
(* repair before every call.                                               *)
(*                                                                         *)
(* A text is the sequence of its pieces, the output of a tool among them;  *)
(* sizes count pieces, outputs as longer ones; bytes and tokens are one    *)
(* limit.  The system prompt's two turns are never cut and carry no tools: *)
(* they are left out.  asked is history.  D_x is D with the defect x.      *)
(***************************************************************************)
EXTENDS Integers, Sequences, SequencesExt, FiniteSetsExt, Functions

CONSTANTS
  ClientRequests,        \* see ClientRequest
  OpenAIRequests,        \* the same, the results as messages of their own among the turns
  InputLimits,           \* what a model's window may hold
  MinRecentTurns,        \* minRecentHistoryTurns
  Outputs, OutputSize,   \* what tools return, and how much longer it is than a word
  BlankId,               \* a tool call id that is blank
  Dot, Space, Ok, Called, \* minimalFallbackUserContent; " "; "OK"; narrated calls and thinking
  Note, Dropped,         \* toolResultTruncatedNote; truncationPlaceholder
  NoConversation

VARIABLES asked, payload, payloadStage
payloadVars == <<asked, payload, payloadStage>>

Turn(role, text, uses, results) == [role |-> role, text |-> text, uses |-> uses, results |-> results]
ToolResult(id, out) == [id |-> id, out |-> out]
ClientRequest(turns, text, results, tools, transparent, limit) ==
  [turns |-> turns, text |-> text, results |-> results, tools |-> tools,
   transparent |-> transparent, limit |-> limit]

Outs(results) == [k \in 1 .. Len(results) |-> results[k].out]
Ids(results) == [k \in 1 .. Len(results) |-> results[k].id]
Blank(text) == text \in {<<>>, <<Space>>}
Hollow(text) == Blank(text) \/ text = <<Dot>>

PayloadInit == asked = NoConversation /\ payload = NoConversation /\ payloadStage = "idle"
-----------------------------------------------------------------------------
(* Pairing.                                                                 *)

\* The calls of the last turn, if it is the assistant's and they can be told apart.
lastAssistantToolUseIDs(history) ==
  LET uses == IF history = <<>> THEN <<>> ELSE Last(history).uses
  IN  IF BlankId \in ToSet(uses) \/ ~IsInjective(uses) THEN <<>> ELSE uses

\* All of them are answered, each once, and nothing else is.
Answers(history, results) ==
  LET uses == lastAssistantToolUseIDs(history)
  IN  /\ uses # <<>> /\ Len(results) = Len(uses)
      /\ IsInjective(Ids(results)) /\ ToSet(Ids(results)) = ToSet(uses)
orderToolResultsForLastAssistant(history, results) ==
  [k \in 1 .. Len(results) |->
     CHOOSE r \in ToSet(results) : r.id = lastAssistantToolUseIDs(history)[k]]

trimLeadingAssistantHistory(history) ==
  LET first == Min({Len(history) + 1} \cup {k \in 1 .. Len(history) : history[k].role = "user"})
  IN  SubSeq(history, first, Len(history))

\* Results go into the text unless it says the same already.
Folded(text, results) ==
  CASE text \in {<<>>, <<Dot>>} -> Outs(results)
    [] text = Outs(results) -> text
    [] OTHER -> text \o Outs(results)

\* Results that answer are put in order, others become text.
detachOrphanedToolResults_drops(p) ==
  CASE p.results = <<>> -> p
    [] Answers(p.history, p.results) ->
         [p EXCEPT !.results = orderToolResultsForLastAssistant(p.history, @)]
    [] OTHER -> [p EXCEPT !.results = <<>>]
detachOrphanedToolResults(p) ==
  CASE p.results = <<>> -> p
    [] Answers(p.history, p.results) ->
         [p EXCEPT !.results = orderToolResultsForLastAssistant(p.history, @)]
    [] OTHER -> [p EXCEPT !.results = <<>>, !.text = Folded(@, p.results)]
-----------------------------------------------------------------------------
(* The two ways to treat tools in the history.                              *)

\* All into text, but for the last turn when the results answer it; then turns that
\* became empty and repetitions go.
sanitizeKiroHistory_active(history, results) ==
  LET plain(i) ==
        LET t == history[i]
            text == t.text \o Outs(t.results)
        IN  IF t.role = "assistant"
            THEN [t EXCEPT !.text = SelectSeq(@, LAMBDA w : w # Called),
                           !.uses = IF i = Len(history) THEN @ ELSE <<>>]
            ELSE [t EXCEPT !.text = IF text = <<>> THEN <<Dot>> ELSE text, !.results = <<>>]
  IN  trimLeadingAssistantHistory([i \in 1 .. Len(history) |-> plain(i)])
sanitizeKiroHistory(history, results) ==
  LET plain(i) ==
        LET t == history[i]
            text == t.text \o Outs(t.results)
        IN  IF t.role = "assistant"
            THEN [t EXCEPT !.text = SelectSeq(@, LAMBDA w : w # Called),
                           !.uses = IF i = Len(history) /\ Answers(history, results) THEN @ ELSE <<>>]
            ELSE [t EXCEPT !.text = IF text = <<>> THEN <<Dot>> ELSE text, !.results = <<>>]
      hollow(t) == t.role = "assistant" /\ t.uses = <<>> /\ Hollow(t.text)
      repeats(done, t) ==
        t.role = "user" /\ done # <<>> /\ Last(done).role = "user" /\ Last(done).text = t.text
      keep(done, t) == IF hollow(t) \/ repeats(done, t) THEN done ELSE Append(done, t)
  IN  trimLeadingAssistantHistory(FoldLeft(keep, <<>>, [i \in 1 .. Len(history) |-> plain(i)]))

\* The transparent path: calls without a result and results without a call go.
UsesIn(history) == UNION {ToSet(t.uses) : t \in ToSet(history)}
ResultsIn(history) == UNION {ToSet(Ids(t.results)) : t \in ToSet(history)}
preserveStructuredClaudeHistory_calls(history, results) ==
  LET answered == (ResultsIn(history) \cup ToSet(Ids(results))) \ {BlankId}
      paired(t) == [t EXCEPT !.uses = SelectSeq(@, LAMBDA u : u \in answered)]
  IN  [i \in 1 .. Len(history) |-> paired(history[i])]
preserveStructuredClaudeHistory(history, results) ==
  LET called == UsesIn(history) \ {BlankId}
      answered == (ResultsIn(history) \cup ToSet(Ids(results))) \ {BlankId}
      paired(t) ==
        LET uses == SelectSeq(t.uses, LAMBDA u : u \in answered)
        IN  [t EXCEPT !.uses = uses,
                      !.text = IF uses # <<>> /\ @ = <<>> THEN <<Space>> ELSE @,
                      !.results = SelectSeq(@, LAMBDA r : r.id \in called)]
  IN  [i \in 1 .. Len(history) |-> paired(history[i])]

\* Turns of one side that follow each other become one; the assistant has the last word.
mergeClaudeHistoryTurns(history) ==
  LET joined(a, b) == CASE Blank(b) -> a [] Blank(a) -> b [] OTHER -> a \o b
      add(done, t) ==
        IF done = <<>> \/ Last(done).role # t.role THEN Append(done, t)
        ELSE Append(Front(done), Turn(t.role, joined(Last(done).text, t.text),
                                      Last(done).uses \o t.uses, Last(done).results \o t.results))
      merged == FoldLeft(add, <<>>, history)
  IN  IF Len(history) < 2 THEN history
      ELSE trimLeadingAssistantHistory(
             IF Last(merged).role = "user" THEN Append(merged, Turn("assistant", <<Ok>>, <<>>, <<>>)) ELSE merged)
-----------------------------------------------------------------------------
(* Truncation.                                                              *)

TextSize(text) == Len(text) + (OutputSize - 1) * Cardinality({k \in 1 .. Len(text) : text[k] \in Outputs})
historyEntrySize(t) == 1 + TextSize(t.text) + Len(t.uses) + TextSize(Outs(t.results))
HistorySize(history) == FoldLeft(LAMBDA n, t : n + historyEntrySize(t), 0, history)
payloadSize(p) == HistorySize(p.history) + TextSize(p.text) + TextSize(Outs(p.results))
payloadFitsInputLimits(p) == payloadSize(p) <= p.limit

\* The text is cut, then result by result becomes a note, until it fits.
truncateCurrentMessage_short(p) ==
  LET room == TextSize(p.text) + p.limit - payloadSize(p) + 1
      fits == {k \in 1 .. Len(p.text) : TextSize(SubSeq(p.text, 1, k)) <= room}
      cut == [p EXCEPT !.text = IF fits = {} THEN <<Dot>> ELSE SubSeq(@, 1, Max(fits))]
      shorten(q, k) == IF payloadFitsInputLimits(q) THEN q ELSE [q EXCEPT !.results[k].out = Note]
  IN  FoldLeft(shorten, cut, [k \in 1 .. Len(p.results) |-> k])
truncateCurrentMessage(p) ==
  LET room == TextSize(p.text) + p.limit - payloadSize(p)
      fits == {k \in 1 .. Len(p.text) : TextSize(SubSeq(p.text, 1, k)) <= room}
      cut == [p EXCEPT !.text = IF fits = {} THEN <<Dot>> ELSE SubSeq(@, 1, Max(fits))]
      shorten(q, k) == IF payloadFitsInputLimits(q) THEN q ELSE [q EXCEPT !.results[k].out = Note]
  IN  FoldLeft(shorten, cut, [k \in 1 .. Len(p.results) |-> k])

Placeholder == Turn("user", <<Dropped>>, <<>>, <<>>)

\* Without its first turns.  What is left starts with the client's turn, or with the
\* calls the current results answer.
Rebuilt(p, history, active, dropped) ==
  LET tail == SubSeq(history, dropped + 1, Len(history))
      starts == {k \in 1 .. Len(tail) : tail[k].role = "user" \/ (active /\ k = Len(tail))}
      kept == SubSeq(tail, Min({Len(tail) + 1} \cup starts), Len(tail))
  IN  [p EXCEPT !.history = (IF dropped > 0 THEN <<Placeholder>> ELSE <<>>) \o kept]

\* How many old turns go: those that do not fit, then all that can go.
dropHistory(p, active) ==
  LET h == p.history
      n == Len(h)
      tailSize(d) == payloadSize([p EXCEPT !.history = <<Placeholder>> \o SubSeq(h, d + 1, n)])
      recent == Min({d \in 0 .. n : \A j \in d .. n - 1 : n - j <= MinRecentTurns \/ tailSize(j) <= p.limit})
      last == Max({recent, IF active THEN n - 1 ELSE n})
  IN  Min({d \in recent .. last : d = last \/ payloadFitsInputLimits(Rebuilt(p, h, active, d))})

\* The turn the results answer goes alone only when that is enough, else it stays
\* until the results themselves were cut.
truncateRest(p, h, active, cutoff) ==
  LET n == Len(h)
      without(q) == detachOrphanedToolResults(Rebuilt(q, h, active, n))
      alone == /\ ~payloadFitsInputLimits(p) /\ active /\ cutoff < n
               /\ payloadSize(p) - historyEntrySize(Last(h)) <= p.limit
      stage(q, s) ==
        IF s = "detach" THEN detachOrphanedToolResults(q)
        ELSE IF payloadFitsInputLimits(q) THEN q
        ELSE CASE s = "text" -> truncateCurrentMessage(q)
               [] s = "turn" -> IF alone THEN without(q) ELSE q
               [] s = "last turn" -> IF alone \/ cutoff = n THEN q ELSE truncateCurrentMessage(without(q))
  IN  FoldLeft(stage, p, <<"turn", "text", "last turn", "detach", "text", "text", "text">>)

truncatePayloadToLimit(p) ==
  LET active == Answers(p.history, p.results)
      cutoff == dropHistory(p, active)
  IN  IF payloadFitsInputLimits(p) THEN p
      ELSE [truncateRest(Rebuilt(p, p.history, active, cutoff), p.history, active, cutoff) EXCEPT !.cut = TRUE]
-----------------------------------------------------------------------------
(* From the request to the call.                                            *)

\* The end of both translations: results that are not kept in structure become text.
Assembled(q, text, history, results, keep) ==
  LET content == CASE text # <<>> -> text [] results # <<>> -> Outs(results) [] OTHER -> <<Dot>>
  IN  truncatePayloadToLimit(
        [history |-> history, transparent |-> q.transparent, limit |-> q.limit, cut |-> FALSE,
         tools |-> q.tools \/ (q.transparent /\ UsesIn(history) # {}),
         text |-> IF keep \/ results = <<>> THEN content ELSE Folded(content, results),
         results |-> IF keep THEN results ELSE <<>>])

claudeToKiro(q) ==
  LET trimmed == trimLeadingAssistantHistory(q.turns)
      turns == IF q.transparent THEN mergeClaudeHistoryTurns(trimmed) ELSE trimmed
      keep == Answers(turns, q.results) /\ q.tools
      results == IF keep THEN orderToolResultsForLastAssistant(turns, q.results) ELSE q.results
      history == IF q.transparent THEN preserveStructuredClaudeHistory(turns, q.results)
                 ELSE sanitizeKiroHistory(turns, IF keep THEN results ELSE <<>>)
  IN  Assembled(q, q.text, history, results, keep)

\* Results come one by one; a run of them that others follow is a turn of the client,
\* the run at the end is answered now.
OpenAIToKiro(q) ==
  LET m == q.turns
      read(c, i) ==
        CASE m[i].role = "tool" ->
               IF i < Len(m) /\ m[i + 1].role # "tool"
               THEN [c EXCEPT !.turns = Append(@, Turn("user", <<>>, <<>>, c.results \o m[i].results)),
                              !.results = <<>>]
               ELSE [c EXCEPT !.results = @ \o m[i].results]
          [] m[i].role = "user" /\ i = Len(m) -> [c EXCEPT !.text = m[i].text]
          [] OTHER -> [c EXCEPT !.turns = Append(@, m[i])]
      all == FoldLeft(read, [turns |-> <<>>, results |-> <<>>, text |-> <<>>], [i \in 1 .. Len(m) |-> i])
      keep == Answers(all.turns, all.results) /\ q.tools
      results == IF keep THEN orderToolResultsForLastAssistant(all.turns, all.results) ELSE all.results
      history == sanitizeKiroHistory(all.turns, IF keep THEN results ELSE <<>>)
  IN  Assembled(q, all.text, history, results, keep)

repairStructuredKiroPayloadToolResults(p) ==
  LET q == detachOrphanedToolResults(p)
  IN  [q EXCEPT !.history = preserveStructuredClaudeHistory(@, q.results)]

\* Without tool definitions no call may stay; the history is made plain, and what that
\* leaves without its call becomes text.
repairKiroPayloadToolResults(p) ==
  LET structured(h) == UsesIn(h) # {} \/ ResultsIn(h) # {}
      plain(q, results) ==
        IF structured(q.history) THEN [q EXCEPT !.history = sanitizeKiroHistory(@, results)] ELSE q
      q1 == detachOrphanedToolResults(IF p.tools THEN p ELSE plain(p, <<>>))
  IN  IF p.transparent THEN repairStructuredKiroPayloadToolResults(p)
      ELSE detachOrphanedToolResults(plain(q1, q1.results))

validateKiroPayloadToolHistory(p) == p.results = <<>> \/ Answers(p.history, p.results)

AcceptClaude(q) ==
  /\ payloadStage = "idle" /\ payloadStage' = "translated"
  /\ asked' = q /\ payload' = claudeToKiro(q)

AcceptOpenAI(q) ==
  /\ payloadStage = "idle" /\ payloadStage' = "translated"
  /\ asked' = q /\ payload' = OpenAIToKiro(q)

\* The handler knows the model's window better and truncates again.
Retruncate(limit) ==
  /\ payloadStage = "translated" /\ limit < payload.limit
  /\ payload' = truncatePayloadToLimit([payload EXCEPT !.limit = limit])
  /\ UNCHANGED <<asked, payloadStage>>

callKiroAPI ==
  /\ payloadStage = "translated"
  /\ payload' = repairKiroPayloadToolResults(payload)
  /\ payloadStage' = IF validateKiroPayloadToolHistory(payload') THEN "sent" ELSE "refused here"
  /\ UNCHANGED asked

\* The upstream refuses a history kept as it was: once, it is made plain.
fallbackTransparentHistory ==
  /\ payloadStage = "sent" /\ payload.transparent /\ payloadStage' = "translated"
  /\ payload' = [payload EXCEPT !.transparent = FALSE, !.history = sanitizeKiroHistory(@, <<>>)]
  /\ UNCHANGED asked

PayloadDone ==
  /\ payloadStage \in {"sent", "refused here"}
  /\ payloadStage' = "idle" /\ asked' = NoConversation /\ payload' = NoConversation

PayloadNext ==
  \/ \E q \in ClientRequests : AcceptClaude(q)
  \/ \E q \in OpenAIRequests : AcceptOpenAI(q)
  \/ \E limit \in InputLimits : Retruncate(limit)
  \/ callKiroAPI \/ fallbackTransparentHistory \/ PayloadDone

PayloadSpec == PayloadInit /\ [][PayloadNext]_payloadVars
-----------------------------------------------------------------------------
\* What is sent was repaired for good: it is never refused by the own check, and
\* another repair before the next attempt changes nothing.
RepairSuffices ==
  /\ payloadStage # "refused here"
  /\ payloadStage = "sent" => repairKiroPayloadToolResults(payload) = payload

\* In plain history only the last turn may call tools, and then the results answer it;
\* on the transparent path every call has its result and every result its call.
ToolsPaired ==
  payloadStage = "sent" =>
    LET h == payload.history
        answered == ResultsIn(h) \cup ToSet(Ids(payload.results))
    IN  IF payload.transparent THEN UsesIn(h) \subseteq answered /\ ResultsIn(h) \subseteq UsesIn(h)
        ELSE /\ ResultsIn(h) = {} /\ \A k \in 1 .. Len(h) - 1 : h[k].uses = <<>>
             /\ UsesIn(h) = ToSet(Ids(payload.results))

\* The history starts with the client, and a plain one has no empty turn of the
\* assistant and no narrated calls left.
HistoryClean ==
  payloadStage \in {"translated", "sent"} =>
    /\ payload.history # <<>> => payload.history[1].role = "user"
    /\ ~payload.transparent =>
         \A t \in ToSet(payload.history) :
           t.role = "assistant" => ~(t.uses = <<>> /\ Hollow(t.text)) /\ Called \notin ToSet(t.text)

\* Outputs the client sent arrive, in the structure or in the text, unless the
\* payload was too large; a transparent history may lose those without a call.
OutputsArrive ==
  payloadStage = "sent" /\ ~payload.cut =>
    LET inNow == ToSet(payload.text) \cup ToSet(Outs(payload.results))
        inHistory == UNION {ToSet(t.text) \cup ToSet(Outs(t.results)) : t \in ToSet(payload.history)}
        sent(turns) == UNION {ToSet(Outs(t.results)) : t \in ToSet(turns)}
    IN  /\ ToSet(Outs(asked.results)) \subseteq inNow
        /\ ~asked.transparent => sent(asked.turns) \subseteq inNow \cup inHistory

\* Truncation ends within the limit, or with nothing left to cut.
TruncationSuffices ==
  payloadStage = "translated" /\ payload.cut =>
    \/ payloadFitsInputLimits(payload) \/ payload.transparent # asked.transparent
    \/ payload.history \in {<<>>, <<Placeholder>>} /\ payload.results = <<>> /\ Len(payload.text) = 1

\* Whatever state of repair a conversation comes in, translation, truncation and
\* repair together give a payload whose tool results answer the calls before them,
\* lose no output on the way and fit the model's window (translator.go).
HistorySafe == RepairSuffices /\ ToolsPaired /\ HistoryClean /\ OutputsArrive /\ TruncationSuffices
=============================================================================
