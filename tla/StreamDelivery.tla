---------------------------- MODULE StreamDelivery ----------------------------
(***************************************************************************)
(* How a request handler turns what the upstream says into the response of *)
(* one client: the three streaming handlers (handleClaudeStream and        *)
(* handleOpenAIStream of proxy/handler.go, handleResponsesStream of        *)
(* proxy/responses_handler.go) and their three buffered counterparts.      *)
(*                                                                         *)
(* A handler tries account after account.  For each it holds an admission  *)
(* (guard) and a prompt cache reservation, runs the call, up to            *)
(* SameAccountRetries times again when the stream was cut, and translates  *)
(* the callbacks of the call into events.  A heartbeat goroutine writes    *)
(* between any two of them.  Text is "" (empty), " " (blank) or "x"; a     *)
(* fragment of assistant text is a word, the beginning of a thinking tag   *)
(* that is not complete, or the rest of an opening or closing tag.         *)
(* D_x is D with the defect x, and no part of the specification.           *)
(***************************************************************************)
EXTENDS Integers, Sequences, FiniteSets

CONSTANTS
  ToolIds,             \* tool calls the upstream may make
  Styles,              \* the requests checked: see Style
  SameAccountRetries,  \* maxSameAccountStreamRetries
  MaxFragments         \* bound on the callbacks of one call

ASSUME DeliveryAssumption ==
  /\ SameAccountRetries \in Nat /\ MaxFragments \in Nat
  /\ \A s \in Styles : s.proto \in {"claude", "chat", "responses"} /\ s.stream \in BOOLEAN

VARIABLES
  style,       \* the request; never changes
  hpc,         \* where the handler is
  loc,         \* the locals of the attempt, see NewLocals
  try,         \* accounts tried and calls made: [acct, retry, fed]
  held,        \* what the attempt holds: [guard, reserved]
  left,        \* the client has gone: the request context is cancelled
  logged,      \* entries of the request log
  origin,      \* history: the calls whose text or tools the client has got
  wphase, wopen, wused, wlast   \* what the client has got, for WireProtocol

deliveryVars == <<style, hpc, loc, try, held, left, logged, origin, wphase, wopen, wused, wlast>>
wire == <<wphase, wopen, wused, wlast>>

Wire == INSTANCE WireProtocol WITH phase <- wphase, open <- wopen, used <- wused, last <- wlast

-----------------------------------------------------------------------------
(* A request.  deltas: streamToolUseDeltas; buffered: streamTextWith-       *)
(* BufferedTools; announce: announceBufferedToolStarts; precommit: stream-  *)
(* ThinkingPrecommit; omit: OmitDisplay; tries: accounts there are to try.  *)
Style(proto, stream, thinking, format, flags, tries) ==
  [proto |-> proto, stream |-> stream, thinking |-> thinking, format |-> format,
   deltas |-> "deltas" \in flags, buffered |-> "buffered" \in flags,
   announce |-> "announce" \in flags, precommit |-> "precommit" \in flags, omit |-> "omit" \in flags,
   tries |-> tries]

(* Declarations of an attempt.  next is nextContentIndex, toolCallIndex or  *)
(* outputIndex; active and kind the open text or thinking block; tools maps *)
(* a tool that was started to its block; a tag that is not complete is held *)
(* back (partial).                                                          *)
NoBlock == -1
NewLocals(next) ==
  [out |-> <<>>, active |-> NoBlock, kind |-> "", tools |-> <<>>, next |-> next,
   committed |-> FALSE, eventOpen |-> FALSE, started |-> FALSE,
   inTag |-> FALSE, drop |-> FALSE, partial |-> FALSE, source |-> "unknown"]

Ev(k, i, acts) == [k |-> k, i |-> i, acts |-> acts]
Send(l, k, i, acts) == [l EXCEPT !.out = Append(@, Ev(k, i, acts))]

(* emitSSE, writeOpenAIData, send, sendTerminal: one event, under sseMu. *)
Receive(e) ==
  /\ wlast' = [k |-> e.k, i |-> e.i]
  /\ wphase' = CASE e.k = "start" -> "open"
                 [] e.k \in {"finish", "fail", "answer", "gone"} -> "done"
                 [] OTHER -> wphase
  /\ wopen' = CASE e.k = "open" -> wopen \cup {e.i}
                [] e.k = "stop" -> wopen \ {e.i}
                [] OTHER -> wopen
  /\ wused' = IF e.k \in {"open", "item"} THEN wused + 1 ELSE wused
  /\ origin' = IF e.acts THEN origin \cup {<<try.acct, try.retry>>} ELSE origin

Emit ==
  /\ loc.out # <<>>
  /\ loc' = [loc EXCEPT !.out = Tail(@)]
  /\ Receive(Head(loc.out))
  /\ UNCHANGED <<style, hpc, try, held, left, logged>>

(* The heartbeats.  Claude: a ping while the message is open; Responses: a  *)
(* comment while [DONE] was not sent; Chat: a comment until it is stopped.  *)
Heartbeat ==
  /\ style.stream /\ hpc # "idle" /\ wphase # "idle"
  /\ style.proto = "chat" \/ wphase = "open"
  /\ Receive(Ev(IF style.proto = "claude" THEN "ping" ELSE "comment", 0, FALSE))
  /\ UNCHANGED <<style, hpc, loc, try, held, left, logged>>

-----------------------------------------------------------------------------
(* Claude blocks. *)
closeActiveBlock(l) ==
  IF l.active = NoBlock THEN l
  ELSE [Send(l, "stop", l.active, FALSE) EXCEPT !.active = NoBlock, !.kind = ""]

Opened(l, kind) == [Send(l, "open", l.next, FALSE) EXCEPT !.active = l.next, !.kind = kind]
startContentBlock(l, kind) ==
  IF l.kind = kind THEN l ELSE [Opened(closeActiveBlock(l), kind) EXCEPT !.next = @ + 1]

Delta(l, acts) == Send(l, "delta", l.active, acts)
Block(l, kind, acts) == Delta(startContentBlock(l, kind), acts)

(* sendText(text, thinkingState): 0 is visible text, 1 the beginning of a   *)
(* thought, 2 its middle and 3 its end.                                     *)
sendText(l, text, state) ==
  LET provisional == style.precommit /\ style.format = "thinking" /\ ~style.deltas
      acts == text = "x" /\ ~provisional
      t == IF acts THEN [l EXCEPT !.committed = TRUE] ELSE l
  IN CASE state = 0 -> IF text = "" THEN l ELSE Block([l EXCEPT !.committed = TRUE], "text", TRUE)
       [] state # 0 /\ ~style.thinking -> l
       [] state # 0 /\ style.thinking /\ style.format = "think" ->
            IF state = 2 /\ text = "" THEN t ELSE Block(t, "text", acts)
       [] state # 0 /\ style.thinking /\ style.format = "reasoning_content" ->
            IF text = "" THEN t ELSE Block(t, "text", acts)
       [] OTHER ->
            IF style.omit
            THEN IF state = 1 THEN startContentBlock(t, "thinking")
                 ELSE IF state = 3 THEN closeActiveBlock(startContentBlock(t, "thinking")) ELSE t
            ELSE LET b == IF text = "" THEN t ELSE Block(t, "thinking", acts)
                 IN IF state = 3 /\ b.kind = "thinking" THEN closeActiveBlock(b) ELSE b

(* sendChunk of the chat handler: every chunk counts as output. *)
sendChunk(l, text, state) ==
  IF \/ text = "" /\ state \in {0, 2}
     \/ state > 0 /\ ~style.thinking
     \/ state > 0 /\ text = "" /\ style.format \notin {"think", "thinking"}
  THEN l
  ELSE [Send(l, "chunk", 0, TRUE) EXCEPT !.committed = TRUE]

-----------------------------------------------------------------------------
(* Where thinking comes from: events or tags, whichever is seen first. *)
AllowsTag(l) == l.source # "event"
TagSeen(l) ==
  [l EXCEPT !.source = IF @ = "unknown" THEN "tag" ELSE @, !.inTag = TRUE, !.drop = ~AllowsTag(l),
            !.started = FALSE, !.partial = FALSE]
OutOfTag(l) == [l EXCEPT !.inTag = FALSE, !.drop = FALSE, !.started = FALSE, !.partial = FALSE]

(* One fragment of assistant text, outside and inside a thinking tag. *)
Fragment(l, tok, send(_, _, _)) ==
  LET rest == [l EXCEPT !.partial = FALSE]
  IN CASE ~l.inTag /\ tok = "open" -> TagSeen(l)
       [] ~l.inTag /\ tok = "partial" ->
            [(IF l.partial THEN send(l, "x", 0) ELSE l) EXCEPT !.partial = TRUE]
       [] ~l.inTag /\ tok \notin {"open", "partial"} -> send(rest, "x", 0)
       [] l.inTag /\ tok = "close" ->
            OutOfTag(IF l.drop THEN l
                     ELSE IF l.started THEN send(l, "", 3) ELSE send(send(l, "", 1), "", 3))
       [] l.inTag /\ tok = "partial" /\ ~l.partial -> [l EXCEPT !.partial = TRUE]
       [] OTHER ->
            LET more == [l EXCEPT !.partial = (tok = "partial")]
            IN IF l.drop THEN more
               ELSE [send(more, "x", IF l.started THEN 2 ELSE 1) EXCEPT !.started = TRUE]

(* forceFlush: what was held back is text after all; a tag that was never   *)
(* closed ends here.  Nothing is sent when nothing was held back.           *)
Flush(l, send(_, _, _)) ==
  IF ~l.inTag
  THEN IF l.partial THEN [send(l, "x", 0) EXCEPT !.partial = FALSE] ELSE l
  ELSE OutOfTag(IF ~l.partial \/ l.drop THEN l
                ELSE IF l.started THEN send(l, "x", 3) ELSE send(send(l, "x", 1), "", 3))

(* A reasoning event, and what ends it. *)
Reasoning(l, text, send(_, _, _)) ==
  IF ~style.thinking \/ l.source = "tag" THEN l
  ELSE LET s == [l EXCEPT !.source = "event"]
       IN IF l.started THEN send(s, text, 2)
          ELSE [send(s, text, 1) EXCEPT !.started = TRUE, !.eventOpen = TRUE]
EndReasoning(l, send(_, _, _)) ==
  IF l.eventOpen THEN [send(l, "", 3) EXCEPT !.eventOpen = FALSE, !.started = FALSE] ELSE l

(* processClaudeText and processText: tok is a fragment, or "flush". *)
Split(l, tok, send(_, _, _)) == IF tok = "flush" THEN Flush(l, send) ELSE Fragment(l, tok, send)
processClaudeText(l, tok) == Split(EndReasoning(l, sendText), tok, sendText)
processText(l, tok) == Split(EndReasoning(l, sendChunk), tok, sendChunk)

-----------------------------------------------------------------------------
(* Responses items: the open item is a message or a reasoning item, and the *)
(* index moves on when it is done.                                          *)
finishItem(l) ==
  IF l.active = NoBlock THEN l
  ELSE [Send(l, "stop", l.active, FALSE) EXCEPT !.active = NoBlock, !.kind = "", !.next = @ + 1]
finishReasoning(l) == IF l.kind = "reasoning" THEN finishItem(l) ELSE l
finishMessage(l) == IF l.kind = "message" THEN finishItem(l) ELSE l
ensureReasoningStarted(l) ==
  IF l.kind = "reasoning" THEN l
  ELSE Opened(finishMessage(l), "reasoning")
ensureMessageStarted(l) ==
  IF l.kind = "message" THEN l
  ELSE Opened(finishReasoning(l), "message")

emitVisibleText(l, text) ==
  IF text = "" THEN l ELSE [Delta(ensureMessageStarted(l), TRUE) EXCEPT !.committed = TRUE]
emitReasoningText(l, text, state) ==
  IF ~style.thinking \/ (state = 3 /\ text = "" /\ l.kind # "reasoning") THEN l
  ELSE LET r == ensureReasoningStarted(l)
           d == IF text = "" THEN r ELSE [Delta(r, TRUE) EXCEPT !.committed = TRUE]
       IN IF state = 3 THEN finishReasoning(d) ELSE d
sendSegment(l, text, state) ==
  IF state = 0 THEN emitVisibleText(l, text) ELSE emitReasoningText(l, text, state)

(* thinkingTagParser.feed with appendThinking: as the splitter above, but a *)
(* thought that has no text is not started, and one that was is ended.      *)
appendThinking(l, text, closing) ==
  IF l.drop THEN l
  ELSE IF ~l.started
  THEN LET s == IF text = "" THEN l ELSE [sendSegment(l, text, 1) EXCEPT !.started = TRUE]
       IN IF closing /\ s.started THEN sendSegment(s, "", 3) ELSE s
  ELSE IF closing THEN sendSegment(l, text, 3)
  ELSE IF text = "" THEN l ELSE sendSegment(l, text, 2)
feed(l, tok) ==
  CASE tok = "flush" /\ l.inTag -> OutOfTag(appendThinking(l, IF l.partial THEN "x" ELSE "", TRUE))
    [] tok # "flush" /\ l.inTag /\ tok = "close" -> OutOfTag(appendThinking(l, "", TRUE))
    [] tok # "flush" /\ l.inTag /\ tok # "close" ->
         appendThinking([l EXCEPT !.partial = (tok = "partial")],
                        IF tok = "partial" /\ ~l.partial THEN "" ELSE "x", FALSE)
    [] OTHER -> IF tok = "flush" THEN Flush(l, sendSegment) ELSE Fragment(l, tok, sendSegment)

-----------------------------------------------------------------------------
(* Tools.  Claude streams them block by block. *)
Started(l, id) == id \in DOMAIN l.tools
ToolOpened(l, id) ==
  [Send(l, "open", l.next, TRUE)
     EXCEPT !.next = @ + 1,
            !.tools = [t \in DOMAIN @ \cup {id} |->
                         IF t = id THEN [i |-> l.next, stopped |-> FALSE] ELSE l.tools[t]]]
startToolUse(l, id) ==
  IF Started(l, id) THEN l
  ELSE ToolOpened(closeActiveBlock([processClaudeText(l, "flush") EXCEPT !.committed = TRUE]), id)
sendToolUseDelta(l, id) ==
  IF ~Started(l, id) \/ l.tools[id].stopped THEN l ELSE Send(l, "delta", l.tools[id].i, TRUE)
stopToolUse(l, id) ==
  IF ~Started(l, id) \/ l.tools[id].stopped THEN l
  ELSE [Send(l, "stop", l.tools[id].i, FALSE) EXCEPT !.tools[id].stopped = TRUE]

WholeTool(l, id) ==
  IF ~Started(l, id) \/ style.buffered THEN sendToolUseDelta(startToolUse(l, id), id) ELSE l
ClaudeToolUse(l, id) ==
  [stopToolUse(WholeTool(processClaudeText(l, "flush"), id), id)
     EXCEPT !.tools = [t \in DOMAIN @ \ {id} |-> @[t]]]

ChatItem(l) == [Send(l, "item", l.next, TRUE) EXCEPT !.next = @ + 1, !.committed = TRUE]
ChatToolUse(l, id) == ChatItem(processText(l, "flush"))

ResponsesItem(l) ==
  [Send(Send(Send(l, "open", l.next, FALSE), "delta", l.next, TRUE), "stop", l.next, FALSE)
     EXCEPT !.next = @ + 1, !.committed = TRUE]
ResponsesToolUse(l, id) == ResponsesItem(finishMessage(finishReasoning(feed(l, "flush"))))

(* onBufferedToolStart: text is finished; the tool is announced only when   *)
(* the response is committed already.                                       *)
onBufferedToolStart(l, id) ==
  LET c == closeActiveBlock(processClaudeText(l, "flush"))
  IN IF style.announce /\ c.committed THEN startToolUse(c, id) ELSE c

(* OnProgress: a blank thought keeps the client waiting. *)
OnProgress(l) ==
  IF style.precommit /\ ~l.committed /\ style.format = "thinking"
  THEN [Block(l, "thinking", FALSE) EXCEPT !.started = TRUE, !.eventOpen = TRUE]
  ELSE l

(* resetAttempt: a Claude block that is open is closed and the numbers go   *)
(* on; the others start again, having sent nothing.                         *)
resetClaude_open(l) == [NewLocals(l.next) EXCEPT !.out = l.out]
resetClaude(l) == LET c == closeActiveBlock(l) IN [NewLocals(c.next) EXCEPT !.out = c.out]
resetOpenAI(l) == NewLocals(0)
resetResponses(l) == NewLocals(0)
resetAttempt(l) ==
  CASE style.proto = "claude" -> resetClaude(l)
    [] style.proto = "chat" -> resetOpenAI(l)
    [] OTHER -> resetResponses(l)

-----------------------------------------------------------------------------
(* The handler.  Nothing happens while it has events to write. *)
Quiet == loc.out = <<>>
NewTry == [acct |-> 0, retry |-> 0, fed |-> 0]
Nothing == [guard |-> FALSE, reserved |-> FALSE]

DeliveryInit ==
  /\ style \in Styles
  /\ hpc = "idle" /\ loc = NewLocals(0) /\ try = NewTry /\ held = Nothing /\ left = FALSE
  /\ logged = 0 /\ origin = {}
  /\ wphase = "idle" /\ wopen = {} /\ wused = 0 /\ wlast = [k |-> "none", i |-> 0]

(* A stream is opened before an account is selected: message_start, the     *)
(* comment that commits the headers, or response.created.                   *)
ensureMessageStart(l) == Send(l, "start", 0, FALSE)
writeKeepalive(l) == Send(l, "start", 0, FALSE)
responseCreated(l) == Send(l, "start", 0, FALSE)
HandlerStarts ==
  /\ hpc = "idle" /\ hpc' = "select"
  /\ loc' = CASE ~style.stream -> loc
              [] style.stream /\ style.proto = "claude" -> ensureMessageStart(loc)
              [] style.stream /\ style.proto = "chat" -> writeKeepalive(loc)
              [] OTHER -> responseCreated(loc)
  /\ UNCHANGED <<style, try, held, left, logged, origin, wire>>

ClientGoes ==
  /\ hpc \in {"select", "token", "call"} /\ ~left /\ left' = TRUE
  /\ UNCHANGED <<style, hpc, loc, try, held, logged, origin, wire>>

acquireNextAccountForRequest ==
  /\ hpc = "select" /\ Quiet /\ ~left /\ try.acct < style.tries
  /\ hpc' = "token"
  /\ try' = [acct |-> try.acct + 1, retry |-> 0, fed |-> 0]
  /\ held' = [held EXCEPT !.guard = TRUE]
  /\ UNCHANGED <<style, loc, left, logged, origin, wire>>

(* ensureValidTokenContext fails: the account is excluded. *)
TokenFails ==
  /\ hpc = "token" /\ hpc' = "select"
  /\ held' = [held EXCEPT !.guard = FALSE]
  /\ UNCHANGED <<style, loc, try, left, logged, origin, wire>>

(* ComputeDetailed reserves; then the declarations of the attempt.  Only    *)
(* Claude's numbers go on from one account to the next.                     *)
claudeLocals == NewLocals(loc.next)
openAILocals == NewLocals(0)
responsesLocals == NewLocals(0)
AttemptStarts ==
  /\ hpc = "token" /\ hpc' = "call"
  /\ held' = [held EXCEPT !.reserved = TRUE]
  /\ loc' = CASE style.proto = "claude" -> claudeLocals
              [] style.proto = "chat" -> openAILocals
              [] OTHER -> responsesLocals
  /\ UNCHANGED <<style, try, left, logged, origin, wire>>

(* The callbacks of a buffered handler write nothing. *)
claudeCollects == loc
openAICollects == loc
responsesCollects == loc

(* A callback of the call; l is what it makes of the locals.               *)
Calls(l) ==
  /\ hpc = "call" /\ Quiet /\ try.fed < MaxFragments
  /\ try' = [try EXCEPT !.fed = @ + 1]
  /\ loc' = CASE style.stream -> l
              [] ~style.stream /\ style.proto = "claude" -> claudeCollects
              [] ~style.stream /\ style.proto = "chat" -> openAICollects
              [] OTHER -> responsesCollects
  /\ UNCHANGED <<style, hpc, held, left, logged, origin, wire>>

OnText(tok) ==
  Calls(CASE style.proto = "claude" -> processClaudeText(loc, tok)
          [] style.proto = "chat" -> processText(loc, tok)
          [] OTHER -> feed(loc, tok))

processReasoning(l, text) ==
  IF ~style.thinking \/ l.source = "tag" THEN l
  ELSE emitReasoningText([l EXCEPT !.source = "event"], text, 2)
OnReasoning(text) ==
  Calls(CASE style.proto = "claude" -> Reasoning(loc, text, sendText)
          [] style.proto = "chat" -> Reasoning(loc, text, sendChunk)
          [] OTHER -> processReasoning(loc, text))

OnToolUse(id) ==
  Calls(CASE style.proto = "claude" -> ClaudeToolUse(loc, id)
          [] style.proto = "chat" -> ChatToolUse(loc, id)
          [] OTHER -> ResponsesToolUse(loc, id))

Claude == style.proto = "claude" /\ style.stream
OnToolFrame(id) ==
  /\ Claude /\ style.deltas
  /\ \/ ~Started(loc, id) /\ Calls(startToolUse(loc, id))
     \/ Started(loc, id) /\ Calls(sendToolUseDelta(loc, id))
     \/ Started(loc, id) /\ Calls(stopToolUse(loc, id))
OnBufferedStart(id) == Claude /\ style.buffered /\ Calls(onBufferedToolStart(loc, id))
OnProgressFrame == Claude /\ style.precommit /\ Calls(OnProgress(loc))
-----------------------------------------------------------------------------
(* runKiroWithIntegrityRetry: a stream that was cut is tried again on the   *)
(* same account, unless the client has output, the client has gone, or the  *)
(* retries or the budget of the request are used up.                        *)
CanRetry_always == TRUE
CanRetry == style.stream => ~loc.committed
StreamCut ==
  /\ hpc = "call" /\ Quiet /\ ~left /\ CanRetry /\ try.retry < SameAccountRetries
  /\ loc' = resetAttempt(loc)
  /\ try' = [try EXCEPT !.retry = @ + 1, !.fed = 0]
  /\ UNCHANGED <<style, hpc, held, left, logged, origin, wire>>

(* The call has failed for good: admission and reservation are given back.  *)
(* Before output the next account is tried if the error allows it; after    *)
(* output the stream ends with an error.  What the error does to the        *)
(* account is the subject of AccountCooldowns.                              *)
Failed(l, final, over) ==
  /\ hpc = "call" /\ Quiet /\ (left => final)
  /\ held' = Nothing /\ loc' = l
  /\ hpc' = IF over THEN "return" ELSE IF final THEN "exhausted" ELSE "select"
  /\ logged' = IF over THEN logged + 1 ELSE logged
  /\ UNCHANGED <<style, try, left, origin, wire>>

Handles(proto, stream) == style.proto = proto /\ style.stream = stream
sendStreamError(l) == Send(l, "fail", 0, FALSE)
sendOpenAIStreamError(l) == Send(l, "fail", 0, FALSE)
sendFailure(l) == Send(l, "fail", 0, FALSE)

ClaudeStreamFails(final) ==
  /\ Handles("claude", TRUE)
  /\ IF loc.committed THEN Failed(sendStreamError(loc), final, TRUE)
     ELSE Failed(closeActiveBlock(EndReasoning(loc, sendText)), final, FALSE)
OpenAIStreamFails(final) ==
  /\ Handles("chat", TRUE)
  /\ IF loc.committed THEN Failed(sendOpenAIStreamError(loc), final, TRUE) ELSE Failed(loc, final, FALSE)
ResponsesStreamFails(final) ==
  /\ Handles("responses", TRUE)
  /\ IF loc.committed THEN Failed(sendFailure(loc), final, TRUE) ELSE Failed(loc, final, FALSE)
ClaudeNonStreamFails(final) == Handles("claude", FALSE) /\ Failed(loc, final, FALSE)
OpenAINonStreamFails(final) == Handles("chat", FALSE) /\ Failed(loc, final, FALSE)
ResponsesNonStreamFails(final) == Handles("responses", FALSE) /\ Failed(loc, final, FALSE)

(* Success: the parser reports a tool that was not finished as an error, so *)
(* none is open; what is held back is flushed, what is open is closed, the  *)
(* reservation becomes an entry of the cache, and the response ends.        *)
Succeeded(l) ==
  /\ hpc = "call" /\ Quiet /\ DOMAIN loc.tools = {}
  /\ held' = Nothing /\ loc' = l
  /\ logged' = logged + 1 /\ hpc' = "return"
  /\ UNCHANGED <<style, try, left, origin, wire>>

(* A client that has gone before the write is not written to. *)
writeJSONWithDelivery(l) == Send(l, IF left THEN "gone" ELSE "answer", 0, ~left)

ClaudeStreamSucceeds ==
  /\ Handles("claude", TRUE)
  /\ LET l == closeActiveBlock(EndReasoning(processClaudeText(loc, "flush"), sendText))
     IN Succeeded(Send(l, "finish", 0, FALSE))
OpenAIStreamSucceeds ==
  /\ Handles("chat", TRUE)
  /\ Succeeded(Send(EndReasoning(processText(loc, "flush"), sendChunk), "finish", 0, FALSE))
ResponsesStreamSucceeds ==
  /\ Handles("responses", TRUE)
  /\ Succeeded(Send(finishMessage(finishReasoning(feed(loc, "flush"))), "finish", 0, FALSE))
ClaudeNonStreamSucceeds == Handles("claude", FALSE) /\ Succeeded(writeJSONWithDelivery(loc))
OpenAINonStreamSucceeds == Handles("chat", FALSE) /\ Succeeded(writeJSONWithDelivery(loc))
ResponsesNonStreamSucceeds == Handles("responses", FALSE) /\ Succeeded(writeJSONWithDelivery(loc))

(* After the loop: no account, all busy, the selection timed out, or an     *)
(* error that no other account would cure.  A client that has gone is only  *)
(* recorded.                                                                *)
GaveUp(l) ==
  /\ hpc \in {"select", "exhausted"} /\ Quiet
  /\ hpc' = "return" /\ logged' = logged + 1
  /\ loc' = IF left THEN Send(loc, "gone", 0, FALSE) ELSE l
  /\ UNCHANGED <<style, try, held, left, origin, wire>>
ErrorAnswer(l) == Send(l, "answer", 0, FALSE)

ClaudeStreamGivesUp == Handles("claude", TRUE) /\ GaveUp(sendStreamError(loc))
OpenAIStreamGivesUp == Handles("chat", TRUE) /\ GaveUp(sendOpenAIStreamError(loc))
ResponsesStreamGivesUp == Handles("responses", TRUE) /\ GaveUp(sendFailure(loc))
ClaudeNonStreamGivesUp == Handles("claude", FALSE) /\ GaveUp(ErrorAnswer(loc))
OpenAINonStreamGivesUp == Handles("chat", FALSE) /\ GaveUp(ErrorAnswer(loc))
ResponsesNonStreamGivesUp == Handles("responses", FALSE) /\ GaveUp(ErrorAnswer(loc))

(* The heartbeat is stopped; the connection may carry another request. *)
HandlerReturns ==
  /\ hpc = "return" /\ Quiet
  /\ hpc' = "idle" /\ loc' = NewLocals(0) /\ try' = NewTry /\ left' = FALSE
  /\ logged' = 0 /\ origin' = {}
  /\ wphase' = "idle" /\ wopen' = {} /\ wused' = 0 /\ wlast' = [k |-> "none", i |-> 0]
  /\ UNCHANGED <<style, held>>

DeliveryNext ==
  \/ HandlerStarts \/ ClientGoes \/ Emit \/ Heartbeat
  \/ acquireNextAccountForRequest \/ TokenFails \/ AttemptStarts
  \/ \E tok \in {"word", "partial", "open", "close"} : OnText(tok)
  \/ \E text \in {" ", "x"} : OnReasoning(text)
  \/ \E id \in ToolIds : OnToolUse(id) \/ OnToolFrame(id) \/ OnBufferedStart(id)
  \/ OnProgressFrame
  \/ StreamCut \/ HandlerReturns
  \/ \E final \in BOOLEAN :
       \/ ClaudeStreamFails(final) \/ OpenAIStreamFails(final) \/ ResponsesStreamFails(final)
       \/ ClaudeNonStreamFails(final) \/ OpenAINonStreamFails(final) \/ ResponsesNonStreamFails(final)
  \/ ClaudeStreamSucceeds \/ OpenAIStreamSucceeds \/ ResponsesStreamSucceeds
  \/ ClaudeNonStreamSucceeds \/ OpenAINonStreamSucceeds \/ ResponsesNonStreamSucceeds
  \/ ClaudeStreamGivesUp \/ OpenAIStreamGivesUp \/ ResponsesStreamGivesUp
  \/ ClaudeNonStreamGivesUp \/ OpenAINonStreamGivesUp \/ ResponsesNonStreamGivesUp

DeliverySpec == DeliveryInit /\ [][DeliveryNext]_deliveryVars

-----------------------------------------------------------------------------
(* Whatever accounts and calls a request goes through, and wherever the     *)
(* heartbeat writes, the client sees one well-formed response: every block  *)
(* is opened with the next number, gets deltas only while it is open and is *)
(* closed before the stream finishes, and nothing follows the end.          *)
WellFormedResponse == Wire!WireSpec

(* Text and tools of at most one call reach the client: canRetry and the    *)
(* checks after a failed call never let a second call answer a client that  *)
(* already has output of a first one.                                       *)
OneCallAnswers == Cardinality(origin) <= 1

(* Outside a call the handler holds neither an admission nor a reservation. *)
NothingLeftHeld == hpc \in {"idle", "select", "exhausted", "return"} => held = Nothing

(* A request that is over is in the request log, once. *)
LoggedOnce == (hpc = "return" => logged = 1) /\ (hpc = "select" => logged = 0)

(* A request answers its client from one call only, gives back what it took *)
(* for each account it tried, and is logged once.                           *)
DeliverySafe == OneCallAnswers /\ NothingLeftHeld /\ LoggedOnce
=============================================================================
