------------------------------ MODULE ToolStream ------------------------------
(***************************************************************************)
(* parseEventStreamWithOptions and the set of tool calls under assembly    *)
(* (pendingToolUseSet) of proxy/kiro.go.  The upstream makes tool calls in *)
(* fragments; each frame shows an identifier, a name or a block index, or  *)
(* none of them, as the dialect of the data plane has it, and the decoder  *)
(* must find out which call the fragment belongs to.                       *)
(* Arguments are "" (none), "part" (cut JSON) or "whole" (an object).      *)
(* D_x is D with the defect x, and no part of the specification.           *)
(***************************************************************************)
EXTENDS Integers, Sequences, FiniteSets, SequencesExt

CONSTANTS
  ToolCalls,      \* tool calls the upstream makes, numbered from 1
  Dialects    \* see Dialect

ASSUME CallsAssumption == IsFiniteSet(ToolCalls) /\ ToolCalls \subseteq 1..9

VARIABLES
  dialect,    \* the data plane; never changes
  made,       \* upstream: what was sent of each call
  begun,      \* upstream: the calls in the order they were begun
  tp,         \* pendingToolUses: [order, last, generated, fin, err]
  seen,       \* locals of parseEventStreamWithOptions
  verdict     \* what it returned, "reading" before

toolVars == <<dialect, made, begun, tp, seen, verdict>>

(* shows: "ids", every frame has the identifier; "blocks", every frame has  *)
(* the block index; "late", the identifier comes when it comes; "names",   *)
(* there is none.  ToolCalls overlap when parallel.  policy is the input policy *)
(* of both tools, inferred is allowInferredTextEOF.                         *)
Dialect(shows, parallel, policy, inferred) ==
  [shows |-> shows, parallel |-> parallel, policy |-> policy, inferred |-> inferred]

NoToolId == 0
NameOf(c) == IF c = 1 THEN "n1" ELSE "n2"
GeneratedId(k) == 10 + k

Tool(id, name, block, generated, c) ==
  [id |-> id, name |-> name, block |-> block, gen |-> generated, buf |-> "", streamed |-> "",
   started |-> FALSE, stopped |-> FALSE, of |-> {c}]

-----------------------------------------------------------------------------
(* pendingToolUseSet. *)
get(p, id) == IF id = NoToolId THEN 0 ELSE SelectInSeq(p.order, LAMBDA r : r.id = id)
getByContentBlockIndex(p, b) == IF b = 0 THEN 0 ELSE SelectInSeq(p.order, LAMBDA r : r.block = b)
latest(p) == get(p, p.last)
add(p, r) == [p EXCEPT !.order = Append(@, r), !.last = r.id]
rekey(p, k, id) ==
  [p EXCEPT !.order[k].id = id, !.order[k].gen = (@ /\ p.order[k].id = id),
            !.last = IF @ = p.order[k].id THEN id ELSE @]

(* removeFirst, n times. *)
removeFirst(p, n) ==
  LET rest == SubSeq(p.order, n + 1, Len(p.order))
  IN [p EXCEPT !.order = rest,
               !.last = IF \E i \in 1..Len(rest) : rest[i].id = @ THEN @
                        ELSE IF rest = <<>> THEN NoToolId ELSE rest[Len(rest)].id]

startToolUseStream(r) ==
  IF r.started THEN r ELSE [r EXCEPT !.started = TRUE, !.streamed = r.buf]

(* finishToolUse: malformed arguments are never authorised by a stop. *)
Finishable(r) == r.buf # "part"
finishToolUse(r) == startToolUseStream(r)

(* The calls at the head of the order that satisfy ok are finished; one     *)
(* that cannot be stops the loop.                                           *)
PrefixLength(p, ok(_)) ==
  LET stops == {i \in 1..Len(p.order) : ~ok(p.order[i])}
  IN IF stops = {} THEN Len(p.order) ELSE Min(stops) - 1
FinishedTools(p, n) ==
  [removeFirst(p, n) EXCEPT !.fin = @ \o [i \in 1..n |-> finishToolUse(p.order[i])]]

flushStoppedPrefix_anywhere(p) ==
  LET stopped == SelectSeq(p.order, LAMBDA r : r.stopped /\ Finishable(r))
      kept == SelectSeq(p.order, LAMBDA r : ~(r.stopped /\ Finishable(r)))
  IN [p EXCEPT !.order = kept, !.last = IF kept = <<>> THEN NoToolId ELSE kept[Len(kept)].id,
               !.fin = @ \o [i \in 1..Len(stopped) |-> finishToolUse(stopped[i])]]
flushStoppedPrefix(p) ==
  LET n == PrefixLength(p, LAMBDA r : r.stopped /\ Finishable(r))
      bad == n < Len(p.order) /\ p.order[n + 1].stopped
  IN [FinishedTools(p, n) EXCEPT !.err = @ \/ bad]

(* Whether a call that was not stopped may be taken as complete. *)
allowsCompleteArguments(b) == b \in {"truncatedFrame", "cleanEOF", "toolUse", "outputLimit"}
allowsEmptyToolInput(b) ==
  \/ b = "toolUse" /\ dialect.policy \in {"declared", "closed"}
  \/ b = "cleanEOF" /\ dialect.policy = "closed"
toolUseArgumentsComplete(r) == r.name # "" /\ r.buf = "whole"
Recoverable(r, b) ==
  /\ \/ r.stopped
     \/ allowsCompleteArguments(b) /\ toolUseArgumentsComplete(r)
     \/ r.buf = "" /\ allowsEmptyToolInput(b) /\ r.name # ""
  /\ Finishable(r)
recoverCompletePrefix(p, b) == FinishedTools(p, PrefixLength(p, LAMBDA r : Recoverable(r, b)))

mergeToolUseRecoveryBoundary_last(current, next) == IF next # "none" THEN next ELSE current
mergeToolUseRecoveryBoundary(current, next) ==
  CASE "conflicting" \in {current, next} -> "conflicting"
    [] "conflicting" \notin {current, next} /\ "outputLimit" \in {current, next} -> "outputLimit"
    [] OTHER -> IF next # "none" THEN next ELSE current
toolUseRecoveryBoundaryForStopReason(reason) ==
  CASE reason = "tool_use" -> "toolUse"
    [] reason = "max_tokens" -> "outputLimit"
    [] OTHER -> "conflicting"

-----------------------------------------------------------------------------
(* handleToolUseEvent.  e is what the frame shows: [id, name, block, input, *)
(* stop], of the call c.                                                    *)

(* The state the frame belongs to, created or renamed when need be. *)
WithNew(p, id, e, generated, c) == add(p, Tool(id, e.name, e.block, generated, c))
Generate(p, e, c) ==
  [WithNew(p, GeneratedId(p.generated), e, TRUE, c) EXCEPT !.generated = @ + 1]

ByIdentifier_noBlock(p, e, c) ==
  LET k == get(p, e.id) IN IF k # 0 THEN p ELSE WithNew(p, e.id, e, FALSE, c)
ByIdentifier(p, e, c) ==
  LET k == get(p, e.id)
      b == getByContentBlockIndex(p, e.block)
      l == latest(p)
  IN CASE k # 0 -> p
       [] k = 0 /\ b # 0 -> rekey(p, b, e.id)
       [] k = 0 /\ b = 0 /\ l # 0 /\ p.order[l].gen /\ (e.name = "" \/ p.order[l].name = e.name) ->
            rekey(p, l, e.id)
       [] OTHER -> WithNew(p, e.id, e, FALSE, c)
ByBlock(p, e, c) ==
  IF getByContentBlockIndex(p, e.block) = 0 /\ e.name # "" THEN Generate(p, e, c) ELSE p
ByName(p, e, c) ==
  LET l == latest(p)
  IN IF l # 0 /\ (e.name = "" \/ p.order[l].name = e.name) THEN p
     ELSE IF e.name = "" THEN p
     ELSE LET f == IF l = 0 THEN p ELSE flushStoppedPrefix([p EXCEPT !.order[l].stopped = TRUE])
          IN IF f.err THEN f ELSE Generate(f, e, c)

Located(p, e, c) ==
  CASE e.id # NoToolId -> ByIdentifier(p, e, c)
    [] e.id = NoToolId /\ e.block # 0 -> ByBlock(p, e, c)
    [] OTHER -> ByName(p, e, c)
CurrentTool(p, e) ==
  CASE e.id # NoToolId -> get(p, e.id)
    [] e.id = NoToolId /\ e.block # 0 -> getByContentBlockIndex(p, e.block)
    [] OTHER -> latest(p)

(* A fragment is appended to what is there, an object replaces it; it is    *)
(* passed on when the stream of the call has started.                       *)
Joined(old, input) ==
  CASE input = "none" -> old
    [] input = "object" -> "whole"
    [] input = "first" -> IF old = "" THEN "part" ELSE "mixed"
    [] OTHER -> IF old = "part" THEN "whole" ELSE "mixed"
Fed(r, e, c) ==
  LET named == [r EXCEPT !.name = IF @ = "" THEN e.name ELSE @, !.of = @ \cup {c},
                         !.block = IF @ = 0 THEN e.block ELSE @]
      open == IF ~named.gen /\ named.name # "" THEN startToolUseStream(named) ELSE named
  IN [open EXCEPT !.buf = Joined(@, e.input),
                  !.streamed = IF open.started THEN Joined(@, e.input) ELSE @]

Applied(q, e, c) ==
  LET k == CurrentTool(q, e)
      name == IF k = 0 \/ q.order[k].name # "" THEN "named" ELSE e.name
      fed == [q EXCEPT !.order[k] = Fed(@, e, c)]
  IN CASE q.err -> q
       [] ~q.err /\ k = 0 -> IF e.stop THEN q ELSE [q EXCEPT !.err = TRUE]
       [] ~q.err /\ k # 0 /\ name = "" /\ e.stop -> [q EXCEPT !.err = TRUE]
       [] OTHER -> IF e.stop THEN flushStoppedPrefix([fed EXCEPT !.order[k].stopped = TRUE]) ELSE fed
handleToolUseEvent(p, e, c) == Applied(Located(p, e, c), e, c)

-----------------------------------------------------------------------------
(* The frames. *)
NothingMade == [c \in ToolCalls |-> [sent |-> "", named |-> FALSE, stopped |-> FALSE]]
NonePending == [order |-> <<>>, last |-> NoToolId, generated |-> 1, fin |-> <<>>, err |-> FALSE]
NothingSeen ==
  [output |-> FALSE, completion |-> FALSE, telemetry |-> FALSE, tool |-> FALSE,
   recovered |-> FALSE, boundary |-> "none"]
ToolInit ==
  /\ dialect \in Dialects
  /\ made = NothingMade /\ begun = <<>> /\ tp = NonePending /\ seen = NothingSeen
  /\ verdict = "reading"

(* What the dialect lets the upstream send next. *)
MayGoOn(c) ==
  /\ ~made[c].stopped
  /\ \A d \in ToolCalls : d < c => d \in Range(begun)
  /\ (~dialect.parallel /\ begun # <<>>) =>
       IF c \in Range(begun) THEN Last(begun) = c
       ELSE made[Last(begun)].stopped \/ dialect.shows = "names"
MayShow(c, e) ==
  LET first == c \notin Range(begun)
  IN /\ e.id \in (CASE dialect.shows = "ids" -> {c}
                    [] dialect.shows = "names" -> {NoToolId}
                    [] OTHER -> {NoToolId, c})
     /\ e.block = IF dialect.shows = "blocks" THEN c ELSE 0
     /\ e.name \in {"", NameOf(c)}
     /\ (first /\ dialect.shows # "ids") => e.name # ""
Sends(c, input) ==
  CASE input = "none" -> made[c].sent
    [] input = "rest" -> "whole"
    [] input = "first" -> "part"
    [] OTHER -> "whole"
MaySend(c, input) ==
  CASE input = "none" -> TRUE [] input = "rest" -> made[c].sent = "part" [] OTHER -> made[c].sent = ""

ToolFrame(c) ==
  \E e \in [id : {NoToolId, c}, name : {"", NameOf(c)}, block : {0, c},
            input : {"none", "first", "rest", "object"}, stop : BOOLEAN] :
    /\ verdict = "reading" /\ ~seen.completion
    /\ MayGoOn(c) /\ MayShow(c, e) /\ MaySend(c, e.input)
    /\ (e.input = "none" /\ ~e.stop) => c \notin Range(begun) \/ (e.name # "" /\ ~made[c].named)
    /\ made' = [made EXCEPT ![c] = [sent |-> Sends(c, e.input), stopped |-> e.stop,
                                    named |-> @.named \/ e.name # ""]]
    /\ begun' = IF c \in Range(begun) THEN begun ELSE Append(begun, c)
    /\ tp' = handleToolUseEvent(tp, e, c)
    /\ verdict' = IF tp'.err THEN "invalid" ELSE verdict
    /\ seen' = [seen EXCEPT !.output = TRUE, !.telemetry = FALSE, !.tool = (tp'.fin # <<>>)]
    /\ UNCHANGED dialect

TextFrame ==
  /\ verdict = "reading" /\ ~seen.completion
  /\ seen' = [seen EXCEPT !.output = TRUE, !.telemetry = FALSE]
  /\ UNCHANGED <<dialect, made, begun, tp, verdict>>
TelemetryFrame ==
  /\ verdict = "reading" /\ seen' = [seen EXCEPT !.telemetry = TRUE]
  /\ UNCHANGED <<dialect, made, begun, tp, verdict>>
(* A stop reason, and the exception that stands for one. *)
StopReason(reason) ==
  /\ verdict = "reading"
  /\ seen' = [seen EXCEPT !.completion = TRUE, !.telemetry = TRUE,
                          !.boundary = mergeToolUseRecoveryBoundary(
                                         @, toolUseRecoveryBoundaryForStopReason(reason))]
  /\ UNCHANGED <<dialect, made, begun, tp, verdict>>
ContentLengthExceeded ==
  /\ verdict = "reading"
  /\ seen' = [seen EXCEPT !.completion = TRUE, !.telemetry = FALSE,
                          !.boundary = mergeToolUseRecoveryBoundary(@, "outputLimit")]
  /\ UNCHANGED <<dialect, made, begun, tp, verdict>>
(* A length, a checksum or a header that is wrong, or a payload that is not *)
(* JSON: nothing is recovered.                                              *)
InvalidFrame ==
  /\ verdict = "reading" /\ verdict' = "invalid"
  /\ UNCHANGED <<dialect, made, begun, tp, seen>>
UpstreamException ==
  /\ verdict = "reading" /\ verdict' = "exception"
  /\ UNCHANGED <<dialect, made, begun, tp, seen>>

(* After the loop: pending calls are recovered or the response is refused;  *)
(* one with neither output nor a completion is no response.                 *)
AfterLoop(p, s) ==
  LET b == IF s.boundary = "none" THEN "cleanEOF" ELSE s.boundary
      t == [s EXCEPT !.recovered = @ \/ tp'.fin # p.fin, !.tool = (tp'.fin # <<>>)]
      legacy == t.telemetry /\ ~t.completion
      inferred == t.output /\ ~t.tool /\ ~t.recovered /\ ~legacy /\ dialect.inferred
  IN /\ tp' = recoverCompletePrefix(p, b)
     /\ seen' = [t EXCEPT !.completion = @ \/ (inferred /\ tp'.order = <<>>)]
     /\ verdict' = CASE tp'.order # <<>> -> "incompleteTool"
                     [] tp'.order = <<>> /\ ~t.output /\ ~t.completion -> "incompleteResponse"
                     [] tp'.order = <<>> /\ t.output /\ ~(t.completion \/ inferred \/ legacy \/ t.recovered \/ t.tool) ->
                          "incompleteResponse"
                     [] OTHER -> "complete"

EndOfStream ==
  /\ verdict = "reading" /\ AfterLoop(tp, seen)
  /\ UNCHANGED <<dialect, made, begun>>
TruncatedFrame ==
  LET q == recoverCompletePrefix(tp, mergeToolUseRecoveryBoundary(seen.boundary, "truncatedFrame"))
      recovered == q.fin # tp.fin
  IN /\ verdict = "reading"
     /\ IF recovered /\ q.order = <<>>
        THEN AfterLoop(q, [seen EXCEPT !.recovered = TRUE])
        ELSE /\ tp' = q /\ seen' = [seen EXCEPT !.tool = (q.fin # <<>>)]
             /\ verdict' = IF q.order # <<>> THEN "incompleteTool" ELSE "truncated"
     /\ UNCHANGED <<dialect, made, begun>>

(* The next response is decoded from nothing. *)
NextStream ==
  /\ verdict # "reading" /\ verdict' = "reading"
  /\ made' = NothingMade /\ begun' = <<>> /\ tp' = NonePending /\ seen' = NothingSeen
  /\ UNCHANGED dialect

ToolNext ==
  \/ \E c \in ToolCalls : ToolFrame(c)
  \/ TextFrame \/ TelemetryFrame
  \/ \E reason \in {"tool_use", "max_tokens", "end_turn"} : StopReason(reason)
  \/ ContentLengthExceeded \/ UpstreamException \/ InvalidFrame
  \/ EndOfStream \/ TruncatedFrame \/ NextStream

ToolSpec == ToolInit /\ [][ToolNext]_toolVars

-----------------------------------------------------------------------------
Assembled == tp.fin \o tp.order
Owner(r) == CHOOSE c \in ToolCalls : r.of = {c}

(* No fragment goes astray: whatever the frames show, a call under assembly *)
(* or handed on is made of the fragments of one call of the upstream, and   *)
(* no call is split in two, renamed or not.                                 *)
FragmentsKept ==
  /\ \A i \in 1..Len(Assembled) : Cardinality(Assembled[i].of) = 1
  /\ verdict = "reading" =>
       \A c \in Range(begun) : \E i \in 1..Len(Assembled) : c \in Assembled[i].of
  /\ \A i, j \in 1..Len(Assembled) : i # j => Assembled[i].of \cap Assembled[j].of = {}

(* ToolCalls are handed on in the order the upstream began them, whatever the   *)
(* order of their stop markers.                                             *)
BegunOrderKept ==
  \A i, j \in 1..Len(Assembled) :
    (i < j /\ Cardinality(Assembled[i].of) = 1 /\ Cardinality(Assembled[j].of) = 1) =>
      Owner(Assembled[i]) < Owner(Assembled[j])

(* What was streamed of a call that is handed on is what it is handed on    *)
(* with, and that is everything the upstream sent of it and never cut JSON. *)
HandedOnWhole ==
  \A i \in 1..Len(tp.fin) :
    LET r == tp.fin[i]
    IN r.started /\ r.streamed = r.buf /\ r.buf \in {"", "whole"}
       /\ \A c \in r.of : r.buf = made[c].sent

(* A response is complete only when every call that was begun was handed    *)
(* on; a call the upstream did not end is taken as complete only with its   *)
(* arguments, or without any when its schema says so, and never when the    *)
(* upstream gave another reason to stop.                                    *)
CompleteMeansAll ==
  /\ verdict = "complete" => tp.order = <<>> /\ Len(tp.fin) = Len(begun)
  /\ \A i \in 1..Len(tp.fin) : \A c \in tp.fin[i].of :
       (verdict = "complete" /\ ~made[c].stopped /\ dialect.shows # "names") =>
         /\ seen.boundary # "conflicting"
         /\ made[c].sent = "whole" \/ dialect.policy # "none"

(* Tool calls survive the assembly: the four promises above together. *)
ToolsSafe == FragmentsKept /\ BegunOrderKept /\ HandedOnWhole /\ CompleteMeansAll
=============================================================================
