------------------------------ MODULE RequestTrace ------------------------------
(***************************************************************************)
(* The detailed trace of one request (proxy/request_detail.go): a bounded  *)
(* timeline of events, bounded texts, tools and attempts, closed once and  *)
(* cut down to the byte limit of a stored detail.  Sizes are small         *)
(* numbers: a unit stands for the threshold at which a part is cut.        *)
(* D_x is D with the defect x, and no part of the specification.           *)
(***************************************************************************)
EXTENDS Integers, Sequences, FiniteSets, SequencesExt

CONSTANTS
  MaxEvents,      \* maxEvents of the trace
  Loads,          \* bound: [types, slow, events], what one request records
  MaxTools,       \* maxRequestDetailTools
  MaxAttempts,    \* maxRequestDetailAttempts
  TraceToolIds,
  TextLimit,      \* outputLimit
  DetailLimits    \* byte limits of a stored detail

VARIABLES
  load,           \* the Load of this request
  timeline,       \* sequence of [n, priority]
  eventSequence, droppedEvents,
  important,      \* history: the events that matter, [n, type, slow]
  attempts,       \* how many are kept
  refused,        \* attempts over the limit
  tools,          \* sequence of [id, sawDelta, completed, sealed]
  visible,        \* [kept, total, truncated]
  detail          \* <<>> or <<the closed detail>>

traceVars == <<load, timeline, eventSequence, droppedEvents, important, attempts, refused, tools, visible, detail>>

Load(types, slow, events) == [types |-> types, slow |-> slow, events |-> events]
\* An error or the end; a long gap; where a tool call starts and ends.
Decisive == {"error", "truncated", "upstream_attempt", "complete"}
ToolBounds == {"tool_start", "tool_stop", "tool_use"}

Open(type) == detail = <<>> /\ eventSequence < load.events /\ type \in load.types

-----------------------------------------------------------------------------
(* The timeline. *)
requestDetailEventPriority_gapless(type, slow) ==
  CASE type \in Decisive -> 4
    [] type \in ToolBounds -> 2
    [] OTHER -> 1
requestDetailEventPriority(type, slow) ==
  CASE type \in Decisive -> 4
    [] slow -> 3
    [] type \in ToolBounds -> 2
    [] OTHER -> 1

(* Positions of the middle, between the startup prefix and the recent tail. *)
Quarter(tl) == Len(tl) \div 4
Middle(tl) == Quarter(tl) + 1 .. Max({Quarter(tl) + 1, (Len(tl) * 3) \div 4})
Evicted_oldest(tl) == 1
Evicted(tl) == CHOOSE i \in Middle(tl) :
  \A j \in Middle(tl) : tl[i].priority < tl[j].priority \/ (tl[i].priority = tl[j].priority /\ i <= j)

recordEventLocked(type, slow) ==
  LET event == [n |-> eventSequence + 1, priority |-> requestDetailEventPriority(type, slow)]
  IN /\ eventSequence' = eventSequence + 1
     /\ important' = IF slow \/ type \in Decisive \cup ToolBounds
                     THEN important \cup {[n |-> event.n, type |-> type, slow |-> slow]} ELSE important
     /\ IF Len(timeline) >= MaxEvents
        THEN /\ droppedEvents' = droppedEvents + 1
             /\ timeline' = Append(RemoveAt(timeline, Evicted(timeline)), event)
        ELSE timeline' = Append(timeline, event) /\ UNCHANGED droppedEvents

-----------------------------------------------------------------------------
(* Recording. *)
BoundedText(t, size) ==
  LET room == IF TextLimit > t.kept THEN TextLimit - t.kept ELSE 0
      chunk == Min({size, room})
  IN [kept |-> t.kept + chunk, total |-> t.total + size, truncated |-> t.truncated \/ chunk < size]

recordText(size, slow) ==
  /\ Open("text") /\ visible.total + size <= TextLimit + 2
  /\ visible' = BoundedText(visible, size)
  /\ recordEventLocked("text", slow)
  /\ UNCHANGED <<attempts, refused, tools, detail, load>>

(* Thinking has a text that is bounded like the visible one. *)
recordProgress(type, slow) ==
  /\ Open(type) /\ recordEventLocked(type, slow)
  /\ UNCHANGED <<attempts, refused, tools, visible, detail, load>>
(* Usage, credits, the end, a truncation, an error. *)
recordReport(type, slow) ==
  /\ Open(type) /\ recordEventLocked(type, slow)
  /\ UNCHANGED <<attempts, refused, tools, visible, detail, load>>

(* The tool of an id; beyond the limit the last one takes everything. *)
ToolAt(id) ==
  LET known == {i \in DOMAIN tools : tools[i].id = id}
  IN IF known # {} THEN CHOOSE i \in known : TRUE
     ELSE IF Len(tools) >= MaxTools THEN Len(tools) ELSE Len(tools) + 1
NewTool(id) == [id |-> id, sawDelta |-> FALSE, completed |-> FALSE, sealed |-> FALSE]
toolStateLocked(id) == IF ToolAt(id) > Len(tools) THEN Append(tools, NewTool(id)) ELSE tools
recordTool(type, id, slow) ==
  /\ Open(type)
  /\ tools' = [toolStateLocked(id) EXCEPT ![ToolAt(id)].sawDelta = @ \/ type = "tool_delta",
                                          ![ToolAt(id)].completed = @ \/ type \in {"tool_stop", "tool_use"}]
  /\ recordEventLocked(type, slow)
  /\ UNCHANGED <<attempts, refused, visible, detail, load>>

(* A new attempt ends the tools of the one before: their last gap counts. *)
sealToolGapsLocked == [i \in DOMAIN tools |-> [tools[i] EXCEPT !.sealed = TRUE]]
recordAttempt(slow) ==
  /\ Open("upstream_attempt") /\ tools' = sealToolGapsLocked
  /\ IF attempts >= MaxAttempts
     THEN /\ refused = 0 /\ refused' = 1 /\ droppedEvents' = droppedEvents + 1
          /\ UNCHANGED <<attempts, timeline, eventSequence, important>>
     ELSE attempts' = attempts + 1 /\ UNCHANGED refused /\ recordEventLocked("upstream_attempt", slow)
  /\ UNCHANGED <<visible, detail, load>>

-----------------------------------------------------------------------------
(* Closing: a copy, cut part by part until it fits. *)
SizeOf(d) == Len(d.timeline) + d.body + d.visible + d.attempts + d.tools + d.headers
Cut(d, field) == [d EXCEPT !.cut = @ \cup {field}]
Shrunk_silently(d) == [Cut(d, "timeline") EXCEPT !.timeline = SubSeq(@, Len(@) \div 2 + 1, Len(@))]
Shrunk(d) ==
  CASE Len(d.timeline) > 2 ->
         [Cut(d, "timeline") EXCEPT !.dropped = @ + Len(d.timeline) \div 2,
                                    !.timeline = SubSeq(@, Len(@) \div 2 + 1, Len(@))]
    [] d.body > 1 -> [Cut(d, "body") EXCEPT !.body = @ \div 2]
    [] d.visible > 1 -> [Cut(d, "visible") EXCEPT !.visible = @ \div 2]
    [] d.attempts > 1 -> [Cut(d, "attempts") EXCEPT !.attempts = @ - @ \div 2]
    [] d.tools > 1 -> [Cut(d, "tools") EXCEPT !.tools = @ \div 2]
    [] d.headers > 0 -> [Cut(d, "headers") EXCEPT !.headers = 0]
    [] OTHER -> [Cut(d, "detail") EXCEPT !.body = 0, !.visible = 0, !.timeline = <<>>,
                                         !.attempts = 0, !.tools = 0]
boundRequestDetail(d, limit) ==
  FoldLeft(LAMBDA e, i : IF SizeOf(e) <= limit THEN e ELSE Shrunk(e), d, [i \in 1..24 |-> i])

finalize(body, limit) ==
  LET d == [timeline |-> timeline, dropped |-> droppedEvents, body |-> body, visible |-> visible.kept,
            attempts |-> attempts, tools |-> Len(tools), headers |-> 1, limit |-> limit,
            cut |-> (IF visible.truncated THEN {"visible"} ELSE {})
                      \cup (IF droppedEvents > 0 THEN {"timeline"} ELSE {})]
  IN /\ detail = <<>>
     /\ detail' = <<boundRequestDetail(d, limit)>>
     /\ tools' = sealToolGapsLocked
     /\ UNCHANGED <<timeline, eventSequence, droppedEvents, important, attempts, refused, visible, load>>

newRequestDetailTrace(l) ==
  /\ load' = l
  /\ timeline' = <<>> /\ eventSequence' = 0 /\ droppedEvents' = 0 /\ important' = {}
  /\ attempts' = 0 /\ refused' = 0 /\ tools' = <<>> /\ detail' = <<>>
  /\ visible' = [kept |-> 0, total |-> 0, truncated |-> FALSE]
NextRequest == detail # <<>> /\ newRequestDetailTrace(load)

TraceInit ==
  /\ load \in Loads
  /\ timeline = <<>> /\ eventSequence = 0 /\ droppedEvents = 0 /\ important = {}
  /\ attempts = 0 /\ refused = 0 /\ tools = <<>> /\ detail = <<>>
  /\ visible = [kept |-> 0, total |-> 0, truncated |-> FALSE]
TraceNext ==
  \/ \E slow \in load.slow :
       \/ \E size \in {1, 2} : recordText(size, slow)
       \/ \E type \in {"thinking", "progress"} : recordProgress(type, slow)
       \/ \E type \in {"usage", "complete", "truncated", "error", "credits"} : recordReport(type, slow)
       \/ \E type \in {"tool_start", "tool_delta", "tool_stop", "tool_use"}, id \in TraceToolIds :
            recordTool(type, id, slow)
       \/ recordAttempt(slow)
  \/ \E limit \in DetailLimits, body \in {0, 2} : finalize(body, limit)
  \/ NextRequest
TraceSpec == TraceInit /\ [][TraceNext]_traceVars

-----------------------------------------------------------------------------
Recorded(tl) == {tl[i].n : i \in DOMAIN tl}
Spare == MaxEvents \div 4

(* However many events a request has, the trace keeps the first ones and    *)
(* the latest ones, in order.                                               *)
EndsKept ==
  /\ \A i \in 1..(Len(timeline) - 1) : timeline[i].n < timeline[i + 1].n
  /\ 1..Min({Spare, eventSequence}) \subseteq Recorded(timeline)
  /\ Max({1, eventSequence - Spare + 1})..eventSequence \subseteq Recorded(timeline)

(* Large tools do not push out errors, truncations, attempts and the end,   *)
(* nor long gaps, nor do their fragments push out where they start and end: *)
(* while there are fewer events of a rank and above than places between the *)
(* two ends, all of them are on the timeline.                               *)
ImportantKept ==
  LET decisive == {event \in important : event.type \in Decisive}
      gaps == {event \in important : event.slow}
  IN \A ranked \in {decisive, decisive \cup gaps, important} :
       Cardinality(ranked) < MaxEvents \div 2 => {event.n : event \in ranked} \subseteq Recorded(timeline)

(* What is missing is counted, in the trace and in what is left of it in a  *)
(* stored detail, unless the detail says that all of it was left out.       *)
NothingSilentlyDropped ==
  /\ Len(timeline) + droppedEvents = eventSequence + refused
  /\ \A i \in DOMAIN detail :
       LET d == detail[i]
       IN "detail" \in d.cut \/ (/\ Len(d.timeline) + d.dropped = eventSequence + refused
                                 /\ d.dropped > 0 => "timeline" \in d.cut)

(* A stored detail fits the limit it was closed with, or nothing that can   *)
(* be cut is left of it.                                                    *)
DetailFits ==
  \A i \in DOMAIN detail : SizeOf(detail[i]) <= detail[i].limit \/ SizeOf(detail[i]) = 0

(* The trace of a request keeps the ends and the important events, counts   *)
(* what it drops, and gives a detail that can be stored.                    *)
TraceSafe == EndsKept /\ ImportantKept /\ NothingSilentlyDropped /\ DetailFits
=============================================================================
