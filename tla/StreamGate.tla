------------------------------ MODULE StreamGate ------------------------------
(***************************************************************************)
(* The gate between the decoder and the handler (meaningfulStreamCallback  *)
(* of proxy/meaningful_stream.go): what the upstream says is held back     *)
(* until it is worth an answer, so that a call whose beginning is useless  *)
(* can still be made again.  The output events are numbered as they enter; *)
(* an item of pending carries the first and the last number merged in it.  *)
(* Text is a word, a promise to act ("preamble"), punctuation, or one half *)
(* of a thinking tag.                                                      *)
(* D_x is D with the defect x, and no part of the specification.           *)
(***************************************************************************)
EXTENDS Integers, Sequences

CONSTANTS
  GateKinds,   \* the requests checked: see GateKind
  MaxOutput    \* bound on the output events of one call

(* A request is one of what GateKind, below, makes. *)
ASSUME GateAssumption ==
  /\ MaxOutput \in Nat
  /\ GateKinds \subseteq [strict : BOOLEAN, require : BOOLEAN, defer : BOOLEAN, precommit : BOOLEAN,
                          frames : BOOLEAN, allow : BOOLEAN, blank : BOOLEAN]

VARIABLES
  kind,        \* the request; never changes
  gate,        \* the fields of meaningfulStreamCallback
  stage,       \* "running", or "ended" with the call
  tools,       \* upstream: the tool is "none", "started" or "made"
  got          \* what the handler got: [last, kinds, complete, ordered, usage]

gateVars == <<kind, gate, stage, tools, got>>

(* strict: a turn of a tool agent; require: it must use a tool; defer: text *)
(* waits for the end; precommit: thinking is shown at once; frames: the    *)
(* handler takes tool fragments; allow: text alone may end the turn; blank:*)
(* white space is kept.                                                    *)
GateKind(flags) ==
  [strict |-> "strict" \in flags, require |-> "require" \in flags, defer |-> "defer" \in flags,
   precommit |-> "precommit" \in flags, frames |-> "frames" \in flags, allow |-> "allow" \in flags,
   blank |-> "blank" \in flags]

Item(k, first, last) == [k |-> k, first |-> first, last |-> last]
OutputKinds == {"text", "thinking", "start", "delta", "stop", "use"}

NewGate ==
  [committed |-> FALSE, activity |-> FALSE, actionable |-> FALSE, invalid |-> FALSE,
   emitted |-> FALSE, pending |-> <<>>, lead |-> {}, words |-> {}, open |-> FALSE, n |-> 0, usages |-> 0,
   noticed |-> FALSE]
NothingGot == [last |-> 0, kinds |-> {}, complete |-> FALSE, ordered |-> TRUE, usage |-> 0]

-----------------------------------------------------------------------------
(* dispatch: the handler has a callback for every kind but tool fragments,  *)
(* which only reach the gate when it has those too.                         *)
Received(r, i) ==
  CASE i.k \in OutputKinds ->
         [r EXCEPT !.last = i.last, !.kinds = @ \cup {i.k},
                   !.ordered = @ /\ i.first = r.last + 1 /\ ~r.complete]
    [] i.k = "complete" -> [r EXCEPT !.complete = TRUE]
    [] i.k = "usage" -> [r EXCEPT !.usage = i.last]
    [] OTHER -> r

(* visibleTextOutsideThinking, kept up to date: words are the kinds of text *)
(* outside complete tags, open says that a tag is not closed.               *)
Probed(g, tok) ==
  CASE tok = "open" -> [g EXCEPT !.open = TRUE]
    [] tok = "close" -> [g EXCEPT !.open = FALSE]
    [] OTHER -> IF g.open THEN g ELSE [g EXCEPT !.words = @ \cup {tok}]
hasSubstantiveAgentText(g) == g.words \cap {"word", "preamble"} # {}
isToolExecutionPreamble(g) == "preamble" \in g.words

appendPending(seq, i) ==
  IF seq # <<>> /\ seq[Len(seq)].k = i.k /\ i.k \in {"text", "thinking", "usage"}
  THEN [seq EXCEPT ![Len(seq)].last = i.last]
  ELSE Append(seq, i)

hasPendingVisibleOutput_never(g) == FALSE
hasPendingVisibleOutput(g) == \E j \in 1..Len(g.pending) : g.pending[j].k \in {"use", "text"}

(* Whether the event i, with the probe up to date, releases what is held. *)
Commits_onText(g, i) == i.k \in {"use", "text"} \/ (i.k = "complete" /\ hasSubstantiveAgentText(g))
Commits(g, i) ==
  \/ i.k = "use"
  \/ i.k \in {"start", "delta"} /\ ~(kind.defer /\ ~kind.frames)
  \/ /\ i.k = "text" /\ ~kind.require /\ ~kind.defer
     /\ ~g.open /\ hasSubstantiveAgentText(g)
  \/ /\ i.k = "complete" /\ kind.defer /\ (~kind.require \/ kind.allow)
     /\ ~g.open /\ hasSubstantiveAgentText(g) /\ ~isToolExecutionPreamble(g)

(* The items are dispatched one after the other. *)
Delivered(r, items) ==
  LET upTo[j \in 0 .. Len(items)] == IF j = 0 THEN r ELSE Received(upTo[j - 1], items[j])
  IN  upTo[Len(items)]
Passes(g, items) ==
  /\ gate' = [g EXCEPT !.emitted = @ \/ \E j \in 1..Len(items) : items[j].k \in OutputKinds]
  /\ got' = Delivered(got, items)

(* handleEvent.  An output event gets the next number. *)
handleEvent(g0, k, tok) ==
  LET g == [g0 EXCEPT !.n = IF k \in OutputKinds THEN @ + 1 ELSE @,
                      !.usages = IF k = "usage" THEN @ + 1 ELSE @]
      i == IF k = "usage" THEN Item(k, g.usages, g.usages) ELSE Item(k, g.n, g.n)
      acts == k \in {"text", "thinking", "use", "start", "delta"}
      held == [(IF k = "text" THEN Probed(g, tok) ELSE g) EXCEPT !.pending = appendPending(@, i)]
  IN CASE ~kind.strict -> Passes([g EXCEPT !.actionable = @ \/ acts], <<i>>)
       [] kind.strict /\ (\/ g.committed
                          \/ k = "thinking" /\ kind.precommit /\ ~hasPendingVisibleOutput(g)) ->
            Passes(g, <<i>>)
       [] OTHER ->
            IF Commits(held, i)
            THEN Passes([held EXCEPT !.committed = TRUE, !.actionable = TRUE, !.pending = <<>>], held.pending)
            ELSE gate' = held /\ UNCHANGED got

-----------------------------------------------------------------------------
(* The wrapper's callbacks. *)
markActivity(g) == [g EXCEPT !.activity = TRUE]
Room == stage = "running" /\ gate.n < MaxOutput

(* White space is no output, and is kept for the text it stands before. *)
OnBlank(k) ==
  /\ Room
  /\ IF ~kind.blank THEN UNCHANGED <<gate, got>>
     ELSE IF gate.activity THEN handleEvent(gate, k, "punct")
     ELSE gate' = [gate EXCEPT !.lead = @ \cup {k}] /\ UNCHANGED got
  /\ UNCHANGED <<kind, stage, tools>>
GateOnText(k, tok) ==
  /\ Room /\ (k = "text" \/ tok = "word")
  /\ (tok = "close" => gate.open) /\ (tok = "open" => ~gate.open)
  /\ handleEvent([markActivity(gate) EXCEPT !.lead = @ \ {k}], k, tok)
  /\ UNCHANGED <<kind, stage, tools>>
OnToolUseStart ==
  /\ Room /\ tools = "none" /\ tools' = "started"
  /\ IF kind.frames THEN handleEvent(markActivity(gate), "start", "")
     ELSE gate' = markActivity(gate) /\ UNCHANGED got
  /\ UNCHANGED <<kind, stage>>
OnToolUseDelta ==
  /\ Room /\ tools = "started"
  /\ IF kind.frames THEN handleEvent(markActivity(gate), "delta", "")
     ELSE gate' = markActivity(gate) /\ UNCHANGED got
  /\ UNCHANGED <<kind, stage, tools>>
OnToolUseStop ==
  /\ Room /\ tools = "started" /\ tools' = "stopped"
  /\ IF kind.frames THEN handleEvent(gate, "stop", "") ELSE UNCHANGED <<gate, got>>
  /\ UNCHANGED <<kind, stage>>
(* A call whose arguments are malformed is dropped. *)
GateOnToolUse(actionable) ==
  /\ Room /\ tools = "stopped" /\ tools' = "none"
  /\ IF actionable THEN handleEvent(markActivity(gate), "use", "")
     ELSE gate' = [markActivity(gate) EXCEPT !.invalid = @ \/ gate.actionable] /\ UNCHANGED got
  /\ UNCHANGED <<kind, stage>>
OnUsage ==
  /\ stage = "running" /\ gate.usages < 2
  /\ handleEvent(gate, "usage", "") /\ UNCHANGED <<kind, stage, tools>>
(* OnStopReason, OnCredits, OnContextUsage, OnTruncated, OnError. *)
OnNotice ==
  /\ stage = "running" /\ ~gate.noticed
  /\ handleEvent([gate EXCEPT !.noticed = TRUE], "notice", "") /\ UNCHANGED <<kind, stage, tools>>
OnComplete ==
  /\ stage = "running" /\ tools \in {"none"} /\ stage' = "ended"
  /\ handleEvent(gate, "complete", "") /\ UNCHANGED <<kind, tools>>
StreamFails ==
  /\ stage = "running" /\ stage' = "ended" /\ UNCHANGED <<kind, gate, tools, got>>

(* The call is made again, with a gate of its own, when it was no answer    *)
(* and nothing the client acts on was shown; else the request is over.      *)
NextCall ==
  /\ stage = "ended" /\ stage' = "running"
  /\ gate' = NewGate /\ got' = NothingGot /\ tools' = "none" /\ UNCHANGED kind

GateInit ==
  /\ kind \in GateKinds
  /\ gate = NewGate /\ got = NothingGot /\ stage = "running" /\ tools = "none"
GateNext ==
  \/ \E k \in {"text", "thinking"} :
       OnBlank(k) \/ \E tok \in {"word", "preamble", "punct", "open", "close"} : GateOnText(k, tok)
  \/ OnToolUseStart \/ OnToolUseDelta \/ OnToolUseStop \/ \E a \in BOOLEAN : GateOnToolUse(a)
  \/ OnUsage \/ OnNotice \/ OnComplete \/ StreamFails \/ NextCall

GateSpec == GateInit /\ [][GateNext]_gateVars

-----------------------------------------------------------------------------
(* The handler gets what the decoder said in the order it was said, each    *)
(* once and nothing after the end; what is released early, thinking, never  *)
(* overtakes what is held; once the gate is open nothing stays behind.      *)
ReleasedInOrder ==
  /\ got.ordered
  /\ (gate.committed \/ ~kind.strict) => gate.pending = <<>> /\ got.last = gate.n

(* A call that counts as empty, and so is made again, has shown the client  *)
(* nothing it could act on: at most thinking, where that was asked for.     *)
RetryLosesNothing ==
  /\ ~gate.actionable => got.kinds \subseteq (IF kind.precommit THEN {"thinking"} ELSE {})
  /\ (kind.strict /\ ~gate.actionable) => ~got.complete
  /\ gate.emitted <=> got.kinds # {}

(* A turn that must use a tool is not answered by text; a turn whose text   *)
(* waits for its end is not answered by the mere promise of a tool call.    *)
ToolPromiseKept ==
  (kind.strict /\ gate.committed) =>
    \/ got.kinds \cap {"use", "start", "delta"} # {}
    \/ /\ kind.require => kind.allow
       /\ kind.defer => got.complete /\ "preamble" \notin gate.words

(* The usage the handler ends with is the last one reported. *)
LastUsageCounts == got.complete => got.usage = gate.usages

(* The gate neither loses, reorders nor leaks: the four above together. *)
GateSafe == ReleasedInOrder /\ RetryLosesNothing /\ ToolPromiseKept /\ LastUsageCounts
=============================================================================
