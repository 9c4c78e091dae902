----------------------------- MODULE Streams_proofs -----------------------------
(***************************************************************************)
(* Proofs about StreamDelivery, for any styles of request, tools, accounts *)
(* and number of callbacks: what the handlers write implements the         *)
(* protocol of WireProtocol, and one call answers the client.  And about   *)
(* StreamTimers, for any tools, limit, clock and number of timers: nothing *)
(* that is watched is ever left without a timer or a callback.             *)
(***************************************************************************)
EXTENDS StreamDelivery, StreamTimers, SequenceTheorems, FiniteSetTheorems, TLAPS

-----------------------------------------------------------------------------
(* Where a response is: what WireProtocol says of it, but for the last     *)
(* event.  The events that wait in loc.out lead from the position of the   *)
(* client to the position the handler counts with.                         *)
Position == [phase : {"idle", "open", "done"}, open : SUBSET Nat, used : Nat]
Here == [phase |-> wphase, open |-> wopen, used |-> wused]

Ends == {"finish", "fail", "answer", "gone"}
Kinds == {"start", "open", "delta", "stop", "item", "chunk"} \cup Ends
EventType == [k : Kinds, i : Int, acts : BOOLEAN]

After(p, e) ==
  [phase |-> IF e.k = "start" THEN "open" ELSE IF e.k \in Ends THEN "done" ELSE p.phase,
   open |-> IF e.k = "open" THEN p.open \cup {e.i} ELSE IF e.k = "stop" THEN p.open \ {e.i} ELSE p.open,
   used |-> IF e.k \in {"open", "item"} THEN p.used + 1 ELSE p.used]

(* What WireProtocol allows at a position. *)
Allowed(p, e) ==
  \/ e.k \in {"start", "answer"} /\ p.phase = "idle" /\ e.i = 0
  \/ e.k \in {"open", "item"} /\ p.phase = "open" /\ e.i = p.used
  \/ e.k \in {"delta", "stop"} /\ p.phase = "open" /\ e.i \in p.open
  \/ e.k \in {"chunk", "fail"} /\ p.phase = "open" /\ e.i = 0
  \/ e.k = "finish" /\ p.phase = "open" /\ p.open = {} /\ e.i = 0
  \/ e.k = "gone" /\ p.phase # "done" /\ e.i = 0

Follows(w, out) == \A j \in 1 .. Len(out) : Allowed(w[j], out[j]) /\ w[j + 1] = After(w[j], out[j])
Path(p, out, q) ==
  \E w \in [1 .. Len(out) + 1 -> Position] : w[1] = p /\ w[Len(out) + 1] = q /\ Follows(w, out)

LEMMA AfterPosition ==
  ASSUME NEW p \in Position, NEW e \in EventType, Allowed(p, e)
  PROVE  After(p, e) \in Position
<1>1. /\ e.k \in Kinds
      /\ (e.k = "open" => e.i \in Nat)
  BY DEF EventType, Allowed, Position, Kinds, Ends
<1> QED
  BY <1>1 DEF After, Position

LEMMA PathEmpty == ASSUME NEW p \in Position PROVE Path(p, <<>>, p)
<1>1. [j \in 1 .. 1 |-> p] \in [1 .. Len(<<>>) + 1 -> Position]
  OBVIOUS
<1>2. Follows([j \in 1 .. 1 |-> p], <<>>)
  BY DEF Follows
<1> QED
  BY <1>1, <1>2 DEF Path

LEMMA PathEnds ==
  ASSUME NEW p, NEW q, NEW out \in Seq(EventType), Path(p, out, q)
  PROVE  /\ p \in Position /\ q \in Position
         /\ out = <<>> => p = q
BY DEF Path

(* One more event at the end. *)
LEMMA PathAppend ==
  ASSUME NEW p, NEW q, NEW out \in Seq(EventType), Path(p, out, q),
         NEW e \in EventType, Allowed(q, e)
  PROVE  Path(p, Append(out, e), After(q, e))
<1> DEFINE n == Len(out)
           more == Append(out, e)
<1>1. PICK w \in [1 .. n + 1 -> Position] : w[1] = p /\ w[n + 1] = q /\ Follows(w, out)
  BY DEF Path
<1>2. n \in Nat /\ Len(more) = n + 1 /\ more[n + 1] = e /\ \A j \in 1 .. n : more[j] = out[j]
  OBVIOUS
<1> HIDE DEF n, more
<1> DEFINE v == [j \in 1 .. n + 2 |-> IF j = n + 2 THEN After(q, e) ELSE w[j]]
<1>3. After(q, e) \in Position
  <2>1. q \in Position
    BY <1>1, <1>2
  <2> QED
    BY <2>1, AfterPosition
<1>4. v \in [1 .. Len(more) + 1 -> Position]
  BY <1>1, <1>2, <1>3
<1>5. v[1] = p /\ v[Len(more) + 1] = After(q, e) /\ v[n + 1] = q /\ \A j \in 1 .. n + 1 : v[j] = w[j]
  BY <1>1, <1>2
<1>6. Follows(v, more)
  <2> SUFFICES ASSUME NEW j \in 1 .. n + 1
               PROVE  Allowed(v[j], more[j]) /\ v[j + 1] = After(v[j], more[j])
    BY <1>2 DEF Follows
  <2>1. CASE j \in 1 .. n
    <3>1. Allowed(w[j], out[j]) /\ w[j + 1] = After(w[j], out[j])
      BY <1>1, <2>1 DEF Follows, n
    <3>2. v[j] = w[j] /\ v[j + 1] = w[j + 1] /\ more[j] = out[j]
      BY <1>2, <1>5, <2>1
    <3> QED
      BY <3>1, <3>2
  <2>2. CASE j = n + 1
    <3>1. v[j] = q /\ v[j + 1] = After(q, e) /\ more[j] = e
      BY <1>2, <1>5, <2>2
    <3> QED
      BY <3>1
  <2> QED
    BY <1>2, <2>1, <2>2
<1> QED
  BY <1>4, <1>5, <1>6 DEF Path, more

(* The first event goes out. *)
LEMMA PathTail ==
  ASSUME NEW p, NEW q, NEW out \in Seq(EventType), out # <<>>, Path(p, out, q)
  PROVE  /\ Allowed(p, Head(out)) /\ Head(out) \in EventType
         /\ Tail(out) \in Seq(EventType)
         /\ \A j \in 1 .. Len(Tail(out)) : j + 1 \in 1 .. Len(out) /\ Tail(out)[j] = out[j + 1]
         /\ Path(After(p, Head(out)), Tail(out), q)
<1> DEFINE n == Len(out)
           rest == Tail(out)
<1>1. PICK w \in [1 .. n + 1 -> Position] : w[1] = p /\ w[n + 1] = q /\ Follows(w, out)
  BY DEF Path
<1>2. /\ n \in Nat \ {0} /\ Head(out) = out[1] /\ out[1] \in EventType
      /\ rest \in Seq(EventType) /\ Len(rest) = n - 1
      /\ \A j \in 1 .. n - 1 : rest[j] = out[j + 1]
  OBVIOUS
<1>3. /\ Allowed(w[1], out[1]) /\ w[2] = After(w[1], out[1])
      /\ \A j \in 1 .. n : Allowed(w[j], out[j]) /\ w[j + 1] = After(w[j], out[j])
  BY <1>1, <1>2 DEF Follows
<1> HIDE DEF n, rest
<1> DEFINE v == [j \in 1 .. n |-> w[j + 1]]
<1>4. v \in [1 .. Len(rest) + 1 -> Position] /\ v[1] = w[2] /\ v[Len(rest) + 1] = q
  BY <1>1, <1>2
<1>5. Follows(v, rest)
  <2> SUFFICES ASSUME NEW j \in 1 .. n - 1
               PROVE  Allowed(v[j], rest[j]) /\ v[j + 1] = After(v[j], rest[j])
    BY <1>2 DEF Follows
  <2>1. v[j] = w[j + 1] /\ v[j + 1] = w[j + 2] /\ rest[j] = out[j + 1] /\ j + 1 \in 1 .. n /\ j + 1 + 1 = j + 2
    BY <1>2
  <2> QED
    BY <2>1, <1>3
<1>6. Path(w[2], rest, q)
  BY <1>4, <1>5 DEF Path
<1> QED
  BY <1>1, <1>2, <1>3, <1>6 DEF n, rest

-----------------------------------------------------------------------------
(* The locals of an attempt on a stream, and what the events they wait to  *)
(* write amount to.                                                        *)
Tool == [i : Nat, stopped : BOOLEAN]
ToolMaps == UNION {[S -> Tool] : S \in SUBSET ToolIds}
BlockKinds == {"", "text", "thinking", "reasoning", "message"}
Locals ==
  [out : Seq(EventType), active : Nat \cup {NoBlock}, kind : BlockKinds,
   tools : ToolMaps, next : Nat, committed : BOOLEAN, eventOpen : BOOLEAN, started : BOOLEAN,
   inTag : BOOLEAN, drop : BOOLEAN, partial : BOOLEAN, source : {"unknown", "tag", "event"}]

(* The blocks that are open: of text or of a thought, and of tools. *)
ToolBlocks(tools) == {b \in Nat : \E t \in DOMAIN tools : tools[t].i = b /\ ~tools[t].stopped}
Blocks(l) == (IF l.active = NoBlock THEN {} ELSE {l.active}) \cup ToolBlocks(l.tools)
End(s, l) ==
  [phase |-> "open", open |-> Blocks(l),
   used |-> IF s.proto = "responses" /\ l.active # NoBlock THEN l.next + 1 ELSE l.next]

(* Blocks have numbers of their own, and the next number is free. *)
Below(tools, n) == \A t \in DOMAIN tools : tools[t].i < n
Apart(tools) == \A t, u \in DOMAIN tools : tools[t].i = tools[u].i => t = u
Numbered(l) ==
  /\ l.active < l.next /\ Below(l.tools, l.next) /\ Apart(l.tools)
  /\ \A t \in DOMAIN l.tools : l.tools[t].i # l.active
Shape(s, l) ==
  /\ l.kind = "" <=> l.active = NoBlock
  /\ s.proto = "claude" => l.kind \in {"", "text", "thinking"} /\ Numbered(l)
  /\ s.proto # "claude" => DOMAIN l.tools = {}
  /\ s.proto = "chat" => l.active = NoBlock
  /\ s.proto = "responses" => l.kind \in {"", "reasoning", "message"} /\ l.active \in {NoBlock, l.next}

(* Output counts: what the client reads as output commits the attempt, and *)
(* an attempt that is not committed has nothing to take back.              *)
Counted(l) == \A j \in 1 .. Len(l.out) : l.out[j].acts => l.committed
Fresh(s, l) ==
  ~l.committed => DOMAIN l.tools = {} /\ (s.proto # "claude" => l.next = 0 /\ l.active = NoBlock)

Track(s, l, p) ==
  l \in Locals /\ Shape(s, l) /\ Counted(l) /\ Fresh(s, l) /\ Path(p, l.out, End(s, l))

(* Another local that says the same of the response. *)
Like(l, m) ==
  /\ m \in Locals
  /\ m.out = l.out /\ m.active = l.active /\ m.kind = l.kind /\ m.tools = l.tools /\ m.next = l.next
  /\ l.committed => m.committed

LEMMA LikeTrack ==
  ASSUME NEW s, NEW p, NEW l, NEW m, Track(s, l, p), Like(l, m)
  PROVE  Track(s, m, p)
<1>1. Blocks(m) = Blocks(l)
  BY DEF Like, Blocks
<1>2. End(s, m) = End(s, l)
  BY <1>1 DEF Like, End
<1>3. Shape(s, m)
  BY DEF Like, Shape, Track, Numbered
<1>4. Counted(m) /\ Fresh(s, m)
  BY DEF Like, Counted, Fresh, Track
<1> QED
  BY <1>2, <1>3, <1>4 DEF Like, Track

LEMMA LocalsType ==
  ASSUME NEW l \in Locals
  PROVE  /\ l.out \in Seq(EventType) /\ l.next \in Nat /\ l.active \in Nat \cup {NoBlock}
         /\ l.tools \in [DOMAIN l.tools -> Tool] /\ DOMAIN l.tools \subseteq ToolIds
         /\ l.committed \in BOOLEAN
BY DEF Locals, ToolMaps

LEMMA NewLocalsType ==
  ASSUME NEW n \in Nat
  PROVE  NewLocals(n) \in Locals /\ DOMAIN NewLocals(n).tools = {}
<1>1. <<>> \in [{} -> Tool] /\ {} \in SUBSET ToolIds
  OBVIOUS
<1>2. <<>> \in ToolMaps
  BY <1>1 DEF ToolMaps
<1> QED
  BY <1>2 DEF NewLocals, Locals, NoBlock, BlockKinds

(* The part of it that is about the events. *)
Body(s, l, p) == l \in Locals /\ Counted(l) /\ Path(p, l.out, End(s, l))

LEMMA SentBody ==
  ASSUME NEW s, NEW p, NEW l, NEW m \in Locals, NEW e \in EventType, Body(s, l, p),
         Allowed(End(s, l), e), After(End(s, l), e) = End(s, m),
         m.out = Append(l.out, e), l.committed => m.committed, e.acts => m.committed
  PROVE  Body(s, m, p)
<1>1. Path(p, m.out, End(s, m))
  BY PathAppend, LocalsType DEF Body
<1>2. Counted(m)
  <2> SUFFICES ASSUME NEW j \in 1 .. Len(m.out), m.out[j].acts
               PROVE  m.committed
    BY DEF Counted
  <2>1. l.out \in Seq(EventType)
    BY LocalsType DEF Body
  <2>2. CASE j = Len(l.out) + 1
    BY <2>1, <2>2
  <2>3. CASE j \in 1 .. Len(l.out)
    <3>1. m.out[j] = l.out[j]
      BY <2>1, <2>3
    <3> QED
      BY <2>3, <3>1 DEF Body, Counted
  <2> QED
    BY <2>1, <2>2, <2>3
<1> QED
  BY <1>1, <1>2 DEF Body

(* One more event. *)
LEMMA SentTrack ==
  ASSUME NEW s, NEW p, NEW l, NEW m \in Locals, NEW e \in EventType, Body(s, l, p),
         Allowed(End(s, l), e), After(End(s, l), e) = End(s, m),
         m.out = Append(l.out, e), l.committed => m.committed, e.acts => m.committed,
         Shape(s, m), Fresh(s, m)
  PROVE  Track(s, m, p)
<1>1. Body(s, m, p)
  BY SentBody
<1> QED
  BY <1>1 DEF Body, Track

LEMMA TrackBody ==
  ASSUME NEW s, NEW p, NEW l, Track(s, l, p)
  PROVE  Body(s, l, p)
BY DEF Track, Body

-----------------------------------------------------------------------------
(* The updates the operators make, field by field. *)
Push(l, e) == [l EXCEPT !.out = Append(@, e)]
Activate(l, a, kind) == [l EXCEPT !.active = a, !.kind = kind]
Number(l, n) == [l EXCEPT !.next = n]
Commit(l) == [l EXCEPT !.committed = TRUE]
WithTools(l, tools) == [l EXCEPT !.tools = tools]

(* What the others leave alone. *)
Rest(l, m) == m.eventOpen = l.eventOpen /\ m.started = l.started

LEMMA NoBlockIsNone == NoBlock \notin Nat /\ NoBlock \in Int /\ \A n \in Nat : NoBlock < n
BY DEF NoBlock

(* The events that do not count as output, and those that do. *)
LEMMA EvType ==
  ASSUME NEW k \in Kinds, NEW i \in Int
  PROVE  /\ Ev(k, i, FALSE) \in EventType /\ Ev(k, i, TRUE) \in EventType
         /\ Ev(k, i, FALSE).k = k /\ Ev(k, i, FALSE).i = i /\ Ev(k, i, FALSE).acts = FALSE
         /\ Ev(k, i, TRUE).k = k /\ Ev(k, i, TRUE).i = i /\ Ev(k, i, TRUE).acts = TRUE
BY DEF Ev, EventType

LEMMA KindsType ==
  /\ "start" \in Kinds /\ "open" \in Kinds /\ "delta" \in Kinds /\ "stop" \in Kinds
  /\ "item" \in Kinds /\ "chunk" \in Kinds
  /\ "finish" \in Kinds /\ "fail" \in Kinds /\ "answer" \in Kinds /\ "gone" \in Kinds
BY DEF Kinds, Ends

LEMMA PushType ==
  ASSUME NEW l \in Locals, NEW e \in EventType
  PROVE  /\ Push(l, e) \in Locals /\ Push(l, e).out = Append(l.out, e)
         /\ Push(l, e).active = l.active /\ Push(l, e).kind = l.kind
         /\ Push(l, e).tools = l.tools /\ Push(l, e).next = l.next
         /\ Push(l, e).committed = l.committed /\ Rest(l, Push(l, e))
<1> DEFINE out == Append(l.out, e)
<1>1. out \in Seq(EventType)
  BY LocalsType
<1> HIDE DEF out
<1>2. Push(l, e) = [l EXCEPT !.out = out]
  BY DEF Push, out
<1>3. Push(l, e).out = out
  BY <1>2 DEF Locals
<1> QED
  BY <1>1, <1>2, <1>3 DEF Locals, out, Rest

LEMMA ActivateType ==
  ASSUME NEW l \in Locals, NEW a \in Nat \cup {NoBlock},
         NEW kind \in BlockKinds
  PROVE  /\ Activate(l, a, kind) \in Locals
         /\ Activate(l, a, kind).active = a /\ Activate(l, a, kind).kind = kind
         /\ Activate(l, a, kind).out = l.out /\ Activate(l, a, kind).tools = l.tools
         /\ Activate(l, a, kind).next = l.next /\ Activate(l, a, kind).committed = l.committed
         /\ Rest(l, Activate(l, a, kind))
BY DEF Activate, Locals, Rest

LEMMA NumberType ==
  ASSUME NEW l \in Locals, NEW n \in Nat
  PROVE  /\ Number(l, n) \in Locals /\ Number(l, n).next = n
         /\ Number(l, n).active = l.active /\ Number(l, n).kind = l.kind
         /\ Number(l, n).out = l.out /\ Number(l, n).tools = l.tools
         /\ Number(l, n).committed = l.committed /\ Rest(l, Number(l, n))
BY DEF Number, Locals, Rest

LEMMA CommitType ==
  ASSUME NEW l \in Locals
  PROVE  /\ Commit(l) \in Locals /\ Commit(l).committed
         /\ Commit(l).active = l.active /\ Commit(l).kind = l.kind
         /\ Commit(l).out = l.out /\ Commit(l).tools = l.tools
         /\ Commit(l).next = l.next /\ Rest(l, Commit(l))
BY DEF Commit, Locals, Rest

LEMMA WithToolsType ==
  ASSUME NEW l \in Locals, NEW tools \in ToolMaps
  PROVE  /\ WithTools(l, tools) \in Locals /\ WithTools(l, tools).tools = tools
         /\ WithTools(l, tools).active = l.active /\ WithTools(l, tools).kind = l.kind
         /\ WithTools(l, tools).out = l.out /\ WithTools(l, tools).next = l.next
         /\ WithTools(l, tools).committed = l.committed /\ Rest(l, WithTools(l, tools))
BY DEF WithTools, Locals, Rest

LEMMA CommitTrack ==
  ASSUME NEW s, NEW p, NEW l, Track(s, l, p)
  PROVE  /\ Track(s, Commit(l), p) /\ Commit(l).committed /\ Commit(l).tools = l.tools
         /\ Commit(l).kind = l.kind /\ Commit(l).active = l.active
<1>1. l \in Locals
  BY DEF Track
<1>2. Like(l, Commit(l))
  BY <1>1, CommitType DEF Like
<1> QED
  BY <1>1, <1>2, CommitType, LikeTrack

(* One more event, and nothing else. *)
LEMMA PushTrack ==
  ASSUME NEW s, NEW p, NEW l, NEW e \in EventType, Track(s, l, p),
         Allowed(End(s, l), e), After(End(s, l), e) = End(s, l), e.acts => l.committed
  PROVE  Track(s, Push(l, e), p)
<1> DEFINE m == Push(l, e)
<1>1. /\ m \in Locals /\ m.out = Append(l.out, e)
      /\ m.active = l.active /\ m.kind = l.kind /\ m.tools = l.tools /\ m.next = l.next
      /\ m.committed = l.committed
  BY PushType DEF Track
<1> HIDE DEF m
<1>2. Blocks(m) = Blocks(l)
  BY <1>1 DEF Blocks
<1>3. End(s, m) = End(s, l)
  BY <1>1, <1>2 DEF End
<1>4. Shape(s, m) /\ Fresh(s, m)
  BY <1>1 DEF Shape, Fresh, Track, Numbered
<1>5. Track(s, m, p)
  BY <1>1, <1>3, <1>4, TrackBody, SentTrack
<1> QED
  BY <1>5 DEF m

-----------------------------------------------------------------------------
(* The blocks of a Claude stream. *)
Claudes == style.proto = "claude"

LEMMA CloseTrack ==
  ASSUME NEW p, NEW l, Claudes, Track(style, l, p)
  PROVE  /\ Track(style, closeActiveBlock(l), p)
         /\ closeActiveBlock(l).active = NoBlock /\ closeActiveBlock(l).kind = ""
         /\ closeActiveBlock(l).tools = l.tools /\ closeActiveBlock(l).committed = l.committed
<1>1. CASE l.active = NoBlock
  BY <1>1 DEF closeActiveBlock, Track, Shape
<1>2. CASE l.active # NoBlock
  <2> DEFINE e == Ev("stop", l.active, FALSE)
             m == Activate(Push(l, e), NoBlock, "")
  <2>1. l \in Locals /\ l.active \in Nat
    BY <1>2, LocalsType DEF Track
  <2>2. e \in EventType /\ e.k = "stop" /\ e.i = l.active /\ e.acts = FALSE
    BY <2>1 DEF Ev, EventType, Kinds
  <2>3. closeActiveBlock(l) = m
    BY <1>2 DEF closeActiveBlock, Send, Push, Activate
  <2> HIDE DEF e
  <2> DEFINE d == Push(l, e)
  <2>30. /\ d \in Locals /\ d.out = Append(l.out, e)
         /\ d.tools = l.tools /\ d.next = l.next /\ d.committed = l.committed
    BY <2>1, <2>2, PushType
  <2>31. NoBlock \in Nat \cup {NoBlock} /\ "" \in BlockKinds
    BY DEF BlockKinds
  <2>4. /\ m \in Locals /\ m.out = Append(l.out, e) /\ m.active = NoBlock /\ m.kind = ""
        /\ m.tools = l.tools /\ m.next = l.next /\ m.committed = l.committed
    BY <2>30, <2>31, ActivateType, Zenon
  <2> HIDE DEF m
  <2>5. Allowed(End(style, l), e)
    BY <1>2, <2>1, <2>2 DEF Allowed, End, Blocks
  <2>6. Numbered(l) /\ \A t \in DOMAIN l.tools : l.tools[t].i \in Nat
    BY <2>1, LocalsType DEF Track, Shape, Claudes, Tool
  <2>7. Blocks(m) = Blocks(l) \ {l.active}
    <3>1. l.active \notin ToolBlocks(l.tools)
      BY <2>6 DEF ToolBlocks, Numbered
    <3> QED
      BY <1>2, <2>4, <3>1 DEF Blocks
  <2>8. After(End(style, l), e) = End(style, m)
    BY <2>2, <2>4, <2>7 DEF After, End, Ends, Claudes
  <2>9. Shape(style, m) /\ Fresh(style, m)
    <3>1. m.next \in Nat /\ Below(m.tools, m.next) /\ Apart(m.tools)
      BY <2>1, <2>4, <2>6, LocalsType DEF Numbered
    <3>2. \A t \in DOMAIN m.tools : m.tools[t].i \in Nat
      BY <2>4, <2>6
    <3>3. Numbered(m)
      <4>1. m.active < m.next /\ \A t \in DOMAIN m.tools : m.tools[t].i # m.active
        BY <2>4, <3>1, <3>2, NoBlockIsNone
      <4> QED
        BY <3>1, <4>1 DEF Numbered
    <3> QED
      BY <2>4, <3>3 DEF Shape, Fresh, Claudes, Track
  <2>10. Track(style, m, p)
    BY <2>2, <2>4, <2>5, <2>8, <2>9, TrackBody, SentTrack
  <2> QED
    BY <2>3, <2>4, <2>10
<1> QED
  BY <1>1, <1>2

LEMMA OpenedType ==
  ASSUME NEW l \in Locals, NEW kind \in {"text", "thinking", "reasoning", "message"}
  PROVE  /\ Opened(l, kind) \in Locals
         /\ Opened(l, kind).out = Append(l.out, Ev("open", l.next, FALSE))
         /\ Ev("open", l.next, FALSE) \in EventType
         /\ Opened(l, kind).active = l.next /\ Opened(l, kind).kind = kind
         /\ Opened(l, kind).tools = l.tools /\ Opened(l, kind).next = l.next
         /\ Opened(l, kind).committed = l.committed /\ Rest(l, Opened(l, kind))
<1> DEFINE e == Ev("open", l.next, FALSE)
<1>1. l.next \in Nat
  BY LocalsType
<1>2. e \in EventType
  BY <1>1 DEF Ev, EventType, Kinds
<1>3. Opened(l, kind) = Activate(Push(l, e), l.next, kind)
  BY DEF Opened, Send, Push, Activate
<1> HIDE DEF e
<1>4. /\ Push(l, e) \in Locals /\ Push(l, e).out = Append(l.out, e)
      /\ Push(l, e).tools = l.tools /\ Push(l, e).next = l.next
      /\ Push(l, e).committed = l.committed /\ Rest(l, Push(l, e))
  BY <1>2, PushType
<1>5. /\ Opened(l, kind) \in Locals /\ Opened(l, kind).out = Push(l, e).out
      /\ Opened(l, kind).active = l.next /\ Opened(l, kind).kind = kind
      /\ Opened(l, kind).tools = Push(l, e).tools /\ Opened(l, kind).next = Push(l, e).next
      /\ Opened(l, kind).committed = Push(l, e).committed /\ Rest(Push(l, e), Opened(l, kind))
  <2> DEFINE d == Push(l, e)
             a == l.next
  <2>1. a \in Nat \cup {NoBlock} /\ kind \in BlockKinds /\ d \in Locals
    BY <1>1, <1>4 DEF BlockKinds
  <2> HIDE DEF a, d
  <2>2. /\ Activate(d, a, kind) \in Locals /\ Activate(d, a, kind).out = d.out
        /\ Activate(d, a, kind).active = a /\ Activate(d, a, kind).kind = kind
        /\ Activate(d, a, kind).tools = d.tools /\ Activate(d, a, kind).next = d.next
        /\ Activate(d, a, kind).committed = d.committed /\ Rest(d, Activate(d, a, kind))
    BY <2>1, ActivateType
  <2> QED
    BY <1>3, <2>2 DEF a, d
<1>6. Rest(l, Opened(l, kind))
  BY <1>4, <1>5 DEF Rest
<1> QED
  BY <1>2, <1>4, <1>5, <1>6 DEF e

LEMMA StartTrack ==
  ASSUME NEW p, NEW l, NEW kind \in {"text", "thinking"}, Claudes, Track(style, l, p)
  PROVE  /\ Track(style, startContentBlock(l, kind), p)
         /\ startContentBlock(l, kind).kind = kind
         /\ startContentBlock(l, kind).tools = l.tools
         /\ startContentBlock(l, kind).committed = l.committed
<1>1. CASE l.kind = kind
  BY <1>1 DEF startContentBlock
<1>2. CASE l.kind # kind
  <2> DEFINE c == closeActiveBlock(l)
  <2>1. /\ Track(style, c, p) /\ c.active = NoBlock /\ c.kind = ""
        /\ c.tools = l.tools /\ c.committed = l.committed
    BY CloseTrack
  <2>2. startContentBlock(l, kind) = [Opened(c, kind) EXCEPT !.next = @ + 1]
    BY <1>2 DEF startContentBlock
  <2> HIDE DEF c
  <2> DEFINE e == Ev("open", c.next, FALSE)
             o == Opened(c, kind)
             m == Number(o, o.next + 1)
  <2>3. startContentBlock(l, kind) = m
    BY <2>2 DEF Number
  <2>4. e.k = "open" /\ e.i = c.next /\ e.acts = FALSE /\ c.next \in Nat /\ c \in Locals
    BY <2>1, LocalsType DEF Track, Ev
  <2>5. /\ o \in Locals /\ o.out = Append(c.out, e) /\ o.active = c.next /\ o.kind = kind
        /\ o.tools = c.tools /\ o.next = c.next /\ o.committed = c.committed /\ e \in EventType
    <3>1. kind \in {"text", "thinking", "reasoning", "message"}
      OBVIOUS
    <3> QED
      BY <2>4, <3>1, OpenedType, Zenon
  <2> HIDE DEF e, o
  <2>6. /\ m \in Locals /\ m.out = Append(c.out, e) /\ m.active = c.next /\ m.kind = kind
        /\ m.tools = c.tools /\ m.next = c.next + 1 /\ m.committed = c.committed
    <3>1. o.next + 1 \in Nat /\ o.next + 1 = c.next + 1
      BY <2>4, <2>5
    <3>2. Number(o, o.next + 1) \in Locals /\ Number(o, o.next + 1).next = o.next + 1
      BY <2>5, <3>1, NumberType, Zenon
    <3> QED
      BY <2>5, <3>1, NumberType, Zenon
  <2> HIDE DEF m
  <2>7. Allowed(End(style, c), e)
    BY <2>4 DEF Allowed, End, Claudes
  <2>8. Numbered(c) /\ \A t \in DOMAIN c.tools : c.tools[t].i \in Nat
    BY <2>1, <2>4, LocalsType DEF Track, Shape, Claudes, Tool
  <2>9. Blocks(m) = Blocks(c) \cup {c.next}
    <3>1. m.active # NoBlock /\ m.active = c.next /\ c.active = NoBlock /\ m.tools = c.tools
      BY <2>1, <2>4, <2>6, NoBlockIsNone
    <3>2. Blocks(m) = {c.next} \cup ToolBlocks(c.tools)
      BY <3>1 DEF Blocks
    <3>3. Blocks(c) = ToolBlocks(c.tools)
      BY <3>1 DEF Blocks
    <3> QED
      BY <3>2, <3>3
  <2>10. After(End(style, c), e) = End(style, m)
    BY <2>4, <2>6, <2>9 DEF After, End, Ends, Claudes
  <2>11. Shape(style, m) /\ Fresh(style, m)
    <3>1. \A t \in DOMAIN m.tools : m.tools[t].i < c.next /\ m.tools[t].i \in Nat
      BY <2>6, <2>8 DEF Numbered, Below
    <3>2. Below(m.tools, m.next) /\ m.active < m.next
      BY <2>4, <2>6, <3>1 DEF Below
    <3>3. \A t \in DOMAIN m.tools : m.tools[t].i # m.active
      BY <2>4, <2>6, <3>1
    <3>4. Numbered(m)
      BY <2>6, <2>8, <3>2, <3>3 DEF Numbered
    <3> QED
      BY <2>1, <2>4, <2>6, <3>4, NoBlockIsNone DEF Shape, Fresh, Claudes, Track
  <2>12. Track(style, m, p)
    BY <2>1, <2>4, <2>5, <2>6, <2>7, <2>10, <2>11, TrackBody, SentTrack
  <2> QED
    BY <2>1, <2>3, <2>6, <2>12
<1> QED
  BY <1>1, <1>2

(* A delta of the open block, for any protocol. *)
LEMMA DeltaTrack ==
  ASSUME NEW p, NEW l, NEW e \in EventType, Track(style, l, p), l.active # NoBlock,
         e.k = "delta", e.i = l.active, e.acts => l.committed
  PROVE  Track(style, Push(l, e), p)
<1>1. l.active \in Nat /\ l.active # NoBlock
  BY LocalsType DEF Track
<1>2. Allowed(End(style, l), e)
  BY <1>1 DEF Allowed, End, Blocks
<1>3. After(End(style, l), e) = End(style, l)
  BY DEF After, End, Ends
<1> QED
  BY <1>2, <1>3, PushTrack

(* The outcome of sending to a block of a kind. *)
Sends(l, kind, m, p) ==
  Track(style, m, p) /\ m.kind = kind /\ m.tools = l.tools /\ m.committed = l.committed

LEMMA DeltaSends ==
  ASSUME NEW p, NEW l, Track(style, l, p), l.active # NoBlock
  PROVE  /\ Sends(l, l.kind, Delta(l, FALSE), p)
         /\ l.committed => Sends(l, l.kind, Delta(l, TRUE), p)
<1>1. l \in Locals /\ l.active \in Int
  BY LocalsType DEF Track
<1>2. Sends(l, l.kind, Delta(l, FALSE), p)
  <2> DEFINE e == Ev("delta", l.active, FALSE)
  <2>1. e \in EventType /\ e.k = "delta" /\ e.i = l.active /\ e.acts = FALSE
    BY <1>1, EvType, KindsType, Zenon
  <2>2. Delta(l, FALSE) = Push(l, e)
    BY DEF Delta, Send, Push
  <2> HIDE DEF e
  <2>3. Track(style, Push(l, e), p)
    BY <2>1, DeltaTrack
  <2>4. Push(l, e).kind = l.kind /\ Push(l, e).tools = l.tools /\ Push(l, e).committed = l.committed
    BY <1>1, <2>1, PushType
  <2>5. Sends(l, l.kind, Push(l, e), p)
    BY <2>3, <2>4 DEF Sends
  <2> QED
    BY <2>2, <2>5, Zenon
<1>3. ASSUME l.committed PROVE Sends(l, l.kind, Delta(l, TRUE), p)
  <2> DEFINE e == Ev("delta", l.active, TRUE)
  <2>1. e \in EventType /\ e.k = "delta" /\ e.i = l.active
    BY <1>1, EvType, KindsType, Zenon
  <2>2. Delta(l, TRUE) = Push(l, e)
    BY DEF Delta, Send, Push
  <2> HIDE DEF e
  <2>3. Track(style, Push(l, e), p)
    BY <1>3, <2>1, DeltaTrack
  <2>4. Push(l, e).kind = l.kind /\ Push(l, e).tools = l.tools /\ Push(l, e).committed = l.committed
    BY <1>1, <2>1, PushType
  <2>5. Sends(l, l.kind, Push(l, e), p)
    BY <2>3, <2>4 DEF Sends
  <2> QED
    BY <2>2, <2>5, Zenon
<1> QED
  BY <1>2, <1>3

LEMMA BlockSends ==
  ASSUME NEW p, NEW l, NEW kind \in {"text", "thinking"}, Claudes, Track(style, l, p)
  PROVE  /\ Sends(l, kind, Block(l, kind, FALSE), p)
         /\ l.committed => Sends(l, kind, Block(l, kind, TRUE), p)
<1> DEFINE b == startContentBlock(l, kind)
<1>1. Track(style, b, p) /\ b.kind = kind /\ b.tools = l.tools /\ b.committed = l.committed
  BY StartTrack
<1>2. Block(l, kind, FALSE) = Delta(b, FALSE) /\ Block(l, kind, TRUE) = Delta(b, TRUE)
  BY DEF Block
<1> HIDE DEF b
<1>3. b.active # NoBlock
  BY <1>1 DEF Track, Shape
<1>4. /\ Sends(b, b.kind, Delta(b, FALSE), p)
      /\ b.committed => Sends(b, b.kind, Delta(b, TRUE), p)
  BY <1>1, <1>3, DeltaSends, Zenon
<1> QED
  BY <1>1, <1>2, <1>4 DEF Sends

-----------------------------------------------------------------------------
(* Text of a Claude stream. *)
Texts == {"", " ", "x"}

(* The outcome of sending a text: empty text is no output. *)
Goes(text, l, m, p) ==
  /\ Track(style, m, p) /\ m.tools = l.tools
  /\ l.committed => m.committed
  /\ text = "" => m.committed = l.committed

(* What the cases of sendText make of the local t. *)
Sendings(t) ==
  {t, Block(t, "text", FALSE), Block(t, "thinking", FALSE), closeActiveBlock(t),
   closeActiveBlock(Block(t, "thinking", FALSE)),
   startContentBlock(t, "thinking"), closeActiveBlock(startContentBlock(t, "thinking"))}
Outputs(t) ==
  {Block(t, "text", TRUE), Block(t, "thinking", TRUE), closeActiveBlock(Block(t, "thinking", TRUE))}

LEMMA SendTextCases ==
  ASSUME NEW l, NEW text \in Texts, NEW state \in 0 .. 3
  PROVE  \/ sendText(l, text, state) \in Sendings(l)
         \/ text # "" /\ sendText(l, text, state) \in Sendings(Commit(l)) \cup Outputs(Commit(l))
<1> DEFINE acts == text = "x" /\ ~(style.precommit /\ style.format = "thinking" /\ ~style.deltas)
<1>1. CASE acts
  <2>1. text # "" /\ text = "x"
    BY <1>1
  <2> QED
    BY <1>1, <2>1 DEF sendText, Sendings, Outputs, Commit
<1>2. CASE ~acts
  BY <1>2 DEF sendText, Sendings, Outputs, Commit, Texts
<1> QED
  BY <1>1, <1>2

LEMMA SendingsGo ==
  ASSUME NEW p, NEW l, NEW t, NEW text, Claudes, Goes(text, l, t, p)
  PROVE  /\ \A m \in Sendings(t) : Goes(text, l, m, p)
         /\ t.committed => \A m \in Outputs(t) : Goes(text, l, m, p)
<1> DEFINE Same(m) == Track(style, m, p) /\ m.tools = t.tools /\ m.committed = t.committed
<1>1. Track(style, t, p)
  BY DEF Goes
<1>2. ASSUME NEW m, Same(m) PROVE Goes(text, l, m, p)
  BY <1>2 DEF Goes
<1>3. ASSUME NEW m, Same(m) PROVE Same(closeActiveBlock(m))
  BY <1>3, CloseTrack
<1>4. Same(t) /\ Same(startContentBlock(t, "thinking"))
  BY <1>1, StartTrack
<1>5. \A kind \in {"text", "thinking"} :
        Same(Block(t, kind, FALSE)) /\ (t.committed => Same(Block(t, kind, TRUE)))
  <2> SUFFICES ASSUME NEW kind \in {"text", "thinking"}
               PROVE  Same(Block(t, kind, FALSE)) /\ (t.committed => Same(Block(t, kind, TRUE)))
    OBVIOUS
  <2>1. /\ Sends(t, kind, Block(t, kind, FALSE), p)
        /\ t.committed => Sends(t, kind, Block(t, kind, TRUE), p)
    BY <1>1, BlockSends, Zenon
  <2> QED
    BY <2>1, Zenon DEF Sends
<1>6. Same(Block(t, "text", FALSE)) /\ Same(Block(t, "thinking", FALSE))
  BY <1>5
<1>7. ASSUME t.committed PROVE Same(Block(t, "text", TRUE)) /\ Same(Block(t, "thinking", TRUE))
  BY <1>5, <1>7
<1> HIDE DEF Same
<1>8. \A m \in Sendings(t) : Same(m)
  BY <1>3, <1>4, <1>6 DEF Sendings
<1>9. ASSUME t.committed PROVE \A m \in Outputs(t) : Same(m)
  BY <1>3, <1>7, <1>9 DEF Outputs
<1> QED
  BY <1>2, <1>8, <1>9

LEMMA SendTextGoes ==
  ASSUME NEW p, NEW l, NEW text \in Texts, NEW state \in 0 .. 3, Claudes, Track(style, l, p)
  PROVE  Goes(text, l, sendText(l, text, state), p)
<1> DEFINE m == sendText(l, text, state)
<1>1. Goes(text, l, l, p)
  BY DEF Goes
<1>2. ASSUME text # "" PROVE Goes(text, l, Commit(l), p) /\ Commit(l).committed
  BY <1>2, CommitTrack DEF Goes
<1>3. m \in Sendings(l) \/ (text # "" /\ m \in Sendings(Commit(l)) \cup Outputs(Commit(l)))
  BY SendTextCases
<1> HIDE DEF m
<1>4. Goes(text, l, m, p)
  BY <1>1, <1>2, <1>3, SendingsGo
<1> QED
  BY <1>4 DEF m

-----------------------------------------------------------------------------
(* Locals that differ in what the splitter remembers only. *)
Alike(l, m) ==
  /\ m \in Locals
  /\ m.out = l.out /\ m.active = l.active /\ m.kind = l.kind /\ m.tools = l.tools /\ m.next = l.next
  /\ m.committed = l.committed

Held(l) == [l EXCEPT !.partial = TRUE]
Free(l) == [l EXCEPT !.partial = FALSE]
Begun(l) == [l EXCEPT !.started = TRUE]
EventSeen(l) == [l EXCEPT !.source = "event"]
EventBegun(l) == [l EXCEPT !.started = TRUE, !.eventOpen = TRUE]
EventEnded(l) == [l EXCEPT !.eventOpen = FALSE, !.started = FALSE]

LEMMA FlagsAlike ==
  ASSUME NEW l \in Locals
  PROVE  /\ Alike(l, Held(l)) /\ Alike(l, Free(l)) /\ Alike(l, Begun(l))
         /\ Alike(l, EventSeen(l)) /\ Alike(l, EventBegun(l)) /\ Alike(l, EventEnded(l))
         /\ Alike(l, TagSeen(l)) /\ Alike(l, OutOfTag(l))
<1>1. Alike(l, Held(l)) /\ Alike(l, Free(l)) /\ Alike(l, Begun(l))
  BY DEF Alike, Held, Free, Begun, Locals
<1>2. Alike(l, EventSeen(l)) /\ Alike(l, EventBegun(l)) /\ Alike(l, EventEnded(l))
  BY DEF Alike, EventSeen, EventBegun, EventEnded, Locals
<1>3. Alike(l, OutOfTag(l))
  BY DEF Alike, OutOfTag, Locals
<1>4. Alike(l, TagSeen(l))
  BY DEF Alike, TagSeen, AllowsTag, Locals
<1> QED
  BY <1>1, <1>2, <1>3, <1>4

LEMMA AlikeTrack ==
  ASSUME NEW p, NEW s, NEW l, NEW m, Track(s, l, p), Alike(l, m)
  PROVE  Track(s, m, p)
<1>1. Like(l, m)
  BY DEF Alike, Like
<1> QED
  BY <1>1, LikeTrack

(* What the splitter makes of a local, with a way to send a segment. *)
Ends3(l, send(_, _, _)) ==
  {OutOfTag(l), OutOfTag(send(l, "", 3)), OutOfTag(send(send(l, "", 1), "", 3)),
   OutOfTag(send(l, "x", 3)), OutOfTag(send(send(l, "x", 1), "", 3))}
Pieces(l, send(_, _, _)) ==
  {l, TagSeen(l), Held(l), Free(l), Held(send(l, "x", 0)), Free(send(l, "x", 0)), send(Free(l), "x", 0),
   Begun(send(Held(l), "x", 1)), Begun(send(Held(l), "x", 2)),
   Begun(send(Free(l), "x", 1)), Begun(send(Free(l), "x", 2))}

LEMMA ClaudeSplits ==
  ASSUME NEW l, NEW tok \in {"word", "partial", "open", "close", "flush"}
  PROVE  Split(l, tok, sendText) \in Pieces(l, sendText) \cup Ends3(l, sendText)
BY DEF Split, Fragment, Flush, Pieces, Ends3, Held, Free, Begun

(* What every step of a splitter keeps: tool calls, and output once sent. *)
Steps(l, m, p) == Track(style, m, p) /\ m.tools = l.tools /\ (l.committed => m.committed)

LEMMA FlagsStep ==
  ASSUME NEW p, NEW l, NEW m, Steps(l, m, p)
  PROVE  /\ Steps(l, Held(m), p) /\ Steps(l, Free(m), p) /\ Steps(l, Begun(m), p)
         /\ Steps(l, EventSeen(m), p) /\ Steps(l, EventBegun(m), p) /\ Steps(l, EventEnded(m), p)
         /\ Steps(l, TagSeen(m), p) /\ Steps(l, OutOfTag(m), p)
<1>1. m \in Locals
  BY DEF Steps, Track
<1>2. ASSUME NEW n, Alike(m, n) PROVE Steps(l, n, p)
  BY <1>2, AlikeTrack DEF Steps, Alike
<1> QED
  BY <1>1, <1>2, FlagsAlike

LEMMA SendTextStep ==
  ASSUME NEW p, NEW l, NEW m, NEW text \in Texts, NEW state \in 0 .. 3, Claudes, Steps(l, m, p)
  PROVE  Steps(l, sendText(m, text, state), p)
<1>1. Goes(text, m, sendText(m, text, state), p)
  BY SendTextGoes, Zenon DEF Steps
<1> QED
  BY <1>1 DEF Goes, Steps

LEMMA EndReasoningGoes ==
  ASSUME NEW p, NEW l, Claudes, Track(style, l, p)
  PROVE  Goes("", l, EndReasoning(l, sendText), p)
<1> DEFINE m == sendText(l, "", 3)
<1>1. EndReasoning(l, sendText) = IF l.eventOpen THEN EventEnded(m) ELSE l
  BY DEF EndReasoning, EventEnded
<1>2. Goes("", l, m, p)
  <2>1. "" \in Texts /\ 3 \in 0 .. 3
    BY DEF Texts
  <2> QED
    BY <2>1, SendTextGoes, Zenon
<1> HIDE DEF m
<1>3. Alike(m, EventEnded(m))
  BY <1>2, FlagsAlike DEF Goes, Track
<1>4. Goes("", l, EventEnded(m), p)
  BY <1>2, <1>3, AlikeTrack DEF Goes, Alike
<1> QED
  BY <1>1, <1>4 DEF Goes

LEMMA ClaudeTextStep ==
  ASSUME NEW p, NEW l, NEW tok \in {"word", "partial", "open", "close", "flush"}, Claudes,
         Track(style, l, p)
  PROVE  Steps(l, processClaudeText(l, tok), p)
<1> DEFINE r == EndReasoning(l, sendText)
           Ok(m) == Steps(l, m, p)
<1>1. Ok(r)
  BY EndReasoningGoes DEF Goes, Steps
<1>2. processClaudeText(l, tok) \in Pieces(r, sendText) \cup Ends3(r, sendText)
  BY ClaudeSplits DEF processClaudeText
<1> HIDE DEF r
<1>3. ASSUME NEW m, Ok(m)
      PROVE  /\ Ok(Held(m)) /\ Ok(Free(m)) /\ Ok(Begun(m)) /\ Ok(TagSeen(m)) /\ Ok(OutOfTag(m))
             /\ Ok(sendText(m, "x", 0)) /\ Ok(sendText(m, "x", 1)) /\ Ok(sendText(m, "x", 2))
             /\ Ok(sendText(m, "x", 3)) /\ Ok(sendText(m, "", 1)) /\ Ok(sendText(m, "", 3))
  <2>1. {"", "x"} \subseteq Texts /\ {0, 1, 2, 3} \subseteq 0 .. 3
    BY DEF Texts
  <2>2. \A text \in Texts, state \in 0 .. 3 : Ok(sendText(m, text, state))
    BY <1>3, SendTextStep, Zenon
  <2> QED
    BY <1>3, <2>1, <2>2, FlagsStep
<1> HIDE DEF Ok
<1>4. \A m \in Pieces(r, sendText) : Ok(m)
  BY <1>1, <1>3 DEF Pieces
<1>5. \A m \in Ends3(r, sendText) : Ok(m)
  BY <1>1, <1>3 DEF Ends3
<1> QED
  BY <1>2, <1>4, <1>5 DEF Ok

LEMMA ClaudeReasoningStep ==
  ASSUME NEW p, NEW l, NEW text \in Texts, Claudes, Track(style, l, p)
  PROVE  Steps(l, Reasoning(l, text, sendText), p)
<1>1. Reasoning(l, text, sendText) \in
        {l, sendText(EventSeen(l), text, 2), EventBegun(sendText(EventSeen(l), text, 1))}
  BY DEF Reasoning, EventSeen, EventBegun
<1>0. Steps(l, l, p)
  BY DEF Steps
<1>2. Steps(l, EventSeen(l), p) /\ Steps(l, l, p)
  BY <1>0, FlagsStep
<1>3. Steps(l, sendText(EventSeen(l), text, 2), p) /\ Steps(l, sendText(EventSeen(l), text, 1), p)
  BY <1>2, SendTextStep
<1>4. Steps(l, EventBegun(sendText(EventSeen(l), text, 1)), p)
  BY <1>3, FlagsStep
<1> QED
  BY <1>1, <1>2, <1>3, <1>4

LEMMA OnProgressStep ==
  ASSUME NEW p, NEW l, Claudes, Track(style, l, p)
  PROVE  Steps(l, OnProgress(l), p)
<1>1. OnProgress(l) \in {l, EventBegun(Block(l, "thinking", FALSE))}
  BY DEF OnProgress, EventBegun
<1>2. Sends(l, "thinking", Block(l, "thinking", FALSE), p)
  BY BlockSends
<1>3. Steps(l, Block(l, "thinking", FALSE), p) /\ Steps(l, l, p)
  BY <1>2, Zenon DEF Sends, Steps
<1>4. Steps(l, EventBegun(Block(l, "thinking", FALSE)), p)
  BY <1>3, FlagsStep, Zenon
<1> QED
  BY <1>1, <1>3, <1>4, Zenon

-----------------------------------------------------------------------------
(* The tools of a Claude stream. *)
ToolAdded(l, id) ==
  [t \in DOMAIN l.tools \cup {id} |-> IF t = id THEN [i |-> l.next, stopped |-> FALSE] ELSE l.tools[t]]

LEMMA ToolOpenedTrack ==
  ASSUME NEW p, NEW l, NEW id \in ToolIds, Claudes, Track(style, l, p), ~Started(l, id), l.committed,
         l.active = NoBlock
  PROVE  /\ Track(style, ToolOpened(l, id), p) /\ ToolOpened(l, id).committed
         /\ ToolOpened(l, id).active = NoBlock /\ Started(ToolOpened(l, id), id)
<1> DEFINE e == Ev("open", l.next, TRUE)
           d == Push(l, e)
           u == Number(d, d.next + 1)
           tools == ToolAdded(l, id)
           m == WithTools(u, tools)
<1>1. l \in Locals /\ l.next \in Nat /\ l.next \in Int
  BY LocalsType DEF Track
<1>2. e \in EventType /\ e.k = "open" /\ e.i = l.next /\ e.acts = TRUE
  <2>1. "open" \in Kinds
    BY KindsType, Zenon
  <2> QED
    BY <1>1, <2>1, EvType
<1>3. ToolOpened(l, id) = m
  <2>1. d.tools = l.tools /\ d.next = l.next
    BY <1>1, <1>2, PushType
  <2>2. Send(l, "open", l.next, TRUE) = d
    BY DEF Send, Push
  <2> HIDE DEF d
  <2> QED
    BY <2>1, <2>2 DEF ToolOpened, Number, WithTools, ToolAdded
<1> HIDE DEF e, m
<1>4. l.tools \in [DOMAIN l.tools -> Tool] /\ DOMAIN l.tools \subseteq ToolIds
  BY <1>1, LocalsType
<1>5. tools \in [DOMAIN l.tools \cup {id} -> Tool] /\ DOMAIN tools = DOMAIN l.tools \cup {id}
  BY <1>1, <1>4 DEF Tool, ToolAdded
<1>6. tools \in ToolMaps
  BY <1>4, <1>5 DEF ToolMaps
<1>7. /\ tools[id].i = l.next /\ tools[id].stopped = FALSE
      /\ \A t \in DOMAIN l.tools : tools[t] = l.tools[t]
  BY DEF ToolAdded, Started
<1> HIDE DEF tools
<1>8. /\ m \in Locals /\ m.out = Append(l.out, e) /\ m.active = l.active /\ m.kind = l.kind
      /\ m.tools = tools /\ m.next = l.next + 1 /\ m.committed = l.committed
  <2>1. /\ d \in Locals /\ d.out = Append(l.out, e) /\ d.active = l.active /\ d.kind = l.kind
        /\ d.next = l.next /\ d.committed = l.committed
    BY <1>1, <1>2, PushType
  <2> HIDE DEF d
  <2>2. d.next + 1 \in Nat /\ d.next + 1 = l.next + 1
    BY <1>1, <2>1
  <2>3. /\ u \in Locals /\ u.out = Append(l.out, e) /\ u.active = l.active /\ u.kind = l.kind
        /\ u.next = l.next + 1 /\ u.committed = l.committed
    BY <2>1, <2>2, NumberType, Zenon
  <2> HIDE DEF u
  <2> QED
    BY <1>6, <2>3, WithToolsType, Zenon DEF m
<1>9. Allowed(End(style, l), e)
  BY <1>2 DEF Allowed, End, Claudes
<1>10. Blocks(m) = Blocks(l) \cup {l.next}
  <2>1. ToolBlocks(tools) = ToolBlocks(l.tools) \cup {l.next}
    BY <1>1, <1>5, <1>7 DEF ToolBlocks, Started
  <2> QED
    BY <1>8, <2>1 DEF Blocks
<1>11. After(End(style, l), e) = End(style, m)
  BY <1>2, <1>8, <1>10 DEF After, End, Ends, Claudes
<1>12. Numbered(l) /\ \A t \in DOMAIN l.tools : l.tools[t].i \in Nat
  BY <1>4 DEF Track, Shape, Claudes, Tool
<1>13. Numbered(m)
  <2>1. \A t \in DOMAIN l.tools : l.tools[t].i < l.next /\ l.tools[t].i # NoBlock
    BY <1>12, NoBlockIsNone DEF Numbered, Below
  <2>2. \A t \in DOMAIN tools : tools[t].i < l.next + 1 /\ tools[t].i # NoBlock
    BY <1>1, <1>5, <1>7, <1>12, <2>1, NoBlockIsNone
  <2>3. Apart(tools)
    BY <1>1, <1>5, <1>7, <1>12, <2>1 DEF Numbered, Apart
  <2>4. NoBlock < l.next + 1
    BY <1>1, NoBlockIsNone
  <2> QED
    BY <1>8, <2>2, <2>3, <2>4 DEF Numbered, Below
<1>14. Shape(style, m) /\ Fresh(style, m)
  BY <1>8, <1>13 DEF Shape, Fresh, Claudes, Track
<1>15. Track(style, m, p)
  BY <1>2, <1>8, <1>9, <1>11, <1>14, TrackBody, SentTrack
<1> QED
  BY <1>3, <1>5, <1>8, <1>15 DEF Started

LEMMA ToolType ==
  ASSUME NEW l \in Locals, NEW id, Started(l, id)
  PROVE  /\ l.tools \in [DOMAIN l.tools -> Tool] /\ id \in DOMAIN l.tools
         /\ l.tools[id].i \in Nat /\ l.tools[id].i \in Int /\ l.tools[id].stopped \in BOOLEAN
         /\ l.tools[id] = [i |-> l.tools[id].i, stopped |-> l.tools[id].stopped]
BY LocalsType DEF Started, Tool

LEMMA ToolDeltaTrack ==
  ASSUME NEW p, NEW l, NEW id, Claudes, Track(style, l, p)
  PROVE  /\ Track(style, sendToolUseDelta(l, id), p)
         /\ sendToolUseDelta(l, id).tools = l.tools /\ sendToolUseDelta(l, id).active = l.active
         /\ sendToolUseDelta(l, id).committed = l.committed
<1>1. CASE ~Started(l, id) \/ l.tools[id].stopped
  BY <1>1 DEF sendToolUseDelta
<1>2. CASE Started(l, id) /\ ~l.tools[id].stopped
  <2> DEFINE e == Ev("delta", l.tools[id].i, TRUE)
  <2>1. l \in Locals /\ l.tools[id].i \in Int /\ l.tools[id].i \in Nat
    BY <1>2, ToolType DEF Track
  <2>2. e \in EventType /\ e.k = "delta" /\ e.i = l.tools[id].i
    BY <2>1, EvType, KindsType, Zenon
  <2>3. sendToolUseDelta(l, id) = Push(l, e)
    BY <1>2 DEF sendToolUseDelta, Send, Push
  <2> HIDE DEF e
  <2>4. l.tools[id].i \in ToolBlocks(l.tools)
    BY <1>2, <2>1 DEF ToolBlocks, Started
  <2>5. Allowed(End(style, l), e)
    BY <2>2, <2>4 DEF Allowed, End, Blocks
  <2>6. After(End(style, l), e) = End(style, l)
    BY <2>2 DEF After, End, Ends
  <2>7. l.committed
    BY <1>2 DEF Track, Fresh, Started
  <2>8. Track(style, Push(l, e), p)
    BY <2>2, <2>5, <2>6, <2>7, PushTrack
  <2> QED
    BY <2>1, <2>2, <2>3, <2>8, PushType
<1> QED
  BY <1>1, <1>2

ToolStopped(l, id) == [l.tools EXCEPT ![id].stopped = TRUE]

LEMMA ToolStopTrack ==
  ASSUME NEW p, NEW l, NEW id, Claudes, Track(style, l, p)
  PROVE  /\ Track(style, stopToolUse(l, id), p)
         /\ Started(stopToolUse(l, id), id) => stopToolUse(l, id).tools[id].stopped
         /\ stopToolUse(l, id).committed = l.committed
<1>1. CASE ~Started(l, id) \/ l.tools[id].stopped
  BY <1>1 DEF stopToolUse
<1>2. CASE Started(l, id) /\ ~l.tools[id].stopped
  <2> DEFINE e == Ev("stop", l.tools[id].i, FALSE)
             d == Push(l, e)
             tools == ToolStopped(l, id)
             m == WithTools(d, tools)
  <2>1. l \in Locals /\ l.tools[id].i \in Int /\ l.tools[id].i \in Nat
    BY <1>2, ToolType DEF Track
  <2>2. e \in EventType /\ e.k = "stop" /\ e.i = l.tools[id].i /\ e.acts = FALSE
    BY <2>1, EvType, KindsType, Zenon
  <2>3. stopToolUse(l, id) = m
    <3>1. Send(l, "stop", l.tools[id].i, FALSE) = d /\ d.tools = l.tools
      BY <2>1, <2>2, PushType DEF Send, Push
    <3> HIDE DEF d
    <3> QED
      BY <1>2, <3>1 DEF stopToolUse, WithTools, ToolStopped
  <2> HIDE DEF e, m
  <2>4. l.tools \in [DOMAIN l.tools -> Tool] /\ DOMAIN l.tools \subseteq ToolIds /\ id \in DOMAIN l.tools
    BY <1>2, <2>1, LocalsType DEF Started
  <2>5. /\ tools \in [DOMAIN l.tools -> Tool] /\ DOMAIN tools = DOMAIN l.tools
        /\ tools[id].stopped /\ \A t \in DOMAIN l.tools : tools[t].i = l.tools[t].i
        /\ \A t \in DOMAIN l.tools \ {id} : tools[t] = l.tools[t]
    BY <2>4 DEF Tool, ToolStopped
  <2>6. tools \in ToolMaps
    BY <2>4, <2>5 DEF ToolMaps
  <2> HIDE DEF tools
  <2>7. /\ m \in Locals /\ m.out = Append(l.out, e) /\ m.active = l.active /\ m.kind = l.kind
        /\ m.tools = tools /\ m.next = l.next /\ m.committed = l.committed
    <3>1. /\ d \in Locals /\ d.out = Append(l.out, e) /\ d.active = l.active /\ d.kind = l.kind
          /\ d.next = l.next /\ d.committed = l.committed
      BY <2>1, <2>2, PushType
    <3> HIDE DEF d
    <3> QED
      BY <2>6, <3>1, WithToolsType, Zenon DEF m
  <2>8. l.tools[id].i \in ToolBlocks(l.tools)
    BY <1>2, <2>1 DEF ToolBlocks, Started
  <2>9. Allowed(End(style, l), e)
    BY <2>2, <2>8 DEF Allowed, End, Blocks
  <2>10. Numbered(l)
    BY DEF Track, Shape, Claudes
  <2>11. Blocks(m) = Blocks(l) \ {l.tools[id].i}
    <3>1. ToolBlocks(tools) = ToolBlocks(l.tools) \ {l.tools[id].i}
      BY <2>4, <2>5, <2>10 DEF ToolBlocks, Numbered, Apart
    <3>2. l.tools[id].i # l.active
      BY <2>4, <2>10 DEF Numbered
    <3> QED
      BY <2>7, <3>1, <3>2 DEF Blocks
  <2>12. After(End(style, l), e) = End(style, m)
    BY <2>2, <2>7, <2>11 DEF After, End, Ends, Claudes
  <2>13. Numbered(m)
    BY <2>5, <2>7, <2>10 DEF Numbered, Below, Apart
  <2>14. Shape(style, m) /\ Fresh(style, m)
    BY <2>5, <2>7, <2>13 DEF Shape, Fresh, Claudes, Track
  <2>15. Track(style, m, p)
    BY <2>2, <2>7, <2>9, <2>12, <2>14, TrackBody, SentTrack
  <2> QED
    BY <2>3, <2>5, <2>7, <2>15
<1> QED
  BY <1>1, <1>2

ToolDropped(l, id) == [t \in DOMAIN l.tools \ {id} |-> l.tools[t]]

LEMMA ToolDroppedTrack ==
  ASSUME NEW p, NEW l, NEW id, Claudes, Track(style, l, p), Started(l, id) => l.tools[id].stopped
  PROVE  /\ Track(style, WithTools(l, ToolDropped(l, id)), p)
         /\ WithTools(l, ToolDropped(l, id)).committed = l.committed
<1> DEFINE tools == ToolDropped(l, id)
           m == WithTools(l, tools)
<1>1. l \in Locals /\ l.tools \in [DOMAIN l.tools -> Tool] /\ DOMAIN l.tools \subseteq ToolIds
  BY LocalsType DEF Track
<1>2. /\ tools \in [DOMAIN l.tools \ {id} -> Tool] /\ DOMAIN tools = DOMAIN l.tools \ {id}
      /\ \A t \in DOMAIN tools : t \in DOMAIN l.tools /\ tools[t] = l.tools[t]
  BY <1>1 DEF ToolDropped
<1>3. tools \in ToolMaps
  BY <1>1, <1>2 DEF ToolMaps
<1> HIDE DEF tools
<1>4. /\ m \in Locals /\ m.out = l.out /\ m.active = l.active /\ m.kind = l.kind
      /\ m.tools = tools /\ m.next = l.next /\ m.committed = l.committed
  BY <1>1, <1>3, WithToolsType, Zenon
<1> HIDE DEF m
<1>5. ToolBlocks(tools) = ToolBlocks(l.tools)
  BY <1>2 DEF ToolBlocks, Started
<1>6. End(style, m) = End(style, l)
  BY <1>4, <1>5 DEF End, Blocks
<1>7. Numbered(l)
  BY DEF Track, Shape, Claudes
<1>8. Numbered(m)
  BY <1>2, <1>4, <1>7 DEF Numbered, Below, Apart
<1>9. Shape(style, m) /\ Fresh(style, m) /\ Counted(m)
  BY <1>2, <1>4, <1>8 DEF Shape, Fresh, Counted, Claudes, Track
<1>10. Track(style, m, p)
  BY <1>4, <1>6, <1>9 DEF Track
<1> QED
  BY <1>4, <1>10 DEF m, tools

(* What every callback keeps. *)
Kept(l, m, p) == Track(style, m, p) /\ (l.committed => m.committed)

LEMMA KeptTrans ==
  ASSUME NEW p, NEW l, NEW m, NEW n, Kept(l, m, p), Kept(m, n, p)
  PROVE  Kept(l, n, p)
BY DEF Kept

LEMMA StartToolKeeps ==
  ASSUME NEW p, NEW l, NEW id \in ToolIds, Claudes, Track(style, l, p)
  PROVE  Kept(l, startToolUse(l, id), p)
<1>1. CASE Started(l, id)
  BY <1>1 DEF startToolUse, Kept
<1>2. CASE ~Started(l, id)
  <2> DEFINE b == processClaudeText(l, "flush")
             c == closeActiveBlock(Commit(b))
  <2>1. Steps(l, b, p)
    BY ClaudeTextStep
  <2>2. startToolUse(l, id) = ToolOpened(c, id)
    BY <1>2 DEF startToolUse, Commit
  <2> HIDE DEF b
  <2>3. Track(style, Commit(b), p) /\ Commit(b).committed /\ Commit(b).tools = l.tools
    BY <2>1, CommitTrack DEF Steps
  <2>4. Track(style, c, p) /\ c.committed /\ c.tools = l.tools /\ c.active = NoBlock
    BY <2>3, CloseTrack
  <2> HIDE DEF c
  <2>5. ~Started(c, id)
    BY <1>2, <2>4 DEF Started
  <2> QED
    BY <2>2, <2>4, <2>5, ToolOpenedTrack DEF Kept
<1> QED
  BY <1>1, <1>2

LEMMA ToolDeltaKeeps ==
  ASSUME NEW p, NEW l, NEW id, Claudes, Track(style, l, p)
  PROVE  Kept(l, sendToolUseDelta(l, id), p) /\ Kept(l, stopToolUse(l, id), p)
BY ToolDeltaTrack, ToolStopTrack DEF Kept

LEMMA ClaudeToolUseKeeps ==
  ASSUME NEW p, NEW l, NEW id \in ToolIds, Claudes, Track(style, l, p)
  PROVE  Kept(l, ClaudeToolUse(l, id), p)
<1> DEFINE b == processClaudeText(l, "flush")
           w == WholeTool(b, id)
           m == stopToolUse(w, id)
<1>1. ClaudeToolUse(l, id) = WithTools(m, ToolDropped(m, id))
  BY DEF ClaudeToolUse, WithTools, ToolDropped
<1>2. Kept(l, b, p)
  BY ClaudeTextStep DEF Steps, Kept
<1> HIDE DEF b
<1>3. Kept(b, w, p)
  <2>1. Track(style, b, p)
    BY <1>2 DEF Kept
  <2>2. Kept(b, startToolUse(b, id), p)
    BY <2>1, StartToolKeeps
  <2>3. Track(style, startToolUse(b, id), p)
    BY <2>2 DEF Kept
  <2>4. Kept(startToolUse(b, id), sendToolUseDelta(startToolUse(b, id), id), p)
    BY <2>3, ToolDeltaKeeps
  <2>5. Kept(b, sendToolUseDelta(startToolUse(b, id), id), p)
    BY <2>2, <2>4, KeptTrans
  <2>6. Kept(b, b, p)
    BY <2>1 DEF Kept
  <2> QED
    BY <2>5, <2>6 DEF WholeTool
<1> HIDE DEF w
<1>4. Kept(w, m, p) /\ (Started(m, id) => m.tools[id].stopped)
  BY <1>3, ToolStopTrack DEF Kept
<1> HIDE DEF m
<1>5. Kept(m, WithTools(m, ToolDropped(m, id)), p)
  BY <1>4, ToolDroppedTrack DEF Kept
<1> QED
  BY <1>1, <1>2, <1>3, <1>4, <1>5, KeptTrans

LEMMA BufferedStartKeeps ==
  ASSUME NEW p, NEW l, NEW id \in ToolIds, Claudes, Track(style, l, p)
  PROVE  Kept(l, onBufferedToolStart(l, id), p)
<1> DEFINE b == processClaudeText(l, "flush")
           c == closeActiveBlock(b)
<1>1. Steps(l, b, p)
  BY ClaudeTextStep
<1>2. onBufferedToolStart(l, id) \in {c, startToolUse(c, id)}
  BY DEF onBufferedToolStart
<1> HIDE DEF b
<1>3. Track(style, c, p) /\ Kept(l, c, p)
  BY <1>1, CloseTrack DEF Steps, Kept
<1> HIDE DEF c
<1>4. Kept(c, startToolUse(c, id), p)
  BY <1>3, StartToolKeeps
<1> QED
  BY <1>2, <1>3, <1>4, KeptTrans

(* The end of a call: the blocks of text are closed. *)
LEMMA ClaudeEnd ==
  ASSUME NEW p, NEW l, Claudes, Track(style, l, p)
  PROVE  LET m == closeActiveBlock(EndReasoning(l, sendText))
         IN /\ Track(style, m, p) /\ m.active = NoBlock /\ m.tools = l.tools
            /\ m.committed = l.committed
<1> DEFINE b == EndReasoning(l, sendText)
<1>1. Track(style, b, p) /\ b.tools = l.tools /\ b.committed = l.committed
  BY EndReasoningGoes DEF Goes
<1> HIDE DEF b
<1>2. /\ Track(style, closeActiveBlock(b), p) /\ closeActiveBlock(b).active = NoBlock
      /\ closeActiveBlock(b).tools = l.tools /\ closeActiveBlock(b).committed = l.committed
  BY <1>1, CloseTrack
<1> QED
  BY <1>2 DEF b

-----------------------------------------------------------------------------
(* A chat stream: chunks, and tool calls counted as items. *)
Chats == style.proto = "chat"

(* One more event that is output, of the same blocks. *)
LEMMA OutputTrack ==
  ASSUME NEW s, NEW p, NEW l, NEW e \in EventType, Body(s, l, p), Shape(s, l),
         Allowed(End(s, l), e), After(End(s, l), e) = End(s, l)
  PROVE  /\ Track(s, Commit(Push(l, e)), p) /\ Commit(Push(l, e)).committed
         /\ Commit(Push(l, e)).tools = l.tools
         /\ Commit(Push(l, e)).kind = l.kind /\ Commit(Push(l, e)).active = l.active
<1> DEFINE m == Commit(Push(l, e))
<1>1. /\ m \in Locals /\ m.out = Append(l.out, e)
      /\ m.active = l.active /\ m.kind = l.kind /\ m.tools = l.tools /\ m.next = l.next
      /\ m.committed
  BY PushType, CommitType DEF Body
<1> HIDE DEF m
<1>2. Blocks(m) = Blocks(l)
  BY <1>1 DEF Blocks
<1>3. End(s, m) = End(s, l)
  BY <1>1, <1>2 DEF End
<1>4. Shape(s, m) /\ Fresh(s, m)
  BY <1>1 DEF Shape, Fresh, Numbered
<1>5. Track(s, m, p)
  BY <1>1, <1>3, <1>4, SentTrack
<1> QED
  BY <1>1, <1>5 DEF m

LEMMA SendChunkStep ==
  ASSUME NEW p, NEW l, NEW m, NEW text, NEW state, Chats, Steps(l, m, p)
  PROVE  Steps(l, sendChunk(m, text, state), p)
<1> DEFINE e == Ev("chunk", 0, TRUE)
           c == Commit(Push(m, e))
<1>1. sendChunk(m, text, state) \in {m, c}
  BY DEF sendChunk, Commit, Send, Push
<1>2. e \in EventType /\ e.k = "chunk" /\ e.i = 0
  <2>1. 0 \in Int
    OBVIOUS
  <2> QED
    BY <2>1, EvType, KindsType, Zenon
<1> HIDE DEF e
<1>3. Allowed(End(style, m), e) /\ After(End(style, m), e) = End(style, m)
  BY <1>2 DEF Allowed, After, End, Ends
<1>4. Steps(l, c, p)
  BY <1>2, <1>3, TrackBody, OutputTrack DEF Steps, Track
<1> HIDE DEF c
<1> QED
  BY <1>1, <1>4

LEMMA ChatSplits ==
  ASSUME NEW l, NEW tok \in {"word", "partial", "open", "close", "flush"}
  PROVE  Split(l, tok, sendChunk) \in Pieces(l, sendChunk) \cup Ends3(l, sendChunk)
BY DEF Split, Fragment, Flush, Pieces, Ends3, Held, Free, Begun

LEMMA ChatEndReasoningStep ==
  ASSUME NEW p, NEW l, Chats, Track(style, l, p)
  PROVE  Steps(l, EndReasoning(l, sendChunk), p)
<1>1. EndReasoning(l, sendChunk) \in {l, EventEnded(sendChunk(l, "", 3))}
  BY DEF EndReasoning, EventEnded
<1>2. Steps(l, l, p)
  BY DEF Steps
<1> QED
  BY <1>1, <1>2, SendChunkStep, FlagsStep

LEMMA ChatTextStep ==
  ASSUME NEW p, NEW l, NEW tok \in {"word", "partial", "open", "close", "flush"}, Chats,
         Track(style, l, p)
  PROVE  Steps(l, processText(l, tok), p)
<1> DEFINE r == EndReasoning(l, sendChunk)
           Ok(m) == Steps(l, m, p)
<1>1. Ok(r)
  BY ChatEndReasoningStep
<1>2. processText(l, tok) \in Pieces(r, sendChunk) \cup Ends3(r, sendChunk)
  BY ChatSplits DEF processText
<1> HIDE DEF r
<1>3. ASSUME NEW m, Ok(m)
      PROVE  /\ Ok(Held(m)) /\ Ok(Free(m)) /\ Ok(Begun(m)) /\ Ok(TagSeen(m)) /\ Ok(OutOfTag(m))
             /\ \A text, state : Ok(sendChunk(m, text, state))
  BY <1>3, FlagsStep, SendChunkStep, Zenon
<1> HIDE DEF Ok
<1>4. \A m \in Pieces(r, sendChunk) : Ok(m)
  BY <1>1, <1>3 DEF Pieces
<1>5. \A m \in Ends3(r, sendChunk) : Ok(m)
  BY <1>1, <1>3 DEF Ends3
<1> QED
  BY <1>2, <1>4, <1>5 DEF Ok

LEMMA ChatReasoningStep ==
  ASSUME NEW p, NEW l, NEW text, Chats, Track(style, l, p)
  PROVE  Steps(l, Reasoning(l, text, sendChunk), p)
<1>1. Reasoning(l, text, sendChunk) \in
        {l, sendChunk(EventSeen(l), text, 2), EventBegun(sendChunk(EventSeen(l), text, 1))}
  BY DEF Reasoning, EventSeen, EventBegun
<1>2. Steps(l, l, p)
  BY DEF Steps
<1>3. Steps(l, EventSeen(l), p)
  BY <1>2, FlagsStep
<1>4. Steps(l, sendChunk(EventSeen(l), text, 2), p) /\ Steps(l, sendChunk(EventSeen(l), text, 1), p)
  BY <1>3, SendChunkStep
<1>5. Steps(l, EventBegun(sendChunk(EventSeen(l), text, 1)), p)
  BY <1>4, FlagsStep
<1> QED
  BY <1>1, <1>2, <1>4, <1>5

LEMMA ChatToolUseKeeps ==
  ASSUME NEW p, NEW l, NEW id, Chats, Track(style, l, p)
  PROVE  Kept(l, ChatToolUse(l, id), p)
<1> DEFINE b == processText(l, "flush")
           e == Ev("item", b.next, TRUE)
           d == Push(b, e)
           m == Commit(Number(d, d.next + 1))
<1>1. Steps(l, b, p)
  BY ChatTextStep
<1>2. ChatToolUse(l, id) = m
  <2>1. Send(b, "item", b.next, TRUE) = d
    BY DEF Send, Push
  <2> HIDE DEF b
  <2> QED
    BY <2>1 DEF ChatToolUse, ChatItem, Commit, Number, b
<1> HIDE DEF b
<1>3. b \in Locals /\ b.next \in Nat /\ b.next \in Int
  BY <1>1, LocalsType DEF Steps, Track
<1>4. e \in EventType /\ e.k = "item" /\ e.i = b.next
  BY <1>3, EvType, KindsType, Zenon
<1> HIDE DEF e
<1>5. /\ m \in Locals /\ m.out = Append(b.out, e) /\ m.active = b.active /\ m.kind = b.kind
      /\ m.tools = b.tools /\ m.next = b.next + 1 /\ m.committed
  <2>1. /\ d \in Locals /\ d.out = Append(b.out, e) /\ d.active = b.active /\ d.kind = b.kind
        /\ d.tools = b.tools /\ d.next = b.next
    BY <1>3, <1>4, PushType
  <2> HIDE DEF d
  <2>2. d.next + 1 \in Nat /\ d.next + 1 = b.next + 1
    BY <1>3, <2>1
  <2> DEFINE u == Number(d, d.next + 1)
  <2>3. /\ u \in Locals /\ u.out = d.out /\ u.active = d.active /\ u.kind = d.kind
        /\ u.tools = d.tools /\ u.next = b.next + 1
    BY <2>1, <2>2, NumberType, Zenon
  <2> HIDE DEF u
  <2> QED
    BY <2>1, <2>3, CommitType DEF m, u
<1> HIDE DEF m
<1>6. Allowed(End(style, b), e) /\ After(End(style, b), e) = End(style, m)
  <2>1. Blocks(m) = Blocks(b)
    BY <1>5 DEF Blocks
  <2> QED
    BY <1>4, <1>5, <2>1 DEF Allowed, After, End, Ends, Chats
<1>7. Shape(style, m) /\ Fresh(style, m)
  BY <1>1, <1>5 DEF Shape, Fresh, Steps, Track, Chats
<1>8. Track(style, m, p)
  BY <1>1, <1>4, <1>5, <1>6, <1>7, TrackBody, SentTrack DEF Steps
<1> QED
  BY <1>2, <1>5, <1>8 DEF Kept

-----------------------------------------------------------------------------
(* A Responses stream: one item at a time, whose number is used up when it *)
(* is done.                                                                *)
Items == style.proto = "responses"

LEMMA FinishItemTrack ==
  ASSUME NEW p, NEW l, Items, Track(style, l, p)
  PROVE  /\ Track(style, finishItem(l), p)
         /\ finishItem(l).active = NoBlock /\ finishItem(l).kind = ""
         /\ finishItem(l).tools = l.tools /\ finishItem(l).committed = l.committed
<1>1. CASE l.active = NoBlock
  BY <1>1 DEF finishItem, Track, Shape
<1>2. CASE l.active # NoBlock
  <2> DEFINE e == Ev("stop", l.active, FALSE)
             d == Push(l, e)
             a == Activate(d, NoBlock, "")
             m == Number(a, d.next + 1)
  <2>0. l.active = l.next
    BY <1>2 DEF Track, Shape, Items
  <2>1. l \in Locals /\ l.active \in Nat /\ l.active \in Int /\ l.next \in Nat
    BY <1>2, LocalsType DEF Track
  <2>2. e \in EventType /\ e.k = "stop" /\ e.i = l.active /\ e.acts = FALSE
    BY <2>1, EvType, KindsType, Zenon
  <2>3. finishItem(l) = m
    <3>1. Send(l, "stop", l.active, FALSE) = d
      BY DEF Send, Push
    <3> HIDE DEF d
    <3> QED
      BY <1>2, <2>1, <3>1 DEF finishItem, Activate, Number
  <2> HIDE DEF e
  <2>4. /\ d \in Locals /\ d.out = Append(l.out, e) /\ d.tools = l.tools /\ d.next = l.next
        /\ d.committed = l.committed
    BY <2>1, <2>2, PushType
  <2> HIDE DEF d
  <2>5. /\ a \in Locals /\ a.out = d.out /\ a.active = NoBlock /\ a.kind = ""
        /\ a.tools = l.tools /\ a.committed = l.committed
    <3>1. NoBlock \in Nat \cup {NoBlock} /\ "" \in BlockKinds
      BY DEF BlockKinds
    <3> QED
      BY <2>4, <3>1, ActivateType, Zenon
  <2> HIDE DEF a
  <2>6. d.next + 1 \in Nat /\ d.next + 1 = l.next + 1
    BY <2>1, <2>4
  <2>7. /\ m \in Locals /\ m.out = Append(l.out, e) /\ m.active = NoBlock /\ m.kind = ""
        /\ m.tools = l.tools /\ m.next = l.next + 1 /\ m.committed = l.committed
    BY <2>4, <2>5, <2>6, NumberType, Zenon
  <2> HIDE DEF m
  <2>8. DOMAIN l.tools = {} /\ ToolBlocks(l.tools) = {}
    BY DEF Track, Shape, Items, ToolBlocks
  <2>9. Blocks(l) = {l.active} /\ Blocks(m) = {}
    BY <1>2, <2>7, <2>8 DEF Blocks
  <2>10. Allowed(End(style, l), e)
    <3>1. e.i \in Blocks(l)
      BY <2>2, <2>9
    <3> QED
      BY <2>2, <3>1 DEF Allowed, End
  <2>11. After(End(style, l), e) = End(style, m)
    BY <1>2, <2>0, <2>2, <2>7, <2>9 DEF After, End, Ends, Items
  <2>12. l.committed
    BY <1>2 DEF Track, Fresh, Items
  <2>13. Shape(style, m) /\ Fresh(style, m)
    BY <2>7, <2>8, <2>12 DEF Shape, Fresh, Items
  <2>14. Track(style, m, p)
    BY <2>2, <2>7, <2>10, <2>11, <2>13, TrackBody, SentTrack
  <2> QED
    BY <2>3, <2>7, <2>14
<1> QED
  BY <1>1, <1>2

(* Both kinds of item are finished: none is open. *)
LEMMA FinishedTrack ==
  ASSUME NEW p, NEW l, Items, Track(style, l, p)
  PROVE  /\ Steps(l, finishReasoning(l), p) /\ finishReasoning(l).kind # "reasoning"
         /\ Steps(l, finishMessage(l), p) /\ finishMessage(l).kind # "message"
         /\ finishReasoning(l).committed = l.committed /\ finishMessage(l).committed = l.committed
BY FinishItemTrack DEF finishReasoning, finishMessage, Steps

LEMMA AllFinished ==
  ASSUME NEW p, NEW l, Items, Track(style, l, p)
  PROVE  LET m == finishMessage(finishReasoning(l))
         IN Steps(l, m, p) /\ m.active = NoBlock
<1> DEFINE r == finishReasoning(l)
           m == finishMessage(r)
<1>1. Steps(l, r, p) /\ r.kind # "reasoning"
  BY FinishedTrack
<1> HIDE DEF r
<1>2. Steps(r, m, p)
  BY <1>1, FinishedTrack DEF Steps
<1>3. m.kind # "message"
  BY <1>1, FinishedTrack DEF Steps
<1>4. m.kind # "reasoning"
  BY <1>1, FinishItemTrack DEF finishMessage, Steps
<1> HIDE DEF m
<1>5. m.kind = "" /\ m.active = NoBlock
  BY <1>2, <1>3, <1>4 DEF Steps, Track, Shape, Items
<1>6. Steps(l, m, p)
  BY <1>1, <1>2 DEF Steps
<1> QED
  BY <1>5, <1>6 DEF m, r

(* An item that is open, whether or not output was sent to it. *)
Opens(l, m, p) ==
  /\ Body(style, m, p) /\ Shape(style, m) /\ m.active # NoBlock
  /\ m.tools = l.tools /\ m.committed = l.committed

LEMMA OpenedOpens ==
  ASSUME NEW p, NEW l, NEW kind \in {"message", "reasoning"}, Items, Track(style, l, p),
         l.active = NoBlock
  PROVE  Opens(l, Opened(l, kind), p)
<1> DEFINE e == Ev("open", l.next, FALSE)
           m == Opened(l, kind)
<1>1. l \in Locals /\ l.next \in Nat /\ l.next \in Int
  BY LocalsType DEF Track
<1>2. e \in EventType /\ e.k = "open" /\ e.i = l.next /\ e.acts = FALSE
  BY <1>1, EvType, KindsType, Zenon
<1>3. /\ m \in Locals /\ m.out = Append(l.out, e) /\ m.active = l.next /\ m.kind = kind
      /\ m.tools = l.tools /\ m.next = l.next /\ m.committed = l.committed
  <2>1. kind \in {"text", "thinking", "reasoning", "message"}
    OBVIOUS
  <2> QED
    BY <1>1, <2>1, OpenedType, Zenon
<1> HIDE DEF e, m
<1>4. DOMAIN l.tools = {} /\ ToolBlocks(l.tools) = {}
  BY DEF Track, Shape, Items, ToolBlocks
<1>5. m.active # NoBlock
  BY <1>1, <1>3, NoBlockIsNone
<1>6. Blocks(l) = {} /\ Blocks(m) = {l.next}
  BY <1>3, <1>4, <1>5 DEF Blocks
<1>7. Allowed(End(style, l), e)
  BY <1>2 DEF Allowed, End
<1>8. After(End(style, l), e) = End(style, m)
  BY <1>2, <1>3, <1>5, <1>6 DEF After, End, Ends, Items
<1>9. Shape(style, m)
  BY <1>3, <1>4, <1>5 DEF Shape, Items
<1>10. Body(style, m, p)
  BY <1>2, <1>3, <1>7, <1>8, TrackBody, SentBody
<1> QED
  BY <1>3, <1>5, <1>9, <1>10 DEF Opens, m

LEMMA EnsureOpens ==
  ASSUME NEW p, NEW l, Items, Track(style, l, p)
  PROVE  Opens(l, ensureMessageStarted(l), p) /\ Opens(l, ensureReasoningStarted(l), p)
<1>1. ASSUME l.kind # "" PROVE Opens(l, l, p)
  BY <1>1, TrackBody DEF Track, Shape, Opens
<1>2. ASSUME l.kind # "message" PROVE Opens(l, Opened(finishReasoning(l), "message"), p)
  <2> DEFINE f == finishReasoning(l)
  <2>1. Steps(l, f, p) /\ f.kind # "reasoning" /\ f.committed = l.committed
    BY FinishedTrack
  <2>2. f.kind # "message"
    BY <1>2, FinishItemTrack DEF finishReasoning
  <2> HIDE DEF f
  <2>3. f.active = NoBlock
    BY <2>1, <2>2 DEF Steps, Track, Shape, Items
  <2>4. Opens(f, Opened(f, "message"), p)
    BY <2>1, <2>3, OpenedOpens DEF Steps
  <2> QED
    BY <2>1, <2>4 DEF Opens, Steps, f
<1>3. ASSUME l.kind # "reasoning" PROVE Opens(l, Opened(finishMessage(l), "reasoning"), p)
  <2> DEFINE f == finishMessage(l)
  <2>1. Steps(l, f, p) /\ f.kind # "message" /\ f.committed = l.committed
    BY FinishedTrack
  <2>2. f.kind # "reasoning"
    BY <1>3, FinishItemTrack DEF finishMessage
  <2> HIDE DEF f
  <2>3. f.active = NoBlock
    BY <2>1, <2>2 DEF Steps, Track, Shape, Items
  <2>4. Opens(f, Opened(f, "reasoning"), p)
    BY <2>1, <2>3, OpenedOpens DEF Steps
  <2> QED
    BY <2>1, <2>4 DEF Opens, Steps, f
<1> QED
  BY <1>1, <1>2, <1>3 DEF ensureMessageStarted, ensureReasoningStarted

(* Text sent to an open item commits the attempt. *)
LEMMA OpenOutput ==
  ASSUME NEW p, NEW l, NEW r, Opens(l, r, p)
  PROVE  Steps(l, Commit(Delta(r, TRUE)), p)
<1> DEFINE e == Ev("delta", r.active, TRUE)
<1>1. r.active \in Nat /\ r.active \in Int
  BY LocalsType DEF Opens, Body
<1>2. e \in EventType /\ e.k = "delta" /\ e.i = r.active
  BY <1>1, EvType, KindsType, Zenon
<1>3. Delta(r, TRUE) = Push(r, e)
  BY DEF Delta, Send, Push
<1> HIDE DEF e
<1>4. r.active \in Blocks(r)
  BY DEF Blocks, Opens
<1>5. Allowed(End(style, r), e) /\ After(End(style, r), e) = End(style, r)
  BY <1>2, <1>4 DEF Allowed, After, End, Ends
<1>6. Track(style, Commit(Push(r, e)), p) /\ Commit(Push(r, e)).committed /\ Commit(Push(r, e)).tools = r.tools
  BY <1>2, <1>5, OutputTrack DEF Opens
<1> QED
  BY <1>3, <1>6 DEF Opens, Steps

LEMMA VisibleStep ==
  ASSUME NEW p, NEW l, NEW text, Items, Track(style, l, p)
  PROVE  Steps(l, emitVisibleText(l, text), p)
<1>1. emitVisibleText(l, text) \in {l, Commit(Delta(ensureMessageStarted(l), TRUE))}
  BY DEF emitVisibleText, Commit
<1>2. Steps(l, Commit(Delta(ensureMessageStarted(l), TRUE)), p)
  BY EnsureOpens, OpenOutput
<1>3. Steps(l, l, p)
  BY DEF Steps
<1> QED
  BY <1>1, <1>2, <1>3

(* A thought without text only ends an item that is open. *)
LEMMA ReasoningStep ==
  ASSUME NEW p, NEW l, NEW text, NEW state, Items, Track(style, l, p), text # "" \/ state = 3
  PROVE  Steps(l, emitReasoningText(l, text, state), p)
<1> DEFINE d == Commit(Delta(ensureReasoningStarted(l), TRUE))
<1>1. emitReasoningText(l, text, state) \in {l, finishReasoning(l), d, finishReasoning(d)}
  BY DEF emitReasoningText, ensureReasoningStarted, Commit
<1>2. Steps(l, d, p)
  BY EnsureOpens, OpenOutput
<1> HIDE DEF d
<1>3. Steps(d, finishReasoning(d), p)
  BY <1>2, FinishedTrack DEF Steps
<1>4. Steps(l, finishReasoning(d), p)
  BY <1>2, <1>3 DEF Steps
<1>5. Steps(l, l, p) /\ Steps(l, finishReasoning(l), p)
  BY FinishedTrack DEF Steps
<1> QED
  BY <1>1, <1>2, <1>4, <1>5

LEMMA SegmentStep ==
  ASSUME NEW p, NEW l, NEW m, NEW text, NEW state, Items, Steps(l, m, p),
         text # "" \/ state \in {0, 3}
  PROVE  Steps(l, sendSegment(m, text, state), p)
<1>1. Track(style, m, p)
  BY DEF Steps
<1>2. CASE state = 0
  <2>1. Steps(m, emitVisibleText(m, text), p)
    BY <1>1, VisibleStep
  <2> QED
    BY <1>2, <2>1 DEF sendSegment, Steps
<1>3. CASE state # 0
  <2>1. text # "" \/ state = 3
    BY <1>3
  <2>2. Steps(m, emitReasoningText(m, text, state), p)
    BY <1>1, <2>1, ReasoningStep
  <2> QED
    BY <1>3, <2>2 DEF sendSegment, Steps
<1> QED
  BY <1>2, <1>3

LEMMA ThinkingStep ==
  ASSUME NEW p, NEW l, NEW m, NEW text, NEW closing, Items, Steps(l, m, p)
  PROVE  Steps(l, appendThinking(m, text, closing), p)
<1> DEFINE b == Begun(sendSegment(m, text, 1))
<1>1. \/ appendThinking(m, text, closing) \in {m, sendSegment(m, text, 3), sendSegment(m, "", 3)}
      \/ text # "" /\ appendThinking(m, text, closing) \in {sendSegment(m, text, 2), b, sendSegment(b, "", 3)}
  BY DEF appendThinking, Begun
<1>2. Steps(l, sendSegment(m, text, 3), p) /\ Steps(l, sendSegment(m, "", 3), p)
  BY SegmentStep
<1>3. ASSUME text # "" PROVE Steps(l, sendSegment(m, text, 2), p) /\ Steps(l, b, p)
  BY <1>3, SegmentStep, FlagsStep
<1> HIDE DEF b
<1>4. ASSUME text # "" PROVE Steps(l, sendSegment(b, "", 3), p)
  BY <1>3, <1>4, SegmentStep
<1> QED
  BY <1>1, <1>2, <1>3, <1>4

LEMMA FeedCases ==
  ASSUME NEW l, NEW tok \in {"word", "partial", "open", "close", "flush"}
  PROVE  \/ feed(l, tok) \in {l, TagSeen(l), Held(l), Held(sendSegment(l, "x", 0)),
                              sendSegment(Free(l), "x", 0), Free(sendSegment(l, "x", 0))}
         \/ \E text \in {"", "x"} :
              feed(l, tok) \in {OutOfTag(appendThinking(l, text, TRUE)),
                                appendThinking(Held(l), text, FALSE), appendThinking(Free(l), text, FALSE)}
<1>1. CASE ~l.inTag
  BY <1>1 DEF feed, Fragment, Flush, Held, Free
<1>2. CASE l.inTag /\ tok \in {"flush", "close"}
  BY <1>2 DEF feed
<1>3. CASE l.inTag /\ tok = "partial"
  BY <1>3 DEF feed, Held
<1>4. CASE l.inTag /\ tok \in {"word", "open"}
  BY <1>4 DEF feed, Free
<1> QED
  BY <1>1, <1>2, <1>3, <1>4

LEMMA FeedStep ==
  ASSUME NEW p, NEW l, NEW tok \in {"word", "partial", "open", "close", "flush"}, Items,
         Track(style, l, p)
  PROVE  Steps(l, feed(l, tok), p)
<1> DEFINE Ok(m) == Steps(l, m, p)
<1>1. Ok(l)
  BY DEF Steps
<1>2. ASSUME NEW m, Ok(m)
      PROVE  /\ Ok(Held(m)) /\ Ok(Free(m)) /\ Ok(TagSeen(m)) /\ Ok(OutOfTag(m))
             /\ Ok(sendSegment(m, "x", 0))
             /\ \A text, closing : Ok(appendThinking(m, text, closing))
  <2>1. Ok(sendSegment(m, "x", 0))
    BY <1>2, SegmentStep
  <2>2. \A text, closing : Ok(appendThinking(m, text, closing))
    BY <1>2, ThinkingStep, Zenon
  <2> QED
    BY <1>2, <2>1, <2>2, FlagsStep
<1>3. \A m, text : Ok(m) => Ok(appendThinking(m, text, TRUE)) /\ Ok(appendThinking(m, text, FALSE))
  BY <1>2, Zenon
<1> HIDE DEF Ok
<1>4. ASSUME NEW text
      PROVE  /\ Ok(OutOfTag(appendThinking(l, text, TRUE)))
             /\ Ok(appendThinking(Held(l), text, FALSE)) /\ Ok(appendThinking(Free(l), text, FALSE))
  BY <1>1, <1>2, <1>3, Zenon
<1>5. /\ Ok(TagSeen(l)) /\ Ok(Held(l)) /\ Ok(Held(sendSegment(l, "x", 0)))
      /\ Ok(sendSegment(Free(l), "x", 0)) /\ Ok(Free(sendSegment(l, "x", 0)))
  BY <1>1, <1>2, Zenon
<1>6. Ok(feed(l, tok))
  BY <1>1, <1>4, <1>5, FeedCases, Zenon
<1> QED
  BY <1>6 DEF Ok

LEMMA ProcessReasoningKeeps ==
  ASSUME NEW p, NEW l, NEW text \in {" ", "x"}, Items, Track(style, l, p)
  PROVE  Kept(l, processReasoning(l, text), p)
<1>1. processReasoning(l, text) \in {l, emitReasoningText(EventSeen(l), text, 2)}
  BY DEF processReasoning, EventSeen
<1>2. Steps(l, l, p)
  BY DEF Steps
<1>3. Steps(l, EventSeen(l), p)
  BY <1>2, FlagsStep
<1>4. text # ""
  OBVIOUS
<1>5. Steps(EventSeen(l), emitReasoningText(EventSeen(l), text, 2), p)
  BY <1>3, <1>4, ReasoningStep DEF Steps
<1> QED
  BY <1>1, <1>2, <1>3, <1>5 DEF Steps, Kept

(* A tool is an item of its own, opened and closed at once. *)
LEMMA ResponsesItemKeeps ==
  ASSUME NEW p, NEW l, Items, Track(style, l, p), l.active = NoBlock
  PROVE  Kept(l, ResponsesItem(l), p)
<1> DEFINE e1 == Ev("open", l.next, FALSE)
           e2 == Ev("delta", l.next, TRUE)
           e3 == Ev("stop", l.next, FALSE)
           d1 == Push(l, e1)
           d2 == Push(d1, e2)
           d3 == Push(d2, e3)
           m == Commit(Number(d3, d3.next + 1))
           q0 == End(style, l)
           q1 == After(q0, e1)
           q2 == After(q1, e2)
           q3 == After(q2, e3)
<1>1. l \in Locals /\ l.next \in Nat /\ l.next \in Int
  BY LocalsType DEF Track
<1>2. /\ e1 \in EventType /\ e1.k = "open" /\ e1.i = l.next
      /\ e2 \in EventType /\ e2.k = "delta" /\ e2.i = l.next
      /\ e3 \in EventType /\ e3.k = "stop" /\ e3.i = l.next
  <2>1. e1 \in EventType /\ e1.k = "open" /\ e1.i = l.next
    BY <1>1, EvType, KindsType, Zenon
  <2>2. e2 \in EventType /\ e2.k = "delta" /\ e2.i = l.next
    BY <1>1, EvType, KindsType, Zenon
  <2>3. e3 \in EventType /\ e3.k = "stop" /\ e3.i = l.next
    BY <1>1, EvType, KindsType, Zenon
  <2> QED
    BY <2>1, <2>2, <2>3, Zenon
<1>3. ResponsesItem(l) = m
  <2>1. Send(Send(Send(l, "open", l.next, FALSE), "delta", l.next, TRUE), "stop", l.next, FALSE) = d3
    BY DEF Send, Push
  <2> HIDE DEF d3
  <2> QED
    BY <2>1 DEF ResponsesItem, Commit, Number
<1> HIDE DEF e1, e2, e3
<1>4. d1 \in Locals /\ d1.out = Append(l.out, e1) /\ d1.next = l.next /\ d1.tools = l.tools
      /\ d1.active = l.active /\ d1.kind = l.kind
  BY <1>1, <1>2, PushType
<1> HIDE DEF d1
<1>5. d2 \in Locals /\ d2.out = Append(d1.out, e2) /\ d2.next = l.next /\ d2.tools = l.tools
      /\ d2.active = l.active /\ d2.kind = l.kind
  BY <1>2, <1>4, PushType
<1> HIDE DEF d2
<1>6. d3 \in Locals /\ d3.out = Append(d2.out, e3) /\ d3.next = l.next /\ d3.tools = l.tools
      /\ d3.active = l.active /\ d3.kind = l.kind
  BY <1>2, <1>5, PushType
<1> HIDE DEF d3
<1>7. /\ m \in Locals /\ m.out = Append(Append(Append(l.out, e1), e2), e3) /\ m.next = l.next + 1
      /\ m.tools = l.tools /\ m.active = NoBlock /\ m.kind = l.kind /\ m.committed
  <2> DEFINE u == Number(d3, d3.next + 1)
  <2>1. d3.next + 1 \in Nat /\ d3.next + 1 = l.next + 1
    BY <1>1, <1>6
  <2>2. /\ u \in Locals /\ u.out = d3.out /\ u.active = d3.active /\ u.kind = d3.kind
        /\ u.tools = d3.tools /\ u.next = l.next + 1
    BY <1>6, <2>1, NumberType, Zenon
  <2> HIDE DEF u
  <2> QED
    BY <1>4, <1>5, <1>6, <2>2, CommitType DEF m, u
<1> HIDE DEF m
<1>8. Blocks(l) = {} /\ Blocks(m) = {}
  <2>1. ToolBlocks(l.tools) = {}
    BY DEF Track, Shape, Items, ToolBlocks
  <2> QED
    BY <1>7, <2>1 DEF Blocks
<1>9. /\ q0.phase = "open" /\ q0.open = {} /\ q0.used = l.next
      /\ q1.phase = "open" /\ q1.open = {l.next} /\ q1.used = l.next + 1
      /\ q2.phase = "open" /\ q2.open = {l.next} /\ q2.used = l.next + 1
      /\ q3 = End(style, m)
  <2>1. q0 = [phase |-> "open", open |-> {}, used |-> l.next]
    BY <1>8 DEF End
  <2>2. q1 = [phase |-> "open", open |-> {l.next}, used |-> l.next + 1]
    BY <1>2, <2>1 DEF After, Ends
  <2>3. q2 = [phase |-> "open", open |-> {l.next}, used |-> l.next + 1]
    BY <1>2, <2>2 DEF After, Ends
  <2>4. q3 = [phase |-> "open", open |-> {}, used |-> l.next + 1]
    BY <1>2, <2>3 DEF After, Ends
  <2>5. End(style, m) = [phase |-> "open", open |-> {}, used |-> l.next + 1]
    BY <1>7, <1>8 DEF End
  <2> QED
    BY <2>1, <2>2, <2>3, <2>4, <2>5
<1>10. Allowed(q0, e1) /\ Allowed(q1, e2) /\ Allowed(q2, e3)
  BY <1>2, <1>9 DEF Allowed
<1> HIDE DEF q0, q1, q2, q3
<1>11. Path(p, m.out, End(style, m))
  <2>1. Path(p, l.out, q0) /\ l.out \in Seq(EventType)
    BY LocalsType DEF Track, q0
  <2>2. Append(l.out, e1) \in Seq(EventType) /\ Append(Append(l.out, e1), e2) \in Seq(EventType)
    BY <1>2, <2>1
  <2>3. Path(p, Append(l.out, e1), q1)
    BY <1>2, <1>10, <2>1, PathAppend DEF q1
  <2>4. Path(p, Append(Append(l.out, e1), e2), q2)
    BY <1>2, <1>10, <2>2, <2>3, PathAppend DEF q2
  <2>5. Path(p, Append(Append(Append(l.out, e1), e2), e3), q3)
    BY <1>2, <1>10, <2>2, <2>4, PathAppend DEF q3
  <2> QED
    BY <1>7, <1>9, <2>5
<1>12. Shape(style, m) /\ Fresh(style, m) /\ Counted(m)
  BY <1>7 DEF Shape, Fresh, Counted, Track, Items
<1> QED
  BY <1>3, <1>7, <1>11, <1>12 DEF Kept, Track

LEMMA ResponsesToolUseKeeps ==
  ASSUME NEW p, NEW l, NEW id, Items, Track(style, l, p)
  PROVE  Kept(l, ResponsesToolUse(l, id), p)
<1> DEFINE f == feed(l, "flush")
           m == finishMessage(finishReasoning(f))
<1>1. Steps(l, f, p)
  BY FeedStep
<1> HIDE DEF f
<1>2. Steps(f, m, p) /\ m.active = NoBlock
  BY <1>1, AllFinished DEF Steps
<1> HIDE DEF m
<1>3. Kept(m, ResponsesItem(m), p)
  BY <1>2, ResponsesItemKeeps DEF Steps
<1> QED
  BY <1>1, <1>2, <1>3 DEF Steps, Kept, ResponsesToolUse, m, f

-----------------------------------------------------------------------------
(* The end of a response. *)
Over(l, p) ==
  l \in Locals /\ \E q \in Position : q.phase = "done" /\ Path(p, l.out, q)

LEMMA FinishOver ==
  ASSUME NEW p, NEW l, Track(style, l, p), l.active = NoBlock, DOMAIN l.tools = {}
  PROVE  Over(Send(l, "finish", 0, FALSE), p)
<1> DEFINE e == Ev("finish", 0, FALSE)
<1>1. e \in EventType /\ e.k = "finish" /\ e.i = 0
  <2>1. 0 \in Int
    OBVIOUS
  <2> QED
    BY <2>1, EvType, KindsType, Zenon
<1>2. Send(l, "finish", 0, FALSE) = Push(l, e)
  BY DEF Send, Push
<1> HIDE DEF e
<1>3. Blocks(l) = {}
  BY DEF Blocks, ToolBlocks
<1>4. Allowed(End(style, l), e)
  BY <1>1, <1>3 DEF Allowed, End
<1>5. l \in Locals /\ l.out \in Seq(EventType) /\ Path(p, l.out, End(style, l))
  BY LocalsType DEF Track
<1>6. Path(p, Append(l.out, e), After(End(style, l), e))
  BY <1>1, <1>4, <1>5, PathAppend
<1>7. After(End(style, l), e) \in Position
  <2>1. Append(l.out, e) \in Seq(EventType)
    BY <1>1, <1>5
  <2> QED
    BY <1>6, <2>1, PathEnds
<1>8. After(End(style, l), e).phase = "done"
  BY <1>1 DEF After, Ends
<1>9. Push(l, e) \in Locals /\ Push(l, e).out = Append(l.out, e)
  BY <1>1, <1>5, PushType
<1>10. Over(Push(l, e), p)
  BY <1>6, <1>7, <1>8, <1>9 DEF Over
<1> QED
  BY <1>2, <1>10, Zenon

(* A failure, or a client that has gone, ends a response anywhere. *)
LEMMA FailOver ==
  ASSUME NEW p, NEW l, NEW k \in {"fail", "gone"}, Track(style, l, p)
  PROVE  Over(Send(l, k, 0, FALSE), p)
<1> DEFINE e == Ev(k, 0, FALSE)
<1>1. e \in EventType /\ e.k = k /\ e.i = 0
  <2>1. 0 \in Int /\ k \in Kinds
    BY KindsType
  <2> QED
    BY <2>1, EvType, Zenon
<1>2. Send(l, k, 0, FALSE) = Push(l, e)
  BY DEF Send, Push
<1> HIDE DEF e
<1>4. Allowed(End(style, l), e)
  BY <1>1 DEF Allowed, End
<1>5. l \in Locals /\ l.out \in Seq(EventType) /\ Path(p, l.out, End(style, l))
  BY LocalsType DEF Track
<1>6. Path(p, Append(l.out, e), After(End(style, l), e))
  BY <1>1, <1>4, <1>5, PathAppend
<1>7. After(End(style, l), e) \in Position
  <2>1. Append(l.out, e) \in Seq(EventType)
    BY <1>1, <1>5
  <2> QED
    BY <1>6, <2>1, PathEnds
<1>8. After(End(style, l), e).phase = "done"
  BY <1>1 DEF After, Ends
<1>9. Push(l, e) \in Locals /\ Push(l, e).out = Append(l.out, e)
  BY <1>1, <1>5, PushType
<1>10. Over(Push(l, e), p)
  BY <1>6, <1>7, <1>8, <1>9 DEF Over
<1> QED
  BY <1>2, <1>10, Zenon

-----------------------------------------------------------------------------
(* The inductive invariant.  A handler that streams counts with the        *)
(* position its client will have; before a call, and after one that failed *)
(* before output, nothing is open and nothing was committed.  A handler    *)
(* that buffers sends nothing until it returns.                            *)
Start == [phase |-> "idle", open |-> {}, used |-> 0]
Before == {"select", "token", "call", "exhausted"}

Known ==
  /\ style.proto \in {"claude", "chat", "responses"} /\ style.stream \in BOOLEAN
  /\ hpc \in Before \cup {"idle", "return"}
  /\ try \in [acct : Nat, retry : Nat, fed : Nat]

Streaming ==
  style.stream /\ hpc \in Before =>
    /\ Track(style, loc, Here)
    /\ hpc # "call" => ~loc.committed /\ loc.active = NoBlock
    /\ hpc = "token" => loc.out = <<>>

Silent == hpc = "idle" \/ (~style.stream /\ hpc \in Before) => loc = NewLocals(0) /\ Here = Start
Returning == hpc = "return" => Over(loc, Here)

(* Only the call that runs, and has committed, has answered. *)
Answered ==
  /\ origin \subseteq {<<try.acct, try.retry>>}
  /\ origin # {} => hpc = "return" \/ (hpc = "call" /\ style.stream /\ loc.committed)

Holds ==
  /\ hpc \in {"idle", "select", "exhausted", "return"} => held = Nothing
  /\ hpc = "token" => held = [guard |-> TRUE, reserved |-> FALSE]

Logs == logged = IF hpc = "return" THEN 1 ELSE 0

DeliveryInv == Known /\ Streaming /\ Silent /\ Returning /\ Answered /\ Holds /\ Logs

(* A stream that is open with nothing in it, n blocks used. *)
Bare(n) == [phase |-> "open", open |-> {}, used |-> n]

LEMMA CountedEmpty == ASSUME NEW l, l.out = <<>> PROVE Counted(l)
BY DEF Counted

LEMMA NewTrack ==
  ASSUME NEW n \in Nat, style.proto = "claude" \/ n = 0
  PROVE  Track(style, NewLocals(n), Bare(n))
<1> DEFINE l == NewLocals(n)
<1>1. /\ l \in Locals /\ DOMAIN l.tools = {} /\ l.out = <<>> /\ l.active = NoBlock /\ l.kind = ""
      /\ l.next = n /\ l.committed = FALSE
  BY NewLocalsType DEF NewLocals
<1> HIDE DEF l
<1>2. Blocks(l) = {}
  BY <1>1 DEF Blocks, ToolBlocks
<1>3. End(style, l) = Bare(n) /\ Bare(n) \in Position
  BY <1>1, <1>2 DEF End, Bare, Position
<1>4. Numbered(l)
  BY <1>1, NoBlockIsNone DEF Numbered, Below, Apart
<1>5. Shape(style, l) /\ Fresh(style, l) /\ Counted(l)
  <2>1. Shape(style, l)
    BY <1>1, <1>4 DEF Shape
  <2>2. Fresh(style, l)
    BY <1>1 DEF Fresh
  <2>3. Counted(l)
    BY <1>1, CountedEmpty
  <2> QED
    BY <2>1, <2>2, <2>3
<1>6. Path(Bare(n), l.out, End(style, l))
  BY <1>1, <1>3, PathEmpty
<1> QED
  BY <1>1, <1>5, <1>6 DEF Track, l

(* The same state but for what the invariant does not look at. *)
LEMMA Stands ==
  ASSUME DeliveryInv, UNCHANGED <<style, hpc, loc, try, held, logged, origin>>, Here' = Here
  PROVE  DeliveryInv'
BY DEF DeliveryInv, Known, Streaming, Silent, Returning, Answered, Holds, Logs

LEMMA InitInv == DeliveryInit => DeliveryInv
<1> SUFFICES ASSUME DeliveryInit
             PROVE  DeliveryInv
  OBVIOUS
<1>1. Known
  BY DeliveryAssumption DEF DeliveryInit, Known, Before, NewTry
<1>2. Here = Start
  BY DEF DeliveryInit, Here, Start
<1> QED
  BY <1>1, <1>2 DEF DeliveryInit, DeliveryInv, Streaming, Silent, Returning, Answered, Holds, Logs, Before

-----------------------------------------------------------------------------
(* What the client gets moves it along. *)
LEMMA ReceiveMoves ==
  ASSUME NEW e, Receive(e), e.k \in Kinds
  PROVE  Here' = After(Here, e)
BY DEF Receive, Here, After, Kinds, Ends

LEMMA ReceiveComment ==
  ASSUME NEW e, Receive(e), e.k \in {"ping", "comment"}, e.acts = FALSE
  PROVE  Here' = Here /\ origin' = origin
BY DEF Receive, Here

(* The first event goes out, and the local waits with the rest. *)
Later(l) == [l EXCEPT !.out = Tail(@)]

LEMMA LaterTrack ==
  ASSUME NEW s, NEW p, NEW l, Track(s, l, p), l.out # <<>>
  PROVE  /\ Track(s, Later(l), After(p, Head(l.out)))
         /\ Later(l).committed = l.committed /\ Later(l).active = l.active
         /\ Head(l.out).acts => l.committed
<1> DEFINE m == Later(l)
           out == Tail(l.out)
<1>1. l \in Locals /\ l.out \in Seq(EventType) /\ Path(p, l.out, End(s, l))
  BY LocalsType DEF Track
<1>2. /\ out \in Seq(EventType)
      /\ \A j \in 1 .. Len(out) : j + 1 \in 1 .. Len(l.out) /\ out[j] = l.out[j + 1]
      /\ Path(After(p, Head(l.out)), out, End(s, l))
  BY <1>1, PathTail
<1>3. Head(l.out) = l.out[1] /\ 1 \in 1 .. Len(l.out)
  BY <1>1
<1>4. m = [l EXCEPT !.out = out]
  BY DEF Later
<1> HIDE DEF out, m
<1>5. /\ m \in Locals /\ m.out = out /\ m.active = l.active /\ m.kind = l.kind /\ m.tools = l.tools
      /\ m.next = l.next /\ m.committed = l.committed
  BY <1>1, <1>2, <1>4 DEF Locals
<1>6. End(s, m) = End(s, l)
  BY <1>5 DEF End, Blocks
<1>7. Shape(s, m) /\ Fresh(s, m)
  BY <1>5 DEF Shape, Fresh, Track, Numbered
<1>8. Counted(m)
  BY <1>2, <1>5 DEF Counted, Track
<1>9. Head(l.out).acts => l.committed
  BY <1>3 DEF Counted, Track
<1>10. Track(s, m, After(p, Head(l.out)))
  BY <1>2, <1>5, <1>6, <1>7, <1>8 DEF Track
<1> QED
  BY <1>5, <1>9, <1>10 DEF m

LEMMA LaterOver ==
  ASSUME NEW p, NEW l, Over(l, p), l.out # <<>>
  PROVE  Over(Later(l), After(p, Head(l.out)))
<1> DEFINE m == Later(l)
           out == Tail(l.out)
<1>1. PICK q \in Position : q.phase = "done" /\ Path(p, l.out, q)
  BY DEF Over
<1>2. l \in Locals /\ l.out \in Seq(EventType)
  BY LocalsType DEF Over
<1>3. out \in Seq(EventType) /\ Path(After(p, Head(l.out)), out, q)
  BY <1>1, <1>2, PathTail
<1>4. m = [l EXCEPT !.out = out]
  BY DEF Later
<1> HIDE DEF out, m
<1>5. m \in Locals /\ m.out = out
  BY <1>2, <1>3, <1>4 DEF Locals
<1> QED
  BY <1>1, <1>3, <1>5 DEF Over, m

(* Whatever waits is an event the protocol allows next. *)
LEMMA HeadAllowed ==
  ASSUME DeliveryInv, loc.out # <<>>
  PROVE  Head(loc.out) \in EventType /\ Allowed(Here, Head(loc.out))
<1>1. CASE style.stream /\ hpc \in Before
  <2>1. Track(style, loc, Here)
    BY <1>1 DEF DeliveryInv, Streaming
  <2>2. loc.out \in Seq(EventType) /\ Path(Here, loc.out, End(style, loc))
    BY <2>1, LocalsType DEF Track
  <2> QED
    BY <2>2, PathTail
<1>2. CASE hpc = "return"
  <2>1. Over(loc, Here)
    BY <1>2 DEF DeliveryInv, Returning
  <2>2. PICK q \in Position : Path(Here, loc.out, q)
    BY <2>1 DEF Over
  <2>3. loc.out \in Seq(EventType)
    BY <2>1, LocalsType DEF Over
  <2> QED
    BY <2>2, <2>3, PathTail
<1>3. CASE ~(style.stream /\ hpc \in Before) /\ hpc # "return"
  <2>1. loc = NewLocals(0)
    BY <1>3 DEF DeliveryInv, Known, Silent
  <2> QED
    BY <2>1 DEF NewLocals
<1> QED
  BY <1>1, <1>2, <1>3

LEMMA EmitInv ==
  ASSUME DeliveryInv, Emit
  PROVE  DeliveryInv'
<1> DEFINE e == Head(loc.out)
<1>1. loc.out # <<>> /\ loc' = Later(loc) /\ Receive(e)
  BY DEF Emit, Later
<1>2. UNCHANGED <<style, hpc, try, held, left, logged>>
  BY DEF Emit
<1>3. e \in EventType /\ Allowed(Here, e)
  BY <1>1, HeadAllowed
<1>4. Here' = After(Here, e)
  BY <1>1, <1>3, ReceiveMoves DEF EventType
<1>5. origin' = IF e.acts THEN origin \cup {<<try.acct, try.retry>>} ELSE origin
  BY <1>1 DEF Receive
<1> HIDE DEF e
<1>6. Streaming'
  <2> SUFFICES ASSUME style.stream, hpc \in Before
               PROVE  /\ Track(style, loc', Here')
                      /\ hpc # "call" => ~loc'.committed /\ loc'.active = NoBlock
                      /\ hpc = "token" => loc'.out = <<>>
    BY <1>2 DEF Streaming
  <2>1. /\ Track(style, loc, Here) /\ hpc # "token"
        /\ hpc # "call" => ~loc.committed /\ loc.active = NoBlock
    BY <1>1 DEF DeliveryInv, Streaming
  <2>2. /\ Track(style, Later(loc), After(Here, e))
        /\ Later(loc).committed = loc.committed /\ Later(loc).active = loc.active
    BY <1>1, <2>1, LaterTrack DEF e
  <2>3. Track(style, loc', Here')
    BY <1>1, <1>4, <2>2, Zenon
  <2>4. hpc # "call" => ~loc'.committed /\ loc'.active = NoBlock
    BY <1>1, <2>1, <2>2
  <2> QED
    BY <2>1, <2>3, <2>4
<1>7. ~(hpc = "idle" \/ (~style.stream /\ hpc \in Before))
  <2>1. NewLocals(0).out = <<>>
    BY DEF NewLocals
  <2> QED
    BY <1>1, <2>1 DEF DeliveryInv, Silent
<1>8. Silent'
  BY <1>2, <1>7 DEF Silent
<1>9. Returning'
  <2> SUFFICES ASSUME hpc = "return" PROVE Over(loc', Here')
    BY <1>2 DEF Returning
  <2>1. Over(loc, Here)
    BY DEF DeliveryInv, Returning
  <2> QED
    BY <1>1, <1>4, <2>1, LaterOver DEF e
<1>10. Answered'
  <2>1. origin' \subseteq {<<try.acct, try.retry>>}
    BY <1>5 DEF DeliveryInv, Answered
  <2>2. ASSUME hpc # "return"
        PROVE  /\ Track(style, loc, Here) /\ hpc \in Before /\ style.stream
               /\ hpc # "call" => ~loc.committed
    BY <1>7, <2>2 DEF DeliveryInv, Known, Streaming
  <2>3. ASSUME hpc # "return"
        PROVE  (e.acts => loc.committed) /\ loc'.committed = loc.committed
    BY <1>1, <2>2, <2>3, LaterTrack DEF e
  <2>4. ASSUME origin' # {}, hpc # "return"
        PROVE  hpc = "call" /\ style.stream /\ loc'.committed
    BY <1>5, <2>2, <2>3, <2>4 DEF DeliveryInv, Answered
  <2> QED
    BY <1>2, <2>1, <2>4 DEF Answered
<1> QED
  BY <1>2, <1>6, <1>8, <1>9, <1>10 DEF DeliveryInv, Known, Holds, Logs

(* A heartbeat, and a client that goes, change nothing the handler counts. *)
LEMMA HeartbeatInv ==
  ASSUME DeliveryInv, Heartbeat
  PROVE  DeliveryInv'
<1> DEFINE e == Ev(IF style.proto = "claude" THEN "ping" ELSE "comment", 0, FALSE)
<1>1. e.k \in {"ping", "comment"} /\ e.acts = FALSE
  BY DEF Ev
<1>2. Receive(e) /\ UNCHANGED <<style, hpc, loc, try, held, left, logged>>
  BY DEF Heartbeat
<1> HIDE DEF e
<1>3. Here' = Here /\ origin' = origin
  BY <1>1, <1>2, ReceiveComment
<1> QED
  BY <1>2, <1>3, Stands

LEMMA HereKept == UNCHANGED wire => Here' = Here
BY DEF wire, Here

LEMMA OneEvent ==
  ASSUME NEW e \in EventType
  PROVE  Append(<<>>, e) \in Seq(EventType) /\ Len(Append(<<>>, e)) = 1 /\ Append(<<>>, e)[1] = e
<1>1. <<>> \in Seq(EventType) /\ Len(<<>>) = 0
  OBVIOUS
<1> QED
  BY <1>1

LEMMA HandlerStartsInv ==
  ASSUME DeliveryInv, HandlerStarts
  PROVE  DeliveryInv'
<1> DEFINE e == Ev("start", 0, FALSE)
<1>1. /\ hpc = "idle" /\ hpc' = "select" /\ UNCHANGED <<style, try, held, left, logged, origin>>
      /\ Here' = Here
  BY HereKept DEF HandlerStarts
<1>2. loc' = IF style.stream THEN Push(loc, e) ELSE loc
  BY DEF HandlerStarts, ensureMessageStart, writeKeepalive, responseCreated, Send, Push, DeliveryInv, Known
<1>3. loc = NewLocals(0) /\ Here = Start
  BY <1>1 DEF DeliveryInv, Silent
<1>4. e \in EventType /\ e.k = "start" /\ e.i = 0 /\ e.acts = FALSE
  <2>1. 0 \in Int
    OBVIOUS
  <2> QED
    BY <2>1, EvType, KindsType, Zenon
<1> HIDE DEF e
<1>5. ASSUME style.stream
      PROVE  Track(style, Push(loc, e), Start) /\ ~Push(loc, e).committed /\ Push(loc, e).active = NoBlock
  <2> DEFINE l == NewLocals(0)
             m == Push(l, e)
  <2>1. /\ l \in Locals /\ DOMAIN l.tools = {} /\ l.out = <<>> /\ l.active = NoBlock /\ l.kind = ""
        /\ l.next = 0 /\ l.committed = FALSE
    BY NewLocalsType DEF NewLocals
  <2> HIDE DEF l
  <2>2. /\ m \in Locals /\ m.out = Append(l.out, e) /\ m.active = NoBlock /\ m.kind = ""
        /\ m.tools = l.tools /\ m.next = 0 /\ m.committed = FALSE
    BY <1>4, <2>1, PushType
  <2> HIDE DEF m
  <2>3. Blocks(m) = {}
    BY <2>1, <2>2 DEF Blocks, ToolBlocks
  <2>4. End(style, m) = Bare(0)
    BY <2>2, <2>3 DEF End, Bare
  <2>5. After(Start, e) = Bare(0) /\ Allowed(Start, e) /\ Start \in Position
    BY <1>4 DEF After, Start, Bare, Allowed, Ends, Position
  <2>6. Path(Start, <<>>, Start)
    BY <2>5, PathEmpty
  <2>7. Path(Start, Append(<<>>, e), Bare(0))
    <3>1. <<>> \in Seq(EventType)
      OBVIOUS
    <3> QED
      BY <1>4, <2>5, <2>6, <3>1, PathAppend
  <2>8. Counted(m)
    <3>1. m.out = Append(<<>>, e) /\ Len(m.out) = 1 /\ m.out[1] = e
      BY <1>4, <2>1, <2>2, OneEvent
    <3>2. \A j \in 1 .. Len(m.out) : j = 1
      BY <3>1
    <3> QED
      BY <1>4, <3>1, <3>2 DEF Counted
  <2>9. Numbered(m)
    BY <2>1, <2>2, NoBlockIsNone DEF Numbered, Below, Apart
  <2>10. Shape(style, m)
    BY <2>1, <2>2, <2>9 DEF Shape
  <2>11. Fresh(style, m)
    BY <2>1, <2>2 DEF Fresh
  <2>12. Track(style, m, Start)
    BY <2>1, <2>2, <2>4, <2>7, <2>8, <2>10, <2>11 DEF Track
  <2>13. m = Push(loc, e)
    BY <1>3 DEF m, l
  <2> QED
    BY <2>2, <2>12, <2>13
<1>6. Streaming'
  BY <1>1, <1>2, <1>3, <1>5 DEF Streaming
<1>7. Silent'
  BY <1>1, <1>2, <1>3 DEF Silent, DeliveryInv, Known
<1>8. Known' /\ Returning' /\ Answered' /\ Holds' /\ Logs'
  BY <1>1 DEF DeliveryInv, Known, Before, Returning, Answered, Holds, Logs
<1> QED
  BY <1>6, <1>7, <1>8 DEF DeliveryInv

(* An account is taken: nothing was sent that could be taken back. *)
LEMMA AcquireInv ==
  ASSUME DeliveryInv, acquireNextAccountForRequest
  PROVE  DeliveryInv'
<1>1. /\ hpc = "select" /\ hpc' = "token" /\ loc.out = <<>>
      /\ try' = [acct |-> try.acct + 1, retry |-> 0, fed |-> 0]
      /\ held' = [held EXCEPT !.guard = TRUE]
      /\ UNCHANGED <<style, loc, left, logged, origin>> /\ Here' = Here
  BY HereKept DEF acquireNextAccountForRequest, Quiet
<1>2. origin = {}
  BY <1>1 DEF DeliveryInv, Answered
<1>3. held' = [guard |-> TRUE, reserved |-> FALSE]
  <2>1. held = Nothing
    BY <1>1 DEF DeliveryInv, Holds
  <2> DEFINE m == [Nothing EXCEPT !.guard = TRUE]
  <2>2. m \in [guard : BOOLEAN, reserved : BOOLEAN] /\ m.guard = TRUE /\ m.reserved = FALSE
    BY DEF Nothing
  <2>3. held' = m
    BY <1>1, <2>1
  <2> HIDE DEF m
  <2>4. m = [guard |-> TRUE, reserved |-> FALSE]
    BY <2>2
  <2> QED
    BY <2>3, <2>4
<1>4. Known'
  BY <1>1 DEF DeliveryInv, Known, Before
<1>5. Streaming'
  BY <1>1 DEF DeliveryInv, Streaming, Before
<1>6. Silent'
  BY <1>1 DEF DeliveryInv, Silent, Before
<1>7. Returning' /\ Holds' /\ Logs'
  BY <1>1, <1>3 DEF DeliveryInv, Returning, Holds, Logs
<1>8. Answered'
  BY <1>1, <1>2 DEF Answered
<1> QED
  BY <1>4, <1>5, <1>6, <1>7, <1>8 DEF DeliveryInv

LEMMA TokenFailsInv ==
  ASSUME DeliveryInv, TokenFails
  PROVE  DeliveryInv'
<1>1. /\ hpc = "token" /\ hpc' = "select" /\ held' = [held EXCEPT !.guard = FALSE]
      /\ UNCHANGED <<style, loc, try, left, logged, origin>> /\ Here' = Here
  BY HereKept DEF TokenFails
<1>2. held' = Nothing
  <2>1. held = [guard |-> TRUE, reserved |-> FALSE]
    BY <1>1 DEF DeliveryInv, Holds
  <2> QED
    BY <1>1, <2>1 DEF Nothing
<1>3. Known' /\ Streaming'
  BY <1>1 DEF DeliveryInv, Known, Streaming, Before
<1>4. Silent'
  BY <1>1 DEF DeliveryInv, Silent, Before
<1>5. Returning' /\ Holds' /\ Logs'
  BY <1>1, <1>2 DEF DeliveryInv, Returning, Holds, Logs
<1>6. Answered'
  BY <1>1 DEF DeliveryInv, Answered
<1> QED
  BY <1>3, <1>4, <1>5, <1>6 DEF DeliveryInv

(* The declarations of an attempt agree with what the client has got. *)
LEMMA BareTrack ==
  ASSUME NEW p, NEW l, Track(style, l, p), l.out = <<>>, ~l.committed, l.active = NoBlock,
         DeliveryInv
  PROVE  /\ p = Bare(l.next) /\ l.next \in Nat
         /\ style.proto = "claude" \/ l.next = 0
<1>1. l \in Locals /\ l.out \in Seq(EventType) /\ Path(p, l.out, End(style, l)) /\ l.next \in Nat
  BY LocalsType DEF Track
<1>2. p = End(style, l)
  BY <1>1, PathEnds
<1>3. DOMAIN l.tools = {} /\ (style.proto # "claude" => l.next = 0)
  BY DEF Track, Fresh
<1>4. Blocks(l) = {}
  BY <1>3 DEF Blocks, ToolBlocks
<1> QED
  BY <1>1, <1>2, <1>3, <1>4 DEF End, Bare

LEMMA BareNew ==
  ASSUME NEW p, NEW l, Track(style, l, p), l.out = <<>>, ~l.committed, l.active = NoBlock, DeliveryInv
  PROVE  /\ Track(style, NewLocals(l.next), p)
         /\ style.proto # "claude" => Track(style, NewLocals(0), p)
<1>1. p = Bare(l.next) /\ l.next \in Nat /\ (style.proto = "claude" \/ l.next = 0)
  BY BareTrack
<1>2. Track(style, NewLocals(l.next), Bare(l.next))
  BY <1>1, NewTrack
<1> QED
  BY <1>1, <1>2

LEMMA NewLocalsFields ==
  ASSUME NEW n \in Nat
  PROVE  /\ NewLocals(n) \in Locals /\ DOMAIN NewLocals(n).tools = {} /\ NewLocals(n).out = <<>>
         /\ NewLocals(n).active = NoBlock /\ NewLocals(n).kind = ""
         /\ NewLocals(n).next = n /\ NewLocals(n).committed = FALSE
BY NewLocalsType DEF NewLocals

LEMMA AttemptStartsInv ==
  ASSUME DeliveryInv, AttemptStarts
  PROVE  DeliveryInv'
<1>1. /\ hpc = "token" /\ hpc' = "call"
      /\ UNCHANGED <<style, try, left, logged, origin>> /\ Here' = Here
  BY HereKept DEF AttemptStarts
<1>2. loc' = IF style.proto = "claude" THEN NewLocals(loc.next) ELSE NewLocals(0)
  BY DEF AttemptStarts, claudeLocals, openAILocals, responsesLocals
<1>3. ASSUME style.stream PROVE Track(style, loc', Here)
  <2>1. Track(style, loc, Here) /\ loc.out = <<>> /\ ~loc.committed /\ loc.active = NoBlock
    BY <1>1, <1>3 DEF DeliveryInv, Streaming, Before
  <2>2. /\ Track(style, NewLocals(loc.next), Here)
        /\ style.proto # "claude" => Track(style, NewLocals(0), Here)
    BY <2>1, BareNew
  <2> QED
    BY <1>2, <2>2
<1>4. ASSUME ~style.stream PROVE loc' = NewLocals(0) /\ Here = Start
  <2>1. loc = NewLocals(0) /\ Here = Start
    BY <1>1, <1>4 DEF DeliveryInv, Silent, Before
  <2> QED
    BY <1>2, <2>1, NewLocalsFields
<1>5. Streaming'
  BY <1>1, <1>3 DEF Streaming
<1>6. Silent'
  BY <1>1, <1>4 DEF Silent
<1>7. Answered'
  BY <1>1 DEF DeliveryInv, Answered
<1>8. Known' /\ Returning' /\ Holds' /\ Logs'
  BY <1>1 DEF DeliveryInv, Known, Before, Returning, Holds, Logs
<1> QED
  BY <1>5, <1>6, <1>7, <1>8 DEF DeliveryInv

(* A callback of a call. *)
LEMMA CallsInv ==
  ASSUME DeliveryInv, NEW l, Calls(l), style.stream => Kept(loc, l, Here)
  PROVE  DeliveryInv'
<1>1. /\ hpc = "call" /\ UNCHANGED <<style, hpc, held, left, logged, origin>> /\ Here' = Here
      /\ try' = [try EXCEPT !.fed = @ + 1]
  BY HereKept DEF Calls
<1>2. loc' = IF style.stream THEN l ELSE loc
  BY DEF Calls, claudeCollects, openAICollects, responsesCollects, DeliveryInv, Known
<1>3. /\ try' \in [acct : Nat, retry : Nat, fed : Nat]
      /\ try'.acct = try.acct /\ try'.retry = try.retry
  BY <1>1 DEF DeliveryInv, Known
<1>4. Streaming'
  BY <1>1, <1>2 DEF Streaming, Kept
<1>5. Silent'
  BY <1>1, <1>2 DEF DeliveryInv, Silent
<1>6. Answered'
  <2>1. origin # {} => style.stream /\ loc.committed
    BY <1>1 DEF DeliveryInv, Answered
  <2>2. origin # {} => style.stream /\ loc'.committed
    BY <1>2, <2>1 DEF Kept
  <2>3. origin \subseteq {<<try.acct, try.retry>>}
    BY DEF DeliveryInv, Answered
  <2> QED
    BY <1>1, <1>3, <2>2, <2>3 DEF Answered
<1>7. Known' /\ Returning' /\ Holds' /\ Logs'
  BY <1>1, <1>3 DEF DeliveryInv, Known, Returning, Holds, Logs
<1> QED
  BY <1>4, <1>5, <1>6, <1>7 DEF DeliveryInv

(* The attempt starts again: what was open is closed, and counts go on. *)
LEMMA ResetClaudeTrack ==
  ASSUME NEW p, NEW l, Claudes, Track(style, l, p), ~l.committed
  PROVE  Track(style, resetClaude(l), p)
<1> DEFINE c == closeActiveBlock(l)
           n == NewLocals(c.next)
           m == [n EXCEPT !.out = c.out]
<1>1. Track(style, c, p) /\ c.active = NoBlock /\ c.kind = "" /\ ~c.committed
  BY CloseTrack
<1>2. resetClaude(l) = m
  BY DEF resetClaude
<1> HIDE DEF c
<1>3. c \in Locals /\ c.next \in Nat /\ c.out \in Seq(EventType) /\ DOMAIN c.tools = {}
  BY <1>1, LocalsType DEF Track, Fresh
<1>4. /\ n \in Locals /\ DOMAIN n.tools = {} /\ n.active = NoBlock /\ n.kind = ""
      /\ n.next = c.next /\ n.committed = FALSE
  BY <1>3, NewLocalsFields
<1> HIDE DEF n
<1>5. /\ m \in Locals /\ DOMAIN m.tools = {} /\ m.active = NoBlock /\ m.kind = ""
      /\ m.next = c.next /\ m.committed = FALSE /\ m.out = c.out
  BY <1>3, <1>4 DEF Locals
<1> HIDE DEF m
<1>6. Blocks(m) = {} /\ Blocks(c) = {}
  BY <1>1, <1>3, <1>5 DEF Blocks, ToolBlocks
<1>7. End(style, m) = End(style, c)
  BY <1>1, <1>5, <1>6 DEF End
<1>8. Numbered(m)
  BY <1>3, <1>5, NoBlockIsNone DEF Numbered, Below, Apart
<1>9. Shape(style, m) /\ Fresh(style, m)
  BY <1>5, <1>8 DEF Shape, Fresh, Claudes
<1>10. Counted(m)
  BY <1>1, <1>5 DEF Counted, Track
<1> QED
  BY <1>1, <1>2, <1>5, <1>7, <1>9, <1>10 DEF Track

LEMMA SameRecord == ASSUME NEW l \in Locals, l.out = <<>> PROVE [l EXCEPT !.out = <<>>] = l
BY DEF Locals

Tries == [acct : Nat, retry : Nat, fed : Nat]
LEMMA TriedAgain == ASSUME NEW t \in Tries PROVE [t EXCEPT !.retry = @ + 1, !.fed = 0] \in Tries
<1> DEFINE u == [t EXCEPT !.retry = @ + 1]
<1>1. u \in Tries /\ [t EXCEPT !.retry = @ + 1, !.fed = 0] = [u EXCEPT !.fed = 0]
  BY DEF Tries
<1> HIDE DEF u
<1> QED
  BY <1>1 DEF Tries

LEMMA StreamCutInv ==
  ASSUME DeliveryInv, StreamCut
  PROVE  DeliveryInv'
<1>1. /\ hpc = "call" /\ loc.out = <<>> /\ (style.stream => ~loc.committed) /\ loc' = resetAttempt(loc)
      /\ try' = [try EXCEPT !.retry = @ + 1, !.fed = 0]
      /\ UNCHANGED <<style, hpc, held, left, logged, origin>> /\ Here' = Here
  BY HereKept DEF StreamCut, Quiet, CanRetry
<1>2. try' \in [acct : Nat, retry : Nat, fed : Nat]
  BY <1>1, TriedAgain DEF DeliveryInv, Known, Tries
<1>3. origin = {}
  BY <1>1 DEF DeliveryInv, Answered
<1>4. ASSUME style.stream PROVE Track(style, loc', Here)
  <2>1. Track(style, loc, Here) /\ loc.out = <<>> /\ ~loc.committed
    BY <1>1, <1>4 DEF DeliveryInv, Streaming, Before
  <2>2. CASE style.proto = "claude"
    <3>1. Track(style, resetClaude(loc), Here)
      BY <2>1, <2>2, ResetClaudeTrack DEF Claudes
    <3> QED
      BY <1>1, <2>2, <3>1 DEF resetAttempt
  <2>3. CASE style.proto # "claude"
    <3>1. loc.active = NoBlock
      BY <2>1, <2>3 DEF Track, Fresh
    <3>2. Track(style, NewLocals(0), Here)
      BY <2>1, <2>3, <3>1, BareNew
    <3> QED
      BY <1>1, <2>3, <3>2 DEF resetAttempt, resetOpenAI, resetResponses
  <2> QED
    BY <2>2, <2>3
<1>5. ASSUME ~style.stream PROVE loc' = NewLocals(0) /\ Here = Start
  <2>1. loc = NewLocals(0) /\ Here = Start
    BY <1>1, <1>5 DEF DeliveryInv, Silent, Before
  <2> DEFINE n == NewLocals(0)
  <2>2. n \in Locals /\ n.out = <<>> /\ n.active = NoBlock /\ n.next = 0
    BY NewLocalsFields
  <2> HIDE DEF n
  <2>3. closeActiveBlock(n) = n
    BY <2>2 DEF closeActiveBlock
  <2>4. resetClaude(n) = [NewLocals(0) EXCEPT !.out = <<>>]
    BY <2>2, <2>3 DEF resetClaude
  <2>5. resetClaude(n) = n
    BY <2>2, <2>4, SameRecord DEF n
  <2> QED
    BY <1>1, <2>1, <2>5 DEF resetAttempt, resetOpenAI, resetResponses, n
<1>6. Streaming'
  BY <1>1, <1>4 DEF Streaming
<1>7. Silent'
  BY <1>1, <1>5 DEF Silent
<1>8. Answered'
  BY <1>1, <1>3 DEF Answered
<1>9. Known' /\ Returning' /\ Holds' /\ Logs'
  BY <1>1, <1>2 DEF DeliveryInv, Known, Returning, Holds, Logs
<1> QED
  BY <1>6, <1>7, <1>8, <1>9 DEF DeliveryInv

-----------------------------------------------------------------------------
(* The end of a call, and of a request. *)
LEMMA FailedOver ==
  ASSUME DeliveryInv, NEW l, NEW final, Failed(l, final, TRUE), Over(l, Here)
  PROVE  DeliveryInv'
<1>1. /\ hpc = "call" /\ hpc' = "return" /\ held' = Nothing /\ loc' = l /\ logged' = logged + 1
      /\ UNCHANGED <<style, try, left, origin>> /\ Here' = Here
  BY HereKept DEF Failed
<1>2. logged' = 1
  BY <1>1 DEF DeliveryInv, Logs
<1>3. Returning'
  BY <1>1 DEF Returning
<1>4. Known' /\ Streaming' /\ Silent' /\ Holds' /\ Logs'
  BY <1>1, <1>2 DEF DeliveryInv, Known, Streaming, Silent, Holds, Logs, Before
<1>5. Answered'
  BY <1>1 DEF DeliveryInv, Answered
<1> QED
  BY <1>3, <1>4, <1>5 DEF DeliveryInv

LEMMA FailedAgain ==
  ASSUME DeliveryInv, NEW l, NEW final, Failed(l, final, FALSE),
         style.stream => ~loc.committed /\ Track(style, l, Here) /\ ~l.committed /\ l.active = NoBlock,
         ~style.stream => l = loc
  PROVE  DeliveryInv'
<1>1. /\ hpc = "call" /\ hpc' \in {"select", "exhausted"} /\ held' = Nothing /\ loc' = l
      /\ UNCHANGED <<style, try, left, logged, origin>> /\ Here' = Here
  BY HereKept DEF Failed
<1>2. origin = {}
  BY <1>1 DEF DeliveryInv, Answered
<1>3. Streaming'
  BY <1>1 DEF Streaming
<1>4. Silent'
  BY <1>1 DEF DeliveryInv, Silent, Before
<1>5. Known' /\ Returning' /\ Holds' /\ Logs'
  BY <1>1 DEF DeliveryInv, Known, Returning, Holds, Logs, Before
<1>6. Answered'
  BY <1>1, <1>2 DEF Answered
<1> QED
  BY <1>3, <1>4, <1>5, <1>6 DEF DeliveryInv

(* What a stream knows of its locals during a call. *)
LEMMA CallTracks ==
  ASSUME DeliveryInv, hpc = "call", style.stream
  PROVE  /\ Track(style, loc, Here)
         /\ ~loc.committed /\ style.proto # "claude" => loc.active = NoBlock
BY DEF DeliveryInv, Streaming, Before, Track, Fresh

LEMMA FailsInv ==
  ASSUME DeliveryInv, NEW final,
         \/ ClaudeStreamFails(final) \/ OpenAIStreamFails(final) \/ ResponsesStreamFails(final)
         \/ ClaudeNonStreamFails(final) \/ OpenAINonStreamFails(final) \/ ResponsesNonStreamFails(final)
  PROVE  DeliveryInv'
<1> DEFINE f == Send(loc, "fail", 0, FALSE)
           c == closeActiveBlock(EndReasoning(loc, sendText))
<1>1. hpc = "call"
  BY DEF ClaudeStreamFails, OpenAIStreamFails, ResponsesStreamFails,
         ClaudeNonStreamFails, OpenAINonStreamFails, ResponsesNonStreamFails, Failed
<1>2. ASSUME style.stream PROVE Over(f, Here)
  BY <1>1, <1>2, CallTracks, FailOver
<1>3. ASSUME style.stream, style.proto = "claude"
      PROVE  Track(style, c, Here) /\ c.active = NoBlock /\ c.committed = loc.committed
  BY <1>1, <1>3, CallTracks, ClaudeEnd DEF Claudes
<1>4. \/ style.stream /\ Failed(f, final, TRUE)
      \/ style.stream /\ style.proto = "claude" /\ ~loc.committed /\ Failed(c, final, FALSE)
      \/ style.stream /\ style.proto # "claude" /\ ~loc.committed /\ Failed(loc, final, FALSE)
      \/ ~style.stream /\ Failed(loc, final, FALSE)
  <2>1. CASE ClaudeStreamFails(final)
    BY <2>1 DEF ClaudeStreamFails, Handles, sendStreamError
  <2>2. CASE OpenAIStreamFails(final)
    BY <2>2 DEF OpenAIStreamFails, Handles, sendOpenAIStreamError
  <2>3. CASE ResponsesStreamFails(final)
    BY <2>3 DEF ResponsesStreamFails, Handles, sendFailure
  <2>4. CASE ClaudeNonStreamFails(final) \/ OpenAINonStreamFails(final) \/ ResponsesNonStreamFails(final)
    BY <2>4 DEF ClaudeNonStreamFails, OpenAINonStreamFails, ResponsesNonStreamFails, Handles
  <2> QED
    BY <2>1, <2>2, <2>3, <2>4
<1> HIDE DEF f, c
<1>5. CASE style.stream /\ Failed(f, final, TRUE)
  BY <1>2, <1>5, FailedOver
<1>6. CASE style.stream /\ style.proto = "claude" /\ ~loc.committed /\ Failed(c, final, FALSE)
  BY <1>3, <1>6, FailedAgain
<1>7. CASE style.stream /\ style.proto # "claude" /\ ~loc.committed /\ Failed(loc, final, FALSE)
  BY <1>1, <1>7, CallTracks, FailedAgain
<1>8. CASE ~style.stream /\ Failed(loc, final, FALSE)
  BY <1>8, FailedAgain
<1> QED
  BY <1>4, <1>5, <1>6, <1>7, <1>8

(* A buffered handler writes one answer, or finds that the client has gone. *)
LEMMA AnswerOver ==
  ASSUME NEW e \in EventType, e.k \in {"answer", "gone"}, e.i = 0
  PROVE  Over(Push(NewLocals(0), e), Start)
<1> DEFINE l == NewLocals(0)
           q == After(Start, e)
<1>1. l \in Locals /\ l.out = <<>>
  <2>1. 0 \in Nat
    OBVIOUS
  <2> QED
    BY <2>1, NewLocalsFields, Zenon
<1> HIDE DEF l
<1>2. Allowed(Start, e) /\ Start \in Position
  BY DEF Start, Allowed, Position
<1>3. Path(Start, <<>>, Start)
  BY <1>2, PathEmpty
<1>4. Path(Start, Append(<<>>, e), q)
  <2>1. <<>> \in Seq(EventType)
    OBVIOUS
  <2> QED
    BY <1>2, <1>3, <2>1, PathAppend
<1>5. q \in Position
  BY <1>4, OneEvent, PathEnds
<1>6. q.phase = "done"
  BY DEF After, Ends
<1> HIDE DEF q
<1>7. Push(l, e) \in Locals /\ Push(l, e).out = Append(<<>>, e)
  BY <1>1, PushType
<1>8. Over(Push(l, e), Start)
  BY <1>4, <1>5, <1>6, <1>7 DEF Over
<1> QED
  BY <1>8 DEF l

LEMMA BufferedOver ==
  /\ Over(Send(NewLocals(0), "gone", 0, FALSE), Start)
  /\ Over(Send(NewLocals(0), "answer", 0, FALSE), Start)
  /\ Over(Send(NewLocals(0), "answer", 0, TRUE), Start)
<1> DEFINE l == NewLocals(0)
<1>1. /\ Over(Push(l, Ev("gone", 0, FALSE)), Start)
      /\ Over(Push(l, Ev("answer", 0, FALSE)), Start)
      /\ Over(Push(l, Ev("answer", 0, TRUE)), Start)
  <2> DEFINE a == Ev("gone", 0, FALSE)
             b == Ev("answer", 0, FALSE)
             c == Ev("answer", 0, TRUE)
  <2>1. 0 \in Int
    OBVIOUS
  <2>2. a \in EventType /\ a.k = "gone" /\ a.i = 0
    BY <2>1, EvType, KindsType, Zenon
  <2>3. b \in EventType /\ b.k = "answer" /\ b.i = 0
    BY <2>1, EvType, KindsType, Zenon
  <2>4. c \in EventType /\ c.k = "answer" /\ c.i = 0
    BY <2>1, EvType, KindsType, Zenon
  <2> HIDE DEF a, b, c
  <2>5. Over(Push(l, a), Start) /\ Over(Push(l, b), Start) /\ Over(Push(l, c), Start)
    BY <2>2, <2>3, <2>4, AnswerOver
  <2> QED
    BY <2>5 DEF a, b, c
<1>2. /\ Send(l, "gone", 0, FALSE) = Push(l, Ev("gone", 0, FALSE))
      /\ Send(l, "answer", 0, FALSE) = Push(l, Ev("answer", 0, FALSE))
      /\ Send(l, "answer", 0, TRUE) = Push(l, Ev("answer", 0, TRUE))
  BY DEF Send, Push
<1> HIDE DEF l
<1>3. /\ Over(Send(l, "gone", 0, FALSE), Start)
      /\ Over(Send(l, "answer", 0, FALSE), Start)
      /\ Over(Send(l, "answer", 0, TRUE), Start)
  BY <1>1, <1>2, Zenon
<1> QED
  BY <1>3 DEF l

(* The handler returns: the response is over, and the request is logged. *)
LEMMA ReturnsInv ==
  ASSUME DeliveryInv, hpc \in Before, hpc' = "return", held' = Nothing, logged' = logged + 1,
         UNCHANGED <<style, try, origin>>, Here' = Here, Over(loc', Here)
  PROVE  DeliveryInv'
<1>1. logged' = 1
  BY DEF DeliveryInv, Logs, Before
<1>2. Returning'
  BY DEF Returning
<1>3. Known' /\ Streaming' /\ Silent' /\ Holds' /\ Logs'
  BY <1>1 DEF DeliveryInv, Known, Streaming, Silent, Holds, Logs, Before
<1>4. Answered'
  BY DEF DeliveryInv, Answered
<1> QED
  BY <1>2, <1>3, <1>4 DEF DeliveryInv

LEMMA SucceededInv ==
  ASSUME DeliveryInv, NEW l, Succeeded(l), Over(l, Here)
  PROVE  DeliveryInv'
<1>1. /\ hpc = "call" /\ hpc' = "return" /\ held' = Nothing /\ loc' = l /\ logged' = logged + 1
      /\ UNCHANGED <<style, try, origin>> /\ Here' = Here
  BY HereKept DEF Succeeded
<1> QED
  BY <1>1, ReturnsInv DEF Before

LEMMA ClaudeSucceedsInv ==
  ASSUME DeliveryInv, ClaudeStreamSucceeds
  PROVE  DeliveryInv'
<1> DEFINE b == processClaudeText(loc, "flush")
           c == closeActiveBlock(EndReasoning(b, sendText))
<1>1. style.stream /\ style.proto = "claude" /\ Succeeded(Send(c, "finish", 0, FALSE))
  BY DEF ClaudeStreamSucceeds, Handles
<1>2. hpc = "call" /\ DOMAIN loc.tools = {}
  BY <1>1 DEF Succeeded
<1>3. Steps(loc, b, Here)
  BY <1>1, <1>2, CallTracks, ClaudeTextStep DEF Claudes
<1> HIDE DEF b
<1>4. Track(style, c, Here) /\ c.active = NoBlock /\ c.tools = b.tools
  BY <1>1, <1>3, ClaudeEnd DEF Steps, Claudes
<1> HIDE DEF c
<1>5. Over(Send(c, "finish", 0, FALSE), Here)
  BY <1>2, <1>3, <1>4, FinishOver DEF Steps
<1> QED
  BY <1>1, <1>5, SucceededInv

LEMMA OpenAISucceedsInv ==
  ASSUME DeliveryInv, OpenAIStreamSucceeds
  PROVE  DeliveryInv'
<1> DEFINE b == processText(loc, "flush")
           c == EndReasoning(b, sendChunk)
<1>1. style.stream /\ style.proto = "chat" /\ Succeeded(Send(c, "finish", 0, FALSE))
  BY DEF OpenAIStreamSucceeds, Handles
<1>2. hpc = "call" /\ DOMAIN loc.tools = {}
  BY <1>1 DEF Succeeded
<1>3. Steps(loc, b, Here)
  BY <1>1, <1>2, CallTracks, ChatTextStep DEF Chats
<1> HIDE DEF b
<1>4. Steps(b, c, Here)
  BY <1>1, <1>3, ChatEndReasoningStep DEF Steps, Chats
<1> HIDE DEF c
<1>5. c.active = NoBlock
  BY <1>1, <1>4 DEF Steps, Track, Shape
<1>6. Over(Send(c, "finish", 0, FALSE), Here)
  BY <1>2, <1>3, <1>4, <1>5, FinishOver DEF Steps
<1> QED
  BY <1>1, <1>6, SucceededInv

LEMMA ResponsesSucceedsInv ==
  ASSUME DeliveryInv, ResponsesStreamSucceeds
  PROVE  DeliveryInv'
<1> DEFINE b == feed(loc, "flush")
           c == finishMessage(finishReasoning(b))
<1>1. style.stream /\ style.proto = "responses" /\ Succeeded(Send(c, "finish", 0, FALSE))
  BY DEF ResponsesStreamSucceeds, Handles
<1>2. hpc = "call" /\ DOMAIN loc.tools = {}
  BY <1>1 DEF Succeeded
<1>3. Steps(loc, b, Here)
  BY <1>1, <1>2, CallTracks, FeedStep DEF Items
<1> HIDE DEF b
<1>4. Steps(b, c, Here) /\ c.active = NoBlock
  BY <1>1, <1>3, AllFinished DEF Steps, Items
<1> HIDE DEF c
<1>5. Over(Send(c, "finish", 0, FALSE), Here)
  BY <1>2, <1>3, <1>4, FinishOver DEF Steps
<1> QED
  BY <1>1, <1>5, SucceededInv

LEMMA BufferedSucceedsInv ==
  ASSUME DeliveryInv,
         ClaudeNonStreamSucceeds \/ OpenAINonStreamSucceeds \/ ResponsesNonStreamSucceeds
  PROVE  DeliveryInv'
<1>1. ~style.stream /\ Succeeded(writeJSONWithDelivery(loc))
  BY DEF ClaudeNonStreamSucceeds, OpenAINonStreamSucceeds, ResponsesNonStreamSucceeds, Handles
<1>2. hpc = "call"
  BY <1>1 DEF Succeeded
<1>3. loc = NewLocals(0) /\ Here = Start
  BY <1>1, <1>2 DEF DeliveryInv, Silent, Before
<1>4. Over(writeJSONWithDelivery(loc), Here)
  <2>1. CASE left
    <3>1. (~left) = FALSE /\ (IF left THEN "gone" ELSE "answer") = "gone"
      BY <2>1
    <3>2. writeJSONWithDelivery(loc) = Send(loc, "gone", 0, FALSE)
      BY <3>1, Zenon DEF writeJSONWithDelivery
    <3> QED
      BY <1>3, <3>2, BufferedOver, Zenon
  <2>2. CASE ~left
    <3>1. (~left) = TRUE /\ (IF left THEN "gone" ELSE "answer") = "answer"
      BY <2>2
    <3>2. writeJSONWithDelivery(loc) = Send(loc, "answer", 0, TRUE)
      BY <3>1, Zenon DEF writeJSONWithDelivery
    <3> QED
      BY <1>3, <3>2, BufferedOver, Zenon
  <2> QED
    BY <2>1, <2>2
<1> QED
  BY <1>1, <1>4, SucceededInv, Zenon

LEMMA GaveUpInv ==
  ASSUME DeliveryInv, NEW l, GaveUp(l), Over(l, Here), Over(Send(loc, "gone", 0, FALSE), Here)
  PROVE  DeliveryInv'
<1>1. /\ hpc \in {"select", "exhausted"} /\ hpc' = "return" /\ logged' = logged + 1
      /\ UNCHANGED <<style, try, held, origin>> /\ Here' = Here
      /\ loc' = IF left THEN Send(loc, "gone", 0, FALSE) ELSE l
  BY HereKept DEF GaveUp
<1>2. held' = Nothing /\ hpc \in Before
  BY <1>1 DEF DeliveryInv, Holds, Before
<1>3. Over(loc', Here)
  BY <1>1
<1> QED
  BY <1>1, <1>2, <1>3, ReturnsInv

LEMMA GivesUpInv ==
  ASSUME DeliveryInv,
         \/ ClaudeStreamGivesUp \/ OpenAIStreamGivesUp \/ ResponsesStreamGivesUp
         \/ ClaudeNonStreamGivesUp \/ OpenAINonStreamGivesUp \/ ResponsesNonStreamGivesUp
  PROVE  DeliveryInv'
<1>1. \/ style.stream /\ GaveUp(Send(loc, "fail", 0, FALSE))
      \/ ~style.stream /\ GaveUp(Send(loc, "answer", 0, FALSE))
  BY DEF ClaudeStreamGivesUp, OpenAIStreamGivesUp, ResponsesStreamGivesUp, ClaudeNonStreamGivesUp,
         OpenAINonStreamGivesUp, ResponsesNonStreamGivesUp, Handles, ErrorAnswer,
         sendStreamError, sendOpenAIStreamError, sendFailure
<1>2. hpc \in {"select", "exhausted"}
  BY <1>1 DEF GaveUp
<1>3. CASE style.stream /\ GaveUp(Send(loc, "fail", 0, FALSE))
  <2>1. Track(style, loc, Here)
    BY <1>2, <1>3 DEF DeliveryInv, Streaming, Before
  <2>2. Over(Send(loc, "fail", 0, FALSE), Here) /\ Over(Send(loc, "gone", 0, FALSE), Here)
    BY <2>1, FailOver
  <2> QED
    BY <1>3, <2>2, GaveUpInv
<1>4. CASE ~style.stream /\ GaveUp(Send(loc, "answer", 0, FALSE))
  <2>1. loc = NewLocals(0) /\ Here = Start
    BY <1>2, <1>4 DEF DeliveryInv, Silent, Before
  <2>2. Over(Send(loc, "answer", 0, FALSE), Here) /\ Over(Send(loc, "gone", 0, FALSE), Here)
    BY <2>1, BufferedOver, Zenon
  <2> QED
    BY <1>4, <2>2, GaveUpInv
<1> QED
  BY <1>1, <1>3, <1>4

LEMMA HandlerReturnsInv ==
  ASSUME DeliveryInv, HandlerReturns
  PROVE  DeliveryInv'
<1>1. /\ hpc = "return" /\ hpc' = "idle" /\ loc' = NewLocals(0) /\ try' = NewTry
      /\ logged' = 0 /\ origin' = {} /\ UNCHANGED <<style, held>>
  BY DEF HandlerReturns
<1>2. Here' = Start
  BY DEF HandlerReturns, Here, Start
<1>3. Known'
  BY <1>1 DEF DeliveryInv, Known, NewTry
<1>4. Streaming' /\ Silent' /\ Returning' /\ Holds' /\ Logs'
  BY <1>1, <1>2 DEF DeliveryInv, Streaming, Silent, Returning, Holds, Logs, Before
<1>5. Answered'
  BY <1>1 DEF Answered
<1> QED
  BY <1>3, <1>4, <1>5 DEF DeliveryInv

LEMMA ClientGoesInv ==
  ASSUME DeliveryInv, ClientGoes
  PROVE  DeliveryInv'
<1>1. UNCHANGED <<style, hpc, loc, try, held, logged, origin>> /\ Here' = Here
  BY HereKept DEF ClientGoes
<1> QED
  BY <1>1, Stands

-----------------------------------------------------------------------------
(* The callbacks of a call. *)
LEMMA OnTextInv ==
  ASSUME DeliveryInv, NEW tok \in {"word", "partial", "open", "close"}, OnText(tok)
  PROVE  DeliveryInv'
<1> DEFINE a == processClaudeText(loc, tok)
           b == processText(loc, tok)
           c == feed(loc, tok)
           l == CASE style.proto = "claude" -> a [] style.proto = "chat" -> b [] OTHER -> c
<1>1. Calls(l) /\ hpc = "call"
  BY DEF OnText, Calls
<1>2. ASSUME style.stream PROVE Kept(loc, l, Here)
  <2>1. Track(style, loc, Here)
    BY <1>1, <1>2, CallTracks
  <2>2. ASSUME style.proto = "claude" PROVE Steps(loc, a, Here)
    BY <2>1, <2>2, ClaudeTextStep DEF Claudes
  <2>3. ASSUME style.proto = "chat" PROVE Steps(loc, b, Here)
    BY <2>1, <2>3, ChatTextStep DEF Chats
  <2>4. ASSUME style.proto = "responses" PROVE Steps(loc, c, Here)
    BY <2>1, <2>4, FeedStep DEF Items
  <2> HIDE DEF a, b, c
  <2> QED
    BY <2>2, <2>3, <2>4 DEF DeliveryInv, Known, Steps, Kept
<1> HIDE DEF l
<1> QED
  BY <1>1, <1>2, CallsInv

LEMMA OnReasoningInv ==
  ASSUME DeliveryInv, NEW text \in {" ", "x"}, OnReasoning(text)
  PROVE  DeliveryInv'
<1> DEFINE a == Reasoning(loc, text, sendText)
           b == Reasoning(loc, text, sendChunk)
           c == processReasoning(loc, text)
           l == CASE style.proto = "claude" -> a [] style.proto = "chat" -> b [] OTHER -> c
<1>1. Calls(l) /\ hpc = "call"
  BY DEF OnReasoning, Calls
<1>2. ASSUME style.stream PROVE Kept(loc, l, Here)
  <2>1. Track(style, loc, Here) /\ text \in Texts
    BY <1>1, <1>2, CallTracks DEF Texts
  <2>2. ASSUME style.proto = "claude" PROVE Steps(loc, a, Here)
    BY <2>1, <2>2, ClaudeReasoningStep DEF Claudes
  <2>3. ASSUME style.proto = "chat" PROVE Steps(loc, b, Here)
    BY <2>1, <2>3, ChatReasoningStep DEF Chats
  <2>4. ASSUME style.proto = "responses" PROVE Kept(loc, c, Here)
    BY <2>1, <2>4, ProcessReasoningKeeps DEF Items
  <2> HIDE DEF a, b, c
  <2> QED
    BY <2>2, <2>3, <2>4 DEF DeliveryInv, Known, Steps, Kept
<1> HIDE DEF l
<1> QED
  BY <1>1, <1>2, CallsInv

LEMMA OnToolUseInv ==
  ASSUME DeliveryInv, NEW id \in ToolIds, OnToolUse(id)
  PROVE  DeliveryInv'
<1> DEFINE a == ClaudeToolUse(loc, id)
           b == ChatToolUse(loc, id)
           c == ResponsesToolUse(loc, id)
           l == CASE style.proto = "claude" -> a [] style.proto = "chat" -> b [] OTHER -> c
<1>1. Calls(l) /\ hpc = "call"
  BY DEF OnToolUse, Calls
<1>2. ASSUME style.stream PROVE Kept(loc, l, Here)
  <2>1. Track(style, loc, Here)
    BY <1>1, <1>2, CallTracks
  <2>2. ASSUME style.proto = "claude" PROVE Kept(loc, a, Here)
    BY <2>1, <2>2, ClaudeToolUseKeeps DEF Claudes
  <2>3. ASSUME style.proto = "chat" PROVE Kept(loc, b, Here)
    BY <2>1, <2>3, ChatToolUseKeeps DEF Chats
  <2>4. ASSUME style.proto = "responses" PROVE Kept(loc, c, Here)
    BY <2>1, <2>4, ResponsesToolUseKeeps DEF Items
  <2> HIDE DEF a, b, c
  <2> QED
    BY <2>2, <2>3, <2>4 DEF DeliveryInv, Known
<1> HIDE DEF l
<1> QED
  BY <1>1, <1>2, CallsInv

LEMMA ClaudeFramesInv ==
  ASSUME DeliveryInv, NEW id \in ToolIds, OnToolFrame(id) \/ OnBufferedStart(id)
  PROVE  DeliveryInv'
<1> DEFINE s == startToolUse(loc, id)
           d == sendToolUseDelta(loc, id)
           e == stopToolUse(loc, id)
           b == onBufferedToolStart(loc, id)
<1>1. Calls(s) \/ Calls(d) \/ Calls(e) \/ Calls(b)
  BY DEF OnToolFrame, OnBufferedStart
<1>2. Claudes /\ style.stream /\ hpc = "call"
  BY DEF OnToolFrame, OnBufferedStart, Claude, Calls, Claudes
<1>3. Track(style, loc, Here)
  BY <1>2, CallTracks
<1>4. Kept(loc, s, Here) /\ Kept(loc, d, Here) /\ Kept(loc, e, Here) /\ Kept(loc, b, Here)
  BY <1>2, <1>3, StartToolKeeps, ToolDeltaKeeps, BufferedStartKeeps
<1> HIDE DEF s, d, e, b
<1> QED
  BY <1>1, <1>4, CallsInv

LEMMA OnProgressFrameInv ==
  ASSUME DeliveryInv, OnProgressFrame
  PROVE  DeliveryInv'
<1> DEFINE l == OnProgress(loc)
<1>1. Claudes /\ style.stream /\ hpc = "call" /\ Calls(l)
  BY DEF OnProgressFrame, Claude, Calls, Claudes
<1>2. Kept(loc, l, Here)
  BY <1>1, CallTracks, OnProgressStep DEF Steps, Kept
<1> HIDE DEF l
<1> QED
  BY <1>1, <1>2, CallsInv

-----------------------------------------------------------------------------
(* The steps of DeliveryNext, by what the handler is at. *)
CallActs ==
  \/ \E tok \in {"word", "partial", "open", "close"} : OnText(tok)
  \/ \E text \in {" ", "x"} : OnReasoning(text)
  \/ \E id \in ToolIds : OnToolUse(id) \/ OnToolFrame(id) \/ OnBufferedStart(id)
  \/ OnProgressFrame \/ StreamCut
TryActs == HandlerStarts \/ ClientGoes \/ acquireNextAccountForRequest \/ TokenFails \/ AttemptStarts
EndActs ==
  \/ \E final \in BOOLEAN :
       \/ ClaudeStreamFails(final) \/ OpenAIStreamFails(final) \/ ResponsesStreamFails(final)
       \/ ClaudeNonStreamFails(final) \/ OpenAINonStreamFails(final) \/ ResponsesNonStreamFails(final)
  \/ ClaudeStreamSucceeds \/ OpenAIStreamSucceeds \/ ResponsesStreamSucceeds
  \/ ClaudeNonStreamSucceeds \/ OpenAINonStreamSucceeds \/ ResponsesNonStreamSucceeds
  \/ ClaudeStreamGivesUp \/ OpenAIStreamGivesUp \/ ResponsesStreamGivesUp
  \/ ClaudeNonStreamGivesUp \/ OpenAINonStreamGivesUp \/ ResponsesNonStreamGivesUp

LEMMA NextActs == DeliveryNext <=> TryActs \/ CallActs \/ EndActs \/ Emit \/ Heartbeat \/ HandlerReturns
BY DEF DeliveryNext, TryActs, CallActs, EndActs

LEMMA NextInv == DeliveryInv /\ [DeliveryNext]_deliveryVars => DeliveryInv'
<1> SUFFICES ASSUME DeliveryInv, [DeliveryNext]_deliveryVars
             PROVE  DeliveryInv'
  OBVIOUS
<1>1. CASE TryActs
  BY <1>1, HandlerStartsInv, ClientGoesInv, AcquireInv, TokenFailsInv, AttemptStartsInv DEF TryActs
<1>2. CASE CallActs
  BY <1>2, OnTextInv, OnReasoningInv, OnToolUseInv, ClaudeFramesInv, OnProgressFrameInv, StreamCutInv
     DEF CallActs
<1>3. CASE EndActs
  BY <1>3, FailsInv, ClaudeSucceedsInv, OpenAISucceedsInv, ResponsesSucceedsInv, BufferedSucceedsInv,
     GivesUpInv DEF EndActs
<1>4. CASE Emit \/ Heartbeat \/ HandlerReturns
  BY <1>4, EmitInv, HeartbeatInv, HandlerReturnsInv
<1>5. CASE UNCHANGED deliveryVars
  <2>1. UNCHANGED <<style, hpc, loc, try, held, logged, origin>> /\ Here' = Here
    BY <1>5 DEF deliveryVars, Here
  <2> QED
    BY <2>1, Stands
<1> QED
  BY <1>1, <1>2, <1>3, <1>4, <1>5, NextActs

LEMMA InvAlways == DeliverySpec => []DeliveryInv
BY InitInv, NextInv, PTL DEF DeliverySpec

(* DeliverySafe, for any requests, accounts, retries and tools: only the    *)
(* call that runs has answered, so canRetry never lets a second call answer *)
(* a client that has output of a first; admission and reservation are given *)
(* back for each account tried, and the request is logged once.             *)
THEOREM OneCallAnswersAlways == DeliverySpec => []DeliverySafe
<1>1. ASSUME DeliveryInv PROVE DeliverySafe
  <2>1. OneCallAnswers
    <3> DEFINE call == <<try.acct, try.retry>>
    <3>1. origin \subseteq {call}
      BY <1>1 DEF DeliveryInv, Answered
    <3> HIDE DEF call
    <3>2. IsFiniteSet({call}) /\ Cardinality({call}) = 1
      BY FS_Singleton
    <3>3. Cardinality(origin) <= Cardinality({call})
      BY <3>1, <3>2, FS_Subset
    <3> QED
      BY <3>2, <3>3 DEF OneCallAnswers
  <2>2. NothingLeftHeld
    BY <1>1 DEF DeliveryInv, Holds, NothingLeftHeld
  <2>3. LoggedOnce
    BY <1>1 DEF DeliveryInv, Logs, LoggedOnce
  <2> QED
    BY <2>1, <2>2, <2>3 DEF DeliverySafe
<1> QED
  BY <1>1, InvAlways, PTL

(* What the wire protocol says of an event that is allowed. *)
LEMMA ReceiveIsWire ==
  ASSUME NEW e \in EventType, Receive(e), Allowed(Here, e)
  PROVE  Wire!WireNext
<1>1. /\ wlast' = [k |-> e.k, i |-> e.i]
      /\ Here.phase = wphase /\ Here.open = wopen /\ Here.used = wused /\ e.k \in Kinds
  BY DEF Receive, Here, EventType
<1>2. CASE e.k = "start"
  BY <1>1, <1>2 DEF Receive, Allowed, Wire!WireNext, Wire!Begins, Wire!Event
<1>3. CASE e.k = "answer"
  BY <1>1, <1>3 DEF Receive, Allowed, Wire!WireNext, Wire!Answers, Wire!Event
<1>4. CASE e.k = "open"
  BY <1>1, <1>4 DEF Receive, Allowed, Wire!WireNext, Wire!OpensBlock, Wire!Event
<1>5. CASE e.k = "item"
  BY <1>1, <1>5 DEF Receive, Allowed, Wire!WireNext, Wire!SendsItem, Wire!Event
<1>6. CASE e.k = "delta"
  BY <1>1, <1>6 DEF Receive, Allowed, Wire!WireNext, Wire!SendsDelta, Wire!Event
<1>7. CASE e.k = "stop"
  BY <1>1, <1>7 DEF Receive, Allowed, Wire!WireNext, Wire!StopsBlock, Wire!Event
<1>8. CASE e.k = "chunk"
  BY <1>1, <1>8 DEF Receive, Allowed, Wire!WireNext, Wire!SendsChunk, Wire!Event
<1>9. CASE e.k = "finish"
  BY <1>1, <1>9 DEF Receive, Allowed, Wire!WireNext, Wire!Finishes, Wire!Event
<1>10. CASE e.k = "fail"
  BY <1>1, <1>10 DEF Receive, Allowed, Wire!WireNext, Wire!Fails, Wire!Event
<1>11. CASE e.k = "gone"
  BY <1>1, <1>11 DEF Receive, Allowed, Wire!WireNext, Wire!ClientLeaves, Wire!Event
<1> QED
  BY <1>1, <1>2, <1>3, <1>4, <1>5, <1>6, <1>7, <1>8, <1>9, <1>10, <1>11 DEF Kinds, Ends

LEMMA HeartbeatIsWire ==
  ASSUME DeliveryInv, Heartbeat
  PROVE  Wire!WireNext
<1>1. CASE style.proto = "claude"
  <2>1. Receive(Ev("ping", 0, FALSE)) /\ wphase = "open"
    BY <1>1 DEF Heartbeat
  <2> QED
    BY <2>1 DEF Receive, Ev, Wire!WireNext, Wire!Pings, Wire!Event
<1>2. CASE style.proto # "claude"
  <2>1. Receive(Ev("comment", 0, FALSE)) /\ wphase # "idle"
    BY <1>2 DEF Heartbeat
  <2> QED
    BY <2>1 DEF Receive, Ev, Wire!WireNext, Wire!Comments, Wire!Event
<1> QED
  BY <1>1, <1>2

(* A handler that returns has ended the response. *)
LEMMA ReturnIsWire ==
  ASSUME DeliveryInv, HandlerReturns
  PROVE  Wire!WireNext
<1>1. Over(loc, Here) /\ loc.out = <<>>
  BY DEF DeliveryInv, Returning, HandlerReturns, Quiet
<1>2. PICK q \in Position : q.phase = "done" /\ Path(Here, loc.out, q)
  BY <1>1 DEF Over
<1>3. loc.out \in Seq(EventType)
  BY <1>1, LocalsType DEF Over
<1>4. Here = q
  BY <1>1, <1>2, <1>3, PathEnds
<1>5. wphase = "done"
  BY <1>2, <1>4 DEF Here
<1> QED
  BY <1>5 DEF HandlerReturns, Wire!WireNext, Wire!NewResponse, Wire!Event

(* The rest of the handlers sends nothing. *)
LEMMA ActsSilent == TryActs \/ CallActs \/ EndActs => UNCHANGED wire
<1>1. TryActs => UNCHANGED wire
  BY DEF TryActs, HandlerStarts, ClientGoes, acquireNextAccountForRequest, TokenFails, AttemptStarts
<1>2. \A l : Calls(l) => UNCHANGED wire
  BY DEF Calls
<1>3. CallActs => UNCHANGED wire
  BY <1>2, Zenon DEF CallActs, OnText, OnReasoning, OnToolUse, OnToolFrame, OnBufferedStart,
     OnProgressFrame, StreamCut
<1>4. \A l, final : Failed(l, final, TRUE) \/ Failed(l, final, FALSE) => UNCHANGED wire
  BY DEF Failed
<1>5. \A l : Succeeded(l) \/ GaveUp(l) => UNCHANGED wire
  BY DEF Succeeded, GaveUp
<1>6. ASSUME NEW final
      PROVE  (\/ ClaudeStreamFails(final) \/ OpenAIStreamFails(final) \/ ResponsesStreamFails(final)
              \/ ClaudeNonStreamFails(final) \/ OpenAINonStreamFails(final)
              \/ ResponsesNonStreamFails(final)) => UNCHANGED wire
  BY <1>4, Zenon DEF ClaudeStreamFails, OpenAIStreamFails, ResponsesStreamFails,
     ClaudeNonStreamFails, OpenAINonStreamFails, ResponsesNonStreamFails
<1>7. EndActs => UNCHANGED wire
  BY <1>5, <1>6, Zenon DEF EndActs, ClaudeStreamSucceeds, OpenAIStreamSucceeds, ResponsesStreamSucceeds,
     ClaudeNonStreamSucceeds, OpenAINonStreamSucceeds, ResponsesNonStreamSucceeds,
     ClaudeStreamGivesUp, OpenAIStreamGivesUp, ResponsesStreamGivesUp,
     ClaudeNonStreamGivesUp, OpenAINonStreamGivesUp, ResponsesNonStreamGivesUp
<1> QED
  BY <1>1, <1>3, <1>7

(* WellFormedResponse, for any requests, accounts, retries and tools, and   *)
(* heartbeats anywhere: what the Claude, chat and Responses handlers write  *)
(* is what the wire protocol allows.                                        *)
THEOREM ResponsesWellFormed == DeliverySpec => WellFormedResponse
<1>1. DeliveryInit => Wire!WireInit
  BY DEF DeliveryInit, Wire!WireInit, Wire!Event
<1>2. DeliveryInv /\ [DeliveryNext]_deliveryVars => [Wire!WireNext]_(Wire!wireVars)
  <2> SUFFICES ASSUME DeliveryInv, [DeliveryNext]_deliveryVars
               PROVE  Wire!WireNext \/ UNCHANGED wire
    BY DEF wire, Wire!wireVars
  <2>1. CASE Emit
    BY <2>1, HeadAllowed, ReceiveIsWire DEF Emit
  <2>2. CASE Heartbeat
    BY <2>2, HeartbeatIsWire
  <2>3. CASE HandlerReturns
    BY <2>3, ReturnIsWire
  <2>4. CASE TryActs \/ CallActs \/ EndActs
    BY <2>4, ActsSilent
  <2>5. CASE UNCHANGED deliveryVars
    BY <2>5 DEF deliveryVars, wire
  <2> QED
    BY <2>1, <2>2, <2>3, <2>4, <2>5, NextActs
<1> QED
  BY <1>1, <1>2, InvAlways, PTL DEF DeliverySpec, WellFormedResponse, Wire!WireSpec

-----------------------------------------------------------------------------
(* StreamTimers. *)
(* The calls under assembly, their timers and the callbacks on their way. *)
ToolState == [last : Nat, gen : Nat]
ToolTimer == [tool : Tools, gen : Nat, due : Nat]
ToolCallback == [tool : Tools, gen : Nat]

Covered(f, timers, run, tool) ==
  \/ Callback(tool, f[tool].gen) \in run
  \/ \E t \in timers : t.tool = tool /\ t.gen = f[tool].gen /\ t.due <= f[tool].last + IdleLimit

(* Every call but the spare ones has a timer or a callback that stands for  *)
(* it; a timer is the only one of its call, and no callback stands for what *)
(* a timer still watches.                                                   *)
MonitorOk(f, timers, gen, run, since, now, spare) ==
  /\ f \in [DOMAIN f -> ToolState] /\ DOMAIN f \subseteq Tools /\ IsFiniteSet(DOMAIN f)
  /\ timers \subseteq ToolTimer /\ run \subseteq ToolCallback /\ gen \in Nat
  /\ \A x \in DOMAIN f : f[x].last <= now /\ f[x].gen < gen /\ f[x].last = since[x]
  /\ \A x \in DOMAIN f \ spare : Covered(f, timers, run, x)
  /\ \A t \in timers : t.tool \in DOMAIN f /\ t.gen = f[t.tool].gen
  /\ \A t, u \in timers : t.tool = u.tool => t = u
  /\ \A c \in run : c.gen < gen /\ \A t \in timers : ~(t.tool = c.tool /\ t.gen = c.gen)

(* A call without a timer gets one, with a number never used before. *)
LEMMA ArmOk ==
  ASSUME NEW f, NEW timers, NEW gen, NEW run, NEW since, NEW now \in Nat,
         NEW tool \in Tools, MonitorOk(f, timers, gen, run, since, now, {tool}),
         \A t \in timers : t.tool # tool,
         NEW last \in Nat, last <= now, NEW due \in Nat, due <= last + IdleLimit,
         NEW later, later[tool] = last, \A x \in DOMAIN f \ {tool} : later[x] = since[x]
  PROVE  MonitorOk(WithTool(f, tool, [last |-> last, gen |-> gen]),
                   timers \cup {[tool |-> tool, gen |-> gen, due |-> due]},
                   gen + 1, run, later, now, {})
<1> DEFINE s == [last |-> last, gen |-> gen]
           g == WithTool(f, tool, s)
           new == [tool |-> tool, gen |-> gen, due |-> due]
           ts == timers \cup {new}
<1>1. /\ f \in [DOMAIN f -> ToolState] /\ DOMAIN f \subseteq Tools /\ IsFiniteSet(DOMAIN f)
      /\ timers \subseteq ToolTimer /\ run \subseteq ToolCallback /\ gen \in Nat
  BY DEF MonitorOk
<1>2. /\ DOMAIN g = DOMAIN f \cup {tool} /\ g[tool] = s
      /\ \A x \in DOMAIN f \ {tool} : g[x] = f[x]
      /\ g = [x \in DOMAIN f \cup {tool} |-> IF x = tool THEN s ELSE f[x]]
  BY DEF WithTool
<1>3. s \in ToolState /\ s.last = last /\ s.gen = gen
  BY <1>1 DEF ToolState
<1>4. new \in ToolTimer /\ new.tool = tool /\ new.gen = gen /\ new.due = due
  BY <1>1 DEF ToolTimer
<1> HIDE DEF s, g, new
<1>5. g \in [DOMAIN g -> ToolState]
  <2>1. \A x \in DOMAIN f \cup {tool} : (IF x = tool THEN s ELSE f[x]) \in ToolState
    BY <1>1, <1>3
  <2> QED
    BY <1>2, <2>1
<1>6. DOMAIN g \subseteq Tools /\ IsFiniteSet(DOMAIN g)
  BY <1>1, <1>2, FS_AddElement
<1>7. ts \subseteq ToolTimer /\ gen + 1 \in Nat
  BY <1>1, <1>4
<1>8. ASSUME NEW x \in DOMAIN g
      PROVE  g[x].last <= now /\ g[x].gen < gen + 1 /\ g[x].last = later[x]
  <2>1. CASE x = tool
    BY <1>1, <1>2, <1>3, <2>1
  <2>2. CASE x # tool
    <3>1. x \in DOMAIN f \ {tool} /\ g[x] = f[x] /\ later[x] = since[x] /\ f[x].gen \in Nat
      BY <1>1, <1>2, <1>8, <2>2 DEF ToolState
    <3>2. f[x].last <= now /\ f[x].gen < gen /\ f[x].last = since[x]
      BY <3>1 DEF MonitorOk
    <3> QED
      BY <1>1, <3>1, <3>2
  <2> QED
    BY <2>1, <2>2
<1>9. ASSUME NEW x \in DOMAIN g PROVE Covered(g, ts, run, x)
  <2>1. CASE x = tool
    BY <1>2, <1>3, <1>4, <2>1 DEF Covered
  <2>2. CASE x # tool
    <3>1. x \in DOMAIN f \ {tool} /\ g[x] = f[x]
      BY <1>2, <1>9, <2>2
    <3>2. Covered(f, timers, run, x)
      BY <3>1 DEF MonitorOk
    <3> QED
      BY <3>1, <3>2 DEF Covered
  <2> QED
    BY <2>1, <2>2
<1>10. ASSUME NEW t \in ts PROVE t.tool \in DOMAIN g /\ t.gen = g[t.tool].gen
  <2>1. CASE t = new
    BY <1>2, <1>3, <1>4, <2>1
  <2>2. CASE t \in timers
    <3>1. t.tool \in DOMAIN f \ {tool} /\ t.gen = f[t.tool].gen
      BY <2>2 DEF MonitorOk
    <3> QED
      BY <1>2, <3>1
  <2> QED
    BY <1>10, <2>1, <2>2
<1>11. ASSUME NEW t \in ts, NEW u \in ts, t.tool = u.tool PROVE t = u
  BY <1>4, <1>11 DEF MonitorOk
<1>12. ASSUME NEW c \in run, NEW t \in ts PROVE c.gen < gen + 1 /\ ~(t.tool = c.tool /\ t.gen = c.gen)
  <2>1. c.gen < gen /\ c.gen \in Nat
    BY <1>1 DEF MonitorOk, ToolCallback
  <2>2. CASE t = new
    BY <1>1, <1>4, <2>1, <2>2
  <2>3. CASE t \in timers
    BY <1>1, <2>1, <2>3 DEF MonitorOk
  <2> QED
    BY <1>12, <2>2, <2>3
<1>13. \A c \in run : c.gen < gen + 1
  BY <1>1 DEF MonitorOk, ToolCallback
<1> HIDE DEF ts
<1>14. MonitorOk(g, ts, gen + 1, run, later, now, {})
  BY <1>1, <1>5, <1>6, <1>7, <1>8, <1>9, <1>10, <1>11, <1>12, <1>13 DEF MonitorOk
<1> QED
  BY <1>14 DEF g, ts, s, new

Drop(f, tool) == [x \in DOMAIN f \ {tool} |-> f[x]]
DropTimer(timers, tool) == {t \in timers : t.tool # tool}

(* A call that ends takes its timer with it. *)
LEMMA DropOk ==
  ASSUME NEW f, NEW timers, NEW gen, NEW run, NEW since, NEW now, NEW spare, NEW tool,
         MonitorOk(f, timers, gen, run, since, now, spare)
  PROVE  MonitorOk(Drop(f, tool), DropTimer(timers, tool), gen, run, since, now, spare)
<1> DEFINE g == Drop(f, tool)
           ts == DropTimer(timers, tool)
<1>1. /\ f \in [DOMAIN f -> ToolState] /\ DOMAIN f \subseteq Tools /\ IsFiniteSet(DOMAIN f)
      /\ timers \subseteq ToolTimer /\ run \subseteq ToolCallback /\ gen \in Nat
  BY DEF MonitorOk
<1>2. DOMAIN g = DOMAIN f \ {tool} /\ \A x \in DOMAIN g : g[x] = f[x]
  BY DEF Drop
<1>3. g \in [DOMAIN g -> ToolState]
  BY <1>1 DEF Drop
<1>4. DOMAIN g \subseteq Tools /\ IsFiniteSet(DOMAIN g)
  BY <1>1, <1>2, FS_RemoveElement
<1>5. ASSUME NEW x \in DOMAIN g \ spare PROVE Covered(g, ts, run, x)
  <2>1. x \in DOMAIN f \ spare /\ x # tool /\ g[x] = f[x]
    BY <1>2, <1>5
  <2>2. Covered(f, timers, run, x)
    BY <2>1 DEF MonitorOk
  <2> HIDE DEF g
  <2> QED
    BY <2>1, <2>2 DEF Covered, DropTimer
<1>6. ASSUME NEW t \in ts PROVE t.tool \in DOMAIN g /\ t.gen = g[t.tool].gen
  BY <1>2, <1>6 DEF MonitorOk, DropTimer
<1>7. \A x \in DOMAIN g : g[x].last <= now /\ g[x].gen < gen /\ g[x].last = since[x]
  BY <1>2 DEF MonitorOk
<1> HIDE DEF g
<1>8. MonitorOk(g, ts, gen, run, since, now, spare)
  BY <1>1, <1>3, <1>4, <1>5, <1>6, <1>7 DEF MonitorOk, DropTimer
<1> QED
  BY <1>8 DEF g

(* What a monitor knows stays true as time passes, and of spare calls. *)
LEMMA SpareOk ==
  ASSUME NEW f, NEW timers, NEW gen, NEW run, NEW since, NEW now \in Nat,
         MonitorOk(f, timers, gen, run, since, now, {}), NEW spare
  PROVE  /\ MonitorOk(f, timers, gen, run, since, now, spare)
         /\ MonitorOk(f, timers, gen, run, since, now + 1, {})
<1>1. \A x \in DOMAIN f : f[x].last <= now + 1
  BY DEF MonitorOk, ToolState
<1> QED
  BY <1>1 DEF MonitorOk

LEMMA NothingOk ==
  ASSUME NEW f, NEW timers, NEW gen, NEW run, NEW since, NEW now, NEW spare,
         MonitorOk(f, timers, gen, run, since, now, spare)
  PROVE  MonitorOk(<<>>, {}, gen, run, since, now, {})
<1>1. DOMAIN <<>> = {} /\ IsFiniteSet({})
  BY FS_EmptySet
<1>2. <<>> \in [DOMAIN <<>> -> ToolState]
  BY <1>1
<1> QED
  BY <1>1, <1>2 DEF MonitorOk

(* New arguments of a call: its timer may find them when it wakes. *)
LEMMA RenewOk ==
  ASSUME NEW f, NEW timers, NEW gen, NEW run, NEW since, NEW now \in Nat,
         MonitorOk(f, timers, gen, run, since, now, {}), NEW tool \in DOMAIN f,
         NEW later, later[tool] = now, \A x \in DOMAIN f \ {tool} : later[x] = since[x]
  PROVE  MonitorOk([f EXCEPT ![tool].last = now], timers, gen, run, later, now, {})
<1> DEFINE g == [f EXCEPT ![tool].last = now]
<1>1. /\ f \in [DOMAIN f -> ToolState] /\ DOMAIN f \subseteq Tools /\ IsFiniteSet(DOMAIN f)
      /\ timers \subseteq ToolTimer /\ run \subseteq ToolCallback /\ gen \in Nat
  BY DEF MonitorOk
<1>2. f[tool] \in ToolState
  BY <1>1
<1> DEFINE s == [f[tool] EXCEPT !.last = now]
<1>3. s \in ToolState /\ s.last = now /\ s.gen = f[tool].gen
  BY <1>2 DEF ToolState
<1> HIDE DEF s
<1>4. /\ g = [f EXCEPT ![tool] = s]
  BY DEF s
<1>5. /\ DOMAIN g = DOMAIN f /\ g[tool] = s /\ \A x \in DOMAIN f \ {tool} : g[x] = f[x]
      /\ g \in [DOMAIN f -> ToolState]
  BY <1>1, <1>3, <1>4
<1> HIDE DEF g
<1>6. ASSUME NEW x \in DOMAIN g
      PROVE  /\ g[x].last <= now /\ g[x].gen < gen /\ g[x].last = later[x]
             /\ Covered(g, timers, run, x) /\ g[x].gen = f[x].gen
  <2>1. f[x].last <= now /\ f[x].gen < gen /\ f[x].last = since[x] /\ f[x].last \in Nat
    BY <1>1, <1>5 DEF MonitorOk, ToolState
  <2>2. Covered(f, timers, run, x)
    BY <1>5 DEF MonitorOk
  <2>3. CASE x = tool
    <3>1. Callback(x, f[x].gen) \in run \/
          \E t \in timers : t.tool = x /\ t.gen = f[x].gen /\ t.due <= f[x].last + IdleLimit
      BY <2>2 DEF Covered
    <3>2. \A t \in timers : t.due \in Nat
      BY <1>1 DEF ToolTimer
    <3>3. \A t \in timers : t.due <= f[x].last + IdleLimit => t.due <= now + IdleLimit
      BY <2>1, <3>2, TimersAssumption
    <3> QED
      BY <1>3, <1>5, <2>1, <2>3, <3>1, <3>3 DEF Covered
  <2>4. CASE x # tool
    BY <1>5, <2>1, <2>2, <2>4 DEF Covered
  <2> QED
    BY <2>3, <2>4
<1>7. MonitorOk(g, timers, gen, run, later, now, {})
  BY <1>1, <1>5, <1>6 DEF MonitorOk
<1> QED
  BY <1>7 DEF g

(* A timer that has expired leaves its callback. *)
LEMMA ExpireOk ==
  ASSUME NEW f, NEW timers, NEW gen, NEW run, NEW since, NEW now,
         MonitorOk(f, timers, gen, run, since, now, {}), NEW t \in timers
  PROVE  MonitorOk(f, timers \ {t}, gen, run \cup {Callback(t.tool, t.gen)}, since, now, {})
<1> DEFINE c == Callback(t.tool, t.gen)
           ts == timers \ {t}
           rs == run \cup {c}
<1>1. /\ timers \subseteq ToolTimer /\ run \subseteq ToolCallback /\ gen \in Nat
      /\ t.tool \in DOMAIN f /\ t.gen = f[t.tool].gen
  BY DEF MonitorOk
<1>2. c \in ToolCallback /\ c.tool = t.tool /\ c.gen = t.gen /\ t.gen < gen
  BY <1>1 DEF MonitorOk, Callback, ToolCallback, ToolTimer
<1>3. ASSUME NEW x \in DOMAIN f PROVE Covered(f, ts, rs, x)
  <2>1. Covered(f, timers, run, x)
    BY DEF MonitorOk
  <2>2. t.tool = x => Callback(x, f[x].gen) = c
    BY <1>1
  <2> QED
    BY <2>1, <2>2 DEF Covered
<1>4. ASSUME NEW d \in rs PROVE d.gen < gen /\ \A u \in ts : ~(u.tool = d.tool /\ u.gen = d.gen)
  BY <1>2, <1>4 DEF MonitorOk
<1>5. rs \subseteq ToolCallback
  BY <1>1, <1>2
<1> HIDE DEF c, rs
<1>6. MonitorOk(f, ts, gen, rs, since, now, {})
  BY <1>1, <1>3, <1>4, <1>5 DEF MonitorOk
<1> QED
  BY <1>6 DEF rs, c

(* A callback that runs is gone; the call it stood for is spare. *)
LEMMA FireOk ==
  ASSUME NEW f, NEW timers, NEW gen, NEW run, NEW since, NEW now,
         MonitorOk(f, timers, gen, run, since, now, {}), NEW c \in run
  PROVE  /\ MonitorOk(f, timers, gen, run \ {c}, since, now, {c.tool})
         /\ c.tool \notin DOMAIN f \/ f[c.tool].gen # c.gen =>
              MonitorOk(f, timers, gen, run \ {c}, since, now, {})
         /\ c.tool \in DOMAIN f /\ f[c.tool].gen = c.gen => \A t \in timers : t.tool # c.tool
<1> DEFINE rs == run \ {c}
<1>1. ASSUME NEW x \in DOMAIN f, x # c.tool \/ f[x].gen # c.gen PROVE Covered(f, timers, rs, x)
  <2>1. Covered(f, timers, run, x)
    BY DEF MonitorOk
  <2>2. Callback(x, f[x].gen) # c
    BY <1>1 DEF Callback
  <2> QED
    BY <2>1, <2>2 DEF Covered
<1>2. MonitorOk(f, timers, gen, rs, since, now, {c.tool})
  BY <1>1 DEF MonitorOk
<1>3. ASSUME c.tool \notin DOMAIN f \/ f[c.tool].gen # c.gen
      PROVE  MonitorOk(f, timers, gen, rs, since, now, {})
  <2>1. \A x \in DOMAIN f : Covered(f, timers, rs, x)
    BY <1>1, <1>3
  <2> HIDE DEF rs
  <2> QED
    BY <1>2, <2>1 DEF MonitorOk
<1>4. ASSUME c.tool \in DOMAIN f, f[c.tool].gen = c.gen, NEW t \in timers PROVE t.tool # c.tool
  BY <1>4 DEF MonitorOk
<1> QED
  BY <1>2, <1>3, <1>4

(* The watchdog and the reader, while they are the ones that watch. *)
DogState == [last : Nat, gen : Nat, due : Int, stopped : BOOLEAN, fired : BOOLEAN]
ReaderState == [due : Int, stopped : BOOLEAN, fired : BOOLEAN, last : Nat, gap : Int]
DogInv ==
  /\ dog \in DogState
  /\ dog.last <= tnow
  /\ ~dog.stopped /\ ~dog.fired =>
       IF dog.due = NoDue THEN Callback(NoTool, dog.gen) \in running ELSE dog.due <= dog.last + IdleLimit
(* A callback that waits while the timer runs was overtaken by a read.     *)
ReaderWatches(state, run, now) ==
  /\ state.due = NoDue => run # {} /\ now >= state.last + IdleLimit
  /\ state.due # NoDue => state.due = state.last + IdleLimit
  /\ state.due # NoDue /\ run # {} => state.gap >= IdleLimit
ReaderInv ==
  /\ idle \in ReaderState
  /\ idle.last <= tnow
  /\ ~idle.stopped /\ ~idle.fired => ReaderWatches(idle, running, tnow)
(* What was cut off: the reader does it once, and then reads no more.      *)
CutInv ==
  cut # NoDue =>
    /\ watched = "reader" => idle.fired
    /\ cut >= IdleLimit \/ (watched = "reader" /\ idle.gap >= IdleLimit)
ToolsInv ==
  /\ progress \in [Tools -> Nat]
  /\ MonitorOk(active, armed, nextGen, running, progress, tnow, {})
  /\ timedOut => DOMAIN active = {}

TimersInv ==
  /\ tnow \in Nat /\ watched \in {"dog", "reader", "tools"}
  /\ watched = "dog" => DogInv
  /\ watched = "reader" => ReaderInv
  /\ watched = "tools" => ToolsInv
  /\ watched # "tools" => active = <<>> /\ armed = {}

LEMMA NoToolsOk ==
  ASSUME NEW now \in Nat, NEW since
  PROVE  MonitorOk(<<>>, {}, 1, {}, since, now, {})
<1>1. DOMAIN <<>> = {} /\ IsFiniteSet({})
  BY FS_EmptySet
<1>2. <<>> \in [DOMAIN <<>> -> ToolState]
  BY <1>1
<1> QED
  BY <1>1, <1>2 DEF MonitorOk

LEMMA DogStep ==
  ASSUME TimersInv, watched = "dog", WatchdogNext, UNCHANGED <<tnow, watched>>
  PROVE  TimersInv'
<1>1. DogInv /\ tnow \in Nat /\ active = <<>> /\ armed = {} /\ IdleLimit \in Nat
  BY TimersAssumption DEF TimersInv
<1>2. UNCHANGED <<active, armed>>
  BY DEF WatchdogNext, Touch, StopWatchdog, WatchdogExpires, fireWatchdog, monitor
<1> SUFFICES DogInv'
  BY <1>1, <1>2 DEF TimersInv
<1>3. CASE Touch
  BY <1>1, <1>3 DEF DogInv, DogState, Touch, NoDue, monitor
<1>4. CASE StopWatchdog
  <2> DEFINE d == [dog EXCEPT !.stopped = TRUE]
  <2>1. d \in DogState /\ d.stopped /\ d.last = dog.last
    BY <1>1 DEF DogInv, DogState
  <2>2. dog' = [d EXCEPT !.due = NoDue]
    BY <1>4 DEF StopWatchdog
  <2> HIDE DEF d
  <2>3. dog' \in DogState /\ dog'.stopped /\ dog'.last = dog.last
    BY <2>1, <2>2 DEF NoDue, DogState
  <2> QED
    BY <1>1, <1>4, <2>2, <2>3 DEF DogInv, DogState, StopWatchdog
<1>5. CASE WatchdogExpires
  BY <1>1, <1>5 DEF DogInv, DogState, WatchdogExpires, NoDue
<1>6. ASSUME NEW c \in running, fireWatchdog(c) PROVE DogInv'
  <2>1. CASE dog.stopped \/ dog.fired
    BY <1>1, <1>6, <2>1 DEF DogInv, DogState, fireWatchdog
  <2>2. CASE ~dog.stopped /\ ~dog.fired /\ c.gen # dog.gen
    <3>1. dog' = dog /\ running' = running \ {c} /\ tnow' = tnow
      BY <1>6, <2>2 DEF fireWatchdog
    <3>2. c # Callback(NoTool, dog.gen)
      BY <2>2 DEF Callback
    <3> QED
      BY <1>1, <3>1, <3>2 DEF DogInv, DogState
  <2>3. CASE ~dog.stopped /\ ~dog.fired /\ c.gen = dog.gen /\ tnow - dog.last < IdleLimit
    <3>1. dog' = [dog EXCEPT !.gen = @ + 1, !.due = dog.last + IdleLimit] /\ tnow' = tnow
      BY <1>6, <2>3 DEF fireWatchdog
    <3>2. dog'.due = dog.last + IdleLimit /\ dog'.last = dog.last
      BY <1>1, <3>1 DEF DogInv, DogState
    <3>3. dog' \in DogState
      <4> DEFINE d == [dog EXCEPT !.gen = @ + 1]
      <4>1. d \in DogState
        BY <1>1 DEF DogInv, DogState
      <4>2. dog.last + IdleLimit \in Int /\ dog' = [d EXCEPT !.due = dog.last + IdleLimit]
        BY <1>1, <3>1 DEF DogInv, DogState
      <4> HIDE DEF d
      <4> QED
        BY <4>1, <4>2 DEF DogState
    <3> QED
      BY <1>1, <3>1, <3>2, <3>3 DEF DogInv, DogState, NoDue
  <2>4. CASE ~dog.stopped /\ ~dog.fired /\ c.gen = dog.gen /\ ~(tnow - dog.last < IdleLimit)
    BY <1>1, <1>6, <2>4 DEF DogInv, DogState, fireWatchdog
  <2> QED
    BY <2>1, <2>2, <2>3, <2>4
<1> QED
  BY <1>3, <1>4, <1>5, <1>6 DEF WatchdogNext

LEMMA ReaderStep ==
  ASSUME TimersInv, watched = "reader", ReaderNext, UNCHANGED <<tnow, watched>>
  PROVE  TimersInv'
<1>1. ReaderInv /\ tnow \in Nat /\ active = <<>> /\ armed = {} /\ IdleLimit \in Nat
  BY TimersAssumption DEF TimersInv
<1>2. UNCHANGED <<active, armed>>
  BY DEF ReaderNext, Read, StopReader, ReaderExpires, fireReader, monitor
<1> SUFFICES ReaderInv'
  BY <1>1, <1>2 DEF TimersInv
<1>3. CASE Read
  <2> DEFINE gap == IF idle.due = NoDue THEN tnow - idle.last ELSE idle.gap
             due == tnow + IdleLimit
  <2>1. /\ ~idle.stopped /\ ~idle.fired /\ UNCHANGED running
        /\ idle' = [idle EXCEPT !.due = due, !.last = tnow, !.gap = gap]
    BY <1>3 DEF Read
  <2>2. idle \in ReaderState /\ idle.last \in Nat /\ ReaderWatches(idle, running, tnow)
    BY <1>1, <2>1 DEF ReaderInv, ReaderState
  <2>3. gap \in Int /\ due \in Int /\ due # NoDue
    BY <1>1, <2>2 DEF ReaderState, NoDue
  <2>4. running # {} => gap >= IdleLimit
    BY <1>1, <2>2 DEF ReaderWatches, ReaderState
  <2> HIDE DEF gap, due
  <2>5. idle' \in ReaderState /\ idle'.due = due /\ idle'.last = tnow /\ idle'.gap = gap
    BY <1>1, <2>1, <2>2, <2>3 DEF ReaderState
  <2>6. ReaderWatches(idle', running', tnow')
    BY <2>1, <2>3, <2>4, <2>5 DEF ReaderWatches, due
  <2> QED
    BY <1>1, <2>5, <2>6 DEF ReaderInv
<1>4. CASE StopReader
  <2> DEFINE d == [idle EXCEPT !.stopped = TRUE]
  <2>1. d \in ReaderState /\ d.stopped /\ d.last = idle.last
    BY <1>1 DEF ReaderInv, ReaderState
  <2>2. idle' = [d EXCEPT !.due = NoDue]
    BY <1>4 DEF StopReader
  <2> HIDE DEF d
  <2>3. idle' \in ReaderState /\ idle'.stopped /\ idle'.last = idle.last
    BY <2>1, <2>2 DEF NoDue, ReaderState
  <2> QED
    BY <1>1, <1>4, <2>2, <2>3 DEF ReaderInv, StopReader
<1>5. CASE ReaderExpires
  <2>1. /\ idle.due # NoDue /\ idle.due <= tnow /\ idle' = [idle EXCEPT !.due = NoDue]
        /\ running' # {}
    BY <1>5 DEF ReaderExpires
  <2>2. idle \in ReaderState /\ idle.last <= tnow
    BY <1>1 DEF ReaderInv
  <2>3. /\ idle' \in ReaderState /\ idle'.due = NoDue /\ idle'.last = idle.last
        /\ idle'.stopped = idle.stopped /\ idle'.fired = idle.fired
    BY <2>1, <2>2 DEF ReaderState, NoDue
  <2>4. ~idle.stopped /\ ~idle.fired => ReaderWatches(idle', running', tnow')
    <3> SUFFICES ASSUME ~idle.stopped, ~idle.fired PROVE ReaderWatches(idle', running', tnow')
      OBVIOUS
    <3>1. idle.due = idle.last + IdleLimit
      BY <1>1, <2>1 DEF ReaderInv, ReaderWatches
    <3> QED
      BY <2>1, <2>3, <3>1 DEF ReaderWatches
  <2> QED
    BY <2>2, <2>3, <2>4 DEF ReaderInv
<1>6. ASSUME NEW c \in running, fireReader(c) PROVE ReaderInv'
  <2>1. idle' = IF idle.stopped \/ idle.fired THEN idle ELSE [idle EXCEPT !.fired = TRUE]
    BY <1>6 DEF fireReader
  <2>2. idle' \in ReaderState /\ idle'.last = idle.last /\ (idle'.stopped \/ idle'.fired)
    BY <1>1, <2>1 DEF ReaderInv, ReaderState
  <2> QED
    BY <1>1, <2>2 DEF ReaderInv
<1> QED
  BY <1>3, <1>4, <1>5, <1>6 DEF ReaderNext

(* The first identifier takes the placeholder over, with a timer of its own. *)
LEMMA AdoptOk ==
  ASSUME ToolsInv, tnow \in Nat, NEW tool \in ToolNames, ~In(tool), In(NoTool),
         NEW last, last \in {active[NoTool].last, tnow}, adopt(tool, last),
         progress' = [progress EXCEPT ![tool] = last], UNCHANGED <<tnow, running>>
  PROVE  MonitorOk(active', armed', nextGen', running', progress', tnow', {})
<1> DEFINE f == Drop(active, NoTool)
           ts == DropTimer(armed, NoTool)
           due == active[NoTool].last + IdleLimit
<1>1. MonitorOk(active, armed, nextGen, running, progress, tnow, {}) /\ progress \in [Tools -> Nat]
  BY DEF ToolsInv
<1>2. active[NoTool].last \in Nat /\ active[NoTool].last <= tnow /\ IdleLimit \in Nat
  BY <1>1, TimersAssumption DEF MonitorOk, ToolState, In
<1>3. last \in Nat /\ last <= tnow /\ due \in Nat /\ due <= last + IdleLimit
  BY <1>2
<1>4. MonitorOk(f, ts, nextGen, running, progress, tnow, {})
  BY <1>1, DropOk
<1>5. MonitorOk(f, ts, nextGen, running, progress, tnow, {tool})
  BY <1>4, SpareOk
<1>6. \A t \in ts : t.tool # tool
  BY <1>1 DEF MonitorOk, In, DropTimer
<1>7. tool \in Tools
  BY DEF Tools
<1>8. progress'[tool] = last /\ \A x \in DOMAIN f \ {tool} : progress'[x] = progress[x]
  BY <1>1, <1>7 DEF Drop, MonitorOk
<1>9. /\ active' = WithTool(f, tool, [last |-> last, gen |-> nextGen])
      /\ armed' = ts \cup {[tool |-> tool, gen |-> nextGen, due |-> due]}
      /\ nextGen' = nextGen + 1
  BY DEF adopt, armLocked, Without, Disarmed, Drop, DropTimer
<1> HIDE DEF f, ts, due
<1>10. MonitorOk(WithTool(f, tool, [last |-> last, gen |-> nextGen]),
                 ts \cup {[tool |-> tool, gen |-> nextGen, due |-> due]},
                 nextGen + 1, running, progress', tnow, {})
  BY <1>3, <1>5, <1>6, <1>7, <1>8, ArmOk
<1> QED
  BY <1>9, <1>10

(* A call nobody watches yet gets a timer. *)
LEMMA BeginOk ==
  ASSUME ToolsInv, tnow \in Nat, NEW tool \in Tools, ~In(tool), armLocked(active, armed, tool, tnow),
         progress' = [progress EXCEPT ![tool] = tnow], UNCHANGED <<tnow, running>>
  PROVE  MonitorOk(active', armed', nextGen', running', progress', tnow', {})
<1>1. MonitorOk(active, armed, nextGen, running, progress, tnow, {}) /\ progress \in [Tools -> Nat]
  BY DEF ToolsInv
<1>2. MonitorOk(active, armed, nextGen, running, progress, tnow, {tool})
  BY <1>1, SpareOk
<1>3. \A t \in armed : t.tool # tool
  BY <1>1 DEF MonitorOk, In
<1>4. progress'[tool] = tnow /\ \A x \in DOMAIN active \ {tool} : progress'[x] = progress[x]
  BY <1>1 DEF MonitorOk
<1>5. tnow + IdleLimit \in Nat /\ tnow + IdleLimit <= tnow + IdleLimit /\ tnow <= tnow
  BY TimersAssumption
<1>6. MonitorOk(WithTool(active, tool, [last |-> tnow, gen |-> nextGen]),
                armed \cup {[tool |-> tool, gen |-> nextGen, due |-> tnow + IdleLimit]},
                nextGen + 1, running, progress', tnow, {})
  BY <1>2, <1>3, <1>4, <1>5, ArmOk
<1> QED
  BY <1>6 DEF armLocked

LEMMA ToolsStep ==
  ASSUME TimersInv, watched = "tools", MonitorNext, UNCHANGED <<tnow, watched>>
  PROVE  TimersInv'
<1>1. ToolsInv /\ tnow \in Nat
  BY DEF TimersInv
<1>2. MonitorOk(active, armed, nextGen, running, progress, tnow, {}) /\ progress \in [Tools -> Nat]
  BY <1>1 DEF ToolsInv
<1>3. \A x \in DOMAIN active : x \in Tools /\ active[x] \in ToolState /\ active[x].last = progress[x]
  BY <1>2 DEF MonitorOk
<1> SUFFICES ToolsInv'
  BY <1>1 DEF TimersInv
<1>4. ASSUME NEW tool \in ToolNames, start(tool) PROVE ToolsInv'
  <2>1. ~timedOut' /\ UNCHANGED <<running, tnow>> /\ tool \in Tools
    BY <1>4 DEF start, Watching, Tools
  <2>2. CASE In(tool)
    BY <1>1, <1>4, <2>1, <2>2 DEF start, ToolsInv
  <2>3. CASE ~In(tool) /\ In(NoTool)
    <3>1. adopt(tool, active[NoTool].last)
      BY <1>4, <2>3 DEF start
    <3>2. progress' = [progress EXCEPT ![tool] = active[NoTool].last] /\ active[NoTool].last \in Nat
      BY <1>3, <1>4, <2>3 DEF start, In, ToolState
    <3>3. progress' \in [Tools -> Nat]
      BY <1>2, <3>2
    <3>4. MonitorOk(active', armed', nextGen', running', progress', tnow', {})
      BY <1>1, <2>1, <2>3, <3>1, <3>2, AdoptOk
    <3> QED
      BY <2>1, <3>3, <3>4 DEF ToolsInv
  <2>4. CASE ~In(tool) /\ ~In(NoTool)
    <3>1. armLocked(active, armed, tool, tnow) /\ progress' = [progress EXCEPT ![tool] = tnow]
      BY <1>4, <2>4 DEF start
    <3>2. progress' \in [Tools -> Nat]
      BY <1>1, <1>2, <3>1
    <3>3. MonitorOk(active', armed', nextGen', running', progress', tnow', {})
      BY <1>1, <2>1, <2>4, <3>1, BeginOk
    <3> QED
      BY <2>1, <3>2, <3>3 DEF ToolsInv
  <2> QED
    BY <2>2, <2>3, <2>4
<1>5. ASSUME NEW tool \in ToolNames, addInput(tool) PROVE ToolsInv'
  <2>1. ~timedOut' /\ UNCHANGED <<running, tnow>> /\ tool \in Tools
    BY <1>5 DEF addInput, Watching, Tools
  <2>2. progress' = [progress EXCEPT ![tool] = tnow]
    BY <1>5 DEF addInput
  <2>3. progress' \in [Tools -> Nat]
    BY <1>1, <1>2, <2>2
  <2>4. CASE In(tool)
    <3>1. active' = [active EXCEPT ![tool].last = tnow] /\ UNCHANGED <<nextGen, armed>>
      BY <1>5, <2>4 DEF addInput
    <3>2. tool \in DOMAIN active
      BY <2>4 DEF In
    <3>3. progress'[tool] = tnow /\ \A x \in DOMAIN active \ {tool} : progress'[x] = progress[x]
      BY <1>2, <1>3, <2>1, <2>2
    <3>4. MonitorOk([active EXCEPT ![tool].last = tnow], armed, nextGen, running, progress', tnow, {})
      BY <1>1, <1>2, <3>2, <3>3, RenewOk
    <3> QED
      BY <2>1, <2>3, <3>1, <3>4 DEF ToolsInv
  <2>5. CASE ~In(tool) /\ In(NoTool)
    <3>1. adopt(tool, tnow)
      BY <1>5, <2>5 DEF addInput
    <3>2. MonitorOk(active', armed', nextGen', running', progress', tnow', {})
      BY <1>1, <2>1, <2>2, <2>5, <3>1, AdoptOk
    <3> QED
      BY <2>1, <2>3, <3>2 DEF ToolsInv
  <2>6. CASE ~In(tool) /\ ~In(NoTool)
    <3>1. armLocked(active, armed, tool, tnow)
      BY <1>5, <2>6 DEF addInput
    <3>2. MonitorOk(active', armed', nextGen', running', progress', tnow', {})
      BY <1>1, <2>1, <2>2, <2>6, <3>1, BeginOk
    <3> QED
      BY <2>1, <2>3, <3>2 DEF ToolsInv
  <2> QED
    BY <2>4, <2>5, <2>6
<1>6. CASE activity
  <2>1. ~timedOut' /\ UNCHANGED <<running, tnow>> /\ NoTool \in Tools /\ active = <<>>
    BY <1>6 DEF activity, Watching, Tools
  <2>2. ~In(NoTool)
    BY <2>1 DEF In
  <2>3. armLocked(active, armed, NoTool, tnow) /\ progress' = [progress EXCEPT ![NoTool] = tnow]
    BY <1>6 DEF activity
  <2>4. progress' \in [Tools -> Nat]
    BY <1>1, <1>2, <2>3
  <2>5. MonitorOk(active', armed', nextGen', running', progress', tnow', {})
    BY <1>1, <2>1, <2>2, <2>3, BeginOk
  <2> QED
    BY <2>1, <2>4, <2>5 DEF ToolsInv
<1>7. ASSUME NEW tool \in ToolNames, stop(tool) PROVE ToolsInv'
  <2> DEFINE ended == IF In(tool) THEN tool ELSE NoTool
  <2>1. /\ active' = Drop(active, ended) /\ armed' = DropTimer(armed, ended)
        /\ UNCHANGED <<tnow, running, nextGen, timedOut, progress>>
    BY <1>7 DEF stop, Without, Disarmed, Drop, DropTimer
  <2> HIDE DEF ended
  <2>2. MonitorOk(Drop(active, ended), DropTimer(armed, ended), nextGen, running, progress, tnow, {})
    BY <1>2, DropOk
  <2>3. MonitorOk(active', armed', nextGen', running', progress', tnow', {})
    BY <2>1, <2>2
  <2>4. timedOut' => DOMAIN active' = {}
    BY <1>1, <2>1 DEF ToolsInv, Drop
  <2> QED
    BY <1>2, <2>1, <2>3, <2>4 DEF ToolsInv
<1>8. CASE StopAll
  <2>1. MonitorOk(<<>>, {}, nextGen, running, progress, tnow, {})
    BY <1>2, NothingOk
  <2>2. DOMAIN <<>> = {}
    OBVIOUS
  <2> QED
    BY <1>2, <1>8, <2>1, <2>2 DEF StopAll, ToolsInv
<1>9. ASSUME NEW t \in armed, ToolTimerExpires(t) PROVE ToolsInv'
  <2>1. MonitorOk(active, armed \ {t}, nextGen, running \cup {Callback(t.tool, t.gen)}, progress, tnow, {})
    BY <1>2, ExpireOk
  <2> QED
    BY <1>1, <1>9, <2>1 DEF ToolTimerExpires, ToolsInv
<1>10. ASSUME NEW c \in running, fire(c) PROVE ToolsInv'
  <2>1. /\ MonitorOk(active, armed, nextGen, running \ {c}, progress, tnow, {c.tool})
        /\ c.tool \notin DOMAIN active \/ active[c.tool].gen # c.gen =>
             MonitorOk(active, armed, nextGen, running \ {c}, progress, tnow, {})
        /\ c.tool \in DOMAIN active /\ active[c.tool].gen = c.gen => \A t \in armed : t.tool # c.tool
    BY <1>2, FireOk
  <2>2. running' = running \ {c} /\ UNCHANGED <<tnow, progress>>
    BY <1>10 DEF fire
  <2>3. CASE Stale(c)
    <3>1. c.tool \notin DOMAIN active \/ active[c.tool].gen # c.gen
      BY <1>1, <2>3 DEF Stale, In, ToolsInv
    <3>2. UNCHANGED <<active, nextGen, timedOut, armed>>
      BY <1>10, <2>3 DEF fire
    <3> QED
      BY <1>1, <2>1, <2>2, <3>1, <3>2 DEF ToolsInv
  <2>4. CASE ~Stale(c) /\ tnow - active[c.tool].last < IdleLimit
    <3> DEFINE last == active[c.tool].last
    <3>1. c.tool \in DOMAIN active /\ active[c.tool].gen = c.gen /\ ~timedOut
      BY <2>4 DEF Stale, In
    <3>2. armLocked(active, armed, c.tool, last) /\ UNCHANGED timedOut
      BY <1>10, <2>4 DEF fire
    <3>3. c.tool \in Tools /\ last \in Nat /\ last <= tnow /\ progress[c.tool] = last
      BY <1>2, <1>3, <3>1 DEF MonitorOk, ToolState
    <3>4. last + IdleLimit \in Nat /\ last + IdleLimit <= last + IdleLimit
      BY <3>3, TimersAssumption
    <3>5. MonitorOk(WithTool(active, c.tool, [last |-> last, gen |-> nextGen]),
                    armed \cup {[tool |-> c.tool, gen |-> nextGen, due |-> last + IdleLimit]},
                    nextGen + 1, running \ {c}, progress, tnow, {})
      <4> HIDE DEF last
      <4> QED
        BY <1>1, <2>1, <3>1, <3>3, <3>4, ArmOk
    <3>6. /\ active' = WithTool(active, c.tool, [last |-> last, gen |-> nextGen])
          /\ armed' = armed \cup {[tool |-> c.tool, gen |-> nextGen, due |-> last + IdleLimit]}
          /\ nextGen' = nextGen + 1
      BY <3>2 DEF armLocked
    <3> HIDE DEF last
    <3> QED
      BY <1>2, <2>2, <3>1, <3>2, <3>5, <3>6 DEF ToolsInv
  <2>5. CASE ~Stale(c) /\ ~(tnow - active[c.tool].last < IdleLimit)
    <3>1. active' = <<>> /\ armed' = {} /\ UNCHANGED nextGen
      BY <1>10, <2>5 DEF fire
    <3>2. MonitorOk(<<>>, {}, nextGen, running \ {c}, progress, tnow, {})
      BY <2>1, NothingOk
    <3>3. DOMAIN <<>> = {}
      OBVIOUS
    <3> QED
      BY <1>2, <2>2, <3>1, <3>2, <3>3 DEF ToolsInv
  <2> QED
    BY <2>3, <2>4, <2>5
<1> QED
  BY <1>4, <1>5, <1>6, <1>7, <1>8, <1>9, <1>10 DEF MonitorNext

LEMMA TimersInitially == TimersInit => TimersInv
<1> SUFFICES ASSUME TimersInit PROVE TimersInv
  OBVIOUS
<1>1. MonitorOk(active, armed, nextGen, running, progress, tnow, {})
  BY NoToolsOk DEF TimersInit
<1>2. ToolsInv
  BY <1>1 DEF TimersInit, ToolsInv
<1>3. DogInv
  BY TimersAssumption DEF TimersInit, DogInv, DogState, newActivityWatchdog, NoDue
<1>4. ReaderInv
  BY TimersAssumption DEF TimersInit, ReaderInv, ReaderState, ReaderWatches, newStreamIdleReader,
     NoDue
<1> QED
  BY <1>2, <1>3, <1>4 DEF TimersInit, TimersInv

LEMMA TimersStep == TimersInv /\ [TimersNext]_timerVars => TimersInv'
<1> SUFFICES ASSUME TimersInv, [TimersNext]_timerVars PROVE TimersInv'
  OBVIOUS
<1>1. CASE TimePasses
  <2>1. tnow \in Nat /\ tnow' = tnow + 1 /\ UNCHANGED <<watched, dog, idle, monitor, running>>
    BY <1>1 DEF TimePasses, TimersInv
  <2>2. watched = "dog" => DogInv'
    BY <2>1 DEF TimersInv, DogInv, DogState
  <2>3. watched = "reader" => ReaderInv'
    <3> SUFFICES ASSUME ReaderInv PROVE ReaderInv'
      BY <2>1 DEF TimersInv
    <3>1. idle.last \in Nat /\ idle.last <= tnow + 1 /\ IdleLimit \in Nat
      BY <2>1, TimersAssumption DEF ReaderInv, ReaderState
    <3>2. ReaderWatches(idle, running, tnow) => ReaderWatches(idle, running, tnow + 1)
      BY <2>1, <3>1 DEF ReaderWatches
    <3> QED
      BY <2>1, <3>1, <3>2 DEF ReaderInv
  <2>4. watched = "tools" => ToolsInv'
    <3> SUFFICES ASSUME ToolsInv PROVE ToolsInv'
      BY <2>1 DEF TimersInv
    <3>1. MonitorOk(active, armed, nextGen, running, progress, tnow + 1, {})
      BY <2>1, SpareOk DEF ToolsInv
    <3> QED
      BY <2>1, <3>1 DEF ToolsInv, monitor
  <2> QED
    BY <2>1, <2>2, <2>3, <2>4 DEF TimersInv, monitor
<1>2. CASE NextWatch
  <2>1. /\ tnow' = 0 /\ dog' = newActivityWatchdog /\ idle' = newStreamIdleReader
        /\ active' = <<>> /\ nextGen' = 1 /\ timedOut' = FALSE
        /\ armed' = {} /\ running' = {} /\ progress' = [t \in Tools |-> 0] /\ UNCHANGED watched
    BY <1>2 DEF NextWatch
  <2>2. MonitorOk(active', armed', nextGen', running', progress', tnow', {})
    BY <2>1, NoToolsOk
  <2>3. ToolsInv'
    BY <2>1, <2>2 DEF ToolsInv
  <2>4. DogInv'
    BY <2>1, TimersAssumption DEF DogInv, DogState, newActivityWatchdog, NoDue
  <2>5. ReaderInv'
    BY <2>1, TimersAssumption DEF ReaderInv, ReaderState, ReaderWatches, newStreamIdleReader, NoDue
  <2> QED
    BY <2>1, <2>3, <2>4, <2>5 DEF TimersInv
<1>3. CASE UNCHANGED timerVars
  BY <1>3 DEF timerVars, TimersInv, DogInv, ReaderInv, ToolsInv
<1> QED
  BY <1>1, <1>2, <1>3, DogStep, ReaderStep, ToolsStep DEF TimersNext

LEMMA CutStep == TimersInv /\ CutInv /\ [TimersNext]_timerVars => CutInv'
<1> SUFFICES ASSUME TimersInv, CutInv, [TimersNext]_timerVars PROVE CutInv'
  OBVIOUS
<1>0. tnow \in Nat /\ IdleLimit \in Nat
  BY TimersAssumption DEF TimersInv
<1>1. CASE TimePasses
  BY <1>1 DEF TimePasses, CutInv
<1>2. CASE NextWatch
  BY <1>2 DEF NextWatch, CutInv
<1>3. CASE watched = "dog" /\ WatchdogNext /\ UNCHANGED <<tnow, watched>>
  <2>1. CASE Touch \/ StopWatchdog \/ WatchdogExpires
    BY <1>3, <2>1 DEF Touch, StopWatchdog, WatchdogExpires, CutInv
  <2>2. ASSUME NEW c \in running, fireWatchdog(c) PROVE CutInv'
    <3>1. dog \in DogState /\ dog.last \in Nat
      BY <1>3 DEF TimersInv, DogInv, DogState
    <3>2. CASE dog'.fired /\ ~dog.fired
      <4>1. ~(tnow - dog.last < IdleLimit)
        BY <2>2, <3>1, <3>2 DEF fireWatchdog, DogState
      <4>2. cut' = tnow - dog.last
        BY <2>2, <3>2 DEF fireWatchdog
      <4> QED
        BY <1>0, <1>3, <3>1, <4>1, <4>2 DEF CutInv
    <3>3. CASE ~(dog'.fired /\ ~dog.fired)
      BY <1>3, <2>2, <3>3 DEF fireWatchdog, CutInv
    <3> QED
      BY <3>2, <3>3
  <2> QED
    BY <1>3, <2>1, <2>2 DEF WatchdogNext
<1>4. CASE watched = "reader" /\ ReaderNext /\ UNCHANGED <<tnow, watched>>
  <2>0. ReaderInv
    BY <1>4 DEF TimersInv
  <2>1. CASE Read
    BY <1>4, <2>1 DEF Read, CutInv
  <2>2. CASE StopReader \/ ReaderExpires
    <3>1. idle'.fired = idle.fired /\ idle'.gap = idle.gap /\ cut' = cut
      BY <2>0, <2>2 DEF StopReader, ReaderExpires, ReaderInv, ReaderState
    <3> QED
      BY <1>4, <3>1 DEF CutInv
  <2>3. ASSUME NEW c \in running, fireReader(c) PROVE CutInv'
    <3>1. CASE idle.stopped \/ idle.fired
      BY <1>4, <2>3, <3>1 DEF fireReader, CutInv
    <3>2. CASE ~idle.stopped /\ ~idle.fired
      <4>1. idle' = [idle EXCEPT !.fired = TRUE] /\ cut' = tnow - idle.last
        BY <2>3, <3>2 DEF fireReader
      <4>2. idle'.fired /\ idle'.gap = idle.gap /\ idle.last \in Nat
        BY <2>0, <4>1 DEF ReaderInv, ReaderState
      <4>3. ReaderWatches(idle, running, tnow) /\ running # {}
        BY <2>0, <2>3, <3>2 DEF ReaderInv
      <4>4. cut' >= IdleLimit \/ idle.gap >= IdleLimit
        BY <1>0, <4>1, <4>2, <4>3 DEF ReaderWatches
      <4> QED
        BY <1>4, <4>2, <4>4 DEF CutInv
    <3> QED
      BY <3>1, <3>2
  <2> QED
    BY <1>4, <2>1, <2>2, <2>3 DEF ReaderNext
<1>5. CASE watched = "tools" /\ MonitorNext /\ UNCHANGED <<tnow, watched>>
  <2>1. CASE UNCHANGED cut
    BY <1>5, <2>1 DEF CutInv
  <2>2. ASSUME NEW c \in running, fire(c), ~UNCHANGED cut PROVE CutInv'
    <3>1. /\ c.tool \in DOMAIN active /\ ~(tnow - active[c.tool].last < IdleLimit)
          /\ cut' = tnow - progress[c.tool]
      BY <2>2 DEF fire, Stale, In
    <3>2. active[c.tool].last = progress[c.tool] /\ progress[c.tool] \in Nat
      BY <1>5, <3>1 DEF TimersInv, ToolsInv, MonitorOk
    <3> QED
      BY <1>0, <1>5, <3>1, <3>2 DEF CutInv
  <2> QED
    BY <1>5, <2>1, <2>2 DEF MonitorNext, start, addInput, stop, activity, StopAll, ToolTimerExpires
<1>6. CASE UNCHANGED timerVars
  BY <1>6 DEF timerVars, CutInv
<1> QED
  BY <1>1, <1>2, <1>3, <1>4, <1>5, <1>6 DEF TimersNext

LEMMA TimersInvSafe == TimersInv /\ CutInv => TimersSafe
<1> SUFFICES ASSUME TimersInv, CutInv PROVE TimersSafe
  OBVIOUS
<1>0. CutOnlyWhenSilent
  BY DEF CutInv, CutOnlyWhenSilent
<1>1. CASE watched = "tools"
  <2>1. MonitorOk(active, armed, nextGen, running, progress, tnow, {})
    BY <1>1 DEF TimersInv, ToolsInv
  <2>2. NothingUnwatched
    BY <1>1, <2>1 DEF NothingUnwatched, MonitorOk, Covered
  <2>3. ProgressIsArguments
    BY <2>1 DEF ProgressIsArguments, MonitorOk
  <2>4. \A t \in armed : In(t.tool) /\ active[t.tool].gen = t.gen
    BY <2>1 DEF MonitorOk, In
  <2>5. Cardinality(armed) <= Cardinality(DOMAIN active)
    <3> DEFINE g == [t \in armed |-> t.tool]
    <3>1. IsFiniteSet(DOMAIN active) /\ g \in Injection(armed, DOMAIN active)
      BY <2>1, <2>4 DEF MonitorOk, In, Injection, IsInjective
    <3> QED
      BY <3>1, FS_Injection
  <2> QED
    BY <1>0, <2>2, <2>3, <2>4, <2>5 DEF TimersSafe, OneTimerEach
<1>2. CASE watched # "tools"
  <2>1. active = <<>> /\ armed = {} /\ DOMAIN <<>> = {}
    BY <1>2 DEF TimersInv
  <2>2. NothingUnwatched
    <3>1. \A tool \in DOMAIN active : FALSE
      BY <2>1
    <3>2. DogInv \/ watched # "dog"
      BY DEF TimersInv
    <3>3. ReaderInv \/ watched # "reader"
      BY DEF TimersInv
    <3> QED
      BY <3>1, <3>2, <3>3 DEF NothingUnwatched, DogInv, ReaderInv, ReaderWatches
  <2>3. OneTimerEach
    <3>1. Cardinality({}) = 0 /\ Cardinality({}) <= Cardinality({})
      BY FS_EmptySet
    <3> QED
      BY <2>1, <3>1 DEF OneTimerEach
  <2> QED
    BY <1>0, <2>1, <2>2, <2>3 DEF TimersSafe, ProgressIsArguments
<1> QED
  BY <1>1, <1>2

(* Whatever the order in which timers expire, callbacks run and arguments   *)
(* come, every stream and every tool call has one timer or callback that    *)
(* stands for it, due no later than its silence may last, the reader's      *)
(* exactly then; and what is cut off has been silent for the limit, which   *)
(* for the reader includes a silence that a read has ended after the timer  *)
(* expired (activity_watchdog.go, eventstream.go, tool_assembly.go).        *)
THEOREM TimersKept == TimersSpec => []TimersSafe
<1>1. TimersInit => CutInv
  BY DEF TimersInit, CutInv
<1>2. TimersSpec => [](TimersInv /\ CutInv)
  BY <1>1, TimersInitially, TimersStep, CutStep, PTL DEF TimersSpec
<1> QED
  BY <1>2, TimersInvSafe, PTL
=============================================================================
