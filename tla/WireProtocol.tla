----------------------------- MODULE WireProtocol -----------------------------
(***************************************************************************)
(* What a client may see on one response: a stream opens, its blocks are   *)
(* numbered without gaps, a block gets deltas only while it is open, and   *)
(* after the event that ends the stream nothing but comments follows.  A   *)
(* finished stream has no open block; a failed one may.  A buffered        *)
(* response is answered at once.                                           *)
(***************************************************************************)
EXTENDS Naturals

VARIABLES
  phase,    \* "idle", "open" or "done"
  open,     \* blocks started and not stopped
  used,     \* blocks started so far
  last      \* the event sent last

wireVars == <<phase, open, used, last>>

Event(k, i) == [k |-> k, i |-> i]

WireInit == phase = "idle" /\ open = {} /\ used = 0 /\ last = Event("none", 0)

Begins == phase = "idle" /\ phase' = "open" /\ last' = Event("start", 0) /\ UNCHANGED <<open, used>>
Answers == phase = "idle" /\ phase' = "done" /\ last' = Event("answer", 0) /\ UNCHANGED <<open, used>>

OpensBlock ==
  /\ phase = "open" /\ last' = Event("open", used)
  /\ open' = open \cup {used} /\ used' = used + 1 /\ UNCHANGED phase
SendsDelta ==
  /\ phase = "open"
  /\ \E i \in open : last' = Event("delta", i)
  /\ UNCHANGED <<phase, open, used>>
StopsBlock ==
  /\ phase = "open"
  /\ \E i \in open : last' = Event("stop", i) /\ open' = open \ {i}
  /\ UNCHANGED <<phase, used>>
SendsItem == phase = "open" /\ last' = Event("item", used) /\ used' = used + 1 /\ UNCHANGED <<phase, open>>
SendsChunk == phase = "open" /\ last' = Event("chunk", 0) /\ UNCHANGED <<phase, open, used>>
Pings == phase = "open" /\ last' = Event("ping", 0) /\ UNCHANGED <<phase, open, used>>
Comments == phase # "idle" /\ last' = Event("comment", 0) /\ UNCHANGED <<phase, open, used>>

Finishes == phase = "open" /\ open = {} /\ phase' = "done" /\ last' = Event("finish", 0) /\ UNCHANGED <<open, used>>
Fails == phase = "open" /\ phase' = "done" /\ last' = Event("fail", 0) /\ UNCHANGED <<open, used>>
ClientLeaves == phase # "done" /\ phase' = "done" /\ last' = Event("gone", 0) /\ UNCHANGED <<open, used>>

(* The connection serves the next request. *)
NewResponse == phase = "done" /\ phase' = "idle" /\ open' = {} /\ used' = 0 /\ last' = Event("none", 0)

WireNext ==
  \/ Begins \/ Answers \/ OpensBlock \/ SendsDelta \/ StopsBlock \/ SendsItem \/ SendsChunk
  \/ Pings \/ Comments \/ Finishes \/ Fails \/ ClientLeaves \/ NewResponse

WireSpec == WireInit /\ [][WireNext]_wireVars
=============================================================================
