----------------------------- MODULE StreamTimers -----------------------------
(***************************************************************************)
(* The timers that watch an upstream stream: the activity watchdog         *)
(* (proxy/activity_watchdog.go), the reader that bounds silence            *)
(* (streamIdleReader of proxy/eventstream.go) and the monitor of the tool  *)
(* calls under assembly (proxy/tool_assembly.go).  A timer that has        *)
(* expired runs its callback later, in a goroutine of its own: stopping it *)
(* then comes too late, so a callback must find out whether it still       *)
(* stands for anything.                                                    *)
(* D_x is D with the defect x, and no part of the specification.           *)
(***************************************************************************)
EXTENDS Integers, FiniteSets

CONSTANTS
  ToolNames,   \* identifiers of tool calls; NoTool stands for "none yet"
  NoTool,
  IdleLimit,   \* the configured timeout
  LastTick,    \* bound on the clock
  MaxGen       \* bound on the timers one monitor arms for new calls

ASSUME TimersAssumption == IdleLimit \in Nat \ {0} /\ LastTick \in Nat /\ MaxGen \in Nat /\ NoTool \notin ToolNames

VARIABLES
  tnow,      \* the clock
  watched,   \* which of the three is watched; never changes
  dog,       \* activityWatchdog: [last, gen, due, stopped, fired]
  idle,      \* streamIdleReader: [due, stopped, fired]; history: [last, gap], when it
             \* last read and the silence that a read after the expiry has ended
  active,    \* toolAssemblyMonitor.active: tool -> [last, gen]
  nextGen, timedOut, closed,
  armed,     \* timers running: [tool, gen, due]
  running,   \* callbacks started and not finished: [tool, gen]
  progress,  \* history: when the arguments of a tool last grew, or it began
  cut        \* history: how long what was cut off had been silent, or NoDue

timerVars == <<tnow, watched, dog, idle, active, nextGen, timedOut, closed, armed, running, progress, cut>>
monitor == <<active, nextGen, timedOut, closed, armed, progress>>

NoDue == -1
Tools == ToolNames \cup {NoTool}
Callback(tool, gen) == [tool |-> tool, gen |-> gen]

-----------------------------------------------------------------------------
(* The watchdog: activity is only noted, and the timer finds it when it     *)
(* wakes.                                                                   *)
newActivityWatchdog == [last |-> 0, gen |-> 1, due |-> IdleLimit, stopped |-> FALSE, fired |-> FALSE]
Touch ==
  /\ ~dog.stopped /\ ~dog.fired
  /\ dog' = [dog EXCEPT !.last = tnow] /\ UNCHANGED <<idle, monitor, running, cut>>
StopWatchdog ==
  /\ ~dog.stopped
  /\ dog' = [dog EXCEPT !.stopped = TRUE, !.due = NoDue] /\ UNCHANGED <<idle, monitor, running, cut>>
WatchdogExpires ==
  /\ dog.due # NoDue /\ dog.due <= tnow
  /\ dog' = [dog EXCEPT !.due = NoDue]
  /\ running' = running \cup {Callback(NoTool, dog.gen)} /\ UNCHANGED <<idle, monitor, cut>>
fireWatchdog_atOnce(c) ==
  /\ c \in running /\ running' = running \ {c}
  /\ dog' = IF dog.stopped \/ dog.fired \/ c.gen # dog.gen THEN dog ELSE [dog EXCEPT !.fired = TRUE]
  /\ cut' = IF dog'.fired /\ ~dog.fired THEN tnow - dog.last ELSE cut
  /\ UNCHANGED <<idle, monitor>>
fireWatchdog(c) ==
  /\ c \in running /\ running' = running \ {c}
  /\ dog' = IF dog.stopped \/ dog.fired \/ c.gen # dog.gen THEN dog
            ELSE IF tnow - dog.last < IdleLimit
            THEN [dog EXCEPT !.gen = @ + 1, !.due = dog.last + IdleLimit]
            ELSE [dog EXCEPT !.fired = TRUE]
  /\ cut' = IF dog'.fired /\ ~dog.fired THEN tnow - dog.last ELSE cut
  /\ UNCHANGED <<idle, monitor>>

WatchdogNext ==
  Touch \/ StopWatchdog \/ WatchdogExpires \/ \E c \in running : fireWatchdog(c)

-----------------------------------------------------------------------------
(* The idle reader resets its timer with every read.  A read that comes     *)
(* after the timer has expired arms it again, and the callback that waits   *)
(* for the lock cuts the stream off all the same.                           *)
newStreamIdleReader ==
  [due |-> IdleLimit, stopped |-> FALSE, fired |-> FALSE, last |-> 0, gap |-> 0]
Read_noReset ==
  /\ ~idle.stopped /\ ~idle.fired
  /\ idle' = [idle EXCEPT !.last = tnow] /\ UNCHANGED <<dog, monitor, running, cut>>
Read ==
  /\ ~idle.stopped /\ ~idle.fired
  /\ idle' = [idle EXCEPT !.due = tnow + IdleLimit, !.last = tnow,
                           !.gap = IF idle.due = NoDue THEN tnow - idle.last ELSE @]
  /\ UNCHANGED <<dog, monitor, running, cut>>
StopReader ==
  /\ ~idle.stopped
  /\ idle' = [idle EXCEPT !.stopped = TRUE, !.due = NoDue] /\ UNCHANGED <<dog, monitor, running, cut>>
ReaderExpires ==
  /\ idle.due # NoDue /\ idle.due <= tnow
  /\ idle' = [idle EXCEPT !.due = NoDue]
  /\ running' = running \cup {Callback(NoTool, 0)} /\ UNCHANGED <<dog, monitor, cut>>
fireReader(c) ==
  /\ c \in running /\ running' = running \ {c}
  /\ idle' = IF idle.stopped \/ idle.fired THEN idle ELSE [idle EXCEPT !.fired = TRUE]
  /\ cut' = IF idle.stopped \/ idle.fired THEN cut ELSE tnow - idle.last
  /\ UNCHANGED <<dog, monitor>>

ReaderNext == Read \/ StopReader \/ ReaderExpires \/ \E c \in running : fireReader(c)

-----------------------------------------------------------------------------
(* The monitor.  A call that has no identifier yet is a placeholder, and    *)
(* the first identifier that comes takes it over.                           *)
Watching == ~timedOut /\ ~closed /\ nextGen <= MaxGen
In(tool) == tool \in DOMAIN active
Without(tool) == [t \in DOMAIN active \ {tool} |-> active[t]]
WithTool(f, tool, state) == [t \in DOMAIN f \cup {tool} |-> IF t = tool THEN state ELSE f[t]]
Disarmed(tool) == {t \in armed : t.tool # tool}

armLocked(f, timers, tool, last) ==
  /\ nextGen' = nextGen + 1
  /\ active' = WithTool(f, tool, [last |-> last, gen |-> nextGen])
  /\ armed' = timers \cup {[tool |-> tool, gen |-> nextGen, due |-> last + IdleLimit]}

(* The placeholder's timer would look for the placeholder: the new name     *)
(* needs a timer of its own.                                                *)
adopt_keepsTimer(tool, last) ==
  /\ active' = WithTool(Without(NoTool), tool, [active[NoTool] EXCEPT !.last = last])
  /\ UNCHANGED <<nextGen, armed>>
adopt(tool, last) ==
  IF last = active[NoTool].last THEN armLocked(Without(NoTool), Disarmed(NoTool), tool, last)
  ELSE /\ nextGen' = nextGen + 1
       /\ active' = WithTool(Without(NoTool), tool, [last |-> last, gen |-> nextGen])
       /\ armed' = Disarmed(NoTool) \cup
                     {[tool |-> tool, gen |-> nextGen, due |-> active[NoTool].last + IdleLimit]}

start(tool) ==
  /\ Watching
  /\ IF In(tool) THEN UNCHANGED <<active, nextGen, armed>>
     ELSE IF In(NoTool) THEN adopt(tool, active[NoTool].last)
     ELSE armLocked(active, armed, tool, tnow)
  /\ progress' = IF In(tool) THEN progress
                 ELSE [progress EXCEPT ![tool] = IF In(NoTool) THEN progress[NoTool] ELSE tnow]
  /\ UNCHANGED <<dog, idle, running, timedOut, closed, cut>>
addInput(tool) ==
  /\ Watching
  /\ CASE In(tool) -> active' = [active EXCEPT ![tool].last = tnow] /\ UNCHANGED <<nextGen, armed>>
       [] ~In(tool) /\ In(NoTool) -> adopt(tool, tnow)
       [] OTHER -> armLocked(active, armed, tool, tnow)
  /\ progress' = [progress EXCEPT ![tool] = tnow]
  /\ UNCHANGED <<dog, idle, running, timedOut, closed, cut>>
(* Activity without arguments begins a placeholder and renews nothing. *)
activity ==
  /\ Watching /\ active = <<>>
  /\ armLocked(active, armed, NoTool, tnow)
  /\ progress' = [progress EXCEPT ![NoTool] = tnow]
  /\ UNCHANGED <<dog, idle, running, timedOut, closed, cut>>
stop(tool) ==
  LET ended == IF In(tool) THEN tool ELSE NoTool
  IN /\ ~closed /\ In(ended)
     /\ active' = Without(ended) /\ armed' = Disarmed(ended)
     /\ UNCHANGED <<dog, idle, running, nextGen, timedOut, closed, progress, cut>>
StopAll ==
  /\ ~closed /\ closed' = TRUE
  /\ active' = <<>> /\ armed' = {} /\ UNCHANGED <<dog, idle, running, nextGen, timedOut, progress, cut>>
ToolTimerExpires(t) ==
  /\ t.due <= tnow
  /\ armed' = armed \ {t} /\ running' = running \cup {Callback(t.tool, t.gen)}
  /\ UNCHANGED <<dog, idle, active, nextGen, timedOut, closed, progress, cut>>

Stale_byName(c) == ~In(c.tool) \/ timedOut
Stale(c) == ~In(c.tool) \/ active[c.tool].gen # c.gen \/ timedOut
fire(c) ==
  /\ c \in running /\ running' = running \ {c}
  /\ IF Stale(c) THEN UNCHANGED <<active, nextGen, timedOut, armed, cut>>
     ELSE IF tnow - active[c.tool].last < IdleLimit
     THEN armLocked(active, armed, c.tool, active[c.tool].last) /\ UNCHANGED <<timedOut, cut>>
     ELSE /\ timedOut' = TRUE /\ active' = <<>> /\ armed' = {} /\ UNCHANGED nextGen
          /\ cut' = tnow - progress[c.tool]
  /\ UNCHANGED <<dog, idle, closed, progress>>

MonitorNext ==
  \/ \E tool \in ToolNames : start(tool) \/ addInput(tool) \/ stop(tool)
  \/ activity \/ StopAll
  \/ \E t \in armed : ToolTimerExpires(t)
  \/ \E c \in running : fire(c)

-----------------------------------------------------------------------------
TimersInit ==
  /\ tnow = 0 /\ watched \in {"dog", "reader", "tools"}
  /\ dog = newActivityWatchdog /\ idle = newStreamIdleReader
  /\ active = <<>> /\ nextGen = 1 /\ timedOut = FALSE /\ closed = FALSE
  /\ armed = {} /\ running = {} /\ progress = [t \in Tools |-> 0] /\ cut = NoDue

TimePasses ==
  /\ tnow < LastTick /\ tnow' = tnow + 1
  /\ UNCHANGED <<watched, dog, idle, monitor, running, cut>>
(* The next call has timers of its own. *)
NextWatch ==
  /\ CASE watched = "dog" -> dog.stopped \/ dog.fired
       [] watched = "reader" -> idle.stopped \/ idle.fired
       [] OTHER -> closed
  /\ running = {}
  /\ tnow' = 0 /\ dog' = newActivityWatchdog /\ idle' = newStreamIdleReader
  /\ active' = <<>> /\ nextGen' = 1 /\ timedOut' = FALSE /\ closed' = FALSE
  /\ armed' = {} /\ running' = {} /\ progress' = [t \in Tools |-> 0] /\ cut' = NoDue
  /\ UNCHANGED watched

TimersNext ==
  \/ TimePasses \/ NextWatch
  \/ watched = "dog" /\ WatchdogNext /\ UNCHANGED <<tnow, watched>>
  \/ watched = "reader" /\ ReaderNext /\ UNCHANGED <<tnow, watched>>
  \/ watched = "tools" /\ MonitorNext /\ UNCHANGED <<tnow, watched>>

TimersSpec == TimersInit /\ [][TimersNext]_timerVars

-----------------------------------------------------------------------------
(* As long as something is watched a timer for it runs, or its callback     *)
(* does, and it is due when the silence reaches the limit: no renaming, no  *)
(* lazy renewal and no late callback leaves a stream or a tool call that    *)
(* nobody watches.  The reader's timer is due exactly then, and without one *)
(* the limit has been reached.                                              *)
NothingUnwatched ==
  /\ (watched = "dog" /\ ~dog.stopped /\ ~dog.fired) =>
       IF dog.due = NoDue THEN Callback(NoTool, dog.gen) \in running ELSE dog.due <= dog.last + IdleLimit
  /\ (watched = "reader" /\ ~idle.stopped /\ ~idle.fired) =>
       IF idle.due = NoDue THEN running # {} /\ tnow >= idle.last + IdleLimit
       ELSE idle.due = idle.last + IdleLimit
  /\ \A tool \in DOMAIN active :
       \/ Callback(tool, active[tool].gen) \in running
       \/ \E t \in armed : /\ t.tool = tool /\ t.gen = active[tool].gen
                           /\ t.due <= active[tool].last + IdleLimit

(* What is cut off has been silent for the limit: no callback that started  *)
(* before the last activity cuts off a stream or a tool call.  For the idle *)
(* reader that is true of the silence before the last read only: touch      *)
(* resets a timer that has expired (eventstream.go:262-272), and the        *)
(* callback that waits for the lock does not look whether data has come     *)
(* since (274-286), so a stream that was silent for the limit and has just  *)
(* gone on is cut off, although the comment at 222 allows it only when no   *)
(* bytes arrive.  One that never was silent for the limit is not.           *)
CutOnlyWhenSilent ==
  cut # NoDue =>
    \/ cut >= IdleLimit
    \/ watched = "reader" /\ idle.gap >= IdleLimit

(* One timer watches a tool call: a callback that came late for a call that *)
(* was ended and begun again under the same name stands for nothing.        *)
OneTimerEach ==
  /\ \A t \in armed : In(t.tool) /\ active[t.tool].gen = t.gen
  /\ Cardinality(armed) <= Cardinality(DOMAIN active)

(* What the monitor takes for the last progress of a call is its last       *)
(* progress: metadata and placeholders do not renew it.                     *)
ProgressIsArguments == \A tool \in DOMAIN active : active[tool].last = progress[tool]

(* The four above together: nothing is left unwatched, and nothing is cut   *)
(* off for a silence that was not, but for the reader's late read.          *)
TimersSafe == NothingUnwatched /\ CutOnlyWhenSilent /\ OneTimerEach /\ ProgressIsArguments
=============================================================================
