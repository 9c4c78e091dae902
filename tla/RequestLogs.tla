------------------------------- MODULE RequestLogs -------------------------------
(***************************************************************************)
(* The request log (proxy/request_log.go) and the store of request details *)
(* (proxy/request_detail.go): two bounded lists in memory, each saved to a *)
(* file of its own a while after a change; the recording of a request, the *)
(* admin operations on both, and the restart.  A step is what happens      *)
(* under one lock.                                                         *)
(* D_x is D with the defect x, and no part of the specification.           *)
(***************************************************************************)
EXTENDS Integers, Sequences, FiniteSets, SequencesExt

CONSTANTS
  LogRequests,   \* requests, each with an id of its own
  DetailSize,    \* size of the detail of a request before it is bounded
  StoreBytes,    \* what the details may take together
  LogScenes,     \* [requests, traced, limits, events, saves]: who runs, traced or not, the
                 \* limits to switch between, what else happens, whose timers fire in time
  MaxLogFaults   \* bound: failing writes

VARIABLES
  scene,         \* a member of LogScenes, never changes
  logCfg,        \* RequestLogConfig: [log, details, bytes]
  stage,         \* request -> where its recording is
  note,          \* request -> [id, size, again] of the recording
  nextID, logList, logLimit,
  details, detailLimits,
  timerSet,     \* store -> a timer runs
  waiting,       \* store -> who waits for writeMu
  writing,       \* store -> <<>> or <<[by, snap]>>
  logFiles,      \* store -> what the file holds
  failed,        \* store -> the last write failed
  admin,         \* what the administrator's request does next
  clearing,      \* the details the running clear removed
  cleared,       \* history: details a clear has reported as removed
  logFaults, logUp

logVars == <<scene, logCfg, stage, note, nextID, logList, logLimit, details, detailLimits, timerSet,
             waiting, writing, logFiles, failed, admin, clearing, cleared, logFaults, logUp>>
listVars == <<nextID, logList, logLimit, details, detailLimits>>
saveVars == <<timerSet, waiting, writing, logFiles, failed, logFaults>>
adminVars == <<logCfg, admin, clearing, cleared>>
fixedVars == <<scene, logUp>>

Stores == {"log", "details"}
NoNote == [id |-> 0, size |-> 0, again |-> FALSE]
ShuttingDown == admin \in {"closing log", "closed log", "closing details", "closed"}
Held(s) == IF s = "log" THEN logList ELSE details
Bytes(d) == FoldLeft(LAMBDA n, e : n + e.size, 0, d)
Newest(list, n) == IF Len(list) > n THEN SubSeq(list, Len(list) - n + 1, Len(list)) ELSE list
Scene(requests, traced, limits, events, saves) ==
  [requests |-> requests, traced |-> traced, limits |-> limits, events |-> events, saves |-> saves]
Limits(log, d, bytes) == [log |-> log, details |-> d, bytes |-> bytes]
RequestsOf(list) == {list[i].req : i \in DOMAIN list}

-----------------------------------------------------------------------------
(* Saving.  One timer at a time; its callback first forgets the timer, so   *)
(* that a change during the write starts another one.                       *)
scheduleSave_busy(s) == timerSet' = [timerSet EXCEPT ![s] = @ \/ writing[s] = <<>>]
scheduleSave(s) == timerSet' = [timerSet EXCEPT ![s] = TRUE]

SaveTimerFires(s) ==
  /\ logUp /\ timerSet[s] /\ s \in scene.saves
  /\ timerSet' = [timerSet EXCEPT ![s] = FALSE]
  /\ waiting' = [waiting EXCEPT ![s] = @ \cup {"timer"}]
  /\ UNCHANGED <<writing, logFiles, failed, logFaults, stage, note, listVars, adminVars, fixedVars>>

(* The snapshot is taken after the turn to write has come. *)
saveTo(s, by) ==
  /\ logUp /\ by \in waiting[s] /\ writing[s] = <<>>
  /\ waiting' = [waiting EXCEPT ![s] = @ \ {by}]
  /\ writing' = [writing EXCEPT ![s] = <<[by |-> by, snap |-> Held(s)]>>]
  /\ UNCHANGED <<timerSet, logFiles, failed, logFaults, stage, note, listVars, adminVars, fixedVars>>

AfterFlush(next) == admin' = next
(* The temporary file replaces the file, or nothing happens to the file. *)
Written(s, ok) ==
  LET w == writing[s][1]
  IN /\ logUp /\ writing[s] # <<>>
     /\ writing' = [writing EXCEPT ![s] = <<>>]
     /\ IF ok THEN logFiles' = [logFiles EXCEPT ![s] = w.snap] /\ UNCHANGED logFaults
        ELSE "fault" \in scene.events /\ logFaults < MaxLogFaults /\ logFaults' = logFaults + 1 /\ UNCHANGED logFiles
     /\ failed' = [failed EXCEPT ![s] = ~ok]
     /\ CASE w.by = "timer" -> UNCHANGED <<admin, cleared>>
          [] admin = "flushing" -> /\ AfterFlush("idle")
                                   /\ cleared' = IF ok THEN cleared \cup clearing ELSE cleared
          [] admin = "closing log" -> AfterFlush("closed log") /\ UNCHANGED cleared
          [] OTHER -> AfterFlush("closed") /\ UNCHANGED cleared
     /\ UNCHANGED <<timerSet, waiting, stage, note, listVars, logCfg, clearing, fixedVars>>

(* Flush stops the timer and writes in the caller. *)
Flush(s, from, to) ==
  /\ logUp /\ admin = from /\ admin' = to
  /\ timerSet' = [timerSet EXCEPT ![s] = FALSE]
  /\ waiting' = [waiting EXCEPT ![s] = @ \cup {"flush"}]
  /\ UNCHANGED <<writing, logFiles, failed, logFaults, stage, note, listVars, logCfg, clearing, cleared, fixedVars>>

-----------------------------------------------------------------------------
(* The details. *)
Fitting(d, bytes) == SelectSeq(d, LAMBDA e : e.size <= bytes)
configureDetails(d, c) == Newest(Fitting(d, c.bytes), c.details)
(* Oldest first, while there are too many or they are too large. *)
Trimmed(d, limit) ==
  LET over(n) == n > limit \/ Bytes(Newest(d, n)) > StoreBytes
      fits == {n \in 0..Len(d) : ~over(n)}
  IN Newest(d, Max(fits))
addDetail(d, r, size, limit) ==
  Trimmed(Append(SelectSeq(d, LAMBDA e : e.req # r), [req |-> r, size |-> size]), limit)

(* Every use of the store applies the configured limits first. *)
ensureRequestDetailStore ==
  /\ details' = configureDetails(details, logCfg)
  /\ detailLimits' = [details |-> logCfg.details, bytes |-> logCfg.bytes]
  /\ IF details' # details \/ detailLimits' # detailLimits THEN scheduleSave("details") ELSE UNCHANGED timerSet

(* The trace of a request is closed once; the detail is cut to the limit    *)
(* read here, or is too large whatever is cut.                              *)
Finalize(r) ==
  LET bytes == logCfg.bytes
  IN /\ logUp /\ stage[r] = "ended"
     /\ ensureRequestDetailStore
     /\ \/ /\ stage' = [stage EXCEPT ![r] = "bounded"]
           /\ note' = [note EXCEPT ![r].size = IF DetailSize[r] > bytes THEN bytes ELSE DetailSize[r]]
        \/ /\ DetailSize[r] > bytes
           /\ stage' = [stage EXCEPT ![r] = "logging"] /\ UNCHANGED note
     /\ UNCHANGED <<waiting, writing, logFiles, failed, logFaults, nextID, logList, logLimit, adminVars, fixedVars>>

AddDetail(r) ==
  /\ logUp /\ stage[r] = "bounded"
  /\ details' = addDetail(details, r, note[r].size, detailLimits.details)
  /\ stage' = [stage EXCEPT ![r] = "stored"]
  /\ UNCHANGED <<note, saveVars, nextID, logList, logLimit, detailLimits, adminVars, fixedVars>>

(* A second entry of a request finds the trace closed, and only asks for    *)
(* the detail.                                                              *)
RecordAgain(r) ==
  /\ logUp /\ ~ShuttingDown /\ stage[r] = "recorded" /\ ~note[r].again /\ "again" \in scene.events
  /\ ensureRequestDetailStore
  /\ stage' = [stage EXCEPT ![r] = "logging"] /\ note' = [note EXCEPT ![r].again = TRUE]
  /\ UNCHANGED <<waiting, writing, logFiles, failed, logFaults, nextID, logList, logLimit, adminVars, fixedVars>>

-----------------------------------------------------------------------------
(* A request: traced when details are on.  Its handler records it, or       *)
(* returns without: then the deferred call records what was traced.         *)
attachRequestDetailTrace(r, traced) ==
  /\ logUp /\ ~ShuttingDown /\ stage[r] = "new"
  /\ stage' = [stage EXCEPT ![r] = IF traced THEN "ended" ELSE "logging"]
  /\ UNCHANGED <<note, listVars, saveVars, adminVars, fixedVars>>

finalizeUnrecordedRequestDetail(r) ==
  /\ logUp /\ ~ShuttingDown /\ stage[r] = "new" /\ stage' = [stage EXCEPT ![r] = "recorded"]
  /\ UNCHANGED <<note, listVars, saveVars, adminVars, fixedVars>>

Scheduled(r, from, to, s) ==
  /\ logUp /\ stage[r] = from /\ stage' = [stage EXCEPT ![r] = to]
  /\ scheduleSave(s)
  /\ UNCHANGED <<note, listVars, waiting, writing, logFiles, failed, logFaults, adminVars, fixedVars>>

(* The number is taken before the lock: entries may be out of order. *)
TakeID(r) ==
  /\ logUp /\ stage[r] = "logging" /\ stage' = [stage EXCEPT ![r] = "numbered"]
  /\ nextID' = nextID + 1 /\ note' = [note EXCEPT ![r].id = nextID + 1]
  /\ UNCHANGED <<logList, logLimit, details, detailLimits, saveVars, adminVars, fixedVars>>
addEntry(r) ==
  /\ logUp /\ stage[r] = "numbered" /\ stage' = [stage EXCEPT ![r] = "appended"]
  /\ logList' = Newest(Append(logList, [req |-> r, id |-> note[r].id]), logLimit)
  /\ UNCHANGED <<note, nextID, logLimit, details, detailLimits, saveVars, adminVars, fixedVars>>

RequestStep(r) ==
  \/ \E traced \in scene.traced : attachRequestDetailTrace(r, traced)
  \/ finalizeUnrecordedRequestDetail(r)
  \/ Finalize(r) \/ AddDetail(r) \/ Scheduled(r, "stored", "logging", "details")
  \/ TakeID(r) \/ addEntry(r) \/ Scheduled(r, "appended", "recorded", "log") \/ RecordAgain(r)

-----------------------------------------------------------------------------
(* The administrator. *)
UpdateRequestLogConfig(c) ==
  /\ logUp /\ admin = "idle" /\ admin' = "configure log" /\ logCfg' = c /\ c # logCfg
  /\ UNCHANGED <<stage, note, listVars, saveVars, clearing, cleared, fixedVars>>
configure ==
  /\ logUp /\ admin = "configure log" /\ admin' = "configure details"
  /\ logLimit' = logCfg.log /\ logList' = Newest(logList, logCfg.log) /\ scheduleSave("log")
  /\ UNCHANGED <<waiting, writing, logFiles, failed, logFaults, stage, note, nextID, details, detailLimits,
                 logCfg, clearing, cleared, fixedVars>>
configureStore ==
  /\ logUp /\ admin = "configure details" /\ admin' = "idle" /\ ensureRequestDetailStore
  /\ UNCHANGED <<waiting, writing, logFiles, failed, logFaults, stage, note, nextID, logList, logLimit,
                 logCfg, clearing, cleared, fixedVars>>
clear ==
  /\ logUp /\ admin = "idle" /\ "clear" \in scene.events /\ admin' = "cleared"
  /\ clearing' = RequestsOf(details) /\ details' = <<>> /\ scheduleSave("details")
  /\ UNCHANGED <<waiting, writing, logFiles, failed, logFaults, stage, note, nextID, logList, logLimit,
                 detailLimits, logCfg, cleared, fixedVars>>

(* The end of the process, after its requests, or a crash.  What is left of *)
(* a recording is lost.                                                     *)
Down ==
  /\ logUp' = FALSE /\ admin' = "idle" /\ UNCHANGED <<scene, logCfg, cleared, logFiles, failed, logFaults>>
  /\ stage' = [r \in LogRequests |-> IF stage[r] = "new" THEN "new" ELSE "gone"]
  /\ note' = [r \in LogRequests |-> NoNote]
  /\ nextID' = 0 /\ logList' = <<>> /\ details' = <<>> /\ UNCHANGED <<logLimit, detailLimits>>
  /\ timerSet' = [s \in Stores |-> FALSE] /\ waiting' = [s \in Stores |-> {}]
  /\ writing' = [s \in Stores |-> <<>>] /\ clearing' = {}
LogCrash == logUp /\ "crash" \in scene.events /\ Down
CloseLogs == logUp /\ admin = "closed" /\ Down
Closing ==
  /\ "close" \in scene.events /\ \A r \in LogRequests : stage[r] \in {"new", "recorded", "gone"}
  /\ Flush("log", "idle", "closing log")

(* The start: the newest entries the limits allow. *)
IDs(list) == {list[i].id : i \in DOMAIN list}
loadFrom_fresh(list) == 0
loadFrom(list) == Max(IDs(list) \cup {0})
Start ==
  /\ ~logUp /\ logUp' = TRUE
  /\ logLimit' = logCfg.log /\ logList' = Newest(logFiles["log"], logCfg.log)
  /\ nextID' = loadFrom(logList')
  /\ detailLimits' = [details |-> logCfg.details, bytes |-> logCfg.bytes]
  /\ details' = Trimmed(configureDetails(logFiles["details"], logCfg), logCfg.details)
  /\ UNCHANGED <<scene, stage, note, saveVars, adminVars>>

AdminStep ==
  \/ \E c \in scene.limits : UpdateRequestLogConfig(c)
  \/ configure \/ configureStore
  \/ clear \/ Flush("details", "cleared", "flushing")
  \/ Closing \/ Flush("details", "closed log", "closing details") \/ CloseLogs
  \/ LogCrash \/ Start
SaveStep ==
  \E s \in Stores :
    \/ SaveTimerFires(s)
    \/ \E by \in waiting[s] : saveTo(s, by)
    \/ \E ok \in BOOLEAN : writing[s] # <<>> /\ Written(s, ok)

LogsInit ==
  /\ scene \in LogScenes /\ logCfg \in scene.limits
  /\ stage = [r \in LogRequests |-> "new"] /\ note = [r \in LogRequests |-> NoNote]
  /\ nextID = 0 /\ logList = <<>> /\ logLimit = logCfg.log
  /\ details = <<>> /\ detailLimits = [details |-> logCfg.details, bytes |-> logCfg.bytes]
  /\ timerSet = [s \in Stores |-> FALSE] /\ waiting = [s \in Stores |-> {}]
  /\ writing = [s \in Stores |-> <<>>] /\ logFiles = [s \in Stores |-> <<>>]
  /\ failed = [s \in Stores |-> FALSE] /\ admin = "idle" /\ clearing = {} /\ cleared = {}
  /\ logFaults = 0 /\ logUp = TRUE
LogsNext == (\E r \in scene.requests : RequestStep(r)) \/ AdminStep \/ SaveStep
LogsSpec == LogsInit /\ [][LogsNext]_logVars

-----------------------------------------------------------------------------
(* What a start would read from a file, and the same limits on what is held. *)
Restored(s, list) ==
  IF s = "log" THEN Newest(list, logCfg.log)
  ELSE Trimmed(configureDetails(list, logCfg), logCfg.details)
Covers(s, list) == Range(Restored(s, Held(s))) \subseteq Range(Restored(s, list))
Saved(s) == Covers(s, logFiles[s])
Unscheduled(s) == \E r \in LogRequests : stage[r] = IF s = "log" THEN "appended" ELSE "stored"

(* No entry waits for a write that nobody will make: what a restart would   *)
(* not bring back is covered by a timer, by someone waiting to write, by    *)
(* the write under way, or was refused by the disk.                         *)
ChangesWillBeSaved ==
  logUp => \A s \in Stores :
    \/ Saved(s) \/ failed[s] \/ Unscheduled(s) \/ timerSet[s] \/ waiting[s] # {}
    \/ writing[s] # <<>> /\ Covers(s, writing[s][1].snap)

(* After an orderly end the files hold everything that was recorded. *)
EndSavesAll == admin = "closed" => \A s \in Stores : Saved(s) \/ failed[s]

(* Details the administrator was told are gone do not come back, neither    *)
(* through a write that was under way nor through a restart.                *)
ClearedStaysCleared ==
  cleared \cap (RequestsOf(details) \cup RequestsOf(logFiles["details"])) = {}

(* Entries are told apart by their numbers, after a restart too. *)
NumbersUnique ==
  \A list \in {logList, logFiles["log"]} : Cardinality(IDs(list)) = Len(list)

(* The two logs of requests reach their files, forget what was cleared and  *)
(* never give a number twice.                                               *)
LogsSafe == ChangesWillBeSaved /\ EndSavesAll /\ ClearedStaysCleared /\ NumbersUnique
=============================================================================
