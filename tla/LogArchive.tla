------------------------------- MODULE LogArchive -------------------------------
(***************************************************************************)
(* The long-term archive of proxy/log_archive.go: producers put records in *)
(* a bounded queue, one goroutine writes them to rotating files and serves *)
(* the commands reconfigure, flush and clear; cleanup removes old files    *)
(* and the oldest ones beyond the capacity; Close drains the queue.        *)
(* D_x is D with the defect x, and no part of the specification.           *)
(***************************************************************************)
EXTENDS Lists, FiniteSets, SequencesExt

CONSTANTS
  Records, DetailRecords,  \* records, and those of them that are details
  QueueCap, CommandCap,    \* capacities of the channels
  RotateBytes, CapacityBytes,
  MaxArchiveFaults,        \* bound: failing writes and opens
  ArchiveScenes            \* bound: what happens besides records and writes

VARIABLES
  arcScene,
  arcCfg,      \* [enabled, details]
  producer,    \* record -> "new", "checked", "done"
  arcQueue, commands,
  worker,      \* [at, by]: what the goroutine does, for which command
  arcFiles,    \* sequence of [lines, aged], oldest first
  fileOpen,    \* the last file is open
  otherDay,    \* the open file is of an earlier day
  caller,      \* the administrator: [does, phase, before]
  closing,     \* "no", "stopping" (closed and stop are set), "closed"
  accepted,    \* history: the records in the order the queue took them
  erased,        \* history: records a finished clear covers
  flushed,     \* history: records a finished flush covers
  owed,        \* history: records Close found accepted
  arcFaults

arcVars == <<arcScene, arcCfg, producer, arcQueue, commands, worker, arcFiles, fileOpen, otherDay,
             caller, closing, accepted, erased, flushed, owed, arcFaults>>
diskVars == <<arcFiles, fileOpen, otherDay>>
historyVars == <<accepted, erased, flushed, owed>>

Bytes1(r) == IF r \in DetailRecords THEN 2 ELSE 1
FileBytes(f) == FoldLeft(LAMBDA n, r : n + Bytes1(r), 0, f.lines)
TotalBytes(fs) == FoldLeft(LAMBDA n, f : n + FileBytes(f), 0, fs)
Archived(fs) == FlattenSeq([i \in 1 .. Len(fs) |-> fs[i].lines])
NewFile == [lines |-> <<>>, aged |-> FALSE]
ArchiveScene(records, configs, events) == [records |-> records, configs |-> configs, events |-> events]
Idle == [at |-> "select", by |-> "none"]
NoCall == [does |-> "none", phase |-> "idle", before |-> {}]
Wanted(r) == arcCfg.enabled /\ (r \in DetailRecords => arcCfg.details)

-----------------------------------------------------------------------------
(* The producers.  The configuration is looked at before and again when the *)
(* record is written.                                                       *)
appendValue(r) ==
  /\ producer[r] = "new"
  /\ producer' = [producer EXCEPT ![r] = IF closing = "no" /\ Wanted(r) THEN "checked" ELSE "done"]
  /\ UNCHANGED <<arcScene, arcCfg, arcQueue, commands, worker, diskVars, caller, closing, historyVars, arcFaults>>

(* The queue takes it; or it stays full until the time is over; or the      *)
(* archive stops: then either may happen.                                   *)
enqueue(r) ==
  /\ producer[r] = "checked" /\ producer' = [producer EXCEPT ![r] = "done"]
  /\ \/ /\ Len(arcQueue) < QueueCap
        /\ arcQueue' = Append(arcQueue, r) /\ accepted' = Append(accepted, r)
     \/ (Len(arcQueue) = QueueCap \/ closing # "no") /\ UNCHANGED <<arcQueue, accepted>>
  /\ UNCHANGED <<arcScene, arcCfg, commands, worker, diskVars, caller, closing, erased, flushed, owed, arcFaults>>

-----------------------------------------------------------------------------
(* The files.  A new file is opened when there is none, on a new day and    *)
(* when the record would not fit; a full one is closed after the write.     *)
Closed == fileOpen' = FALSE /\ otherDay' = FALSE
Fits(f, r) == FileBytes(f) = 0 \/ FileBytes(f) + Bytes1(r) <= RotateBytes
WrittenTo(r) ==
  IF fileOpen /\ ~otherDay /\ Fits(Last(arcFiles), r)
  THEN [arcFiles EXCEPT ![Len(arcFiles)].lines = Append(@, r)]
  ELSE Append(arcFiles, [NewFile EXCEPT !.lines = <<r>>])
(* Retention, then the oldest files until the rest is within the capacity. *)
Kept(fs, expired) ==
  LET young == IF expired THEN Sublist(fs, {f \in Range(fs) : ~f.aged}) ELSE fs
      within == {n \in 0..Len(young) :
                   n = Len(young) \/ TotalBytes(SubSeq(young, n + 1, Len(young))) <= CapacityBytes}
  IN SubSeq(young, Min(within) + 1, Len(young))

(* One record of the queue.  A write or an open that fails loses it. *)
writeItem(r) ==
  /\ arcQueue' = Tail(arcQueue)
  /\ IF ~Wanted(r) THEN /\ IF arcCfg.enabled THEN UNCHANGED <<fileOpen, otherDay>> ELSE Closed
                        /\ UNCHANGED <<arcFiles, arcFaults>>
     ELSE \/ LET files == WrittenTo(r)
             IN /\ UNCHANGED arcFaults
                /\ IF FileBytes(Last(files)) >= RotateBytes
                   THEN Closed /\ arcFiles' = Kept(files, TRUE)
                   ELSE arcFiles' = files /\ fileOpen' = TRUE /\ otherDay' = FALSE
          \/ /\ arcFaults < MaxArchiveFaults /\ arcFaults' = arcFaults + 1
             /\ Closed /\ UNCHANGED arcFiles

cleanup ==
  LET kept == Kept(arcFiles, TRUE)
      lostOpen == fileOpen /\ (kept = <<>> \/ Last(kept) # Last(arcFiles))
  IN IF ~arcCfg.enabled THEN UNCHANGED diskVars
     ELSE /\ arcFiles' = kept
          /\ IF lostOpen THEN Closed ELSE UNCHANGED <<fileOpen, otherDay>>

-----------------------------------------------------------------------------
(* The goroutine: a record, a command, the cleanup, or the stop. *)
TakeRecord ==
  /\ worker = Idle /\ arcQueue # <<>> /\ closing # "closed" /\ writeItem(Head(arcQueue))
  /\ UNCHANGED <<arcScene, arcCfg, producer, commands, worker, caller, closing, historyVars>>

TakeCommand ==
  /\ worker = Idle /\ commands # <<>> /\ closing # "closed"
  /\ worker' = [at |-> IF Head(commands) = "clear" THEN "discard" ELSE "drain", by |-> Head(commands)]
  /\ commands' = Tail(commands)
  /\ UNCHANGED <<arcScene, arcCfg, producer, arcQueue, diskVars, caller, closing, historyVars, arcFaults>>

QueueServed_nearly == Len(arcQueue) <= 1
QueueServed == arcQueue = <<>>
drainQueue ==
  /\ worker.at = "drain" /\ arcQueue # <<>> /\ writeItem(Head(arcQueue))
  /\ UNCHANGED <<arcScene, arcCfg, producer, commands, worker, caller, closing, historyVars>>
discardQueue ==
  /\ worker.at = "discard" /\ arcQueue # <<>> /\ arcQueue' = Tail(arcQueue)
  /\ UNCHANGED <<arcScene, arcCfg, producer, commands, worker, diskVars, caller, closing, historyVars, arcFaults>>

(* Nothing is left in the queue.  The answer is there for a caller that     *)
(* still waits; one that saw the stop has left.                             *)
Answered == IF caller.phase = "waiting" THEN caller' = NoCall ELSE UNCHANGED caller
clearFiles ==
  /\ worker.by = "clear" /\ Closed /\ Answered /\ UNCHANGED flushed
  /\ \/ /\ arcFiles' = <<>> /\ UNCHANGED arcFaults
        /\ erased' = IF caller.phase = "waiting" THEN erased \cup caller.before ELSE erased
     \/ /\ arcFaults < MaxArchiveFaults /\ arcFaults' = arcFaults + 1 /\ UNCHANGED erased
        /\ arcFiles # <<>> /\ arcFiles' = Tail(arcFiles)
handleCommand ==
  /\ worker.at \in {"drain", "discard"} /\ QueueServed /\ worker' = Idle
  /\ \/ /\ worker.by = "reconfigure"
        /\ IF arcCfg.enabled THEN cleanup ELSE Closed /\ UNCHANGED arcFiles
        /\ UNCHANGED <<caller, erased, flushed, arcFaults>>
     \/ /\ worker.by = "flush" /\ Answered /\ UNCHANGED <<diskVars, erased, arcFaults>>
        /\ flushed' = IF caller.phase = "waiting" THEN flushed \cup caller.before ELSE flushed
     \/ clearFiles
  /\ UNCHANGED <<arcScene, arcCfg, producer, arcQueue, commands, closing, accepted, owed>>

CleanupTicks ==
  /\ worker = Idle /\ closing = "no" /\ cleanup
  /\ UNCHANGED <<arcScene, arcCfg, producer, arcQueue, commands, worker, caller, closing, historyVars, arcFaults>>

drainAndClose ==
  \/ /\ worker = Idle /\ closing = "stopping" /\ worker' = [Idle EXCEPT !.at = "stop"]
     /\ UNCHANGED <<arcQueue, diskVars, arcFaults>>
  \/ worker.at = "stop" /\ arcQueue # <<>> /\ writeItem(Head(arcQueue)) /\ UNCHANGED worker
  \/ /\ worker.at = "stop" /\ QueueServed /\ worker' = [Idle EXCEPT !.at = "done"]
     /\ Closed /\ UNCHANGED <<arcQueue, arcFiles, arcFaults>>
StopStep ==
  /\ drainAndClose
  /\ UNCHANGED <<arcScene, arcCfg, producer, commands, caller, closing, historyVars>>

-----------------------------------------------------------------------------
(* The administrator. *)
Configure(c) ==
  /\ closing = "no" /\ c # arcCfg /\ arcCfg' = c
  /\ commands' = IF Len(commands) < CommandCap THEN Append(commands, "reconfigure") ELSE commands
  /\ UNCHANGED <<arcScene, producer, arcQueue, worker, diskVars, caller, closing, historyVars, arcFaults>>

Call(what) ==
  /\ caller = NoCall /\ closing = "no"
  /\ caller' = [does |-> what, phase |-> "sending", before |-> Range(accepted)]
  /\ UNCHANGED <<arcScene, arcCfg, producer, arcQueue, commands, worker, diskVars, closing, historyVars, arcFaults>>
SendCommand ==
  /\ caller.phase = "sending" /\ Len(commands) < CommandCap
  /\ commands' = Append(commands, caller.does) /\ caller' = [caller EXCEPT !.phase = "waiting"]
  /\ UNCHANGED <<arcScene, arcCfg, producer, arcQueue, worker, diskVars, closing, historyVars, arcFaults>>
SeesStop ==
  /\ caller.phase # "idle" /\ closing # "no" /\ caller' = NoCall
  /\ UNCHANGED <<arcScene, arcCfg, producer, arcQueue, commands, worker, diskVars, closing, historyVars, arcFaults>>

(* Close marks the archive closed, stops the goroutine and waits for it. *)
Close ==
  /\ "close" \in arcScene.events
  /\ \/ closing = "no" /\ closing' = "stopping" /\ owed' = Range(accepted)
     \/ closing = "stopping" /\ worker.at = "done" /\ closing' = "closed" /\ UNCHANGED owed
  /\ UNCHANGED <<arcScene, arcCfg, producer, arcQueue, commands, worker, diskVars, caller, accepted, erased, flushed, arcFaults>>

(* A start finds the files of the process before it, and none is open. *)
newLogArchive ==
  /\ closing = "closed" /\ closing' = "no" /\ caller = NoCall
  /\ arcQueue' = <<>> /\ worker' = Idle /\ Closed /\ UNCHANGED arcFiles
  /\ commands' = IF arcCfg.enabled THEN <<"reconfigure">> ELSE <<>>
  /\ producer' = [r \in Records |-> IF producer[r] = "checked" THEN "done" ELSE producer[r]]
  /\ UNCHANGED <<arcScene, arcCfg, caller, historyVars, arcFaults>>

(* The open file is written to; the others grow old one by one. *)
DayPasses ==
  /\ "days" \in arcScene.events
  /\ \/ /\ fileOpen /\ ~otherDay /\ otherDay' = TRUE /\ UNCHANGED arcFiles
     \/ \E i \in DOMAIN arcFiles :
          /\ ~arcFiles[i].aged /\ ~(fileOpen /\ i = Len(arcFiles))
          /\ \A j \in 1..(i - 1) : arcFiles[j].aged
          /\ arcFiles' = [arcFiles EXCEPT ![i].aged = TRUE] /\ UNCHANGED otherDay
  /\ UNCHANGED <<arcScene, arcCfg, producer, arcQueue, commands, worker, fileOpen, caller, closing, historyVars, arcFaults>>

ArchiveInit ==
  /\ arcScene \in ArchiveScenes /\ arcCfg = [enabled |-> TRUE, details |-> TRUE]
  /\ producer = [r \in Records |-> IF r \in arcScene.records THEN "new" ELSE "done"]
  /\ arcQueue = <<>> /\ commands = <<"reconfigure">>
  /\ worker = Idle /\ arcFiles = <<>> /\ fileOpen = FALSE /\ otherDay = FALSE
  /\ caller = NoCall /\ closing = "no" /\ accepted = <<>> /\ erased = {} /\ flushed = {} /\ owed = {} /\ arcFaults = 0

ArchiveNext ==
  \/ \E r \in Records : appendValue(r) \/ enqueue(r)
  \/ TakeRecord \/ TakeCommand \/ drainQueue \/ discardQueue \/ handleCommand \/ CleanupTicks \/ StopStep
  \/ \E c \in arcScene.configs : Configure(c)
  \/ \E what \in arcScene.events \cap {"flush", "clear"} : Call(what)
  \/ SendCommand \/ SeesStop \/ Close \/ newLogArchive \/ DayPasses
ArchiveSpec == ArchiveInit /\ [][ArchiveNext]_arcVars

-----------------------------------------------------------------------------
Before(r, q) == \E i, j \in DOMAIN accepted : i < j /\ accepted[i] = r /\ accepted[j] = q

(* The files, oldest first, hold the records in the order in which the      *)
(* queue took them, none twice, through rotation, cleanup and restarts.     *)
InOrder ==
  LET all == Archived(arcFiles)
  IN \A i, j \in DOMAIN all : i < j => Before(all[i], all[j])

(* When clear answers, what was accepted before it was called is in no file *)
(* and not in the queue, and does not come back.                            *)
ClearedForGood == erased \cap (Range(arcQueue) \cup Range(Archived(arcFiles))) = {}

(* A flush that was not cut short by the stop leaves nothing in the queue   *)
(* that was accepted before it was called.                                  *)
FlushCovers == flushed \cap Range(arcQueue) = {}

(* What was accepted before Close was called is not left in the queue. *)
CloseDrains == closing = "closed" => owed \cap Range(arcQueue) = {}

(* The archive keeps the order, and its answers are true. *)
ArchiveSafe == InOrder /\ ClearedForGood /\ FlushCovers /\ CloseDrains
=============================================================================
