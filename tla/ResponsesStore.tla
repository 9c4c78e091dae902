--------------------------- MODULE ResponsesStore ---------------------------
(***************************************************************************)
(* The store of finished responses (responses_store.go): one encrypted     *)
(* file per response, an index of the files kept in memory and read from   *)
(* the directory on first use, a limit on files and bytes that drops the   *)
(* oldest, and an age after which a response is gone.                      *)
(*                                                                         *)
(* A file is its size, its modification time, the time the response was    *)
(* stored, its owner and whether it is a plain file of an older version.   *)
(* Every operation holds responsesStoreMu, so it is one action; it may     *)
(* fail at a system call.  A listing that fails, as a whole or at some of  *)
(* the files, still counts as the index.  A process that dies between writing a temporary *)
(* file and renaming it leaves the directory as it was to the index, which *)
(* looks at finished files only.  overlooked, dropped, grown, storeFaults  *)
(* and answer are history; storeFaults counts every file that a failing    *)
(* call left uncounted or in its place.                                    *)
(* D_x is D with the defect x.                                             *)
(***************************************************************************)
EXTENDS Integers, FiniteSets, FiniteSetsExt, Sequences, SequencesExt, Functions

CONSTANTS
  ResponseIds,       \* a sequence: file names by their order
  Owners, Readers, Sizes, MaxFiles, MaxBytes, ResponseTTL,
  EncryptedGrowth,   \* how much larger a plain file is once encrypted
  MaxStoreTime, MaxStoreFaults, NoAnswer

ASSUME ResponsesAssumption ==
  /\ ResponseIds \in Seq(ToSet(ResponseIds)) /\ Sizes \subseteq Nat /\ ResponseTTL \in Nat
  /\ MaxFiles \in Nat \ {0} /\ MaxBytes \in Nat /\ MaxStoreFaults \in Nat /\ EncryptedGrowth \in Nat

VARIABLES
  files,             \* the directory: response id -> file
  index,             \* responsesIndex
  overlooked,        \* files the listing behind the index failed to see
  now, dropped, storeFaults, answer,
  grown              \* by how much since the limits were last enforced
responseVars == <<files, index, overlooked, now, dropped, storeFaults, answer, grown>>

Names == ToSet(ResponseIds)
File(size, mod, stored, owner, plain) ==
  [size |-> size, mod |-> mod, stored |-> stored, owner |-> owner, plain |-> plain]
IndexEntry(f) == [size |-> f.size, mod |-> f.mod]
NoIndex == [loaded |-> FALSE, files |-> <<>>, total |-> 0]

Drop(f, S) == [n \in DOMAIN f \ S |-> f[n]]
Put(f, n, v) == [m \in DOMAIN f \cup {n} |-> IF m = n THEN v ELSE f[m]]
Bytes(f) == LET size == [n \in DOMAIN f |-> f[n].size] IN MapThenSumSet(LAMBDA n : size[n], DOMAIN f)

\* An older version may have left one plain file, within the limits.
ResponsesInit ==
  /\ \/ files = <<>>
     \/ \E n \in Names, s \in Sizes, o \in Owners : s <= MaxBytes /\ files = Put(<<>>, n, File(s, 1, 1, o, TRUE))
  /\ index = NoIndex /\ overlooked = {} /\ now = 1 /\ dropped = 0 /\ storeFaults = 0 /\ answer = NoAnswer /\ grown = 0
-----------------------------------------------------------------------------
(* The index.                                                               *)

\* unseen: the files that the listing passes over.
ensureResponsesIndexLocked(i, f, unseen) ==
  LET seen == Drop(f, unseen)
  IN  IF i.loaded THEN i
      ELSE [loaded |-> TRUE, files |-> [n \in DOMAIN seen |-> IndexEntry(seen[n])], total |-> Bytes(seen)]

\* All of them when the directory cannot be read, else at most one whose Info fails.
Stuck == {{}} \cup {{n} : n \in Names}
Unseen == {unseen \in Stuck \cup {DOMAIN files} : unseen \subseteq DOMAIN files /\ (index.loaded => unseen = {})}
Uncounted(unseen) == IF index.loaded THEN overlooked ELSE unseen

\* A file that is gone already counts as removed.
removeResponseFileLocked_uncounted(i, S) == [i EXCEPT !.files = Drop(@, S)]
removeResponseFileLocked(i, S) ==
  [i EXCEPT !.files = Drop(@, S),
            !.total = Max({0, @ - Bytes([n \in S \cap DOMAIN i.files |-> i.files[n]])})]

\* An overwritten file is counted once.
commitResponseFileLocked_twice(i, n, f) ==
  [i EXCEPT !.files = Put(@, n, IndexEntry(f)), !.total = @ + f.size]
commitResponseFileLocked(i, n, f) ==
  [i EXCEPT !.files = Put(@, n, IndexEntry(f)),
            !.total = @ + f.size - (IF n \in DOMAIN i.files THEN i.files[n].size ELSE 0)]

\* The oldest first, by name among equals.
Position(n) == CHOOSE k \in 1 .. Len(ResponseIds) : ResponseIds[k] = n
Older(i, n, m) ==
  \/ i.files[n].mod < i.files[m].mod
  \/ i.files[n].mod = i.files[m].mod /\ Position(n) < Position(m)
\* What may have been looked at when so many are left: none, or all up to one file.
Passed(i) == {{}} \cup {{m \in DOMAIN i.files : m = n \/ Older(i, m, n)} : n \in DOMAIN i.files}

\* Files are dropped until both limits hold; one that cannot be removed is passed
\* over and stays in the index.
WithinLimits(i, passed, stuck) ==
  /\ Cardinality(DOMAIN i.files \ passed) <= MaxFiles
  /\ removeResponseFileLocked(i, passed \ stuck).total <= MaxBytes
Dropped(i, stuck) ==
  LET enough == {passed \in Passed(i) : passed = DOMAIN i.files \/ WithinLimits(i, passed, stuck)}
      first == CHOOSE p \in enough : \A q \in enough : Cardinality(p) <= Cardinality(q)
  IN  first \ stuck

enforceResponsesQuotaLocked(i, f, stuck) ==
  LET gone == Dropped(i, stuck)
      times == {0} \cup {i.files[n].mod : n \in gone}
  IN  /\ index' = removeResponseFileLocked(i, gone)
      /\ files' = Drop(f, gone)
      /\ dropped' = Max({dropped} \cup times) /\ grown' = 0
-----------------------------------------------------------------------------
(* Operations.                                                              *)

Faulty(n) == storeFaults' = storeFaults + n /\ storeFaults' <= MaxStoreFaults

\* What no listing saw stays unknown until it is written again or gone.
Overlooks(unseen, written) == overlooked' = (Uncounted(unseen) \ written) \cap DOMAIN files'

\* stuck: the files that cannot be removed this time.
saveResponse(n, owner, size, unseen, stuck) ==
  LET f == File(size, now, now, owner, FALSE)
      i == ensureResponsesIndexLocked(index, files, unseen)
  IN  /\ Faulty(Cardinality(unseen) + Cardinality(stuck)) /\ stuck \subseteq DOMAIN i.files
      /\ (n \in DOMAIN files => files[n].owner = owner)
      /\ enforceResponsesQuotaLocked(commitResponseFileLocked(i, n, f), Put(files, n, f), stuck)
      /\ Overlooks(unseen, {n}) /\ answer' = NoAnswer /\ UNCHANGED <<now>>

\* A new file cannot be written or renamed, by a save or by a read that encrypts.
commitFails(unseen) ==
  /\ Faulty(Cardinality(unseen) + 1) /\ index' = ensureResponsesIndexLocked(index, files, unseen)
  /\ UNCHANGED files /\ Overlooks(unseen, {})
  /\ answer' = NoAnswer /\ UNCHANGED <<now, dropped, grown>>

expired(f) == now - f.stored > ResponseTTL
owned_always(f, owner) == TRUE
owned(f, owner) == f.owner = owner

\* A plain file is encrypted when it is read; that makes it a new, larger file.
encryptStoredResponse(f) ==
  IF f.plain THEN [f EXCEPT !.plain = FALSE, !.mod = now, !.size = @ + EncryptedGrowth] ELSE f

\* Age and owner are looked at after that; the limits are not.
loadResponseForOwner(n, owner, unseen, stuck) ==
  LET i == ensureResponsesIndexLocked(index, files, unseen)
      f == encryptStoredResponse(files[n])
      read == IF files[n].plain THEN commitResponseFileLocked(i, n, f) ELSE i
  IN  /\ n \in DOMAIN files
      /\ Faulty(Cardinality(unseen) + Cardinality(stuck)) /\ stuck \subseteq (IF expired(f) THEN {n} ELSE {})
      /\ IF expired(f)
         THEN /\ index' = removeResponseFileLocked(read, {n} \ stuck)
              /\ files' = Drop(Put(files, n, f), {n} \ stuck)
              /\ answer' = NoAnswer
         ELSE /\ index' = read /\ files' = Put(files, n, f)
              /\ answer' = IF owned(f, owner) THEN [owner |-> f.owner, to |-> owner, age |-> now - f.stored] ELSE NoAnswer
      /\ Overlooks(unseen, IF files[n].plain THEN {n} ELSE {})
      /\ grown' = grown + (f.size - files[n].size) /\ UNCHANGED <<now, dropped>>

\* Old files go by their modification time, then the limits are enforced.
purgeExpiredResponses(unseen, stuck) ==
  LET i == ensureResponsesIndexLocked(index, files, unseen)
      old == {n \in DOMAIN i.files : now - i.files[n].mod > ResponseTTL}
      gone == old \ stuck
  IN  /\ Faulty(Cardinality(unseen) + Cardinality(stuck)) /\ stuck \subseteq old
      /\ enforceResponsesQuotaLocked(removeResponseFileLocked(i, gone), Drop(files, gone), stuck)
      /\ Overlooks(unseen, {}) /\ answer' = NoAnswer /\ UNCHANGED <<now>>

purgeAllResponsesStorage ==
  /\ files' = <<>> /\ overlooked' = {}
  /\ index' = [loaded |-> TRUE, files |-> <<>>, total |-> 0]
  /\ answer' = NoAnswer /\ UNCHANGED <<now, dropped, storeFaults, grown>>

\* The directory could be removed only in part: the index still counts everything.
purgeAllFails(n, unseen) ==
  /\ Faulty(Cardinality(unseen) + 1) /\ n \in DOMAIN files
  /\ files' = Drop(files, {n}) /\ index' = ensureResponsesIndexLocked(index, files, unseen)
  /\ Overlooks(unseen, {}) /\ answer' = NoAnswer /\ UNCHANGED <<now, dropped, grown>>

responsesStorageStats(unseen) ==
  /\ ~index.loaded /\ index' = ensureResponsesIndexLocked(index, files, unseen)
  /\ Faulty(Cardinality(unseen)) /\ UNCHANGED files /\ Overlooks(unseen, {})
  /\ answer' = NoAnswer /\ UNCHANGED <<now, dropped, grown>>

RestartStore ==
  /\ index' = NoIndex /\ overlooked' = {} /\ answer' = NoAnswer
  /\ UNCHANGED <<files, now, dropped, storeFaults, grown>>

StoreTick ==
  /\ now < MaxStoreTime /\ now' = now + 1 /\ answer' = NoAnswer
  /\ UNCHANGED <<files, index, overlooked, dropped, storeFaults, grown>>

\* At most one file resists at a time.
ResponsesNext ==
  \/ \E n \in Names, o \in Owners, s \in Sizes, unseen \in Unseen, stuck \in Stuck : saveResponse(n, o, s, unseen, stuck)
  \/ \E unseen \in Unseen : commitFails(unseen)
  \/ \E n \in Names, unseen \in Unseen : purgeAllFails(n, unseen)
  \/ \E n \in Names, o \in Readers, unseen \in Unseen, stuck \in Stuck : loadResponseForOwner(n, o, unseen, stuck)
  \/ \E unseen \in Unseen, stuck \in Stuck : purgeExpiredResponses(unseen, stuck)
  \/ purgeAllResponsesStorage
  \/ \E unseen \in Unseen : responsesStorageStats(unseen)
  \/ RestartStore \/ StoreTick

ResponsesSpec == ResponsesInit /\ [][ResponsesNext]_responseVars
-----------------------------------------------------------------------------
\* Once the index is there it counts every file on disk, as large as it is, but for
\* those that a failing listing passed over.
IndexCountsDisk ==
  index.loaded =>
    /\ \A n \in DOMAIN files \ overlooked : n \in DOMAIN index.files /\ index.files[n] = IndexEntry(files[n])
    /\ Cardinality(overlooked) <= storeFaults /\ index.total = Bytes(index.files)

\* The limits hold but for what could not be removed or seen and what has been
\* encrypted since; what was dropped for them is never newer than what stayed.
LimitsHold ==
  /\ Cardinality(DOMAIN files) <= MaxFiles + storeFaults
  /\ storeFaults = 0 => Bytes(files) <= MaxBytes + grown /\ \A n \in DOMAIN files : files[n].mod >= dropped

\* Who reads a response owns it, and it is not too old.
AnswersOwned == answer # NoAnswer => answer.owner = answer.to /\ answer.age <= ResponseTTL

\* The index of the stored responses never counts less than the disk holds, through
\* overwrites, failed removals, half a purge and restarts, but for files that a failed
\* listing passed over: those stay uncounted until they are written again, are gone or
\* the process restarts, and there are no more of them than failures.  The limits drop
\* the oldest; a key reads its own fresh responses only (responses_store.go).
ResponsesSafe == IndexCountsDisk /\ LimitsHold /\ AnswersOwned
=============================================================================
