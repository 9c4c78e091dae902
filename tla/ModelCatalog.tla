---------------------------- MODULE ModelCatalog ----------------------------
(***************************************************************************)
(* The catalogue of models (handler.go): what each account's upstream      *)
(* lists, the aggregate shown to clients, and the lists the pool routes    *)
(* by.                                                                     *)
(*                                                                         *)
(* A task is a run of the code that renews the catalogue: it reads the     *)
(* enabled accounts, later drops the entries of all others, then fetches   *)
(* account by account; what it read may be stale when it drops.  A fetch   *)
(* writes the pool's list and the catalogue under two locks, so it is two  *)
(* steps.  A model's many fields are four: name stands for those where the *)
(* first value wins, window for those where the largest does, pick for the *)
(* flags, caps for the lists.                                              *)
(* excused is history: accounts that may be listed although they are off.  *)
(* D_x is D with the defect x.                                             *)
(***************************************************************************)
EXTENDS Integers, Sequences, FiniteSets, Lists, SequencesExt, FiniteSetsExt

CONSTANTS
  CatalogAccounts,   \* a sequence: account ids by their order
  Listings,          \* what an upstream may list: sequences of ModelInfo
  BlankModel,        \* a model id that is blank
  NoName,
  Asked,             \* a listing that has not come yet
  TaskSlots, MaxModelsPerRun, ModelConcurrency, MaxTasks

VARIABLES
  on,                \* enabled accounts
  modelsByAccount, cachedModels, modelLists,
  modelsRefreshing, autoRefreshModelNext,
  tasks, closing, joined, started, excused
catalogVars ==
  <<on, modelsByAccount, cachedModels, modelLists, modelsRefreshing, autoRefreshModelNext,
    tasks, closing, joined, started, excused>>

ModelInfo(m, name, window, pick, caps) ==
  [id |-> m, name |-> name, window |-> window, pick |-> pick, caps |-> caps]
Task(kind, flag, background, stage, todo) ==
  [kind |-> kind, flag |-> flag, background |-> background, stage |-> stage,
   seen |-> {}, todo |-> todo, flight |-> <<>>]
IdleTask == Task("idle", FALSE, FALSE, "idle", <<>>)
CatalogIds == ToSet(CatalogAccounts)
InOrder(S) == Sublist(CatalogAccounts, S)
WithEntry(f, a, v) == [b \in DOMAIN f \cup {a} |-> IF b = a THEN v ELSE f[b]]
Only(f, S) == [b \in DOMAIN f \cap S |-> f[b]]

CatalogAssumption ==
  /\ CatalogAccounts \in Seq(CatalogIds)
  /\ Asked \notin Listings
  /\ MaxModelsPerRun \in Nat
  /\ \A l \in Listings :
       /\ l \in Seq(ToSet(l))
       /\ \A info \in ToSet(l) :
            /\ info = ModelInfo(info.id, info.name, info.window, info.pick, info.caps)
            /\ info.window \in Nat /\ info.pick \in BOOLEAN /\ info.caps \in Seq(ToSet(info.caps))
ASSUME CatalogAssumption

CatalogInit ==
  /\ on = CatalogIds /\ excused = {}
  /\ modelsByAccount = <<>> /\ cachedModels = <<>> /\ modelLists = [a \in CatalogIds |-> {}]
  /\ modelsRefreshing = FALSE /\ autoRefreshModelNext = 0
  /\ tasks = [s \in TaskSlots |-> IdleTask] /\ closing = FALSE /\ joined = FALSE /\ started = 0
-----------------------------------------------------------------------------
(* The aggregate.                                                           *)

mergeStringLists(base, extra) == base \o Sublist(extra, ToSet(extra) \ ToSet(base))

mergeModelInfo_last(base, extra) ==
  [base EXCEPT !.name = extra.name, !.window = Max({@, extra.window}),
               !.pick = @ \/ extra.pick, !.caps = mergeStringLists(@, extra.caps)]
mergeModelInfo(base, extra) ==
  [base EXCEPT !.name = IF @ = NoName THEN extra.name ELSE @, !.window = Max({@, extra.window}),
               !.pick = @ \/ extra.pick, !.caps = mergeStringLists(@, extra.caps)]

MergeOne(merged, info) ==
  LET known == {k \in 1 .. Len(merged) : merged[k].id = info.id}
  IN  IF info.id = BlankModel THEN merged
      ELSE IF known = {} THEN Append(merged, info)
      ELSE [k \in 1 .. Len(merged) |-> IF k \in known THEN mergeModelInfo(merged[k], info) ELSE merged[k]]
mergeUniqueModels(existing, incoming) ==
  LET merged[k \in 0 .. Len(incoming)] ==
        IF k = 0 THEN existing ELSE MergeOne(merged[k - 1], incoming[k])
  IN  merged[Len(incoming)]

\* One account after the other, in their order.
rebuildCachedModelsLocked(byAccount) ==
  LET order == InOrder(DOMAIN byAccount)
      aggregate[k \in 0 .. Len(order)] ==
        IF k = 0 THEN <<>> ELSE mergeUniqueModels(aggregate[k - 1], byAccount[order[k]])
  IN  aggregate[Len(order)]

\* The aggregate is built again only when an entry went.
pruneModelsByAccount_stale(enabled) ==
  /\ modelsByAccount' = Only(modelsByAccount, enabled) /\ UNCHANGED cachedModels
pruneModelsByAccount(enabled) ==
  /\ modelsByAccount' = Only(modelsByAccount, enabled)
  /\ cachedModels' = IF DOMAIN modelsByAccount \subseteq enabled THEN cachedModels
                     ELSE rebuildCachedModelsLocked(modelsByAccount')
-----------------------------------------------------------------------------
(* Starting tasks.                                                          *)

Start(s, task) ==
  /\ tasks[s] = IdleTask /\ started < MaxTasks /\ started' = started + 1
  /\ tasks' = [tasks EXCEPT ![s] = task]

\* No background task starts once the process is closing.
startBackgroundTask_closing(s, task) == Start(s, task)
startBackgroundTask(s, task) ==
  IF closing THEN started < MaxTasks /\ started' = started + 1 /\ UNCHANGED tasks ELSE Start(s, task)

\* An empty catalogue is renewed when a client asks for it.
refreshModelsCacheAsyncOnce_stuck(s) ==
  /\ cachedModels = <<>> /\ ~modelsRefreshing /\ modelsRefreshing' = TRUE
  /\ startBackgroundTask(s, Task("once", TRUE, TRUE, "list", <<>>))
  /\ UNCHANGED <<on, modelsByAccount, cachedModels, modelLists, autoRefreshModelNext, closing, joined, excused>>
refreshModelsCacheAsyncOnce(s) ==
  /\ cachedModels = <<>> /\ ~modelsRefreshing /\ modelsRefreshing' = ~closing
  /\ startBackgroundTask(s, Task("once", TRUE, TRUE, "list", <<>>))
  /\ UNCHANGED <<on, modelsByAccount, cachedModels, modelLists, autoRefreshModelNext, closing, joined, excused>>

\* The scheduler's loop is itself a background task: it runs until Close has joined it.
refreshScheduledModelCaches(s) ==
  /\ ~joined /\ ~modelsRefreshing /\ modelsRefreshing' = TRUE
  /\ Start(s, Task("scheduled", TRUE, TRUE, "list", <<>>))
  /\ UNCHANGED <<on, modelsByAccount, cachedModels, modelLists, autoRefreshModelNext, closing, joined, excused>>

apiRefreshAllAccountsModels(s) ==
  /\ Start(s, Task("all", FALSE, FALSE, "list", <<>>))
  /\ UNCHANGED <<on, modelsByAccount, cachedModels, modelLists, modelsRefreshing, autoRefreshModelNext,
                 closing, joined, excused>>

apiRefreshAccountModels(s, a) ==
  /\ Start(s, Task("one", FALSE, FALSE, "fetch", <<a>>))
  /\ excused' = IF a \in on THEN excused ELSE excused \cup {a}
  /\ UNCHANGED <<on, modelsByAccount, cachedModels, modelLists, modelsRefreshing, autoRefreshModelNext,
                 closing, joined>>

\* One account: nothing is dropped when it goes off, it is fetched when it comes on.
ChangeAccount(s, a) ==
  /\ IF a \in on
     THEN /\ on' = on \ {a} /\ excused' = excused \cup {a} /\ UNCHANGED tasks
          /\ started < MaxTasks /\ started' = started + 1
     ELSE /\ on' = on \cup {a} /\ excused' = excused \ {a}
          /\ startBackgroundTask(s, Task("warm", FALSE, TRUE, "fetch", <<a>>))
  /\ UNCHANGED <<modelsByAccount, cachedModels, modelLists, modelsRefreshing, autoRefreshModelNext,
                 closing, joined>>

\* A batch reads the enabled accounts again and drops the others; then it fetches
\* those that came on.
Reaches(a) ==
  \E s \in TaskSlots :
    a \in tasks[s].seen \cup ToSet(tasks[s].todo) \cup DOMAIN tasks[s].flight
ChangeBatch(s, a) ==
  /\ Start(s, Task("batch", FALSE, FALSE, "list", IF a \in on THEN <<>> ELSE <<a>>))
  /\ IF a \in on
     THEN on' = on \ {a} /\ excused' = IF Reaches(a) THEN excused \cup {a} ELSE excused
     ELSE on' = on \cup {a} /\ excused' = excused \ {a}
  /\ UNCHANGED <<modelsByAccount, cachedModels, modelLists, modelsRefreshing, autoRefreshModelNext,
                 closing, joined>>
-----------------------------------------------------------------------------
(* A task's steps.                                                          *)

EndTask_held(s) == tasks' = [tasks EXCEPT ![s] = IdleTask] /\ UNCHANGED modelsRefreshing
EndTask(s) ==
  /\ tasks' = [tasks EXCEPT ![s] = IdleTask]
  /\ modelsRefreshing' = (modelsRefreshing /\ ~tasks[s].flag)

\* Without an enabled account a pass ends before it drops anything.
ReadEnabled(s) ==
  /\ tasks[s].stage = "list"
  /\ IF on = {} /\ tasks[s].flag THEN EndTask(s)
     ELSE /\ tasks' = [tasks EXCEPT ![s].stage = "prune", ![s].seen = on]
          /\ UNCHANGED modelsRefreshing
  /\ UNCHANGED <<on, modelsByAccount, cachedModels, modelLists, autoRefreshModelNext, closing, joined,
                 started, excused>>

\* A scheduled pass fetches the next few of the accounts that are not cooling.
nextModelRefreshAccounts(accounts, max) ==
  [i \in 1 .. Min({max, Len(accounts)}) |->
     accounts[1 + ((autoRefreshModelNext + i - 1) % Len(accounts))]]

Selected(task, cooling) ==
  CASE task.kind = "scheduled" -> nextModelRefreshAccounts(InOrder(task.seen \ cooling), MaxModelsPerRun)
    [] task.kind = "batch" -> IF closing THEN <<>> ELSE task.todo
    [] OTHER -> InOrder(task.seen)

Prune(s, cooling) ==
  LET task == tasks[s]
      n == Cardinality(task.seen \ cooling)
      todo == Selected(task, cooling)
  IN  /\ task.stage = "prune" /\ pruneModelsByAccount(task.seen)
      /\ autoRefreshModelNext' = IF task.kind = "scheduled" /\ n > 0
                                 THEN ((autoRefreshModelNext % n) + Min({MaxModelsPerRun, n})) % n
                                 ELSE autoRefreshModelNext
      /\ IF todo = <<>> THEN EndTask(s)
         ELSE /\ tasks' = [tasks EXCEPT ![s] =
                             Task(task.kind, task.flag, task.background \/ task.kind = "batch", "fetch", todo)]
              /\ UNCHANGED modelsRefreshing
      /\ UNCHANGED <<on, modelLists, closing, joined, started, excused>>

\* As many fetches at a time as allowed; none more once the process is closing.
TakeJob(s) ==
  LET task == tasks[s] IN
  /\ task.stage = "fetch" /\ task.todo # <<>> /\ Cardinality(DOMAIN task.flight) < ModelConcurrency
  /\ tasks' = [tasks EXCEPT ![s].todo = Tail(@), ![s].flight = WithEntry(@, Head(task.todo), Asked)]
  /\ UNCHANGED <<on, modelsByAccount, cachedModels, modelLists, modelsRefreshing, autoRefreshModelNext,
                 closing, joined, started, excused>>
DropJobs(s) ==
  /\ closing /\ tasks[s].background /\ tasks[s].stage = "fetch" /\ tasks[s].todo # <<>>
  /\ tasks' = [tasks EXCEPT ![s].todo = <<>>]
  /\ UNCHANGED <<on, modelsByAccount, cachedModels, modelLists, modelsRefreshing, autoRefreshModelNext,
                 closing, joined, started, excused>>

\* The pool's list only grows.
SetModelList(a, listing) ==
  modelLists' = [modelLists EXCEPT ![a] = @ \cup ({info.id : info \in ToSet(listing)} \ {BlankModel})]
ListingCame(s, a, listing) ==
  /\ a \in DOMAIN tasks[s].flight /\ tasks[s].flight[a] = Asked
  /\ SetModelList(a, listing)
  /\ tasks' = [tasks EXCEPT ![s].flight = WithEntry(@, a, listing)]
  /\ UNCHANGED <<on, modelsByAccount, cachedModels, modelsRefreshing, autoRefreshModelNext,
                 closing, joined, started, excused>>
FetchFails(s, a) ==
  /\ a \in DOMAIN tasks[s].flight /\ tasks[s].flight[a] = Asked
  /\ tasks' = [tasks EXCEPT ![s].flight = Only(@, DOMAIN @ \ {a})]
  /\ UNCHANGED <<on, modelsByAccount, cachedModels, modelLists, modelsRefreshing, autoRefreshModelNext,
                 closing, joined, started, excused>>
fetchAndCacheAccountModels(s, a) ==
  /\ a \in DOMAIN tasks[s].flight /\ tasks[s].flight[a] # Asked
  /\ modelsByAccount' = WithEntry(modelsByAccount, a, tasks[s].flight[a])
  /\ cachedModels' = rebuildCachedModelsLocked(modelsByAccount')
  /\ tasks' = [tasks EXCEPT ![s].flight = Only(@, DOMAIN @ \ {a})]
  /\ UNCHANGED <<on, modelLists, modelsRefreshing, autoRefreshModelNext, closing, joined, started, excused>>

FinishTask(s) ==
  /\ tasks[s].stage = "fetch" /\ tasks[s].todo = <<>> /\ tasks[s].flight = <<>>
  /\ EndTask(s)
  /\ UNCHANGED <<on, modelsByAccount, cachedModels, modelLists, autoRefreshModelNext, closing, joined,
                 started, excused>>
-----------------------------------------------------------------------------
(* The end of the process.                                                  *)

StopBackground ==
  /\ ~closing /\ closing' = TRUE
  /\ UNCHANGED <<on, modelsByAccount, cachedModels, modelLists, modelsRefreshing, autoRefreshModelNext,
                 tasks, joined, started, excused>>
CloseJoins ==
  /\ closing /\ ~joined /\ joined' = TRUE
  /\ \A s \in TaskSlots : ~tasks[s].background
  /\ UNCHANGED <<on, modelsByAccount, cachedModels, modelLists, modelsRefreshing, autoRefreshModelNext,
                 tasks, closing, started, excused>>
\* What follows is another installation.
Reinstall ==
  /\ joined /\ tasks = [s \in TaskSlots |-> IdleTask]
  /\ on' = CatalogIds /\ excused' = {}
  /\ modelsByAccount' = <<>> /\ cachedModels' = <<>> /\ modelLists' = [a \in CatalogIds |-> {}]
  /\ modelsRefreshing' = FALSE /\ autoRefreshModelNext' = 0
  /\ closing' = FALSE /\ joined' = FALSE /\ started' = 0 /\ UNCHANGED tasks

CatalogNext ==
  \/ \E s \in TaskSlots :
       \/ refreshModelsCacheAsyncOnce(s) \/ refreshScheduledModelCaches(s) \/ apiRefreshAllAccountsModels(s)
       \/ \E a \in CatalogIds : apiRefreshAccountModels(s, a) \/ ChangeAccount(s, a) \/ ChangeBatch(s, a)
       \/ ReadEnabled(s) \/ TakeJob(s) \/ DropJobs(s) \/ FinishTask(s)
       \/ \E cooling \in SUBSET tasks[s].seen : Prune(s, cooling)
       \/ \E a \in CatalogIds, l \in Listings : ListingCame(s, a, l)
       \/ \E a \in CatalogIds : FetchFails(s, a) \/ fetchAndCacheAccountModels(s, a)
  \/ StopBackground \/ CloseJoins \/ Reinstall

CatalogSpec == CatalogInit /\ [][CatalogNext]_catalogVars
-----------------------------------------------------------------------------
\* The aggregate is what the entries say: every model once, with the first name in
\* the order of the accounts, the largest window and all capabilities.
AggregateExact ==
  LET order == InOrder(DOMAIN modelsByAccount)
      infos == FlattenSeq([k \in 1 .. Len(order) |-> modelsByAccount[order[k]]])
      of(m) == {i \in 1 .. Len(infos) : infos[i].id = m}
      named(m) == {i \in of(m) : infos[i].name # NoName}
  IN  /\ IsInjective([k \in 1 .. Len(cachedModels) |-> cachedModels[k].id])
      /\ {c.id : c \in ToSet(cachedModels)} = {info.id : info \in ToSet(infos)} \ {BlankModel}
      /\ \A c \in ToSet(cachedModels) :
           /\ c.name = IF named(c.id) = {} THEN NoName ELSE infos[Min(named(c.id))].name
           /\ c.window = Max({infos[i].window : i \in of(c.id)})
           /\ c.pick = (\E i \in of(c.id) : infos[i].pick)
           /\ ToSet(c.caps) = UNION {ToSet(infos[i].caps) : i \in of(c.id)}

\* A model that is shown is one the pool can route.
ShownIsRouted ==
  \A a \in DOMAIN modelsByAccount :
    {info.id : info \in ToSet(modelsByAccount[a])} \ {BlankModel} \subseteq modelLists[a]

\* An account that is off is shown only when it went off alone, or when a pass that
\* had seen it on, or a fetch for it, was still to end.
OffIsDropped ==
  (\A s \in TaskSlots : tasks[s].stage \notin {"list", "prune"}) => DOMAIN modelsByAccount \subseteq on \cup excused

\* One pass at a time; the flag never outlives it.
OnePass == modelsRefreshing = (\E s \in TaskSlots : tasks[s].flag) /\ Cardinality({s \in TaskSlots : tasks[s].flag}) <= 1

\* Nothing runs in the background once Close has joined.
JoinedIsQuiet == joined => \A s \in TaskSlots : ~tasks[s].background

\* The catalogue stays what its entries say and within what the pool can route while
\* passes, single fetches, account changes and the end of the process overlap; a
\* pass gives its flag back on every path, and Close leaves no task behind
\* (handler.go).
CatalogSafe == AggregateExact /\ ShownIsRouted /\ OffIsDropped /\ OnePass /\ JoinedIsQuiet
=============================================================================
