---------------------------- MODULE AutoRefresh ----------------------------
(***************************************************************************)
(* The background refresh of tokens and account information (handler.go):  *)
(* which accounts are due, in which order a bounded run takes them, what   *)
(* each outcome does to the account's failure cooldown, and the status the *)
(* operator sees.  Tokens that are about to expire go first; a cooldown    *)
(* left by a failed usage query must not keep a token from being renewed.  *)
(*                                                                         *)
(* An account is enabled or not, its token expires at a time, and its      *)
(* information was last refreshed at a time (0 for never).  kept is the    *)
(* pool's durable copy of the cooldowns and of the cursor; that it reaches *)
(* the disk is the subject of AccountCooldowns, the token exchange that of *)
(* TokenRefresh.  cause is history: why an account cools down.             *)
(* D_x is D with the defect x.                                             *)
(***************************************************************************)
EXTENDS Integers, Sequences, FiniteSets, FiniteSetsExt, SequencesExt, Lists

CONSTANTS
  RefreshScenes,     \* scenes that take part, see RefreshScene
  RefreshBefore,     \* TokenRefreshBeforeSeconds
  InfoInterval,      \* IntervalMinutes
  FailureCooldown,   \* FailureCooldownSeconds
  TokenLife, MaxRefreshTime

ASSUME RefreshRunAssumption ==
  /\ {RefreshBefore, InfoInterval, FailureCooldown, TokenLife, MaxRefreshTime} \subseteq Nat
  /\ \A s \in RefreshScenes : s.order \in Seq(ToSet(s.order)) /\ s.most \in Nat

VARIABLES plan, acct, fail, kept, recent, cursor, run, clock, lastRun, cause
refreshVars == <<plan, acct, fail, kept, recent, cursor, run, clock, lastRun, cause>>

\* order: the accounts as they are stored; most: MaxAccountsPerRun; workers:
\* RefreshConcurrency; token and info: how the two calls may end; idle: accounts
\* without recent use; by: who starts runs; resets: restarts and the operator.
RefreshScene(order, most, workers, token, info, idle, by, resets) ==
  [order |-> order, most |-> most, workers |-> workers, token |-> token, info |-> info,
   idle |-> idle, by |-> by, resets |-> resets]

Listed == ToSet(plan.order)
NoRun == [by |-> "nobody", stage |-> <<>>, result |-> <<>>, seen |-> <<>>, urgent |-> {}]
NoStatus == [status |-> "none", reason |-> ""]
Result(status, reason, info) == [status |-> status, reason |-> reason, info |-> info]

RefreshInit ==
  /\ plan \in RefreshScenes
  /\ acct \in [Listed -> [on : {TRUE}, expires : {1, MaxRefreshTime + 2}, last : {0}]]
  /\ fail = [a \in Listed |-> 0]
  /\ kept = [until |-> fail, cursor |-> 0]
  /\ recent = [a \in Listed |-> NoStatus]
  /\ cursor = 0 /\ run = NoRun /\ clock = 1 /\ lastRun = 0
  /\ cause = [a \in Listed |-> "none"]
-----------------------------------------------------------------------------
(* Cooldowns.                                                               *)

isAutoRefreshCooling(a) == clock < fail[a]

\* A cooldown left by a failed usage query does not hold up the token.
tokenRefreshBlockedByCooldown_any(a) == isAutoRefreshCooling(a)
tokenRefreshBlockedByCooldown(a) ==
  isAutoRefreshCooling(a) /\ recent[a].reason \notin {"info failed", "usage unavailable"}

Cools(f, k, a, until, why) ==
  /\ fail' = [f EXCEPT ![a] = until]
  /\ kept' = [k EXCEPT !.until[a] = until]
  /\ cause' = [cause EXCEPT ![a] = why]
markAutoRefreshFailure(a, why) == Cools(fail, kept, a, clock + FailureCooldown, why)

clearAutoRefreshFailure_memory(a) ==
  /\ fail' = [fail EXCEPT ![a] = 0] /\ UNCHANGED kept
  /\ cause' = [cause EXCEPT ![a] = "none"]
clearAutoRefreshFailure(a) == Cools(fail, kept, a, 0, "none")

Untouched == UNCHANGED <<fail, kept, cause>>
-----------------------------------------------------------------------------
(* Which accounts are due, and which of them a run takes.                   *)

tokenRefreshUrgency(a) == clock >= acct[a].expires - RefreshBefore

\* The information of an idle account is refreshed four times less often.
infoInterval(a) == IF a \in plan.idle THEN 4 * InfoInterval ELSE InfoInterval

Due(a) ==
  /\ acct[a].on
  /\ IF tokenRefreshUrgency(a) THEN ~tokenRefreshBlockedByCooldown(a)
     ELSE /\ ~isAutoRefreshCooling(a)
          /\ acct[a].last = 0 \/ clock - acct[a].last >= infoInterval(a)

\* Urgent accounts first, by expiry; the others in their stored order.
dueAutoRefreshAccounts_unsorted == Sublist(plan.order, {a \in Listed : Due(a)})
dueAutoRefreshAccounts ==
  LET urgent == {a \in Listed : tokenRefreshUrgency(a)}
      due == Sublist(plan.order, {a \in Listed : Due(a)})
      at(t) == Sublist(due, {a \in urgent : acct[a].expires = t})
  IN  FlattenSeq([t \in 1 .. clock + RefreshBefore |-> at(t)]) \o Sublist(due, Listed \ urgent)

hasUrgentAutoRefreshAccount ==
  \E a \in Listed : acct[a].on /\ tokenRefreshUrgency(a) /\ ~tokenRefreshBlockedByCooldown(a)

\* The urgent head of the list, then the regular ones from the cursor on.
nextAutoRefreshAccounts(due) ==
  LET most == IF plan.most = 0 THEN Len(due) ELSE Min({plan.most, Len(due)})
      head == CHOOSE n \in 0 .. Len(due) :
                /\ \A i \in 1 .. n : tokenRefreshUrgency(due[i])
                /\ n = Len(due) \/ ~tokenRefreshUrgency(due[n + 1])
      urgent == SubSeq(due, 1, Min({head, most}))
      regular == SubSeq(due, head + 1, Len(due))
      left == Min({most - Len(urgent), Len(regular)})
      start == IF regular = <<>> THEN 0 ELSE cursor % Len(regular)
  IN  IF left <= 0 THEN [selected |-> urgent, cursor |-> cursor]
      ELSE [selected |-> urgent \o [i \in 1 .. left |-> regular[((start + i - 1) % Len(regular)) + 1]],
            cursor |-> (start + left) % Len(regular)]
-----------------------------------------------------------------------------
(* Runs.                                                                    *)

beginAutoRefreshRun(by, selected, due) ==
  [by |-> by, stage |-> [a \in ToSet(selected) |-> "todo"], result |-> <<>>,
   seen |-> [a \in ToSet(selected) |-> acct[a].expires],
   urgent |-> {a \in ToSet(due) : tokenRefreshUrgency(a)}]

MoveCursor(c) == cursor' = c /\ kept' = [kept EXCEPT !.cursor = c]

\* The accounts are selected before the flag is tried: a pass that meets another
\* run has moved the cursor and counts as done.
SchedulerPass ==
  /\ "scheduler" \in plan.by /\ run.by # "scheduler"
  /\ hasUrgentAutoRefreshAccount \/ lastRun = 0 \/ clock - lastRun >= InfoInterval
  /\ LET due == dueAutoRefreshAccounts
         next == nextAutoRefreshAccounts(due)
     IN  /\ MoveCursor(next.cursor)
         /\ IF run = NoRun /\ next.selected # <<>>
            THEN run' = beginAutoRefreshRun("scheduler", next.selected, due) /\ UNCHANGED lastRun
            ELSE UNCHANGED run /\ lastRun' = clock
  /\ UNCHANGED <<plan, acct, fail, recent, clock, cause>>

apiRunDue ==
  /\ "operator" \in plan.by /\ run = NoRun
  /\ LET due == dueAutoRefreshAccounts
         next == nextAutoRefreshAccounts(due)
     IN  /\ MoveCursor(next.cursor)
         /\ run' = IF next.selected = <<>> THEN NoRun ELSE beginAutoRefreshRun("operator", next.selected, due)
  /\ UNCHANGED <<plan, acct, fail, recent, clock, lastRun, cause>>

\* Every failed account is forgiven, also those the limit leaves out of the run.
apiRunFailed ==
  LET failed == Sublist(plan.order, {a \in Listed : recent[a].status = "failed" /\ acct[a].on})
      cleared(f) == [a \in Listed |-> IF a \in ToSet(failed) THEN 0 ELSE f[a]]
      most == IF plan.most = 0 THEN Len(failed) ELSE Min({plan.most, Len(failed)})
  IN  /\ "operator" \in plan.by /\ run = NoRun /\ failed # <<>>
      /\ fail' = cleared(fail) /\ kept' = [kept EXCEPT !.until = cleared(@)]
      /\ cause' = [a \in Listed |-> IF a \in ToSet(failed) THEN "none" ELSE cause[a]]
      /\ run' = beginAutoRefreshRun("operator", SubSeq(failed, 1, most), <<>>)
      /\ UNCHANGED <<plan, acct, recent, cursor, clock, lastRun>>

\* refreshOneAccount: the account's turn comes, its token is renewed if it is
\* about to expire (as it was when the run began), then its information is fetched.
Busy == {a \in DOMAIN run.stage : run.stage[a] \in {"token", "info"}}
Turn(a, from) == a \in DOMAIN run.stage /\ run.stage[a] = from
Stage(a, s) == run' = [run EXCEPT !.stage[a] = s]
Done(a, r) ==
  LET results == [b \in DOMAIN run.result \cup {a} |-> IF b = a THEN r ELSE run.result[b]]
  IN  run' = [run EXCEPT !.stage[a] = "done", !.result = results]
OneAccount == UNCHANGED <<plan, recent, cursor, clock, lastRun>>

refreshOneAccount(a) ==
  /\ Turn(a, "todo") /\ Cardinality(Busy) < plan.workers
  /\ CASE clock < run.seen[a] - RefreshBefore -> Stage(a, "info")
       [] tokenRefreshBlockedByCooldown(a) -> Done(a, Result("skipped", "token cooldown", FALSE))
       [] OTHER -> Stage(a, "token")
  /\ Untouched /\ OneAccount /\ UNCHANGED acct

\* A block of the authentication service and a local mistake leave the cooldown
\* as it is, but not the reason in the status.
TokenEnds(a, end) ==
  /\ Turn(a, "token")
  /\ CASE end = "ok" -> /\ acct' = [acct EXCEPT ![a].expires = clock + TokenLife]
                        /\ clearAutoRefreshFailure(a) /\ Stage(a, "info")
       [] end = "failed" -> /\ markAutoRefreshFailure(a, "token") /\ UNCHANGED acct
                            /\ Done(a, Result("failed", "token failed", FALSE))
       [] end = "rejected" -> /\ markAutoRefreshFailure(a, "token")
                              /\ acct' = [acct EXCEPT ![a].on = FALSE]
                              /\ Done(a, Result("failed", "token failed", FALSE))
       [] OTHER -> /\ UNCHANGED <<acct, fail, kept>>
                   /\ cause' = [cause EXCEPT ![a] = IF @ = "info" THEN "reason lost" ELSE @]
                   /\ Done(a, IF end = "local" THEN Result("failed", "local", FALSE)
                              ELSE Result("skipped", "blocked", FALSE))
  /\ OneAccount

InfoEnds(a, end) ==
  /\ Turn(a, "info")
  /\ CASE isAutoRefreshCooling(a) -> Untouched /\ Done(a, Result("skipped", "failure cooldown", FALSE))
       [] end = "ok" -> clearAutoRefreshFailure(a) /\ Done(a, Result("success", "", TRUE))
       [] end = "partial" -> /\ clearAutoRefreshFailure(a)
                             /\ Done(a, Result("partial", "usage unavailable", TRUE))
       [] OTHER -> /\ markAutoRefreshFailure(a, "info")
                   /\ Done(a, Result("failed", "info failed", FALSE))
  /\ OneAccount /\ UNCHANGED acct

\* The informations are stored together; if that fails nobody was refreshed.
Status(r, saved) == IF r.info /\ ~saved THEN [status |-> "failed", reason |-> "not persisted"]
                    ELSE [status |-> r.status, reason |-> r.reason]

finishAutoRefreshRun_lastOnly(saved) ==
  [a \in Listed |-> IF a \in DOMAIN run.result /\ run.result[a].info
                    THEN Status(run.result[a], saved) ELSE recent[a]]
finishAutoRefreshRun(saved) ==
  [a \in Listed |-> IF a \in DOMAIN run.result THEN Status(run.result[a], saved) ELSE recent[a]]

FinishRun(saved) ==
  /\ run # NoRun /\ \A a \in DOMAIN run.stage : run.stage[a] = "done"
  /\ saved \/ \E a \in DOMAIN run.result : run.result[a].info
  /\ acct' = [a \in Listed |-> IF a \in DOMAIN run.result /\ run.result[a].info
                               THEN [acct[a] EXCEPT !.last = clock] ELSE acct[a]]
  /\ recent' = finishAutoRefreshRun(saved)
  /\ lastRun' = IF run.by = "scheduler" THEN clock ELSE lastRun
  /\ run' = NoRun
  /\ Untouched /\ UNCHANGED <<plan, cursor, clock>>
-----------------------------------------------------------------------------
(* What else happens: time, requests that renew a token, the operator who   *)
(* enables an account, and restarts, which forget the status.               *)

RefreshTick ==
  /\ clock < MaxRefreshTime /\ clock' = clock + 1
  /\ UNCHANGED <<plan, acct, fail, kept, recent, cursor, run, lastRun, cause>>

\* The history starts over, so that a run of the checker need not end.
StartOver ==
  /\ clock = MaxRefreshTime /\ run = NoRun
  /\ UNCHANGED plan
  /\ acct' \in [Listed -> [on : {TRUE}, expires : {1, MaxRefreshTime + 2}, last : {0}]]
  /\ fail' = [a \in Listed |-> 0] /\ kept' = [until |-> fail', cursor |-> 0]
  /\ recent' = [a \in Listed |-> NoStatus]
  /\ cursor' = 0 /\ run' = NoRun /\ clock' = 1 /\ lastRun' = 0
  /\ cause' = [a \in Listed |-> "none"]

TokenRenewedByRequest(a) ==
  /\ plan.resets /\ acct[a].expires <= clock
  /\ acct' = [acct EXCEPT ![a].expires = clock + TokenLife]
  /\ UNCHANGED <<plan, fail, kept, recent, cursor, run, clock, lastRun, cause>>

\* Enabling an account removes the durable cooldown only: the one in memory holds
\* on until it ends or the process does.
OperatorEnables(a) ==
  /\ ~acct[a].on /\ acct' = [acct EXCEPT ![a].on = TRUE]
  /\ kept' = [kept EXCEPT !.until[a] = 0]
  /\ cause' = [cause EXCEPT ![a] = "forgiven"]
  /\ UNCHANGED <<plan, fail, recent, cursor, run, clock, lastRun>>

RestartRefresh ==
  /\ plan.resets
  /\ fail' = [a \in Listed |-> IF kept.until[a] > clock THEN kept.until[a] ELSE 0]
  /\ cause' = [a \in Listed |-> IF cause[a] = "info" THEN "reason lost" ELSE cause[a]]
  /\ cursor' = kept.cursor /\ recent' = [a \in Listed |-> NoStatus]
  /\ run' = NoRun /\ lastRun' = 0
  /\ UNCHANGED <<plan, acct, kept, clock>>

RefreshNext ==
  \/ SchedulerPass \/ apiRunDue \/ apiRunFailed
  \/ \E a \in Listed : refreshOneAccount(a)
  \/ \E a \in Listed, end \in plan.token : TokenEnds(a, end)
  \/ \E a \in Listed, end \in plan.info : InfoEnds(a, end)
  \/ \E saved \in BOOLEAN : FinishRun(saved)
  \/ RefreshTick \/ StartOver
  \/ \E a \in Listed : TokenRenewedByRequest(a) \/ OperatorEnables(a)
  \/ RestartRefresh

RefreshRunsSpec == RefreshInit /\ [][RefreshNext]_refreshVars
-----------------------------------------------------------------------------
\* After a failed exchange a token is left alone for the cooldown.
BackoffKept ==
  \A a \in Listed : Turn(a, "token") => ~(cause[a] = "token" /\ isAutoRefreshCooling(a))

\* A failed usage query alone never holds up a token, except where its reason was
\* lost: to a restart, or to a token exchange that ended without a verdict.
UsageNeverBlocksToken ==
  run = NoRun => \A a \in Listed : cause[a] = "info" => ~tokenRefreshBlockedByCooldown(a)

\* The durable copy knows the cooldowns that hold, but for those of accounts that
\* were enabled again, and an account reported healthy has none.
CooldownsAgree ==
  \A a \in Listed :
    /\ clock < kept.until[a] => isAutoRefreshCooling(a)
    /\ isAutoRefreshCooling(a) => clock < kept.until[a] \/ cause[a] = "forgiven"
    /\ run = NoRun /\ recent[a].status \in {"success", "partial"} => ~isAutoRefreshCooling(a)

\* A run that leaves out an account whose token is urgent has only such accounts.
UrgentFirst ==
  run.urgent \subseteq DOMAIN run.stage \/ DOMAIN run.stage \subseteq run.urgent

\* A bounded refresh run takes the expiring tokens first, leaves a refused token
\* alone for its cooldown and never for the failure of a usage query, and the
\* cooldowns that a restart brings back are those that hold (handler.go).
AutoRefreshSafe == BackoffKept /\ UsageNeverBlocksToken /\ CooldownsAgree /\ UrgentFirst
=============================================================================
