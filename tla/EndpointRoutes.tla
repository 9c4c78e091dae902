-------------------------- MODULE EndpointRoutes --------------------------
(***************************************************************************)
(* account_endpoint_routes.go: what one account has learnt about the       *)
(* endpoints of the upstream, per model.  A failure cools the endpoint for *)
(* this account and model, a success makes it the preferred one; both are  *)
(* written to endpoint_routes.json by a debounced save and read back at    *)
(* the start.  A recorder changes the maps under mu and asks for the save  *)
(* after it has unlocked: owed counts those that have not asked yet.       *)
(* A pair is an account and a model.  Time is in ticks, the fraction of a  *)
(* second that the file drops is ignored.  D_x is D with the defect x.     *)
(***************************************************************************)
EXTENDS Integers, Sequences, SequencesExt, FiniteSets, FiniteSetsExt, Lists

CONSTANTS
  Pairs, RouteEndpoints,    \* <<account, model>>; the endpoints in their order
  RouteScenes,              \* {[pairs, endpoints, limit, failures, reports]}
  NoEndpoint,
  RouteTTL, BaseCool, MaxCool,   \* RouteAffinityTTL, the 429 cooldowns
  MaxRouteTime, MaxSaves

ASSUME RouteTimes ==
  /\ RouteTTL \in Nat /\ BaseCool \in Nat /\ MaxCool \in Nat
  /\ 0 < BaseCool /\ BaseCool <= MaxCool /\ 1 < RouteTTL
ASSUME RouteTables ==
  /\ IsFiniteSet(Pairs) /\ IsFiniteSet(RouteEndpoints) /\ NoEndpoint \notin RouteEndpoints
  /\ \A s \in RouteScenes :
       s.limit \in Nat /\ \A f \in s.failures : f.retryAfter \in Nat

VARIABLES rclock, routes, prefs, owed, handle, rtimers, rsavers, rimage, rfile,
          saveMissed, reports, rscene
routeVars == <<rclock, routes, prefs, owed, handle, rtimers, rsavers, rimage, rfile,
               saveMissed, reports, rscene>>
rwriter == <<handle, rtimers, rsavers, rimage, rfile, saveMissed>>

RouteKeys == Pairs \X RouteEndpoints
NoRoute == [fails |-> 0, until |-> 0, access |-> 0]
NoPref == [e |-> NoEndpoint, expires |-> 0, persisted |-> 0, access |-> 0]
EmptyRoutes == [routes |-> [k \in RouteKeys |-> NoRoute], prefs |-> [p \in Pairs |-> NoPref]]
NoSave == [routes |-> <<>>, prefs |-> <<>>]

RoutesInit ==
  /\ rclock = 1 /\ owed = 0 /\ handle = FALSE /\ rtimers = 0 /\ rsavers = 0
  /\ routes = EmptyRoutes.routes /\ prefs = EmptyRoutes.prefs
  /\ rimage = NoSave /\ rfile = EmptyRoutes /\ saveMissed = FALSE /\ reports = 0
  /\ rscene \in RouteScenes

\* A recorder has the lock, and the last one has asked for its save.
Reports == owed = 0 /\ reports < rscene.reports /\ reports' = reports + 1
Taking(k) == k[1] \in rscene.pairs /\ k[2] \in rscene.endpoints
-----------------------------------------------------------------------------
(* The maps, under mu.                                                      *)

\* pruneExpiredLocked: preferences go when they expire, a cooldown that is
\* over stays, with its count of failures, until it is not asked for any more.
pruneExpiredLocked(maps) ==
  [routes |-> [k \in RouteKeys |->
      IF maps.routes[k].until <= rclock /\ rclock - maps.routes[k].access >= RouteTTL
      THEN NoRoute ELSE maps.routes[k]],
   prefs |-> [p \in Pairs |-> IF maps.prefs[p].expires <= rclock THEN NoPref ELSE maps.prefs[p]]]

\* enforceLimitsLocked: at most one entry is too many after one change.
Oldest(f, keys) == {k \in keys : \A j \in keys : f[k].access <= f[j].access}
Evictions(f, none) ==
  LET there == {k \in DOMAIN f : f[k] # none}
  IN  IF Cardinality(there) <= rscene.limit THEN {f}
      ELSE {[f EXCEPT ![k] = none] : k \in Oldest(f, there)}

enforceLimitsLocked(maps) ==
  /\ routes' \in Evictions(maps.routes, NoRoute)
  /\ prefs' \in Evictions(maps.prefs, NoPref)

Doubled(n) == Min({BaseCool * 2 ^ (n - 1), MaxCool})

\* Cooldown of the n-th failure in a row: quota and refusals have their own
\* length, a longer Retry-After wins.
Cooldown(kind, n, retryAfter) ==
  Max({CASE kind = "quota" -> MaxCool
         [] kind = "refused" -> RouteTTL
         [] OTHER -> Doubled(n), retryAfter})

CoolingRoute(k) == routes[k].until > rclock

Forget_keeps(p, e) == prefs[p]
Forget(p, e) == IF prefs[p].e = e THEN NoPref ELSE prefs[p]

recordFailure(p, e, kind, retryAfter) ==
  LET n == routes[<<p, e>>].fails + 1
  IN  /\ Taking(<<p, e>>) /\ Reports
      /\ enforceLimitsLocked(
           [routes |-> [routes EXCEPT ![<<p, e>>] =
                [fails |-> n, until |-> rclock + Cooldown(kind, n, retryAfter), access |-> rclock]],
            prefs |-> [prefs EXCEPT ![p] = Forget(p, e)]])
      /\ owed' = 1
      /\ UNCHANGED <<rclock, rwriter, rscene>>

\* A success saves only what the file does not know well enough.
MustSave_never(p, e, persisted) == prefs[p] = NoPref \/ prefs[p].e # e
MustSave(p, e, persisted) ==
  prefs[p] = NoPref \/ prefs[p].e # e \/ persisted <= rclock + RouteTTL \div 2

recordSuccess(p, e) ==
  LET persisted == IF prefs[p].e = e THEN prefs[p].persisted ELSE 0
  IN  /\ Taking(<<p, e>>) /\ Reports
      /\ enforceLimitsLocked(pruneExpiredLocked(
           [routes |-> [routes EXCEPT ![<<p, e>>] = NoRoute],
            prefs |-> [prefs EXCEPT ![p] = [e |-> e, expires |-> rclock + RouteTTL,
                                            persisted |-> persisted, access |-> rclock]]]))
      /\ owed' = (IF MustSave(p, e, persisted) THEN 1 ELSE 0)
      /\ UNCHANGED <<rclock, rwriter, rscene>>

\* The operator's test of an account reached this endpoint.
clearFailure(p, e) ==
  /\ Taking(<<p, e>>) /\ routes[<<p, e>>] # NoRoute /\ Reports
  /\ routes' = [routes EXCEPT ![<<p, e>>] = NoRoute]
  /\ owed' = 1
  /\ UNCHANGED <<rclock, prefs, rwriter, rscene>>

forgetAccount(p) ==
  LET mine == {k \in RouteKeys : k[1] = p /\ routes[k] # NoRoute}
  IN  /\ p \in rscene.pairs /\ Reports
      /\ mine # {} \/ prefs[p] # NoPref
      /\ routes' = [k \in RouteKeys |-> IF k \in mine THEN NoRoute ELSE routes[k]]
      /\ prefs' = [prefs EXCEPT ![p] = NoPref]
      /\ owed' = 1
      /\ UNCHANGED <<rclock, rwriter, rscene>>

\* availableEndpoints: the preferred endpoint first, the cooling ones out; an
\* integrity retry may have the cooling ones when nothing else is left.
moveEndpointFirst(order, e) ==
  IF e \in ToSet(order) THEN <<e>> \o Sublist(order, RouteEndpoints \ {e}) ELSE order

availableEndpoints(p, order, allowCooling) ==
  LET ordered == IF prefs[p].expires > rclock THEN moveEndpointFirst(order, prefs[p].e) ELSE order
      ready == Sublist(ordered, {e \in RouteEndpoints : ~CoolingRoute(<<p, e>>)})
  IN  IF ready # <<>> \/ ~allowCooling THEN ready ELSE ordered

Select(p) ==
  LET maps == pruneExpiredLocked([routes |-> routes, prefs |-> prefs])
  IN  /\ p \in rscene.pairs
      /\ routes' = [k \in RouteKeys |->
           IF k[1] = p /\ CoolingRoute(k) THEN [routes[k] EXCEPT !.access = rclock]
           ELSE maps.routes[k]]
      /\ prefs' = [maps.prefs EXCEPT ![p] = IF @ = NoPref THEN @ ELSE [@ EXCEPT !.access = rclock]]
      /\ UNCHANGED <<rclock, owed, rwriter, reports, rscene>>
-----------------------------------------------------------------------------
(* The debounced save.                                                      *)

\* persistTimer is the handle; rtimers counts the timers that will still call back.
scheduleSave ==
  /\ owed = 1 /\ owed' = 0
  /\ IF handle THEN UNCHANGED <<handle, rtimers>>
     ELSE /\ rtimers + rsavers < MaxSaves
          /\ handle' = TRUE /\ rtimers' = rtimers + 1
  /\ UNCHANGED <<rclock, routes, prefs, rsavers, rimage, rfile, saveMissed, reports, rscene>>

SaveTimerFires ==
  /\ rtimers > 0 /\ rtimers' = rtimers - 1 /\ rsavers < MaxSaves
  /\ handle' = FALSE /\ rsavers' = rsavers + 1
  /\ UNCHANGED <<rclock, routes, prefs, owed, rimage, rfile, saveMissed, reports, rscene>>

\* flush, when the handler closes and no request reports any more: it stops
\* the timer, or comes too late for that, and saves in any case.
flush ==
  /\ rsavers < MaxSaves
  /\ \/ handle /\ rtimers' = rtimers - 1
     \/ rtimers' = rtimers
  /\ handle' = FALSE /\ rsavers' = rsavers + 1 /\ reports' = rscene.reports
  /\ UNCHANGED <<rclock, routes, prefs, owed, rimage, rfile, saveMissed, rscene>>

\* saveTo copies what has not expired ...
Persisted(maps) ==
  [routes |-> [k \in RouteKeys |->
      IF maps.routes[k].until > rclock THEN [maps.routes[k] EXCEPT !.access = 0] ELSE NoRoute],
   prefs |-> [p \in Pairs |-> [maps.prefs[p] EXCEPT !.persisted = 0, !.access = 0]]]

BeginSaveRoutes ==
  LET maps == pruneExpiredLocked([routes |-> routes, prefs |-> prefs])
  IN  /\ rsavers > 0 /\ rimage = NoSave
      /\ rsavers' = rsavers - 1
      /\ routes' = maps.routes /\ prefs' = maps.prefs
      /\ rimage' = Persisted(maps)
      /\ UNCHANGED <<rclock, owed, handle, rtimers, rfile, saveMissed, reports, rscene>>

\* ... and, once it is written, remembers how far the file knows each preference.
Learnt(p) ==
  IF rimage.prefs[p] # NoPref /\ prefs[p].e = rimage.prefs[p].e
  THEN Max({rimage.prefs[p].expires, prefs[p].persisted}) ELSE prefs[p].persisted

RoutesWritten ==
  /\ rimage # NoSave /\ rimage' = NoSave
  /\ rfile' = rimage /\ saveMissed' = FALSE
  /\ prefs' = [p \in Pairs |-> [prefs[p] EXCEPT !.persisted = Learnt(p)]]
  /\ UNCHANGED <<rclock, routes, owed, handle, rtimers, rsavers, reports, rscene>>

RoutesNotWritten ==
  /\ rimage # NoSave /\ rimage' = NoSave
  /\ saveMissed' = TRUE
  /\ UNCHANGED <<rclock, routes, prefs, owed, handle, rtimers, rsavers, rfile, reports, rscene>>

\* load: what is still cooling or preferred, as if it had just been used.
load ==
  /\ routes' = [k \in RouteKeys |->
       IF rfile.routes[k].until > rclock THEN [rfile.routes[k] EXCEPT !.access = rclock]
       ELSE NoRoute]
  /\ prefs' = [p \in Pairs |->
       IF rfile.prefs[p].expires > rclock
       THEN [rfile.prefs[p] EXCEPT !.persisted = rfile.prefs[p].expires, !.access = rclock]
       ELSE NoPref]

\* The process dies, whatever it was doing, and starts again.
RestartRoutes ==
  /\ load
  /\ owed' = 0 /\ handle' = FALSE /\ rtimers' = 0 /\ rsavers' = 0 /\ rimage' = NoSave
  /\ saveMissed' = FALSE
  /\ UNCHANGED <<rclock, rfile, reports, rscene>>

RouteTick ==
  /\ rclock < MaxRouteTime /\ rclock' = rclock + 1
  /\ UNCHANGED <<routes, prefs, owed, rwriter, reports, rscene>>

RoutesNext ==
  \/ \E p \in Pairs, e \in RouteEndpoints :
       \/ \E f \in rscene.failures : recordFailure(p, e, f.kind, f.retryAfter)
       \/ recordSuccess(p, e)
       \/ clearFailure(p, e)
  \/ \E p \in Pairs : forgetAccount(p) \/ Select(p)
  \/ scheduleSave \/ SaveTimerFires \/ flush
  \/ BeginSaveRoutes \/ RoutesWritten \/ RoutesNotWritten
  \/ RestartRoutes \/ RouteTick

RoutesSpec == RoutesInit /\ [][RoutesNext]_routeVars
-----------------------------------------------------------------------------
RouteSavePending == owed = 1 \/ rtimers > 0 \/ rsavers > 0 \/ rimage # NoSave

\* Cooling now, according to these maps, and for how long.
CoolingOf(maps) == {<<k, maps[k].fails, maps[k].until>> : k \in {j \in RouteKeys : maps[j].until > rclock}}

LivePref(f, p) == f[p].expires > rclock
Offered(p) == availableEndpoints(p, SetToSeq(RouteEndpoints), FALSE)

(* The account endpoint routes a restart would bring back are the ones in    *)
(* use: every cooldown with its count, and every preferred endpoint for at   *)
(* least half of its time to live, although recordSuccess skips saves.  An   *)
(* endpoint is never both cooling and preferred, in memory or on disk: this  *)
(* is what lets recordSuccess skip the save when it deletes a cooldown, and  *)
(* availableEndpoints always starts with the preferred one.  The tables keep *)
(* to RouteAffinityMaxEntries (account_endpoint_routes.go).                  *)
RoutesSafe ==
  /\ ~RouteSavePending /\ ~saveMissed =>
       /\ CoolingOf(routes) = CoolingOf(rfile.routes)
       /\ \A p \in Pairs :
            /\ LivePref(prefs, p) => /\ rfile.prefs[p].e = prefs[p].e
                                    /\ 2 * rfile.prefs[p].expires >= 2 * prefs[p].expires - RouteTTL
            /\ LivePref(rfile.prefs, p) => prefs[p].e = rfile.prefs[p].e
  /\ \A p \in Pairs, e \in RouteEndpoints :
       /\ prefs[p].e = e => routes[<<p, e>>] = NoRoute
       /\ rfile.prefs[p].e = e => rfile.routes[<<p, e>>] = NoRoute
  /\ \A p \in Pairs : LivePref(prefs, p) => Offered(p) # <<>> /\ Head(Offered(p)) = prefs[p].e
  /\ Cardinality({k \in RouteKeys : routes[k] # NoRoute}) <= rscene.limit
  /\ Cardinality({p \in Pairs : prefs[p] # NoPref}) <= rscene.limit
=============================================================================
