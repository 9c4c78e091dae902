------------------------------ MODULE MCServices ------------------------------
(* Components that share no variable are checked side by side: part is the *)
(* one that moves, the others stay in one initial state.                   *)
EXTENDS ApiKeyStore, AccountRegistry, AccountStats, ConfigSettings,
        StreamDelivery, ToolStream, StreamTimers,
        EndpointRoutes, Failover, AutoRefresh, ResponsesStore, ModelCatalog

CONSTANTS
  a1, a2, c1, c2, e1, e2, i1, i2, k1, l1, m1, m2, n1, n2, o1, o2, p1, p2, q1, q2, r1, r2, r3, t1, t2, u1, u2, v1, v2, x1, x2, x3

VARIABLE part

-----------------------------------------------------------------------------
(* The instances. *)
KeyLineup(values, who, editors) == [values |-> values, clients |-> who, editors |-> editors]
KeyLineupsChecked ==
  {KeyLineup({v1}, {c1, c2}, {}), KeyLineup({v1}, {c1}, {e1}), KeyLineup({v1, v2}, {}, {e1})}

RegLineup(ids, users, keys, status) ==
  [ids |-> ids, users |-> users, keys |-> keys, status |-> status]
RegLineupsChecked ==
  {RegLineup({x1, x2}, {u1, u2}, {k1}, FALSE),
   RegLineup({x1}, {u1}, {k1}, TRUE)}

StylesChecked ==
  {Style("claude", TRUE, TRUE, "thinking", {"deltas"}, 1),
   Style("claude", TRUE, TRUE, "thinking", {"precommit"}, 2),
   Style("claude", TRUE, TRUE, "think", {"buffered", "announce"}, 1),
   Style("claude", TRUE, TRUE, "thinking", {"omit"}, 1),
   Style("claude", TRUE, FALSE, "reasoning_content", {}, 1),
   Style("chat", TRUE, TRUE, "think", {}, 1),
   Style("chat", TRUE, TRUE, "reasoning_content", {}, 1),
   Style("responses", TRUE, TRUE, "", {}, 2),
   Style("responses", FALSE, TRUE, "", {}, 2),
   Style("claude", FALSE, TRUE, "thinking", {}, 1),
   Style("chat", FALSE, TRUE, "", {}, 1)}

DialectsChecked ==
  {Dialect("ids", TRUE, "none", FALSE), Dialect("blocks", TRUE, "closed", FALSE),
   Dialect("late", FALSE, "declared", TRUE), Dialect("names", FALSE, "none", FALSE)}

RouteScene(pairs, endpoints, limit, failures, n) ==
  [pairs |-> pairs, endpoints |-> endpoints, limit |-> limit, failures |-> failures, reports |-> n]
RouteFailure(k, r) == [kind |-> k, retryAfter |-> r]
RouteScenesChecked ==
  {RouteScene({p1}, {e1, e2}, 2, {RouteFailure("transient", 0)}, 3),
   RouteScene({p1, p2}, {e1}, 1, {RouteFailure("quota", 0)}, 2),
   RouteScene({p1}, {e1}, 1, {RouteFailure("refused", 0), RouteFailure("transient", 3)}, 2)}

Traits(keys, proxied, transparent) == [keys |-> keys, proxied |-> proxied, transparent |-> transparent]
Answers(http, transport, streams, empty, events) ==
  [http |-> http, transport |-> transport, streams |-> streams, empty |-> empty, events |-> events]
FallbackRule(source, target, trigger) == [source |-> source, target |-> target, trigger |-> trigger]
StreamEnd(c, emitted) == [cause |-> c, emitted |-> emitted]
Ordinary == Traits({}, {}, FALSE)
JourneysChecked ==
  {Journey(<<1, 0, 4, 0, 1>>, Ordinary, Answers({<<400, "invalid_model_id">>}, {}, {}, FALSE, {}),
           <<FallbackRule(m1, m2, "unavailable"), FallbackRule(m2, m1, "unavailable"), FallbackRule(m1, m2, "error")>>),
   Journey(<<2, 0, 3, 1, 2>>, Ordinary, Answers({<<503, "">>}, {}, {}, FALSE, {"late"}), <<>>),
   Journey(<<1, 0, 3, 1, 2>>, Ordinary,
           Answers({}, {}, {StreamEnd("tool cut", BOOLEAN), StreamEnd("cut after thinking", BOOLEAN)},
                   FALSE, {}), <<FallbackRule(m1, m2, "error")>>),
   Journey(<<2, 0, 3, 1, 2>>, Ordinary,
           Answers({}, {}, {StreamEnd("cut after thinking", {FALSE})}, TRUE, {}), <<>>),
   Journey(<<2, 0, 4, 0, 1>>, Traits({a1}, {a2}, FALSE),
           Answers({<<401, "">>, <<403, "suspended">>}, {"reset"}, {}, FALSE, {"gone"}), <<>>),
   Journey(<<2, 0, 3, 1, 1>>, Traits({}, {}, TRUE),
           Answers({<<400, "tool_use_result_mismatch">>, <<429, "">>, <<403, "">>},
                   {"bind", "timeout"}, {StreamEnd("tool stalled", BOOLEAN)}, FALSE, {"gone"}), <<>>),
   Journey(<<0, 2, 2, 0, 1>>, Ordinary,
           Answers({<<402, "">>, <<401, "">>}, {}, {StreamEnd("incomplete", {TRUE})}, FALSE, {"tired"}),
           <<>>)}

RefreshScenesChecked ==
  {RefreshScene(<<a1, a2>>, 1, 1, {"ok"}, {"ok"}, {a2}, {"scheduler"}, FALSE),
   RefreshScene(<<a1, a2>>, 0, 2, {"local", "rejected"}, {"partial"}, {}, {"operator"}, FALSE),
   RefreshScene(<<a1>>, 0, 1, {"ok", "blocked", "failed"}, {"ok", "failed"}, {}, {"scheduler", "operator"}, TRUE)}

ResponseIdsChecked == <<r1, r2, r3>>

CatalogAccountsChecked == <<a1, a2>>
ListingsChecked ==
  {<<ModelInfo(m1, NoName, 2, FALSE, <<t1>>), ModelInfo(BlankModel, n1, 9, TRUE, <<t1>>)>>,
   <<ModelInfo(m2, n1, 1, FALSE, <<>>), ModelInfo(m1, n2, 1, TRUE, <<t2, t1>>)>>}

-----------------------------------------------------------------------------
StoresInit == KeyInit /\ RegInit /\ StatsInit /\ SettingsInit

StoresFixed ==
  /\ part = "keys" \/ (lineup = (CHOOSE l \in KeyLineups : TRUE) /\ keyFile.legacy = NoKey)
  /\ part = "registry" \/ cast = (CHOOSE l \in RegLineups : TRUE)
  /\ part = "settings" \/ focus = (CHOOSE f \in FocusesChecked : TRUE)

FlowsInit == DeliveryInit /\ ToolInit /\ TimersInit

FlowsFixed ==
  /\ part = "delivery" \/ style = (CHOOSE s \in Styles : TRUE)
  /\ part = "tools" \/ dialect = (CHOOSE d \in Dialects : TRUE)
  /\ part = "timers" \/ watched = "dog"

RoutingInit == RoutesInit /\ FailoverInit /\ RefreshInit /\ ResponsesInit /\ CatalogInit
RoutingFixed ==
  /\ part = "routes" \/ rscene = (CHOOSE s \in RouteScenes : TRUE)
  /\ part = "failover" \/ journey = (CHOOSE j \in Journeys : TRUE)
  /\ part = "refresh" \/ (plan = (CHOOSE s \in RefreshScenes : TRUE) /\ \A a \in Listed : acct[a].expires = 1)
  /\ part = "responses" \/ files = <<>>

storeVars == <<keyVars, regVars, statVars, cfgVars>>
flowVars == <<deliveryVars, toolVars, timerVars>>
routingVars == <<routeVars, failoverVars, refreshVars, responseVars, catalogVars>>

ServicesInit ==
  /\ part \in {"keys", "registry", "stats", "settings", "delivery", "tools", "timers",
               "routes", "failover", "refresh", "responses", "catalog"}
  /\ StoresInit /\ StoresFixed
  /\ FlowsInit /\ FlowsFixed
  /\ RoutingInit /\ RoutingFixed

StoresNext ==
  \/ part = "keys" /\ KeyNext /\ UNCHANGED <<regVars, statVars, cfgVars>>
  \/ part = "registry" /\ RegNext /\ UNCHANGED <<keyVars, statVars, cfgVars>>
  \/ part = "stats" /\ StatsNext /\ UNCHANGED <<keyVars, regVars, cfgVars>>
  \/ part = "settings" /\ SettingsNext /\ UNCHANGED <<keyVars, regVars, statVars>>
FlowsNext ==
  \/ part = "delivery" /\ DeliveryNext /\ UNCHANGED <<toolVars, timerVars>>
  \/ part = "tools" /\ ToolNext /\ UNCHANGED <<deliveryVars, timerVars>>
  \/ part = "timers" /\ TimersNext /\ UNCHANGED <<deliveryVars, toolVars>>
RoutingNext ==
  \/ part = "routes" /\ RoutesNext /\ UNCHANGED <<failoverVars, refreshVars, responseVars, catalogVars>>
  \/ part = "failover" /\ FailoverNext /\ UNCHANGED <<routeVars, refreshVars, responseVars, catalogVars>>
  \/ part = "refresh" /\ RefreshNext /\ UNCHANGED <<routeVars, failoverVars, responseVars, catalogVars>>
  \/ part = "responses" /\ ResponsesNext /\ UNCHANGED <<routeVars, failoverVars, refreshVars, catalogVars>>
  \/ part = "catalog" /\ CatalogNext /\ UNCHANGED <<routeVars, failoverVars, refreshVars, responseVars>>

ServicesNext ==
  /\ \/ StoresNext /\ UNCHANGED <<flowVars, routingVars>>
     \/ FlowsNext /\ UNCHANGED <<storeVars, routingVars>>
     \/ RoutingNext /\ UNCHANGED <<storeVars, flowVars>>
  /\ UNCHANGED part

ServicesSpec == ServicesInit /\ [][ServicesNext]_<<part, storeVars, flowVars, routingVars>>
=============================================================================
