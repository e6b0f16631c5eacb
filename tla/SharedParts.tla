---------------------------- MODULE SharedParts ----------------------------
(***************************************************************************)
(* What the two compositions of components share: the variable that says   *)
(* which component a behaviour is about, the bounds that mean the same in  *)
(* several of them, and the egress of the accounts, which is a component   *)
(* of both.                                                                *)
(***************************************************************************)
EXTENDS Naturals, Sequences, FiniteSets

CONSTANTS Inst, Accounts, RouteProxies, RouteLists, MaxOps, MaxFails,
          FailLimit, MaxTurns,       \* of both kinds of egress
          MaxUpdates, MaxCalls, MaxDbErrors

VARIABLE part      \* the component this behaviour is about

-----------------------------------------------------------------------------
VARIABLES routesOn, routesList, routesBind, routesVerified, routesFailures,
          routesAvoided, routesFailed, routesRow, routesShared, routesJob, routesDue,
          routesHealth, routesOps, routesFails, routesTurns
routesVars == <<routesOn, routesList, routesBind, routesVerified, routesFailures,
                routesAvoided, routesFailed, routesRow, routesShared, routesJob,
                routesDue, routesHealth, routesOps, routesFails,
                routesTurns>>
Routes == INSTANCE ProxyRoutes WITH
  Proxies <- RouteProxies, Lists <- RouteLists, on <- routesOn, list <- routesList,
  bind <- routesBind,
  verified <- routesVerified, failures <- routesFailures, avoided <- routesAvoided,
  failed <- routesFailed, row <- routesRow, shared <- routesShared, job <- routesJob,
  due <- routesDue, health <- routesHealth, ops <- routesOps,
  fails <- routesFails, turns <- routesTurns
RoutesAbsent == /\ routesOn = 0 /\ routesList = 0 /\ routesBind = 0
                /\ routesVerified = 0 /\ routesFailures = 0 /\ routesAvoided = 0
                /\ routesFailed = 0 /\ routesRow = 0 /\ routesShared = 0
                /\ routesJob = 0 /\ routesDue = 0 /\ routesHealth = 0
                /\ routesOps = 0 /\ routesFails = 0 /\ routesTurns = 0

=============================================================================
