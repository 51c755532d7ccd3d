----------------------------- MODULE MCMonitoring -----------------------------
(* Small instances of the monitoring services for TLC: a behaviour is one of   *)
(* the watchdog of the labelled containers, of the watchdog of the services or *)
(* of the subscriber of the alert router; the other one stays as it started.   *)
EXTENDS AlertRouting, ServiceWatchdog

VARIABLE system   \* "containers", "services" or "alerts"

mcVars == <<system, watchdogVars, routingVars>>

NothingWatched == ContainerInit /\ running = {} /\ cycle = 1
NothingRouted == RoutingInit /\ chats = {} /\ mails = {} /\ ~reliable

MCInit ==
  \/ system = "containers" /\ ContainerInit /\ NothingRouted
  \/ system = "services" /\ ServiceInit /\ NothingRouted
  \/ system = "alerts" /\ RoutingInit /\ NothingWatched

Watching(containers, services) ==
  /\ \/ system = "containers" /\ containers
     \/ system = "services" /\ services
  /\ UNCHANGED <<system, routingVars>>

Alerting(step) == system = "alerts" /\ step /\ UNCHANGED <<system, watchdogVars>>

MCLoop == Watching(Loop, ServiceLoop)
MCAnswer(k, c) == Watching(ContainerAnswer(k, c), ServiceAnswer(k, c))

\* Nothing is published any more; a watchdog never comes to an end.
Quiet == system = "alerts" /\ Len(stream) = MaxAlerts /\ UNCHANGED mcVars

MCNext ==
  \/ MCLoop
  \/ \E k \in Cycles, c \in Containers : MCAnswer(k, c)
  \/ \E c \in Containers : Watching(ContainerChanges(c), ContainerChanges(c))
  \/ Alerting(RoutingNext)
  \/ Quiet

MCSpec ==
  /\ MCInit /\ [][MCNext]_mcVars
  /\ WF_mcVars(MCLoop)
  /\ \A k \in Cycles, c \in Containers : WF_mcVars(MCAnswer(k, c))
  /\ WF_mcVars(Alerting(RoutingSubscriber))
===============================================================================
