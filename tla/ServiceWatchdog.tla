--------------------------- MODULE ServiceWatchdog ---------------------------
(***************************************************************************)
(* watchdog/watchdog.py: ServiceWatchdog checks a fixed list of services,  *)
(* whether their containers run or not, and restarts them with docker      *)
(* restart.  A check and its consequences are those of ContainerWatchdog:  *)
(* the counts never go away here, but an alert lacks the fields of the     *)
(* Alert model just the same, and what follows it is never reached: the    *)
(* reset of the count and ten seconds of rest.                             *)
(***************************************************************************)
EXTENDS Watchdog

\* failure_counts has an entry for every service from the start.
ServiceInit ==
  /\ running \in SUBSET Containers
  /\ counts = [c \in Containers |-> 0]
  /\ checks = {}
  /\ phase = "list" /\ cycle \in Cycles
  /\ streak = [c \in Containers |-> 0]

\* Every service is checked; checks of an earlier cycle may still be in flight.
StartServiceChecks ==
  /\ phase = "list"
  /\ \E k \in Cycles :
       /\ \A c \in Containers : <<k, c>> \notin checks
       /\ cycle' = k
       /\ checks' = checks \cup {<<k, c>> : c \in Containers}
  /\ phase' = "gather"
  /\ UNCHANGED <<running, counts, streak>>

\* Every check of the cycle returned.
EndServiceChecks ==
  /\ phase = "gather" /\ Answered
  /\ phase' = "sleep"
  /\ UNCHANGED <<running, counts, checks, cycle, streak>>

\* CHECK_INTERVAL_SECONDS pass after an exception as after a cycle that returned.
ServiceLoop == StartServiceChecks \/ EndServiceChecks \/ WakeUp

\* What a health endpoint may answer.
HealthAnswers == {"healthy", "unhealthy", "not JSON", "not 200", "timeout", "unreachable"}

\* A service is healthy if it answers 200 and does not call itself unhealthy.
CheckServiceHealth(answer) == answer \in {"healthy", "not JSON"}

\* monitor_service(), from the answer of the health endpoint to its end.
ServiceAnswer(k, c) ==
  \E answer \in HealthAnswers :
    \/ CheckServiceHealth(answer) /\ Healthy(k, c)
    \/ ~CheckServiceHealth(answer) /\ (Failure(k, c) \/ Restart(k, c))

ServiceNext ==
  \/ ServiceLoop
  \/ \E k \in Cycles, c \in Containers : ServiceAnswer(k, c)
  \/ \E c \in Containers : ContainerChanges(c)

ServiceSpec == ServiceInit /\ [][ServiceNext]_watchdogVars

\* The loop goes on, and every request is answered or times out.
ServiceFairSpec ==
  /\ ServiceSpec /\ WF_watchdogVars(ServiceLoop)
  /\ \A k \in Cycles, c \in Containers : WF_watchdogVars(ServiceAnswer(k, c))
=============================================================================
