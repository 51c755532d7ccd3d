------------------------------ MODULE Watchdog ------------------------------
(***************************************************************************)
(* watchdog/main.py: ContainerWatchdog checks the health of the labelled   *)
(* containers every cycle, counts failures and restarts containers.  Every *)
(* alert it publishes lacks fields the Alert model requires, so that       *)
(* publish_alert raises before it reaches Redis: the task that called it   *)
(* ends there, and so does the gather() of the cycle it belongs to.        *)
(***************************************************************************)
EXTENDS Integers, FiniteSets

CONSTANTS
  Containers,     \* containers labelled 'spreadpilot'
  MaxFailures,    \* MAX_CONSECUTIVE_FAILURES
  Cycles,         \* bound: cycles whose checks may be in flight at a time
  MaxCount,       \* bound: the highest failure count
  Absent          \* a container failure_counts has no entry for

ASSUME WatchdogAssumption ==
  /\ MaxFailures \in Nat \ {0} /\ MaxCount \in Nat /\ MaxCount >= MaxFailures
  /\ Absent \notin Nat
  /\ Cycles # {}

VARIABLES
  running,   \* Docker: the containers that run
  counts,    \* failure_counts
  checks,    \* monitor_container tasks awaiting the answer of /health: <<cycle, container>>
  phase,        \* run(): "list", "gather" or "sleep"
  cycle,     \* the cycle run() is in
  streak     \* failed checks in a row since it was healthy, restarted or found gone

watchdogVars == <<running, counts, checks, phase, cycle, streak>>

ContainerInit ==
  /\ running \in SUBSET Containers
  /\ counts = [c \in Containers |-> Absent]
  /\ checks = {}
  /\ phase = "list" /\ cycle \in Cycles
  /\ streak = [c \in Containers |-> 0]

\* The containers Docker lists; an exception is caught and lists none.
Listed == {running, {}}

-----------------------------------------------------------------------------
(* run() *)

\* Mutant: every cycle counts from 0.
StartChecksAfresh ==
  /\ phase = "list"
  /\ \E containers \in Listed, k \in Cycles :
       /\ \A c \in Containers : <<k, c>> \notin checks
       /\ cycle' = k
       /\ checks' = checks \cup {<<k, c>> : c \in containers}
       /\ counts' = [c \in Containers |-> IF c \in containers THEN 0 ELSE counts[c]]
  /\ phase' = "gather"
  /\ UNCHANGED <<running, streak>>

\* A cycle checks every listed container; checks of an earlier cycle may still be in flight.
StartChecks ==
  /\ phase = "list"
  /\ \E containers \in Listed, k \in Cycles :
       /\ \A c \in Containers : <<k, c>> \notin checks
       /\ cycle' = k
       /\ checks' = checks \cup {<<k, c>> : c \in containers}
       /\ counts' = [c \in Containers |->
                       IF c \in containers /\ counts[c] = Absent THEN 0 ELSE counts[c]]
  /\ phase' = "gather"
  /\ UNCHANGED <<running, streak>>

Answered == \A c \in Containers : <<cycle, c>> \notin checks

\* Every check of the cycle returned: forget the containers that are gone, and sleep.
CleanupStaleContainers ==
  /\ phase = "gather" /\ Answered
  /\ \E containers \in Listed :
       /\ counts' = [c \in Containers |-> IF c \in containers THEN counts[c] ELSE Absent]
       /\ streak' = [c \in Containers |-> IF c \in containers THEN streak[c] ELSE 0]
  /\ phase' = "sleep"
  /\ UNCHANGED <<running, checks, cycle>>

WakeUp ==
  /\ phase = "sleep" /\ phase' = "list"
  /\ UNCHANGED <<running, counts, checks, cycle, streak>>

-----------------------------------------------------------------------------
(* monitor_container(), from the answer of /health to its end *)

Returns(k, c) == checks' = checks \ {<<k, c>>} /\ UNCHANGED <<phase, cycle>>

\* Mutant: an exception ends the loop.
RaisesForGood(k, c) ==
  /\ checks' = checks \ {<<k, c>>}
  /\ phase' = IF k = cycle /\ phase = "gather" THEN "stopped" ELSE phase
  /\ UNCHANGED cycle

\* gather() raises the first exception of its tasks, the others go on unattended, and
\* run() sleeps without a cleanup.  The exception of an earlier cycle's task is lost.
Raises(k, c) ==
  /\ checks' = checks \ {<<k, c>>}
  /\ phase' = IF k = cycle /\ phase = "gather" THEN "sleep" ELSE phase
  /\ UNCHANGED cycle

OneMore(n) == IF n < MaxCount THEN n + 1 ELSE n

\* A healthy answer resets the count unless there is something to report.
Healthy(k, c) ==
  /\ <<k, c>> \in checks /\ counts[c] # Absent
  /\ \/ counts[c] = 0 /\ Returns(k, c)
     \/ counts[c] > 0 /\ Raises(k, c)
  /\ streak' = [streak EXCEPT ![c] = 0]
  /\ UNCHANGED <<running, counts>>

Failure(k, c) ==
  /\ <<k, c>> \in checks /\ counts[c] # Absent
  /\ counts[c] + 1 < MaxFailures
  /\ counts' = [counts EXCEPT ![c] = @ + 1]
  /\ streak' = [streak EXCEPT ![c] = OneMore(@)]
  /\ Returns(k, c)
  /\ UNCHANGED running

\* The restart succeeds (and ends the streak) or fails; the alert raises either way, before
\* the count is reset.  At the bound MaxCount both stay.
Restart(k, c) ==
  /\ <<k, c>> \in checks /\ counts[c] # Absent
  /\ counts[c] + 1 >= MaxFailures
  /\ counts' = [counts EXCEPT ![c] = OneMore(@)]
  /\ \/ streak' = [streak EXCEPT ![c] = 0] /\ running' = running \cup {c}
     \/ /\ streak' = [streak EXCEPT ![c] = OneMore(@)]
        /\ UNCHANGED running
  /\ Raises(k, c)

\* The count was cleaned up while the check of an earlier cycle was in flight.
CountIsGone(k, c) ==
  /\ <<k, c>> \in checks /\ counts[c] = Absent
  /\ Raises(k, c)
  /\ UNCHANGED <<running, counts, streak>>

-----------------------------------------------------------------------------
(* Docker *)

\* A container is started or ends.
ContainerChanges(c) ==
  /\ running' \in {running \cup {c}, running \ {c}} \ {running}
  /\ UNCHANGED <<counts, checks, phase, cycle, streak>>

Loop == StartChecks \/ CleanupStaleContainers \/ WakeUp
ContainerAnswer(k, c) == Healthy(k, c) \/ Failure(k, c) \/ Restart(k, c) \/ CountIsGone(k, c)

ContainerNext ==
  \/ Loop
  \/ \E k \in Cycles, c \in Containers : ContainerAnswer(k, c)
  \/ \E c \in Containers : ContainerChanges(c)

ContainerSpec == ContainerInit /\ [][ContainerNext]_watchdogVars

\* The loop goes on, and every request is answered or times out.
ContainerFairSpec ==
  /\ ContainerSpec /\ WF_watchdogVars(Loop)
  /\ \A k \in Cycles, c \in Containers : WF_watchdogVars(ContainerAnswer(k, c))

-----------------------------------------------------------------------------
(* Properties *)

WatchdogTypeOK ==
  /\ running \subseteq Containers
  /\ counts \in [Containers -> 0..MaxCount \cup {Absent}]
  /\ checks \subseteq Cycles \X Containers
  /\ phase \in {"list", "gather", "sleep"} /\ cycle \in Cycles
  /\ streak \in [Containers -> 0..MaxCount]

\* A container is never behind its failures, however the checks of several cycles and the
\* cleanups interleave: one that fails MaxFailures checks in a row, and is listed after each
\* of these cycles, is restarted at the last of them at the latest.
CountCoversStreak ==
  \A c \in Containers : streak[c] <= IF counts[c] = Absent THEN 0 ELSE counts[c]

\* A cycle that ends in an exception never keeps the watchdog from the next one.
LoopGoesOn == []<>(phase = "list")

Checked(c) == \E k \in Cycles : <<k, c>> \in checks
Recovers(c) == \E k \in Cycles : Healthy(k, c)
RestartOf(c) == \E k \in Cycles : Restart(k, c)
Forget(c) == counts[c] # Absent /\ counts'[c] = Absent
KeepsFailing(c) == ~Recovers(c) /\ ~Forget(c)

\* The loop goes on, and a container that is checked again and again, fails every check and
\* is never found gone is restarted again and again, whatever exceptions its checks and
\* others' end in.
FailingIsRestarted ==
  /\ LoopGoesOn
  /\ \A c \in Containers :
       []<>Checked(c) /\ <>[][KeepsFailing(c)]_watchdogVars => []<><<RestartOf(c)>>_watchdogVars
=============================================================================
