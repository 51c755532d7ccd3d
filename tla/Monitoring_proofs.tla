-------------------------- MODULE Monitoring_proofs --------------------------
(***************************************************************************)
(* The programs that watch over the others.  The failure counts of the     *)
(* watchdogs never fall behind the failures, for any containers and any    *)
(* number of cycles that overlap.  An acknowledged alert was sent, and no  *)
(* alert is sent more than max_retries times, for any number of alerts,    *)
(* retries and crashes and any size of the batches; routing with           *)
(* concurrent sends and a fallback, for any chats and recipients,          *)
(* implements that, and so shares it.                                      *)
(***************************************************************************)
EXTENDS AlertRouting, ServiceWatchdog, TLAPS

-----------------------------------------------------------------------------
(* The watchdogs *)

USE WatchdogAssumption

\* A container has an entry in failure_counts while its failures count.
Covered == WatchdogTypeOK /\ CountCoversStreak

\* No container has failed a check at the start.
LEMMA InitCovered == ContainerInit => Covered
BY DEF ContainerInit, Covered, WatchdogTypeOK, CountCoversStreak

\* A new cycle only adds entries that start from 0.
LEMMA StartChecksCovered == Covered /\ StartChecks => Covered'
<1>. SUFFICES ASSUME Covered, StartChecks PROVE Covered'
  OBVIOUS
<1>1. PICK containers \in Listed, k \in Cycles :
        /\ cycle' = k
        /\ checks' = checks \cup {<<k, c>> : c \in containers}
        /\ counts' = [c \in Containers |->
                        IF c \in containers /\ counts[c] = Absent THEN 0 ELSE counts[c]]
  BY DEF StartChecks
<1>2. containers \subseteq Containers
  BY DEF Covered, WatchdogTypeOK, Listed
<1>3. checks' \subseteq Cycles \X Containers
  BY <1>1, <1>2 DEF Covered, WatchdogTypeOK
<1>4. counts' \in [Containers -> 0..MaxCount \cup {Absent}]
  BY <1>1 DEF Covered, WatchdogTypeOK
<1>5. CountCoversStreak'
  BY <1>1 DEF Covered, WatchdogTypeOK, CountCoversStreak, StartChecks
<1>. QED BY <1>1, <1>3, <1>4, <1>5 DEF Covered, WatchdogTypeOK, StartChecks

\* The entries cleaned up are those of containers that were found gone.
LEMMA CleanupCovered == Covered /\ CleanupStaleContainers => Covered'
BY DEF Covered, WatchdogTypeOK, CountCoversStreak, CleanupStaleContainers

\* A check that raises ends, and the loop sleeps or goes on.
LEMMA RaisesTyped ==
  ASSUME Covered, NEW k \in Cycles, NEW c \in Containers, Raises(k, c)
  PROVE  /\ checks' \subseteq Cycles \X Containers
         /\ phase' \in {"list", "gather", "sleep"} /\ cycle' \in Cycles
BY DEF Covered, WatchdogTypeOK, Raises

\* A check that returns ends.
LEMMA ReturnsTyped ==
  ASSUME Covered, NEW k \in Cycles, NEW c \in Containers, Returns(k, c)
  PROVE  /\ checks' \subseteq Cycles \X Containers
         /\ phase' \in {"list", "gather", "sleep"} /\ cycle' \in Cycles
BY DEF Covered, WatchdogTypeOK, Returns

\* An answer that counts raises the count with the streak, or ends the streak.
LEMMA AnswerCovered ==
  ASSUME Covered, NEW k \in Cycles, NEW c \in Containers, ContainerAnswer(k, c) PROVE Covered'
<1>. USE DEF Covered
<1>0. checks' \subseteq Cycles \X Containers /\ phase' \in {"list", "gather", "sleep"} /\ cycle' \in Cycles
  BY RaisesTyped, ReturnsTyped DEF ContainerAnswer, Healthy, Failure, Restart, CountIsGone
<1>1. CASE Healthy(k, c)
  BY <1>0, <1>1 DEF Healthy, WatchdogTypeOK, CountCoversStreak
<1>2. CASE Failure(k, c)
  <2>1. \A d \in Containers \ {c} : counts'[d] = counts[d] /\ streak'[d] = streak[d]
    BY <1>2 DEF Failure, WatchdogTypeOK
  <2>2. /\ counts[c] \in 0..MaxCount /\ streak[c] <= counts[c]
        /\ counts'[c] = counts[c] + 1 /\ counts[c] + 1 <= MaxCount
        /\ streak'[c] = OneMore(streak[c]) /\ streak[c] \in 0..MaxCount
    BY <1>2 DEF Failure, WatchdogTypeOK, CountCoversStreak
  <2>3. WatchdogTypeOK'
    BY <1>0, <1>2, <2>1, <2>2 DEF Failure, WatchdogTypeOK, OneMore
  <2>4. CountCoversStreak'
    BY <2>1, <2>2 DEF CountCoversStreak, OneMore
  <2>. QED BY <2>3, <2>4
<1>3. CASE Restart(k, c)
  <2>1. \A d \in Containers \ {c} : counts'[d] = counts[d] /\ streak'[d] = streak[d]
    BY <1>3 DEF Restart, WatchdogTypeOK
  <2>2. /\ counts[c] \in 0..MaxCount /\ streak[c] <= counts[c] /\ streak[c] \in 0..MaxCount
        /\ counts'[c] = OneMore(counts[c])
        /\ streak'[c] \in {0, OneMore(streak[c])}
    BY <1>3 DEF Restart, WatchdogTypeOK, CountCoversStreak
  <2>3. WatchdogTypeOK'
    BY <1>0, <1>3, <2>1, <2>2 DEF Restart, WatchdogTypeOK, OneMore
  <2>4. CountCoversStreak'
    BY <2>1, <2>2 DEF CountCoversStreak, OneMore
  <2>. QED BY <2>3, <2>4
<1>4. CASE CountIsGone(k, c)
  BY <1>0, <1>4 DEF CountIsGone, WatchdogTypeOK, CountCoversStreak
<1>. QED BY <1>1, <1>2, <1>3, <1>4 DEF ContainerAnswer

\* The end of a sleep and Docker's changes leave counts and streaks alone.
LEMMA RestCovered ==
  ASSUME Covered, WakeUp \/ (\E c \in Containers : ContainerChanges(c)) \/ UNCHANGED watchdogVars
  PROVE  Covered'
BY DEF Covered, WatchdogTypeOK, CountCoversStreak, WakeUp, ContainerChanges, watchdogVars

\* No container fails more checks in a row than its count says, so that its restart never
\* comes late.
THEOREM CountsCoverStreaks == ContainerSpec => []CountCoversStreak
<1>1. Covered /\ [ContainerNext]_watchdogVars => Covered'
  BY StartChecksCovered, CleanupCovered, AnswerCovered, RestCovered DEF ContainerNext, Loop
<1>2. Covered => CountCoversStreak
  BY DEF Covered
<1>. QED BY InitCovered, <1>1, <1>2, PTL DEF ContainerSpec

\* The counts and the checks in flight keep their types.
THEOREM WatchdogTypeCorrect == ContainerSpec => []WatchdogTypeOK
<1>1. Covered /\ [ContainerNext]_watchdogVars => Covered'
  BY StartChecksCovered, CleanupCovered, AnswerCovered, RestCovered DEF ContainerNext, Loop
<1>2. Covered => WatchdogTypeOK
  BY DEF Covered
<1>. QED BY InitCovered, <1>1, <1>2, PTL DEF ContainerSpec

-----------------------------------------------------------------------------
(* The watchdog of the services *)

\* A cycle of the services leaves counts and streaks alone.
LEMMA ServiceLoopCovered == Covered /\ ServiceLoop => Covered'
<1>1. Covered /\ StartServiceChecks => Covered'
  <2> SUFFICES ASSUME Covered, StartServiceChecks PROVE Covered'
    OBVIOUS
  <2>1. PICK k \in Cycles : cycle' = k /\ checks' = checks \cup {<<k, c>> : c \in Containers}
    BY DEF StartServiceChecks
  <2>2. checks' \subseteq Cycles \X Containers
    BY <2>1 DEF Covered, WatchdogTypeOK
  <2> QED BY <2>1, <2>2 DEF Covered, WatchdogTypeOK, CountCoversStreak, StartServiceChecks
<1>2. Covered /\ EndServiceChecks => Covered'
  BY DEF Covered, WatchdogTypeOK, CountCoversStreak, EndServiceChecks
<1> QED BY <1>1, <1>2, RestCovered DEF ServiceLoop

\* No service fails more checks in a row than its count says either, although the reset
\* of the count after a restart is never reached.
THEOREM ServiceCountsCoverStreaks == ServiceSpec => []CountCoversStreak
<1>1. ServiceInit => Covered
  BY DEF ServiceInit, Covered, WatchdogTypeOK, CountCoversStreak
<1>2. ASSUME NEW k \in Cycles, NEW c \in Containers, Covered, ServiceAnswer(k, c)
      PROVE  Covered'
  BY <1>2, AnswerCovered DEF ServiceAnswer, ContainerAnswer
<1>3. Covered /\ [ServiceNext]_watchdogVars => Covered'
  BY <1>2, ServiceLoopCovered, RestCovered DEF ServiceNext
<1>4. Covered => CountCoversStreak
  BY DEF Covered
<1> QED BY <1>1, <1>3, <1>4, PTL DEF ServiceSpec

HIDE WatchdogAssumption

-----------------------------------------------------------------------------
(* The alert subscriber and its routing *)

USE SubscriberAssumption DEF Alerts

Inv == TypeOK /\ InHand /\ AckedWasSent /\ SentAtMostMaxRetries

\* Nothing is in hand at the start.
LEMMA InitInv == Init => Inv
<1>. SUFFICES ASSUME Init PROVE Inv
  OBVIOUS
<1>1. stream \in Seq(Kinds) /\ Len(stream) = 0
  BY DEF Init
<1>2. TypeOK
  <2>1. stopping \in BOOLEAN /\ reliable \in BOOLEAN
    BY Zenon DEF Init
  <2>. QED BY <1>1, <2>1 DEF Init, TypeOK
<1>3. InHand
  BY DEF Init, InHand, Working
<1>4. AckedWasSent /\ SentAtMostMaxRetries
  BY DEF Init, AckedWasSent, SentAtMostMaxRetries, Working
<1>. QED BY <1>2, <1>3, <1>4 DEF Inv

\* A new alert does not change those before it.
LEMMA PublishInv == ASSUME Inv, NEW kind \in Kinds, Publish(kind) PROVE Inv'
<1>1. /\ stream' \in Seq(Kinds) /\ Len(stream') = Len(stream) + 1
      /\ \A m \in 1..Len(stream) : stream'[m] = stream[m]
  BY DEF Publish, Inv, TypeOK
<1>2. Len(stream) \in Nat /\ Len(stream) + 1 <= MaxAlerts /\ lastId <= Len(stream)
  BY DEF Publish, Inv, TypeOK
<1>3. UNCHANGED <<lastId, acked, sent, failed, pc, cur, last, attempt, stopping, stops, crashes, reliable>>
  BY DEF Publish, taskVars
<1>4. TypeOK'
  BY <1>1, <1>2, <1>3 DEF Inv, TypeOK
<1>5. \A m \in 1..lastId : stream'[m] = stream[m]
  <2>1. lastId \in Nat /\ lastId <= Len(stream) /\ Len(stream) \in Nat
    BY <1>2 DEF Inv, TypeOK
  <2>2. \A m \in 1..lastId : m \in 1..Len(stream)
    BY <2>1
  <2>. QED BY <1>1, <2>2
<1>6. InHand'
  <2>1. Working => cur \in 1..lastId
    BY <1>2 DEF Inv, TypeOK, InHand
  <2>. QED BY <1>3, <1>5, <2>1 DEF Inv, InHand, Working
<1>7. AckedWasSent'
  BY <1>3, <1>5 DEF Inv, InHand, AckedWasSent
<1>8. SentAtMostMaxRetries'
  BY <1>3 DEF Inv, SentAtMostMaxRetries, Working
<1>. QED BY <1>4, <1>6, <1>7, <1>8 DEF Inv

\* The alerts of a batch were not sent before.
LEMMA ReadInv == Inv /\ Read => Inv'
<1>. SUFFICES ASSUME Inv, Read PROVE Inv'
  OBVIOUS
<1>1. PICK n \in 1..Count :
        /\ lastId + n <= Len(stream) /\ lastId' = lastId + n
        /\ \/ pc' = "parse" /\ cur' = lastId + 1 /\ last' = lastId + n /\ UNCHANGED attempt
           \/ ~reliable /\ UNCHANGED taskVars
  BY DEF Read
<1>2. pc = "read" /\ UNCHANGED <<stream, acked, sent, failed, stopping, stops, crashes, reliable>>
  BY DEF Read, At
<1>3. Len(stream) \in Nat /\ lastId \in Nat /\ Len(stream) <= MaxAlerts
  BY DEF Inv, TypeOK
<1>4. CASE pc' = "parse" /\ cur' = lastId + 1 /\ last' = lastId + n /\ UNCHANGED attempt
  <2>1. TypeOK'
    BY <1>1, <1>2, <1>3, <1>4 DEF Inv, TypeOK
  <2>2. sent[lastId + 1] = 0
    BY <1>1, <1>3 DEF Inv, SentAtMostMaxRetries
  <2>3. InHand' /\ AckedWasSent' /\ SentAtMostMaxRetries'
    BY <1>1, <1>2, <1>3, <1>4, <2>2
    DEF Inv, TypeOK, InHand, AckedWasSent, SentAtMostMaxRetries, Working
  <2>. QED BY <2>1, <2>3 DEF Inv
<1>5. CASE UNCHANGED taskVars
  BY <1>1, <1>2, <1>3, <1>5
  DEF Inv, TypeOK, InHand, AckedWasSent, SentAtMostMaxRetries, Working, taskVars
<1>. QED BY <1>1, <1>4, <1>5

\* After an alert comes the next of its batch, which was not sent yet, or none.
LEMMA ProcessedInv ==
  ASSUME Inv, Working, Processed \/ BackToRead,
         UNCHANGED <<stream, lastId, sent, stopping, stops, crashes, reliable>>,
         failed' \subseteq Alerts,
         acked' = acked \/ (acked' = acked \cup {cur}
                             /\ (stream[cur] = "garbled" \/ (stream[cur] = "good" /\ sent[cur] > 0)))
  PROVE  Inv'
<1>1. cur \in 1..last /\ last \in 0..lastId /\ lastId \in 0..Len(stream) /\ Len(stream) \in Nat
      /\ Len(stream) <= MaxAlerts
  BY DEF Inv, TypeOK, InHand
<1>2. acked' \subseteq 1..lastId /\ AckedWasSent'
  <2>1. cur \in 1..lastId
    BY <1>1
  <2>2. acked \subseteq 1..lastId /\ AckedWasSent
    BY DEF Inv, InHand
  <2>3. \A m \in acked' : m \in acked
           \/ (m = cur /\ (stream[cur] = "garbled" \/ (stream[cur] = "good" /\ sent[cur] > 0)))
    OBVIOUS
  <2>. QED BY <2>1, <2>2, <2>3 DEF AckedWasSent
<1>3. CASE pc' = "parse" /\ cur' = cur + 1 /\ UNCHANGED <<last, attempt>> /\ cur < last
  <2>1. TypeOK'
    BY <1>1, <1>2, <1>3 DEF Inv, TypeOK
  <2>2. sent[cur + 1] = 0
    BY <1>1, <1>3 DEF Inv, SentAtMostMaxRetries
  <2>3. InHand' /\ SentAtMostMaxRetries'
    BY <1>1, <1>2, <1>3, <2>2 DEF Inv, TypeOK, InHand, SentAtMostMaxRetries, Working
  <2>. QED BY <1>2, <2>1, <2>3 DEF Inv
<1>4. CASE BackToRead
  <2>1. TypeOK'
    BY <1>1, <1>2, <1>4 DEF Inv, TypeOK, BackToRead
  <2>2. InHand' /\ SentAtMostMaxRetries'
    BY <1>1, <1>2, <1>4 DEF Inv, TypeOK, InHand, SentAtMostMaxRetries, Working, BackToRead
  <2>. QED BY <1>2, <2>1, <2>2 DEF Inv
<1>. QED BY <1>3, <1>4 DEF Processed

\* A step from one await to another for the same alert, which was not sent in it.
LEMMA OnwardInv ==
  ASSUME Inv, UNCHANGED <<redisVars, sent, failed, cur, last, stopping, stops, crashes, reliable>>,
         Working, attempt' \in 1..MaxRetries, attempt' >= sent[cur],
         \/ pc = "parse" /\ stream[cur] = "good" /\ pc' = "route"
         \/ pc = "parse" /\ stream[cur] = "garbled" /\ pc' = "discard"
         \/ pc = "saveSuccess" /\ pc' \in {"ack", "saveFailure"}
         \/ pc = "saveFailure" /\ pc' = "route" /\ attempt' = attempt + 1
         \/ pc = "saveFailure" /\ pc' = "markFailed" /\ attempt' = MaxRetries
  PROVE  Inv'
<1>1. cur \in Alerts /\ sent[cur] \in Nat /\ sent[cur] <= attempt /\ attempt \in Nat
  BY DEF Inv, TypeOK, InHand
<1>2. TypeOK'
  BY DEF Inv, TypeOK, redisVars
<1>3. InHand'
  BY <1>1 DEF Inv, TypeOK, InHand, Working, redisVars
<1>4. AckedWasSent' /\ SentAtMostMaxRetries'
  BY DEF Inv, AckedWasSent, SentAtMostMaxRetries, Working, redisVars
<1>. QED BY <1>2, <1>3, <1>4 DEF Inv

\* A delivery is one more for the alert in hand, and there are no more than attempts.
LEMMA RouteInv == Inv /\ Route => Inv'
<1>. SUFFICES ASSUME Inv, Route PROVE Inv'
  OBVIOUS
<1>1. /\ pc = "route" /\ cur \in 1..last /\ last <= lastId /\ lastId <= Len(stream)
      /\ Len(stream) <= MaxAlerts /\ Len(stream) \in Nat /\ lastId \in Nat /\ last \in Nat
      /\ sent[cur] \in Nat /\ sent[cur] < attempt /\ attempt \in 1..MaxRetries
  BY DEF Inv, TypeOK, InHand, Route, At, Working
<1>2. UNCHANGED <<redisVars, failed, cur, last, attempt, stopping, stops, crashes, reliable>>
  BY DEF Route, At
<1>3. pc' \in {"saveSuccess", "saveFailure"} /\ \A m \in Alerts \ {cur} : sent'[m] = sent[m]
  BY DEF Route, Inv, TypeOK
<1>4. \/ pc' = "saveSuccess" /\ sent'[cur] = sent[cur] + 1
      \/ pc' = "saveFailure" /\ sent'[cur] = sent[cur]
  BY <1>1 DEF Route, Inv, TypeOK
<1>5. sent' \in [Alerts -> 0..MaxRetries]
  BY <1>1 DEF Route, Inv, TypeOK
<1>6. TypeOK'
  BY <1>2, <1>3, <1>5 DEF Inv, TypeOK, redisVars
<1>7. InHand'
  BY <1>1, <1>2, <1>3, <1>4 DEF Inv, TypeOK, InHand, Working, redisVars
<1>8. SentAtMostMaxRetries'
  BY <1>1, <1>2, <1>3, <1>4, <1>5 DEF Inv, SentAtMostMaxRetries, Working, redisVars
<1>9. AckedWasSent'
  BY <1>1, <1>2, <1>3, <1>4 DEF Inv, TypeOK, InHand, AckedWasSent, redisVars
<1>. QED BY <1>6, <1>7, <1>8, <1>9 DEF Inv

\* Every step of the subscriber keeps the invariant.
LEMMA SubscriberInv == Inv /\ Subscriber => Inv'
<1>. SUFFICES ASSUME Inv, Subscriber PROVE Inv'
  OBVIOUS
<1>0. attempt \in 1..MaxRetries /\ failed \subseteq Alerts /\ lastId <= Len(stream)
  BY DEF Inv, TypeOK
<1>1. CASE Read
  BY <1>1, ReadInv
<1>2. CASE Stopped
  BY <1>2 DEF Inv, TypeOK, InHand, AckedWasSent, SentAtMostMaxRetries, Working, Stopped, At, redisVars
<1>3. CASE Parse
  <2>1. Working /\ sent[cur] = 0 /\ UNCHANGED <<redisVars, sent, failed, stopping, stops, crashes, reliable>>
    BY <1>3 DEF Parse, At, Working, Inv, InHand
  <2>2. CASE stream[cur] = "invalid" /\ Processed
    BY <2>1, <2>2, <1>0, ProcessedInv DEF redisVars
  <2>3. CASE stream[cur] = "good" /\ pc' = "route" /\ attempt' = 1 /\ UNCHANGED <<cur, last>>
    BY <1>3, <2>1, <2>3, OnwardInv DEF Parse, At
  <2>4. CASE stream[cur] = "garbled" /\ pc' = "discard" /\ UNCHANGED <<cur, last, attempt>>
    BY <1>0, <1>3, <2>1, <2>4, OnwardInv DEF Parse, At
  <2>. QED BY <1>3, <2>2, <2>3, <2>4 DEF Parse
<1>4. CASE Route
  BY <1>4, RouteInv
<1>5. CASE SaveSuccess
  BY <1>0, <1>5, OnwardInv DEF SaveSuccess, At, Working, Inv, InHand
<1>6. CASE SaveFailure
  <2>1. Working /\ UNCHANGED <<redisVars, sent, failed, stopping, stops, crashes, reliable>> /\ pc = "saveFailure"
    BY <1>6 DEF SaveFailure, At, Working
  <2>2. sent[cur] <= attempt /\ sent[cur] \in Int
    BY <2>1 DEF Inv, InHand, TypeOK, Working
  <2>3. CASE Processed
    BY <2>1, <2>3, <1>0, ProcessedInv DEF redisVars
  <2>4. CASE /\ attempt < MaxRetries /\ pc' = "route" /\ attempt' = attempt + 1
             /\ UNCHANGED <<cur, last>>
    BY <1>0, <2>1, <2>2, <2>4, OnwardInv
  <2>5. CASE attempt = MaxRetries /\ pc' = "markFailed" /\ UNCHANGED <<cur, last, attempt>>
    BY <1>0, <2>1, <2>2, <2>5, OnwardInv
  <2>. QED BY <1>6, <2>3, <2>4, <2>5 DEF SaveFailure
<1>7. CASE MarkFailed
  <2>1. Working /\ cur \in Alerts
    BY <1>0, <1>7 DEF MarkFailed, At, Working, Inv, InHand, TypeOK
  <2>. QED BY <1>0, <1>7, <2>1, ProcessedInv DEF MarkFailed, At, redisVars
<1>8. CASE Ack
  <2>1. Working /\ stream[cur] = "good" /\ sent[cur] > 0
    BY <1>8 DEF Ack, At, Working, Inv, InHand
  <2>. QED BY <1>0, <1>8, <2>1, ProcessedInv DEF Ack, At
<1>9. CASE Discard
  <2>1. Working /\ stream[cur] = "garbled"
    BY <1>9 DEF Discard, At, Working, Inv, InHand
  <2>. QED BY <1>0, <1>9, <2>1, ProcessedInv DEF Discard, At
<1>10. CASE Start
  <2>0. stopping' \in BOOLEAN
    BY <1>10, Zenon DEF Start
  <2>1. TypeOK'
    BY <1>0, <1>10, <2>0 DEF Inv, TypeOK, Start, redisVars
  <2>2. InHand'
    BY <1>10 DEF Inv, InHand, Working, Start, redisVars
  <2>3. AckedWasSent' /\ SentAtMostMaxRetries'
    BY <1>10 DEF Inv, AckedWasSent, SentAtMostMaxRetries, Working, Start, redisVars
  <2>. QED BY <2>1, <2>2, <2>3 DEF Inv
<1>. QED
  BY <1>1, <1>2, <1>3, <1>4, <1>5, <1>6, <1>7, <1>8, <1>9, <1>10 DEF Subscriber

\* A crash, stop() or a cancellation loses what was in hand, not what Redis and MongoDB hold.
LEMMA RestInv == ASSUME Inv, Stop \/ Cancelled \/ Crash \/ UNCHANGED vars PROVE Inv'
<1>1. CASE Stop
  BY <1>1 DEF Inv, TypeOK, InHand, AckedWasSent, SentAtMostMaxRetries, Working, Stop, redisVars, taskVars
<1>2. CASE Crash
  BY <1>2 DEF Inv, TypeOK, InHand, AckedWasSent, SentAtMostMaxRetries, Working, Crash, redisVars
<1>4. CASE Cancelled
  BY <1>4 DEF Inv, TypeOK, InHand, AckedWasSent, SentAtMostMaxRetries, Working, Cancelled, redisVars
<1>3. CASE UNCHANGED vars
  BY <1>3 DEF Inv, TypeOK, InHand, AckedWasSent, SentAtMostMaxRetries, Working, vars, redisVars, taskVars
<1>. QED BY <1>1, <1>2, <1>3, <1>4

\* The inductive invariant of the subscriber.
THEOREM SubscriberInvariant == Spec => []Inv
<1>1. Inv /\ [Next]_vars => Inv'
  BY PublishInv, SubscriberInv, RestInv DEF Next
<1>. QED BY <1>1, InitInv, PTL DEF Spec

\* An alert Redis counts as processed reached a channel, unless it could not be decoded.
THEOREM SubscriberAckedWasSent == Spec => []AckedWasSent
<1>1. Inv => AckedWasSent
  BY DEF Inv
<1>. QED BY <1>1, SubscriberInvariant, PTL

\* Nobody is told of an alert more than max_retries times.
THEOREM SubscriberSentAtMost == Spec => []SentAtMostMaxRetries
<1>1. Inv => SentAtMostMaxRetries
  BY DEF Inv
<1>. QED BY <1>1, SubscriberInvariant, PTL

\* The state of the subscriber keeps its type.
THEOREM SubscriberTypeCorrect == Spec => []TypeOK
<1>1. Inv => TypeOK
  BY DEF Inv
<1>. QED BY <1>1, SubscriberInvariant, PTL

\* An alert is marked as failed after its last attempt and only while it is not
\* acknowledged.
THEOREM SubscriberFailsLast == Spec => FailedAfterAllAttempts
<1>1. Inv /\ [Next]_vars
        => [\A m \in failed' \ failed : m = cur /\ attempt = MaxRetries /\ m \notin acked]_vars
  <2>. SUFFICES ASSUME Inv, [Next]_vars, NEW m \in failed' \ failed
                PROVE  m = cur /\ attempt = MaxRetries /\ m \notin acked
    OBVIOUS
  <2>1. MarkFailed /\ m = cur
    BY DEF Next, Subscriber, Read, Stopped, Parse, Route, SaveSuccess, SaveFailure, MarkFailed,
      Ack, Discard, Start, Stop, Cancelled, Crash, Publish, vars
  <2>2. attempt = MaxRetries /\ acked \subseteq 1..(cur - 1) /\ cur \in Nat
    BY <2>1 DEF MarkFailed, At, Inv, InHand, TypeOK, Working
  <2>. QED BY <2>1, <2>2
<1>. QED BY <1>1, SubscriberInvariant, PTL DEF Spec, FailedAfterAllAttempts

-----------------------------------------------------------------------------
(* AlertRouting implements AlertSubscriber *)

\* A delivery is only noted while its alert is routed.
DeliveredIsRouting == delivered \in BOOLEAN /\ (delivered => pc = "route")

LEMMA DeliveredIsRoutingInductive ==
  /\ RoutingInit => DeliveredIsRouting
  /\ DeliveredIsRouting /\ [RoutingNext]_routingVars => DeliveredIsRouting'
<1>1. RoutingInit => DeliveredIsRouting
  BY Zenon DEF RoutingInit, DeliveredIsRouting
<1>. SUFFICES ASSUME DeliveredIsRouting, [RoutingNext]_routingVars PROVE DeliveredIsRouting'
  BY <1>1
<1>2. CASE \E r \in Chats \cup Recipients, told \in BOOLEAN : Answer(r, told)
  <2>. PICK r \in Chats \cup Recipients, told \in BOOLEAN : Answer(r, told)
    BY <1>2
  <2>1. pc = "route" /\ pc' = pc /\ delivered' = (delivered \/ told)
    BY Zenon DEF Answer, Routing, At
  <2>. QED BY <2>1, Zenon DEF DeliveredIsRouting
<1>3. CASE TellChats \/ FallBack
  <2>1. pc' = pc /\ delivered' = delivered
    BY <1>3, Zenon DEF TellChats, FallBack
  <2>. QED BY <2>1, Zenon DEF DeliveredIsRouting
<1>4. CASE RouteEnds \/ EndRouting
  <2>1. delivered' = FALSE
    BY <1>4, Zenon DEF RouteEnds, EndRouting
  <2>. QED BY <2>1, Zenon DEF DeliveredIsRouting
<1>5. ASSUME UNCHANGED routeVars,
             OtherSteps \/ Stop \/ (\E kind \in Kinds : Publish(kind)) \/ UNCHANGED routingVars
      PROVE  DeliveredIsRouting'
  <2>1. delivered' = delivered
    BY <1>5 DEF routeVars
  <2>2. CASE OtherSteps
    <3>1. pc # "route"
      BY <2>2 DEF OtherSteps, Read, Stopped, Parse, SaveSuccess, SaveFailure, MarkFailed, Ack,
        Discard, Start, At
    <3>. QED BY <2>1, <3>1, Zenon DEF DeliveredIsRouting
  <2>3. CASE Stop \/ (\E kind \in Kinds : Publish(kind)) \/ UNCHANGED routingVars
    <3>1. pc' = pc
      BY <2>3 DEF Stop, Publish, taskVars, routingVars, vars
    <3>. QED BY <2>1, <3>1, Zenon DEF DeliveredIsRouting
  <2>. QED BY <1>5, <2>2, <2>3
<1>. QED
  BY <1>2, <1>3, <1>4, <1>5 DEF RoutingNext, RoutingSubscriber, RouteStep, routingVars

\* Nothing was delivered in between: the subscriber is where it was.
LEMMA PcStays == ASSUME pc' = pc, UNCHANGED delivered PROVE SubscriberPc' = SubscriberPc
  BY DEF SubscriberPc

\* A step of the routing is Route, when its first message is delivered or all have failed,
\* and no step of the subscriber otherwise.
LEMMA RouteStepMaps ==
  ASSUME DeliveredIsRouting, RouteStep
  PROVE  [Atomic!Next]_Atomic!vars
<1>. USE DEF Atomic!Next, Atomic!Subscriber, Atomic!Route, Atomic!At,
       Atomic!vars, Atomic!redisVars, Atomic!taskVars
<1>1. CASE TellChats \/ FallBack
  <2>1. SubscriberPc' = SubscriberPc
    BY <1>1, PcStays DEF TellChats, FallBack
  <2>2. UNCHANGED <<redisVars, sent, failed, cur, last, attempt, stopping, stops, crashes, reliable>>
    BY <1>1 DEF TellChats, FallBack, Routing, At, redisVars
  <2>. QED BY <2>1, <2>2 DEF redisVars
<1>2. ASSUME NEW r \in Chats \cup Recipients, NEW told \in BOOLEAN, Answer(r, told)
      PROVE  [Atomic!Next]_Atomic!vars
  <2>1. /\ pc = "route" /\ pc' = pc /\ delivered' = (delivered \/ told)
        /\ UNCHANGED <<redisVars, failed, cur, last, attempt, stopping, stops, crashes, reliable>>
    BY <1>2, Zenon DEF Answer, Routing, At, redisVars
  <2>2. CASE told /\ ~delivered
    <3>1. sent' = [sent EXCEPT ![cur] = @ + 1]
      BY <1>2, <2>2 DEF Answer
    <3>2. SubscriberPc = "route" /\ SubscriberPc' = "saveSuccess"
      BY <2>1, <2>2, Zenon DEF SubscriberPc
    <3>. QED BY <2>1, <3>1, <3>2 DEF redisVars
  <2>3. CASE ~(told /\ ~delivered)
    <3>1. sent' = sent
      BY <1>2, <2>3 DEF Answer
    <3>2. delivered' = delivered
      BY <2>1, <2>3, Zenon DEF DeliveredIsRouting
    <3>3. SubscriberPc' = SubscriberPc
      BY <2>1, <3>2, PcStays
    <3>. QED BY <2>1, <3>1, <3>3 DEF redisVars
  <2>. QED BY <2>2, <2>3
<1>3. CASE RouteEnds
  <2>1. /\ pc = "route" /\ delivered' = FALSE /\ sent' = sent
        /\ UNCHANGED <<redisVars, failed, cur, last, attempt, stopping, stops, crashes, reliable>>
    BY <1>3 DEF RouteEnds, Routing, At, redisVars
  <2>2. CASE delivered
    <3>1. SubscriberPc' = SubscriberPc
      BY <1>3, <2>1, <2>2, Zenon DEF RouteEnds, SubscriberPc
    <3>. QED BY <2>1, <3>1 DEF redisVars
  <2>3. CASE ~delivered
    <3>1. SubscriberPc = "route" /\ SubscriberPc' = "saveFailure"
      BY <1>3, <2>1, <2>3, Zenon DEF RouteEnds, SubscriberPc
    <3>. QED BY <2>1, <3>1 DEF redisVars
  <2>. QED BY <2>2, <2>3
<1>. QED BY <1>1, <1>2, <1>3 DEF RouteStep

\* While no alert is routed the two are in the same place.
LEMMA OtherStepsMap ==
  ASSUME DeliveredIsRouting, OtherSteps, UNCHANGED routeVars
  PROVE  Atomic!Next
<1>1. pc # "route"
  BY DEF OtherSteps, Read, Stopped, Parse, SaveSuccess, SaveFailure, MarkFailed, Ack,
    Discard, Start, At
<1>2. ~delivered /\ ~delivered'
  <2>1. ~delivered
    BY <1>1, Zenon DEF DeliveredIsRouting
  <2>. QED BY <2>1, Zenon DEF routeVars
<1>3. SubscriberPc = pc /\ SubscriberPc' = pc'
  BY <1>2, Zenon DEF SubscriberPc
<1>. USE <1>3 DEF At, Atomic!At, BackToRead, Atomic!BackToRead, Processed,
       Atomic!Processed, redisVars, Atomic!redisVars, taskVars, Atomic!taskVars
<1>4. Read => Atomic!Read
  BY DEF Read, Atomic!Read
<1>5. Parse => Atomic!Parse
  BY DEF Parse, Atomic!Parse
<1>6. Stopped \/ Start => Atomic!Stopped \/ Atomic!Start
  BY DEF Stopped, Atomic!Stopped, Start, Atomic!Start
<1>7. SaveSuccess \/ SaveFailure => Atomic!SaveSuccess \/ Atomic!SaveFailure
  BY DEF SaveSuccess, Atomic!SaveSuccess, SaveFailure, Atomic!SaveFailure
<1>8. MarkFailed => Atomic!MarkFailed
  BY DEF MarkFailed, Atomic!MarkFailed
<1>9. Ack \/ Discard => Atomic!Ack \/ Atomic!Discard
  BY DEF Ack, Atomic!Ack, Discard, Atomic!Discard
<1>. QED
  BY <1>4, <1>5, <1>6, <1>7, <1>8, <1>9 DEF OtherSteps, Atomic!Next, Atomic!Subscriber

\* A crash, stop() and a new alert happen to both alike, in the middle of a routing too.
LEMMA RestMaps ==
  ASSUME DeliveredIsRouting
  PROVE  /\ EndRouting => Atomic!Next
         /\ Stop /\ UNCHANGED routeVars => Atomic!Next
         /\ \A kind \in Kinds : Publish(kind) /\ UNCHANGED routeVars => Atomic!Next
         /\ UNCHANGED routingVars => UNCHANGED Atomic!vars
<1>1. EndRouting => Atomic!Crash \/ Atomic!Cancelled
  <2>. SUFFICES ASSUME EndRouting PROVE Atomic!Crash \/ Atomic!Cancelled
    OBVIOUS
  <2>1. pc # "down" /\ pc' = "down" /\ delivered' = FALSE
    BY DEF EndRouting, Crash, Cancelled
  <2>2. SubscriberPc # "down" /\ SubscriberPc' = "down"
    BY <2>1, Zenon DEF SubscriberPc
  <2>3. CASE Crash
    BY <2>2, <2>3 DEF Crash, Atomic!Crash, redisVars, Atomic!redisVars
  <2>4. CASE Cancelled
    BY <2>2, <2>4 DEF Cancelled, Atomic!Cancelled, redisVars, Atomic!redisVars
  <2>. QED BY <2>3, <2>4 DEF EndRouting
<1>2. ASSUME pc' = pc, UNCHANGED routeVars PROVE SubscriberPc' = SubscriberPc
  BY <1>2, PcStays DEF routeVars
<1>3. Stop /\ UNCHANGED routeVars => Atomic!Stop
  <2>. SUFFICES ASSUME Stop, UNCHANGED routeVars PROVE Atomic!Stop
    OBVIOUS
  <2>1. pc # "down" /\ pc' = pc
    BY DEF Stop, taskVars
  <2>2. SubscriberPc # "down" /\ SubscriberPc' = SubscriberPc
    BY <1>2, <2>1, Zenon DEF SubscriberPc
  <2>. QED BY <2>2 DEF Stop, Atomic!Stop, redisVars, Atomic!redisVars, taskVars,
         Atomic!taskVars
<1>4. ASSUME NEW kind \in Kinds, Publish(kind), UNCHANGED routeVars PROVE Atomic!Next
  <2>1. SubscriberPc' = SubscriberPc
    BY <1>2, <1>4 DEF Publish, taskVars
  <2>2. Atomic!Publish(kind)
    BY <1>4, <2>1 DEF Publish, Atomic!Publish, taskVars, Atomic!taskVars
  <2>. QED BY <1>4, <2>2 DEF Atomic!Next, Kinds, Atomic!Kinds
<1>5. UNCHANGED routingVars => UNCHANGED Atomic!vars
  <2>. SUFFICES ASSUME UNCHANGED routingVars PROVE UNCHANGED Atomic!vars
    OBVIOUS
  <2>1. UNCHANGED routeVars /\ pc' = pc
    BY DEF routingVars, vars, taskVars
  <2>2. SubscriberPc' = SubscriberPc
    BY <1>2, <2>1
  <2>. QED BY <2>2 DEF routingVars, vars, redisVars, taskVars, Atomic!vars,
         Atomic!redisVars, Atomic!taskVars
<1>. QED BY <1>1, <1>3, <1>4, <1>5 DEF Atomic!Next

\* Concurrent sends with a fallback are one atomic Route, for any chats and recipients.
THEOREM RoutingImplementsSubscriber == RoutingSpec => RoutingIsAtomic
<1>1. RoutingInit => Atomic!Init
  <2>. SUFFICES ASSUME RoutingInit PROVE Atomic!Init
    OBVIOUS
  <2>1. SubscriberPc = "read"
    BY Zenon DEF RoutingInit, Init, SubscriberPc
  <2>. QED BY <2>1 DEF RoutingInit, Init, Atomic!Init, Atomic!Alerts
<1>2. DeliveredIsRouting /\ [RoutingNext]_routingVars => [Atomic!Next]_Atomic!vars
  <2>. SUFFICES ASSUME DeliveredIsRouting, [RoutingNext]_routingVars
                PROVE  [Atomic!Next]_Atomic!vars
    OBVIOUS
  <2>1. CASE RouteStep
    BY <2>1, RouteStepMaps
  <2>2. CASE OtherSteps /\ UNCHANGED <<configVars, routeVars>>
    BY <2>2, OtherStepsMap
  <2>3. CASE EndRouting \/ UNCHANGED routingVars
             \/ (Stop /\ UNCHANGED <<configVars, routeVars>>)
             \/ \E kind \in Kinds : Publish(kind) /\ UNCHANGED <<configVars, routeVars>>
    BY <2>3, RestMaps
  <2>. QED BY <2>1, <2>2, <2>3 DEF RoutingNext, RoutingSubscriber
<1>. QED
  BY <1>1, <1>2, DeliveredIsRoutingInductive, PTL DEF RoutingSpec, RoutingIsAtomic, Atomic!Spec
=============================================================================
