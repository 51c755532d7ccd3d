--------------------------- MODULE AlertSubscriber ---------------------------
(***************************************************************************)
(* alert-router: RedisAlertSubscriber reads the alerts stream as a member  *)
(* of a consumer group and routes each alert with BackoffAlertRouter, a    *)
(* few times at most, to the channels of AlertRouter.  Redis and MongoDB   *)
(* calls may raise, before or after they took effect; the task may be      *)
(* cancelled, and the process may crash, at any await.                     *)
(***************************************************************************)
EXTENDS Integers, Sequences

CONSTANTS
  MaxAlerts,    \* bound: alerts published
  MaxStops,     \* bound: times stop() is called
  MaxCrashes,   \* bound: times the process ends otherwise
  Count,        \* count of xreadgroup
  MaxRetries    \* max_retries

ASSUME SubscriberAssumption ==
  /\ MaxAlerts \in Nat /\ MaxStops \in Nat /\ MaxCrashes \in Nat
  /\ Count \in Nat \ {0} /\ MaxRetries \in Nat \ {0}

Alerts == 1..MaxAlerts

\* An alert that can be routed, one without the fields of AlertEvent, one that is not JSON.
Kinds == {"good", "invalid", "garbled"}

VARIABLES
  stream,    \* Redis: the kinds of the alerts published
  lastId,    \* Redis: the last alert delivered to the consumer group
  acked,     \* Redis: alerts acknowledged
  sent,      \* how often a channel took the alert
  failed,    \* MongoDB: alerts in failed_alerts
  pc,        \* where the subscriber awaits
  cur,       \* the alert process_message works on
  last,      \* the last alert of the batch read
  attempt,   \* the attempt of route_alert_with_backoff
  stopping,  \* stop() was called
  stops,
  crashes,
  reliable   \* Redis and MongoDB never raise and the process does not crash

redisVars == <<stream, lastId, acked>>
taskVars == <<pc, cur, last, attempt>>
vars == <<redisVars, sent, failed, taskVars, stopping, stops, crashes, reliable>>

Init ==
  /\ stream = <<>> /\ lastId = 0 /\ acked = {}
  /\ sent = [m \in Alerts |-> 0] /\ failed = {}
  /\ pc = "read" /\ cur = 1 /\ last = 0 /\ attempt = 1
  /\ stopping = FALSE /\ stops = 0 /\ crashes = 0
  /\ reliable \in BOOLEAN

Published == 1..Len(stream)

Publish(kind) ==
  /\ Len(stream) < MaxAlerts
  /\ stream' = Append(stream, kind)
  /\ UNCHANGED <<lastId, acked, sent, failed, taskVars, stopping, stops, crashes, reliable>>

-----------------------------------------------------------------------------
(* run() *)

At(place) == pc = place /\ UNCHANGED <<stream, stopping, stops, crashes, reliable>>

\* The call raised, or there is nothing to do until the next turn of the loop.
BackToRead == pc' = "read" /\ cur' = last + 1 /\ UNCHANGED <<last, attempt>>

\* xreadgroup with ">": alerts not delivered to the group before.  If it raises after Redis
\* delivered them, nobody has them.
Read ==
  /\ At("read") /\ ~stopping /\ lastId < Len(stream)
  /\ \E n \in 1..Count :
       /\ lastId + n <= Len(stream) /\ lastId' = lastId + n
       /\ \/ pc' = "parse" /\ cur' = lastId + 1 /\ last' = lastId + n /\ UNCHANGED attempt
          \/ ~reliable /\ UNCHANGED taskVars
  /\ UNCHANGED <<acked, sent, failed>>

\* The loop ends once stop() was called; the batch in hand is processed first.
Stopped ==
  /\ At("read") /\ stopping
  /\ pc' = "down"
  /\ UNCHANGED <<cur, last, attempt, redisVars, sent, failed>>

\* Mutant: the rest of the batch is dropped.
DropRest == BackToRead

\* process_message returns, whether it acknowledged the alert or not.
Processed ==
  IF cur < last
    THEN pc' = "parse" /\ cur' = cur + 1 /\ UNCHANGED <<last, attempt>>
    ELSE BackToRead

-----------------------------------------------------------------------------
(* process_message() and route_alert_with_backoff() *)

\* Mutant: an alert that cannot be routed is acknowledged too.
ParseDiscardsInvalid ==
  /\ At("parse")
  /\ \/ stream[cur] = "good" /\ pc' = "route" /\ attempt' = 1 /\ UNCHANGED <<cur, last>>
     \/ stream[cur] # "good" /\ pc' = "discard" /\ UNCHANGED <<cur, last, attempt>>
  /\ UNCHANGED <<redisVars, sent, failed>>

\* The alert is routed, acknowledged as garbled, or passed over, never to be read again.
Parse ==
  /\ At("parse")
  /\ \/ stream[cur] = "good" /\ pc' = "route" /\ attempt' = 1 /\ UNCHANGED <<cur, last>>
     \/ stream[cur] = "garbled" /\ pc' = "discard" /\ UNCHANGED <<cur, last, attempt>>
     \/ stream[cur] = "invalid" /\ Processed
  /\ UNCHANGED <<redisVars, sent, failed>>

\* Telegram and the email fallback: at least one delivery, or an exception.
Route ==
  /\ At("route")
  /\ \/ sent' = [sent EXCEPT ![cur] = @ + 1] /\ pc' = "saveSuccess"
     \/ UNCHANGED sent /\ pc' = "saveFailure"
  /\ UNCHANGED <<redisVars, failed, cur, last, attempt>>

\* The successful attempt is recorded; if that raises, the attempt counts as failed.
SaveSuccess ==
  /\ At("saveSuccess")
  /\ \/ pc' = "ack"
     \/ ~reliable /\ pc' = "saveFailure"
  /\ UNCHANGED <<redisVars, sent, failed, cur, last, attempt>>

\* Mutant: one attempt more than max_retries.
RetryOnceMore ==
  /\ At("saveFailure")
  /\ \/ /\ attempt <= MaxRetries
        /\ pc' = "route" /\ attempt' = attempt + 1 /\ UNCHANGED <<cur, last>>
     \/ /\ attempt > MaxRetries
        /\ pc' = "markFailed" /\ UNCHANGED <<cur, last, attempt>>
     \/ ~reliable /\ Processed
  /\ UNCHANGED <<redisVars, sent, failed>>

\* The failed attempt is recorded, and the next one follows after a delay.  If the record
\* raises, the exception ends the routing.
SaveFailure ==
  /\ At("saveFailure")
  /\ \/ /\ attempt < MaxRetries
        /\ pc' = "route" /\ attempt' = attempt + 1 /\ UNCHANGED <<cur, last>>
     \/ /\ attempt = MaxRetries
        /\ pc' = "markFailed" /\ UNCHANGED <<cur, last, attempt>>
     \/ ~reliable /\ Processed
  /\ UNCHANGED <<redisVars, sent, failed>>

\* All attempts failed: the alert is marked so (unless that raises) and not acknowledged.
MarkFailed ==
  /\ At("markFailed")
  /\ failed' = failed \cup {cur} \/ (~reliable /\ UNCHANGED failed)
  /\ Processed
  /\ UNCHANGED <<redisVars, sent>>

Ack ==
  /\ At("ack")
  /\ acked' = acked \cup {cur} \/ (~reliable /\ UNCHANGED acked)
  /\ Processed
  /\ UNCHANGED <<lastId, sent, failed>>

\* A garbled alert is acknowledged in an except block: if that raises, run() drops the rest
\* of the batch.
Discard ==
  /\ At("discard")
  /\ \/ acked' = acked \cup {cur} /\ Processed
     \/ ~reliable /\ acked' \in {acked, acked \cup {cur}} /\ BackToRead
  /\ UNCHANGED <<lastId, sent, failed>>

-----------------------------------------------------------------------------
(* The process *)

\* A read under way is awaited: one that ends after stop() is the same as one before it.
Stop ==
  /\ pc # "down" /\ ~stopping /\ stops < MaxStops
  /\ stopping' = TRUE /\ stops' = stops + 1
  /\ UNCHANGED <<redisVars, sent, failed, taskVars, crashes, reliable>>

\* lifespan() cancels a task that has not ended five seconds after stop(), wherever it
\* awaits: in a backoff, in a send, in the middle of a batch.
Cancelled ==
  /\ stopping /\ pc # "down"
  /\ pc' = "down"
  /\ UNCHANGED <<redisVars, sent, failed, cur, last, attempt, stopping, stops, crashes,
                 reliable>>

\* The process ends.
Crash ==
  /\ ~reliable /\ pc # "down" /\ crashes < MaxCrashes
  /\ pc' = "down" /\ crashes' = crashes + 1
  /\ UNCHANGED <<redisVars, sent, failed, cur, last, attempt, stopping, stops, reliable>>

\* The next process joins the same consumer group with a task that has read nothing.
Start ==
  /\ pc = "down"
  /\ pc' = "read" /\ cur' = 1 /\ last' = 0 /\ attempt' = 1 /\ stopping' = FALSE
  /\ UNCHANGED <<redisVars, sent, failed, stops, crashes, reliable>>

Subscriber ==
  \/ Read \/ Stopped \/ Parse \/ Route \/ SaveSuccess \/ SaveFailure
  \/ MarkFailed \/ Ack \/ Discard \/ Start

Next == Subscriber \/ Stop \/ Cancelled \/ Crash \/ \E kind \in Kinds : Publish(kind)

Spec == Init /\ [][Next]_vars

\* The task goes on, and the service is started again whenever it ends.
FairSpec == Spec /\ WF_vars(Subscriber)

-----------------------------------------------------------------------------
(* Properties *)

TypeOK ==
  /\ stream \in Seq(Kinds) /\ Len(stream) <= MaxAlerts
  /\ lastId \in 0..Len(stream)
  /\ acked \subseteq Alerts /\ failed \subseteq Alerts
  /\ sent \in [Alerts -> 0..MaxRetries]
  /\ pc \in {"read", "parse", "route", "saveSuccess", "saveFailure", "markFailed", "ack", "discard", "down"}
  /\ cur \in Nat /\ last \in 0..lastId
  /\ attempt \in 1..MaxRetries
  /\ stopping \in BOOLEAN /\ stops \in 0..MaxStops /\ crashes \in 0..MaxCrashes
  /\ reliable \in BOOLEAN

Working == pc \notin {"read", "down"}

\* An alert that is acknowledged reached a channel, unless it could not be decoded: neither
\* a failed write of the attempt nor a crash loses an alert that Redis counts as processed.
AckedWasSent == \A m \in acked : stream[m] = "garbled" \/ (stream[m] = "good" /\ sent[m] > 0)

\* However MongoDB, Redis and crashes get in the way, nobody is told of an alert more than
\* max_retries times, and alerts still to be processed have told nobody.
SentAtMostMaxRetries ==
  /\ \A m \in Alerts : sent[m] <= MaxRetries
  /\ \A m \in Alerts : (m > lastId \/ (Working /\ m > cur /\ m <= last)) => sent[m] = 0

\* What makes them inductive: which alert is in hand, how often it was sent so far, and that
\* it was not acknowledged.
InHand ==
  /\ Working => cur \in 1..last /\ acked \subseteq 1..(cur - 1)
  /\ acked \subseteq 1..lastId
  /\ pc \in {"route", "saveSuccess", "saveFailure", "markFailed", "ack"} => stream[cur] = "good"
  /\ pc = "markFailed" => attempt = MaxRetries
  /\ pc = "discard" => stream[cur] = "garbled"
  /\ pc = "parse" => sent[cur] = 0
  /\ pc = "route" => sent[cur] < attempt
  /\ pc \in {"saveSuccess", "ack"} => sent[cur] > 0
  /\ Working => sent[cur] <= attempt

\* An alert is marked as failed only when every attempt was made and none is left.
FailedAfterAllAttempts ==
  [][\A m \in failed' \ failed : m = cur /\ attempt = MaxRetries /\ m \notin acked]_vars

\* What a task that was ended from outside still had in hand: the alert it worked on and
\* the rest of its batch.
Cut == IF pc = "down" THEN cur..last ELSE {}

\* With Redis and MongoDB at hand and no crash, every alert that can be routed and waits in
\* the stream is acknowledged or marked as failed, though stop() and a new start come in
\* between, unless the task has it in hand when it is cancelled five seconds after stop():
\* xreadgroup never returns such an alert again.
AlertsSettled ==
  \A m \in Alerts :
    (reliable /\ m \in Published /\ m > lastId /\ stream[m] = "good")
      ~> (m \in acked \cup failed \cup Cut)

\* "Don't acknowledge - let it be retried" (process_message()): an alert that was passed
\* over without an acknowledgement is processed again, at least when Redis and MongoDB are
\* at hand and nothing crashes.
PassedOverIsRetried ==
  \A m \in Alerts :
    (reliable /\ pc = "read" /\ m <= lastId /\ m \notin acked) ~> (Working /\ cur = m)
=============================================================================
