---------------------------- MODULE AlertRouting ----------------------------
(***************************************************************************)
(* alert-router/service/alert_router.py: what AlertSubscriber's Route      *)
(* stands for.  AlertRouter tells every Telegram chat concurrently, and    *)
(* every email recipient when no chat was told; the subscriber may be      *)
(* stopped, cancelled or crash while the messages are under way.           *)
(***************************************************************************)
EXTENDS AlertSubscriber

CONSTANTS
  Chats,       \* telegram_admin_ids
  Recipients   \* email_recipients

VARIABLES
  chats,      \* the chats told by this configuration; none without a token
  mails,      \* its email recipients; none without a sender
  stage,      \* route_alert: "idle", "telegram" or "email"
  pending,    \* sends gather() waits for
  delivered   \* a send reported success (total_success > 0)

configVars == <<chats, mails>>
routeVars == <<stage, pending, delivered>>
routingVars == <<vars, configVars, routeVars>>

RoutingInit ==
  /\ Init
  /\ chats \in SUBSET Chats /\ mails \in SUBSET Recipients
  /\ stage = "idle" /\ pending = {} /\ delivered = FALSE

-----------------------------------------------------------------------------
(* route_alert() *)

Routing == At("route") /\ UNCHANGED <<redisVars, failed, cur, last, attempt, configVars>>

TellChats ==
  /\ Routing /\ stage = "idle"
  /\ stage' = "telegram" /\ pending' = chats
  /\ UNCHANGED <<pc, sent, delivered>>

\* A send ends.  A chat or a recipient that got the message while its answer was lost
\* counts as not told.
Answer(r, told) ==
  /\ Routing /\ r \in pending
  /\ pending' = pending \ {r}
  /\ delivered' = (delivered \/ told)
  /\ sent' = IF told /\ ~delivered THEN [sent EXCEPT ![cur] = @ + 1] ELSE sent
  /\ UNCHANGED <<pc, stage>>

\* Emails are sent only when no chat was told.
FallBack ==
  /\ Routing /\ stage = "telegram" /\ pending = {} /\ ~delivered
  /\ stage' = "email" /\ pending' = mails
  /\ UNCHANGED <<pc, sent, delivered>>

\* Mutant: only the chats count.
OnlyChatsCount ==
  /\ Routing /\ pending = {} /\ (delivered \/ stage = "email")
  /\ pc' = IF delivered /\ stage = "telegram" THEN "saveSuccess" ELSE "saveFailure"
  /\ stage' = "idle" /\ delivered' = FALSE
  /\ UNCHANGED <<sent, pending>>

\* Somebody was told, or route_alert raises.
RouteEnds ==
  /\ Routing /\ pending = {} /\ (delivered \/ stage = "email")
  /\ pc' = IF delivered THEN "saveSuccess" ELSE "saveFailure"
  /\ stage' = "idle" /\ delivered' = FALSE
  /\ UNCHANGED <<sent, pending>>

RouteStep ==
  \/ TellChats \/ FallBack \/ RouteEnds
  \/ \E r \in Chats \cup Recipients, told \in BOOLEAN : Answer(r, told)

-----------------------------------------------------------------------------
(* The subscriber around it *)

\* A crash, or the cancellation of the task, takes the sends under way with it.
EndRouting ==
  /\ Crash \/ Cancelled
  /\ stage' = "idle" /\ pending' = {} /\ delivered' = FALSE
  /\ UNCHANGED configVars

OtherSteps ==
  \/ Read \/ Stopped \/ Parse \/ SaveSuccess \/ SaveFailure
  \/ MarkFailed \/ Ack \/ Discard \/ Start

RoutingSubscriber ==
  \/ RouteStep
  \/ OtherSteps /\ UNCHANGED <<configVars, routeVars>>

RoutingNext ==
  \/ RoutingSubscriber \/ EndRouting
  \/ Stop /\ UNCHANGED <<configVars, routeVars>>
  \/ \E kind \in Kinds : Publish(kind) /\ UNCHANGED <<configVars, routeVars>>

RoutingSpec == RoutingInit /\ [][RoutingNext]_routingVars

\* Every send is answered or times out, and the task and the service go on.
RoutingFairSpec == RoutingSpec /\ WF_routingVars(RoutingSubscriber)

-----------------------------------------------------------------------------
(* What AlertSubscriber promises is kept *)

\* The atomic Route happens with the first message that is delivered: what follows until
\* route_alert returns changes nothing any more.
SubscriberPc == IF pc = "route" /\ delivered THEN "saveSuccess" ELSE pc

Atomic == INSTANCE AlertSubscriber WITH pc <- SubscriberPc

\* However the concurrent sends, their failures, the fallback and crashes in the middle of
\* them interleave, a routing is one delivery or one exception, as AlertSubscriber has it.
RoutingIsAtomic == Atomic!Spec
=============================================================================
