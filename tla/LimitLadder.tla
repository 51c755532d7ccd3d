----------------------------- MODULE LimitLadder ----------------------------
(***************************************************************************)
(* trading-bot/app/service/executor.py: VerticalSpreadExecutor executes    *)
(* one signal by a ladder of limit orders.                                 *)
(***************************************************************************)
EXTENDS SpreadOrders

\* The signal lacks a strike, or a call raises before the ladder starts.
SignalInvalid == pc = "check" /\ Return("REJECTED", 0)

\* TWS is not connected, has no whatIf answer, or the margin does not suffice.
WhatIfRefuses == pc = "check" /\ Return("REJECTED", 0)

\* One of the two legs has no market price.
PriceMissing == pc = "check" /\ Return("REJECTED", 0)

\* The mid price is known: it is rejected, or the ladder starts there.
PriceKnown(mid) ==
  /\ pc = "check"
  /\ \/ AbsPrice(mid) < Floor /\ Return("REJECTED", 0)
     \/ /\ AbsPrice(mid) >= Floor
        /\ pc' = "try" /\ limit' = mid
        /\ UNCHANGED <<attempt, result, reported, infoLogged, orderVars>>

LimitTooLow ==
  /\ pc = "try" /\ AbsPrice(limit) < Floor
  /\ Return("CANCELED", 0)

TryLimit ==
  /\ pc = "try" /\ AbsPrice(limit) >= Floor
  /\ PlaceOrder

OrderRejected ==
  /\ pc = "wait" /\ seen[attempt] \in {"Cancelled", "Inactive"} /\ attempt \in refused
  /\ Return("REJECTED", 0)

\* Mutant: the last order is left to its fate.
CancelUnlessLast ==
  /\ Unfilled
  /\ ~(seen[attempt] \in {"Cancelled", "Inactive"} /\ attempt \in refused)
  /\ IF seen[attempt] \in {"Cancelled", "Inactive"} \/ attempt = MaxAttempts
       THEN UNCHANGED orderVars ELSE CancelOrder
  /\ pc' = "sleep" /\ limit' = limit + Increment
  /\ UNCHANGED <<attempt, result, reported, infoLogged>>

\* The time is up, or TWS ended the order for another reason: cancel it and sleep.
CancelUnfilled ==
  /\ Unfilled
  /\ ~(seen[attempt] \in {"Cancelled", "Inactive"} /\ attempt \in refused)
  /\ IF seen[attempt] \in {"Cancelled", "Inactive"} THEN UNCHANGED orderVars ELSE CancelOrder
  /\ pc' = "sleep" /\ limit' = limit + Increment
  /\ UNCHANGED <<attempt, result, reported, infoLogged>>

NextAttempt ==
  /\ pc = "sleep" /\ attempt < MaxAttempts
  /\ pc' = "try" /\ attempt' = attempt + 1
  /\ UNCHANGED <<orderVars, limit, result, reported, infoLogged>>

\* Mutant: the wait for the last attempt is never given up.
NeverExhausted == FALSE /\ Return("REJECTED", 0)

Exhausted ==
  /\ pc = "sleep" /\ attempt = MaxAttempts
  /\ Return("REJECTED", 0)

Execute ==
  \/ SignalInvalid \/ WhatIfRefuses \/ PriceMissing \/ \E mid \in Mids : PriceKnown(mid)
  \/ LimitTooLow \/ TryLimit \/ OrderFilled \/ OrderRejected \/ OrderPartlyFilled
  \/ CancelUnfilled \/ NextAttempt \/ Exhausted \/ IbCallRaises

Next == Execute \/ Broker

Spec == Init /\ [][Next]_vars

\* Every sleep ends and every wait has a deadline; TWS owes nothing.
FairSpec == Spec /\ WF_vars(Execute)
=============================================================================
