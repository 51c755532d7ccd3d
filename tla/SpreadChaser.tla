---------------------------- MODULE SpreadChaser ----------------------------
(***************************************************************************)
(* spreadpilot_core/ibkr/client.py: IBKRClient.place_vertical_spread, the  *)
(* ladder the signal processor and the strategy handler use.  It neither   *)
(* sleeps between two attempts nor looks at whyHeld.                       *)
(***************************************************************************)
EXTENDS SpreadOrders

\* Not connected, wrong strikes, no prices, or the info log of the mid price raises.
RejectBeforePricing ==
  /\ pc = "check"
  /\ Return("REJECTED", 0)

\* The mid price is logged with keywords: past this point INFO is not enabled.
MidKnown(mid) ==
  /\ pc = "check" /\ ~infoLogged
  /\ \/ AbsPrice(mid) < Floor /\ Return("REJECTED", 0)
     \/ /\ AbsPrice(mid) >= Floor
        /\ pc' = "try" /\ limit' = mid
        /\ UNCHANGED <<attempt, result, reported, infoLogged, orderVars>>

PlaceNext == pc = "try" /\ PlaceOrder

\* Mutant: the price is not looked at again.
RetryAtAnyPrice ==
  /\ Unfilled /\ attempt < MaxAttempts
  /\ IF seen[attempt] = "Cancelled" THEN UNCHANGED orderVars ELSE CancelOrder
  /\ limit' = limit + Increment
  /\ pc' = "try" /\ attempt' = attempt + 1
  /\ UNCHANGED <<result, reported, infoLogged>>

\* Cancel the order unless TWS did, and go on with the next price if it is high enough.
Retry ==
  /\ Unfilled /\ attempt < MaxAttempts
  /\ AbsPrice(limit + Increment) >= Floor
  /\ IF seen[attempt] = "Cancelled" THEN UNCHANGED orderVars ELSE CancelOrder
  /\ limit' = limit + Increment
  /\ pc' = "try" /\ attempt' = attempt + 1
  /\ UNCHANGED <<result, reported, infoLogged>>

\* The attempts are used up, or the next price is too low (which is logged with keywords:
\* the exception that raises while WARNING is enabled becomes the same result).
GiveUp ==
  /\ Unfilled
  /\ attempt = MaxAttempts \/ AbsPrice(limit + Increment) < Floor
  /\ IF seen[attempt] = "Cancelled" THEN UNCHANGED orderVars ELSE CancelOrder
  /\ limit' = limit + Increment
  /\ pc' = "done" /\ result' = "REJECTED"
  /\ UNCHANGED <<attempt, reported, infoLogged>>

PlaceVerticalSpread ==
  \/ RejectBeforePricing \/ \E mid \in Mids : MidKnown(mid)
  \/ PlaceNext \/ OrderFilled \/ OrderPartlyFilled \/ Retry \/ GiveUp \/ IbCallRaises

ChaserNext == PlaceVerticalSpread \/ Broker

ChaserSpec == Init /\ [][ChaserNext]_vars

\* Every wait has a deadline; TWS owes nothing.
ChaserFairSpec == ChaserSpec /\ WF_vars(PlaceVerticalSpread)
=============================================================================
