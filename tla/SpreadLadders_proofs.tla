------------------------ MODULE SpreadLadders_proofs -------------------------
(***************************************************************************)
(* The two ladders report only what TWS bought, never bid under the floor, *)
(* and leave no order unattended but by an exception, for any quantity,    *)
(* number of attempts, prices and increment.                               *)
(***************************************************************************)
EXTENDS LimitLadder, SpreadChaser, TLAPS

USE OrdersAssumption DEF Attempts

-----------------------------------------------------------------------------
(* What the steps of TWS and the steps the two ladders share preserve *)

SafeInv == TypeOK /\ OrderInv /\ FloorKept /\ ResultIsTrue

\* Nothing is placed, bought or reported at the start.
LEMMA InitSafe == Init => SafeInv
BY DEF Init, SafeInv, TypeOK, OrderInv, FloorKept, ResultIsTrue, Statuses

\* A fill by TWS completes an order or leaves room for the next fill.
LEMMA BrokerFillsSafe ==
  ASSUME SafeInv, NEW a \in Attempts, BrokerFills(a) PROVE SafeInv'
<1>. USE DEF SafeInv
<1>1. TypeOK'
  BY DEF TypeOK, OrderInv, BrokerFills, ladderVars, Statuses
<1>2. OrderInv'
  <2>1. \A b \in Attempts \ {a} : filled'[b] = filled[b] /\ status'[b] = status[b]
    BY DEF TypeOK, BrokerFills
  <2>2. /\ status[a] = "Submitted" /\ filled[a] < Qty /\ filled[a] \in 0..Qty
        /\ seenFilled[a] <= filled[a] /\ seenFilled[a] \in 0..Qty
        /\ filled'[a] = filled[a] + 1
        /\ status'[a] = IF filled[a] + 1 = Qty THEN "Filled" ELSE "Submitted"
    BY DEF TypeOK, OrderInv, BrokerFills
  <2>. QED BY <2>1, <2>2 DEF OrderInv, BrokerFills, ladderVars
<1>3. FloorKept' /\ ResultIsTrue'
  BY DEF TypeOK, OrderInv, FloorKept, ResultIsTrue, BrokerFills, ladderVars
<1>. QED BY <1>1, <1>2, <1>3

\* An order that ends keeps what it bought.
LEMMA BrokerEndsSafe ==
  ASSUME SafeInv, NEW a \in Attempts, BrokerEnds(a) PROVE SafeInv'
<1>. USE DEF SafeInv
<1>1. TypeOK'
  BY DEF TypeOK, OrderInv, BrokerEnds, ladderVars, Statuses
<1>2. OrderInv'
  BY DEF TypeOK, OrderInv, BrokerEnds, ladderVars, Statuses
<1>3. FloorKept' /\ ResultIsTrue'
  BY DEF TypeOK, OrderInv, FloorKept, ResultIsTrue, BrokerEnds, ladderVars
<1>. QED BY <1>1, <1>2, <1>3

\* What ib learns is what TWS has.
LEMMA DeliverSafe ==
  ASSUME SafeInv, NEW a \in Attempts, Deliver(a) PROVE SafeInv'
<1>. USE DEF SafeInv
<1>1. TypeOK'
  BY DEF TypeOK, OrderInv, Deliver, ladderVars, Statuses
<1>2. OrderInv'
  BY DEF TypeOK, OrderInv, Deliver, ladderVars, Statuses
<1>3. FloorKept' /\ ResultIsTrue'
  BY DEF TypeOK, OrderInv, FloorKept, ResultIsTrue, Deliver, ladderVars
<1>. QED BY <1>1, <1>2, <1>3

\* TWS and the event loop, together.
LEMMA BrokerSafe == SafeInv /\ Broker => SafeInv'
BY BrokerFillsSafe, BrokerEndsSafe, DeliverSafe DEF Broker

\* A stuttering step changes nothing the invariant speaks of.
LEMMA StutterSafe == SafeInv /\ UNCHANGED vars => SafeInv'
<1>. SUFFICES ASSUME SafeInv, UNCHANGED vars PROVE SafeInv'
  OBVIOUS
<1>1. UNCHANGED orderVars /\ UNCHANGED ladderVars
  BY DEF vars, orderVars, ladderVars
<1>2. TypeOK'
  BY <1>1 DEF SafeInv, TypeOK, orderVars, ladderVars
<1>3. OrderInv'
  BY <1>1 DEF SafeInv, OrderInv, orderVars, ladderVars
<1>4. FloorKept' /\ ResultIsTrue'
  BY <1>1 DEF SafeInv, FloorKept, ResultIsTrue, orderVars, ladderVars
<1>. QED BY <1>2, <1>3, <1>4 DEF SafeInv

\* A result other than FILLED and PARTIAL claims nothing.
LEMMA ReturnNothingSafe ==
  ASSUME SafeInv, NEW s \in {"REJECTED", "CANCELED"}, Return(s, 0) PROVE SafeInv'
<1>1. TypeOK'
  BY DEF SafeInv, TypeOK, Return, orderVars
<1>2. OrderInv'
  BY DEF SafeInv, OrderInv, Return, orderVars
<1>3. FloorKept' /\ ResultIsTrue'
  BY DEF SafeInv, FloorKept, ResultIsTrue, Return, orderVars
<1>. QED BY <1>1, <1>2, <1>3 DEF SafeInv

\* Nor does an exception.
LEMMA RaiseSafe == SafeInv /\ Raise => SafeInv'
<1>. SUFFICES ASSUME SafeInv, Raise PROVE SafeInv'
  OBVIOUS
<1>1. TypeOK'
  BY DEF SafeInv, TypeOK, Raise, orderVars
<1>2. OrderInv'
  BY DEF SafeInv, OrderInv, Raise, orderVars
<1>3. FloorKept' /\ ResultIsTrue'
  BY DEF SafeInv, FloorKept, ResultIsTrue, Raise, orderVars
<1>. QED BY <1>1, <1>2, <1>3 DEF SafeInv

\* FILLED reports an order TWS completed.
LEMMA OrderFilledSafe == SafeInv /\ OrderFilled => SafeInv'
BY DEF SafeInv, TypeOK, OrderInv, FloorKept, ResultIsTrue, OrderFilled, Return, orderVars, Statuses

\* PARTIAL reports no more than TWS bought.
LEMMA OrderPartlyFilledSafe == SafeInv /\ OrderPartlyFilled => SafeInv'
<1>1. ASSUME SafeInv, pc = "wait", seenFilled[attempt] > 0, Return("PARTIAL", seenFilled[attempt])
      PROVE  SafeInv'
  <2>1. /\ seenFilled[attempt] \in 1..filled[attempt] /\ seenFilled[attempt] \in 0..Qty
    BY <1>1 DEF SafeInv, TypeOK, OrderInv
  <2>2. /\ pc' = "done" /\ result' = "PARTIAL" /\ reported' = seenFilled[attempt]
        /\ UNCHANGED <<attempt, limit, infoLogged, status, filled, refused, cancels, price,
                       seen, seenFilled>>
    BY <1>1 DEF Return, orderVars
  <2>3. TypeOK' /\ FloorKept' /\ ResultIsTrue'
    BY <1>1, <2>1, <2>2 DEF SafeInv, TypeOK, FloorKept, ResultIsTrue
  <2>4. OrderInv'
    BY <1>1, <2>2 DEF SafeInv, OrderInv
  <2>. QED BY <2>3, <2>4 DEF SafeInv
<1>. QED BY <1>1, RaiseSafe DEF OrderPartlyFilled

\* An exception of ib ends the execution with nothing claimed.
LEMMA IbCallRaisesSafe == SafeInv /\ IbCallRaises => SafeInv'
BY RaiseSafe DEF IbCallRaises

\* An order placed at a limit that is worth the floor keeps the invariant.
LEMMA PlaceOrderSafe ==
  ASSUME SafeInv, pc = "try", AbsPrice(limit) >= Floor, PlaceOrder PROVE SafeInv'
<1>. USE DEF SafeInv
<1>1. TypeOK'
  BY DEF TypeOK, OrderInv, PlaceOrder, Statuses
<1>2. OrderInv'
  BY DEF TypeOK, OrderInv, PlaceOrder, Statuses
<1>3. FloorKept'
  <2>1. \A a \in Attempts \ {attempt} : status'[a] = status[a] /\ price'[a] = price[a]
    BY DEF TypeOK, PlaceOrder
  <2>2. price'[attempt] = limit
    BY DEF TypeOK, PlaceOrder
  <2>. QED BY <2>1, <2>2 DEF FloorKept, AbsPrice, TypeOK
<1>4. ResultIsTrue'
  BY DEF TypeOK, OrderInv, ResultIsTrue, PlaceOrder
<1>. QED BY <1>1, <1>2, <1>3, <1>4

\* TWS never makes an order work again.
LEMMA WorkingBroker == SafeInv /\ NothingLeftWorking /\ Broker => NothingLeftWorking'
<1>. SUFFICES ASSUME SafeInv, NothingLeftWorking, NEW a \in Attempts,
                     BrokerFills(a) \/ BrokerEnds(a) \/ Deliver(a)
              PROVE  NothingLeftWorking'
  BY DEF Broker
<1>1. \A b \in Attempts : status'[b] = "Submitted" => status[b] = "Submitted"
  BY DEF SafeInv, TypeOK, BrokerFills, BrokerEnds, Deliver
<1>. QED
  BY <1>1 DEF NothingLeftWorking, BrokerFills, BrokerEnds, Deliver, ladderVars

-----------------------------------------------------------------------------
(* The executor of the trading bot *)

\* A ladder that starts at the mid price or goes on to the next one claims nothing yet.
LEMMA PriceKnownSafe == ASSUME SafeInv, NEW mid \in Mids, PriceKnown(mid) PROVE SafeInv'
<1>1. CASE AbsPrice(mid) < Floor /\ Return("REJECTED", 0)
  BY <1>1, ReturnNothingSafe
<1>2. CASE pc' = "try" /\ limit' = mid /\ UNCHANGED <<attempt, result, reported, infoLogged, orderVars>>
  BY <1>2, mid \in Int
  DEF SafeInv, TypeOK, OrderInv, FloorKept, ResultIsTrue, PriceKnown, orderVars, Statuses
<1>. QED BY <1>1, <1>2 DEF PriceKnown

\* Cancelling only marks the order; the next limit is a number.
LEMMA CancelUnfilledSafe == SafeInv /\ CancelUnfilled => SafeInv'
<1>. SUFFICES ASSUME SafeInv, CancelUnfilled PROVE SafeInv'
  OBVIOUS
<1>1. cancels' \subseteq Attempts /\ UNCHANGED <<status, filled, refused, price, seen, seenFilled>>
  <2>1. CASE UNCHANGED orderVars
    BY <2>1 DEF orderVars, SafeInv, TypeOK
  <2>2. CASE CancelOrder
    BY <2>2 DEF CancelOrder, SafeInv, TypeOK
  <2>. QED BY <2>1, <2>2 DEF CancelUnfilled
<1>2. /\ pc = "wait" /\ pc' = "sleep" /\ limit' = limit + Increment
      /\ UNCHANGED <<attempt, result, reported, infoLogged>>
  BY DEF CancelUnfilled, Unfilled
<1>. QED BY <1>1, <1>2 DEF SafeInv, TypeOK, OrderInv, FloorKept, ResultIsTrue

\* The next attempt has placed nothing yet.
LEMMA NextAttemptSafe == SafeInv /\ NextAttempt => SafeInv'
BY DEF SafeInv, TypeOK, OrderInv, FloorKept, ResultIsTrue, NextAttempt, orderVars, Statuses

\* Every step of the executor keeps the invariant.
LEMMA ExecuteSafe == SafeInv /\ Execute => SafeInv'
<1>. SUFFICES ASSUME SafeInv, Execute PROVE SafeInv'
  OBVIOUS
<1>1. CASE SignalInvalid \/ WhatIfRefuses \/ PriceMissing
  BY <1>1, ReturnNothingSafe DEF SignalInvalid, WhatIfRefuses, PriceMissing
<1>2. CASE \E mid \in Mids : PriceKnown(mid)
  BY <1>2, PriceKnownSafe
<1>3. CASE LimitTooLow
  BY <1>3, ReturnNothingSafe DEF LimitTooLow
<1>4. CASE TryLimit
  BY <1>4, PlaceOrderSafe DEF TryLimit
<1>5. CASE OrderRejected
  BY <1>5, ReturnNothingSafe DEF OrderRejected
<1>6. CASE Exhausted
  BY <1>6, ReturnNothingSafe DEF Exhausted
<1>. QED
  BY <1>1, <1>2, <1>3, <1>4, <1>5, <1>6, OrderFilledSafe, OrderPartlyFilledSafe,
    CancelUnfilledSafe, NextAttemptSafe, IbCallRaisesSafe DEF Execute

\* What the executor returns as bought was bought, and no order is under the floor, with
\* the invariant behind it.
THEOREM LadderInvariant == Spec => []SafeInv
<1>1. SafeInv /\ [Next]_vars => SafeInv'
  BY ExecuteSafe, BrokerSafe, StutterSafe DEF Next
<1>. QED BY <1>1, InitSafe, PTL DEF Spec

\* The state of the ladder keeps its type.
THEOREM LadderTypeCorrect == Spec => []TypeOK
<1>1. SafeInv => TypeOK
  BY DEF SafeInv
<1>. QED BY <1>1, LadderInvariant, PTL

\* No limit order is worth less than the minimum premium.
THEOREM LadderKeepsFloor == Spec => []FloorKept
<1>1. SafeInv => FloorKept
  BY DEF SafeInv
<1>. QED BY <1>1, LadderInvariant, PTL

\* A FILLED or PARTIAL result never claims more than TWS bought.
THEOREM LadderResultIsTrue == Spec => []ResultIsTrue
<1>1. SafeInv => ResultIsTrue
  BY DEF SafeInv
<1>. QED BY <1>1, LadderInvariant, PTL

-----------------------------------------------------------------------------
(* Orders left behind *)

\* The executor goes on only past orders it cancelled or knows to have ended.
LEMMA WorkingExecute ==
  ASSUME SafeInv, NothingLeftWorking, Execute
  PROVE  NothingLeftWorking'
<1>. USE DEF SafeInv, NothingLeftWorking, orderVars, Return
<1>1. CASE SignalInvalid \/ WhatIfRefuses \/ PriceMissing
  BY <1>1 DEF SignalInvalid, WhatIfRefuses, PriceMissing
<1>2. CASE \E mid \in Mids : PriceKnown(mid)
  BY <1>2 DEF PriceKnown
<1>3. CASE LimitTooLow
  BY <1>3 DEF LimitTooLow
<1>4. CASE TryLimit
  <2>1. \A b \in Attempts \ {attempt} : status'[b] = status[b]
    BY <1>4 DEF TryLimit, PlaceOrder, TypeOK
  <2>. QED BY <1>4, <2>1 DEF TryLimit, PlaceOrder
<1>5. CASE OrderFilled
  BY <1>5 DEF OrderFilled, OrderInv, TypeOK
<1>6. CASE OrderRejected
  BY <1>6 DEF OrderRejected, OrderInv, TypeOK
<1>7. CASE OrderPartlyFilled
  BY <1>7 DEF OrderPartlyFilled, Raise
<1>8. CASE CancelUnfilled
  BY <1>8 DEF CancelUnfilled, CancelOrder, OrderInv, TypeOK
<1>9. CASE NextAttempt
  BY <1>9 DEF NextAttempt
<1>10. CASE Exhausted
  BY <1>10 DEF Exhausted
<1>11. CASE IbCallRaises
  BY <1>11 DEF IbCallRaises, Raise
<1>. QED
  BY <1>1, <1>2, <1>3, <1>4, <1>5, <1>6, <1>7, <1>8, <1>9, <1>10, <1>11 DEF Execute

\* No order is left working unless it was asked to cancel or its execution waits for it,
\* returned PARTIAL or ended in an exception.
THEOREM LadderLeavesNothing == Spec => []NothingLeftWorking
<1>1. Init => NothingLeftWorking
  BY DEF Init, NothingLeftWorking
<1>2. SafeInv /\ NothingLeftWorking /\ [Next]_vars => NothingLeftWorking'
  <2>1. NothingLeftWorking /\ UNCHANGED vars => NothingLeftWorking'
    BY DEF NothingLeftWorking, vars, orderVars, ladderVars
  <2>. QED BY <2>1, WorkingExecute, WorkingBroker DEF Next
<1>. QED BY <1>1, <1>2, LadderInvariant, PTL DEF Spec

-----------------------------------------------------------------------------
(* place_vertical_spread of the IBKR client, which looks at the next limit before it *)
(* goes on rather than when it places the order                                     *)

\* Where an order is to be placed, its limit was compared with the floor.
LimitChecked == pc = "try" => AbsPrice(limit) >= Floor

ChaserInv == SafeInv /\ LimitChecked

\* A ladder that starts at the mid price claims nothing yet.
LEMMA MidKnownSafe == ASSUME SafeInv, NEW mid \in Mids, MidKnown(mid) PROVE ChaserInv'
<1>1. CASE AbsPrice(mid) < Floor /\ Return("REJECTED", 0)
  BY <1>1, ReturnNothingSafe DEF Return, ChaserInv, LimitChecked
<1>2. CASE /\ AbsPrice(mid) >= Floor /\ pc' = "try" /\ limit' = mid
           /\ UNCHANGED <<attempt, result, reported, infoLogged, orderVars>>
  <2>1. SafeInv'
    BY <1>2, mid \in Int
    DEF SafeInv, TypeOK, OrderInv, FloorKept, ResultIsTrue, MidKnown, orderVars, Statuses
  <2>2. LimitChecked'
    BY <1>2 DEF LimitChecked, AbsPrice
  <2>. QED BY <2>1, <2>2 DEF ChaserInv
<1>. QED BY <1>1, <1>2 DEF MidKnown

\* Cancelling only marks the order.
LEMMA CancelMarks ==
  ASSUME SafeInv, IF seen[attempt] = "Cancelled" THEN UNCHANGED orderVars ELSE CancelOrder
  PROVE  /\ cancels' \subseteq Attempts
         /\ UNCHANGED <<status, filled, refused, price, seen, seenFilled>>
<1>1. CASE UNCHANGED orderVars
  BY <1>1 DEF orderVars, SafeInv, TypeOK
<1>2. CASE CancelOrder
  BY <1>2 DEF CancelOrder, SafeInv, TypeOK
<1>. QED BY <1>1, <1>2

\* The next attempt starts at a limit that is worth the floor.
LEMMA RetrySafe == SafeInv /\ Retry => ChaserInv'
<1>. SUFFICES ASSUME SafeInv, Retry PROVE ChaserInv'
  OBVIOUS
<1>1. cancels' \subseteq Attempts /\ UNCHANGED <<status, filled, refused, price, seen, seenFilled>>
  BY CancelMarks DEF Retry
<1>2. /\ pc = "wait" /\ pc' = "try" /\ limit' = limit + Increment
      /\ attempt' = attempt + 1 /\ attempt < MaxAttempts
      /\ UNCHANGED <<result, reported, infoLogged>>
  BY DEF Retry, Unfilled
<1>3. SafeInv'
  BY <1>1, <1>2 DEF SafeInv, TypeOK, OrderInv, FloorKept, ResultIsTrue
<1>4. LimitChecked'
  BY DEF LimitChecked, Retry, AbsPrice
<1>. QED BY <1>3, <1>4 DEF ChaserInv

\* Giving up claims nothing.
LEMMA GiveUpSafe == SafeInv /\ GiveUp => ChaserInv'
<1>. SUFFICES ASSUME SafeInv, GiveUp PROVE ChaserInv'
  OBVIOUS
<1>1. cancels' \subseteq Attempts /\ UNCHANGED <<status, filled, refused, price, seen, seenFilled>>
  BY CancelMarks DEF GiveUp
<1>2. /\ pc = "wait" /\ pc' = "done" /\ limit' = limit + Increment
      /\ result' = "REJECTED" /\ UNCHANGED <<attempt, reported, infoLogged>>
  BY DEF GiveUp, Unfilled
<1>3. SafeInv'
  BY <1>1, <1>2 DEF SafeInv, TypeOK, OrderInv, FloorKept, ResultIsTrue
<1>. QED BY <1>2, <1>3 DEF ChaserInv, LimitChecked

\* Every step of place_vertical_spread keeps the invariant.
LEMMA PlaceVerticalSpreadSafe == ChaserInv /\ PlaceVerticalSpread => ChaserInv'
<1>. SUFFICES ASSUME ChaserInv, PlaceVerticalSpread PROVE ChaserInv'
  OBVIOUS
<1>1. CASE RejectBeforePricing
  BY <1>1, ReturnNothingSafe DEF RejectBeforePricing, ChaserInv, LimitChecked, Return
<1>2. CASE \E mid \in Mids : MidKnown(mid)
  BY <1>2, MidKnownSafe DEF ChaserInv
<1>3. CASE PlaceNext
  BY <1>3, PlaceOrderSafe DEF PlaceNext, ChaserInv, LimitChecked, PlaceOrder
<1>4. CASE OrderFilled
  BY <1>4, OrderFilledSafe DEF OrderFilled, ChaserInv, LimitChecked, Return
<1>5. CASE OrderPartlyFilled
  BY <1>5, OrderPartlyFilledSafe DEF OrderPartlyFilled, ChaserInv, LimitChecked, Return, Raise
<1>6. CASE Retry
  BY <1>6, RetrySafe DEF ChaserInv
<1>7. CASE GiveUp
  BY <1>7, GiveUpSafe DEF ChaserInv
<1>8. CASE IbCallRaises
  BY <1>8, IbCallRaisesSafe DEF IbCallRaises, ChaserInv, LimitChecked, Raise
<1>. QED
  BY <1>1, <1>2, <1>3, <1>4, <1>5, <1>6, <1>7, <1>8 DEF PlaceVerticalSpread

\* TWS does not touch the limit.
LEMMA ChaserBroker == ChaserInv /\ Broker => ChaserInv'
<1>1. Broker => UNCHANGED <<pc, limit>>
  BY DEF Broker, BrokerFills, BrokerEnds, Deliver, ladderVars
<1>. QED BY <1>1, BrokerSafe DEF ChaserInv, LimitChecked, AbsPrice

\* What place_vertical_spread returns as bought was bought, and no order is under the
\* floor, with the invariant behind it.
THEOREM ChaserInvariant == ChaserSpec => []ChaserInv
<1>1. Init => ChaserInv
  BY InitSafe DEF Init, ChaserInv, LimitChecked
<1>2. ChaserInv /\ UNCHANGED vars => ChaserInv'
  BY StutterSafe DEF ChaserInv, LimitChecked, AbsPrice, vars, ladderVars
<1>3. ChaserInv /\ [ChaserNext]_vars => ChaserInv'
  BY <1>2, PlaceVerticalSpreadSafe, ChaserBroker DEF ChaserNext
<1>. QED BY <1>1, <1>3, PTL DEF ChaserSpec

\* The state of the ladder keeps its type.
THEOREM ChaserTypeCorrect == ChaserSpec => []TypeOK
<1>1. ChaserInv => TypeOK
  BY DEF ChaserInv, SafeInv
<1>. QED BY <1>1, ChaserInvariant, PTL

\* No limit order is worth less than min_price.
THEOREM ChaserKeepsFloor == ChaserSpec => []FloorKept
<1>1. ChaserInv => FloorKept
  BY DEF ChaserInv, SafeInv
<1>. QED BY <1>1, ChaserInvariant, PTL

\* A FILLED or PARTIAL result never claims more than TWS bought.
THEOREM ChaserResultIsTrue == ChaserSpec => []ResultIsTrue
<1>1. ChaserInv => ResultIsTrue
  BY DEF ChaserInv, SafeInv
<1>. QED BY <1>1, ChaserInvariant, PTL

-----------------------------------------------------------------------------
(* Orders left behind *)

\* place_vertical_spread goes on only past orders it cancelled or knows to have ended.
LEMMA WorkingChaser ==
  ASSUME SafeInv, NothingLeftWorking, PlaceVerticalSpread
  PROVE  NothingLeftWorking'
<1>. USE DEF SafeInv, NothingLeftWorking, orderVars, Return
<1>1. CASE RejectBeforePricing
  BY <1>1 DEF RejectBeforePricing
<1>2. CASE \E mid \in Mids : MidKnown(mid)
  BY <1>2 DEF MidKnown
<1>3. CASE PlaceNext
  <2>1. \A b \in Attempts \ {attempt} : status'[b] = status[b]
    BY <1>3 DEF PlaceNext, PlaceOrder, TypeOK
  <2>. QED BY <1>3, <2>1 DEF PlaceNext, PlaceOrder
<1>4. CASE OrderFilled
  BY <1>4 DEF OrderFilled, OrderInv, TypeOK
<1>5. CASE OrderPartlyFilled
  BY <1>5 DEF OrderPartlyFilled, Raise
<1>6. CASE Retry
  BY <1>6 DEF Retry, CancelOrder, OrderInv, TypeOK
<1>7. CASE GiveUp
  BY <1>7 DEF GiveUp, CancelOrder, OrderInv, TypeOK
<1>8. CASE IbCallRaises
  BY <1>8 DEF IbCallRaises, Raise
<1>. QED
  BY <1>1, <1>2, <1>3, <1>4, <1>5, <1>6, <1>7, <1>8 DEF PlaceVerticalSpread

\* No order is left working unless it was asked to cancel or place_vertical_spread waits
\* for it, returned PARTIAL or ended in an exception.
THEOREM ChaserLeavesNothing == ChaserSpec => []NothingLeftWorking
<1>1. Init => NothingLeftWorking
  BY DEF Init, NothingLeftWorking
<1>2. ChaserInv /\ NothingLeftWorking /\ [ChaserNext]_vars => NothingLeftWorking'
  <2>1. NothingLeftWorking /\ UNCHANGED vars => NothingLeftWorking'
    BY DEF NothingLeftWorking, vars, orderVars, ladderVars
  <2>. QED BY <2>1, WorkingChaser, WorkingBroker DEF ChaserNext, ChaserInv
<1>. QED BY <1>1, <1>2, ChaserInvariant, PTL DEF ChaserSpec
=============================================================================
