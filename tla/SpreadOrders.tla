---------------------------- MODULE SpreadOrders ----------------------------
(***************************************************************************)
(* The orders placed for one signal, at TWS and as the ib object of the    *)
(* process sees them, and where the code that places them is.  TWS is not  *)
(* part of the repository: it fills, cancels or refuses a working order    *)
(* when it likes, may fill an order after its cancellation was asked for,  *)
(* and the process learns of it later.                                     *)
(***************************************************************************)
EXTENDS Integers, FiniteSets

CONSTANTS
  Qty,          \* qty_per_leg
  MaxAttempts,  \* max_attempts
  Mids,         \* spread prices the market may quote, in cents
  Increment,    \* price_increment, in cents
  Floor         \* min_price, min_price_threshold, in cents

ASSUME OrdersAssumption ==
  /\ Qty \in Nat \ {0} /\ MaxAttempts \in Nat \ {0}
  /\ Mids \subseteq Int /\ Increment \in Nat \ {0} /\ Floor \in Nat

Attempts == 1..MaxAttempts

VARIABLES
  status,      \* TWS: the status of the order of each attempt
  filled,      \* TWS: how many spreads that order bought
  refused,     \* orders whose whyHeld reads like a rejection
  cancels,     \* orders cancelOrder() was called for
  price,       \* limit prices
  seen,        \* trade.orderStatus.status
  seenFilled,  \* trade.orderStatus.filled
  pc,          \* where the coroutine awaits
  attempt,     \* the attempt it is at
  limit,       \* the limit price of the next order
  result,      \* the status it returned
  reported,    \* the filled quantity it returned
  infoLogged   \* is INFO an enabled log level (the default)?

orderVars == <<status, filled, refused, cancels, price, seen, seenFilled>>
ladderVars == <<pc, attempt, limit, result, reported, infoLogged>>
vars == <<orderVars, ladderVars>>

AbsPrice(x) == IF x < 0 THEN -x ELSE x

Init ==
  /\ status = [a \in Attempts |-> "none"]
  /\ filled = [a \in Attempts |-> 0]
  /\ refused = {} /\ cancels = {}
  /\ price = [a \in Attempts |-> 0]
  /\ seen = [a \in Attempts |-> "none"]
  /\ seenFilled = [a \in Attempts |-> 0]
  /\ pc = "check" /\ attempt = 1 /\ limit = 0
  /\ result = "none" /\ reported = 0
  /\ infoLogged \in BOOLEAN

-----------------------------------------------------------------------------
(* TWS *)

BrokerFills(a) ==
  /\ status[a] = "Submitted"
  /\ filled' = [filled EXCEPT ![a] = filled[a] + 1]
  /\ status' = [status EXCEPT ![a] = IF filled[a] + 1 = Qty THEN "Filled" ELSE "Submitted"]
  /\ UNCHANGED <<refused, cancels, price, seen, seenFilled, ladderVars>>

\* A cancellation asked for takes effect, or TWS ends the order by itself.
BrokerEnds(a) ==
  /\ status[a] = "Submitted"
  /\ \E s \in {"Cancelled", "Inactive"} : status' = [status EXCEPT ![a] = s]
  /\ refused' \in {refused, refused \cup {a}}
  /\ UNCHANGED <<filled, cancels, price, seen, seenFilled, ladderVars>>

\* The event loop processes what TWS sent about an order.
Deliver(a) ==
  /\ status[a] # "none"
  /\ seen[a] # status[a] \/ seenFilled[a] # filled[a]
  /\ seen' = [seen EXCEPT ![a] = status[a]]
  /\ seenFilled' = [seenFilled EXCEPT ![a] = filled[a]]
  /\ UNCHANGED <<status, filled, refused, cancels, price, ladderVars>>

Broker == \E a \in Attempts : BrokerFills(a) \/ BrokerEnds(a) \/ Deliver(a)

-----------------------------------------------------------------------------
(* Steps the two implementations of the ladder share *)

Return(status_, quantity) ==
  /\ pc' = "done" /\ result' = status_ /\ reported' = quantity
  /\ UNCHANGED <<attempt, limit, infoLogged, orderVars>>

\* An exception is caught and turned into a result.
Raise ==
  /\ pc' = "raised" /\ result' = "REJECTED" /\ reported' = 0
  /\ UNCHANGED <<attempt, limit, infoLogged, orderVars>>

PlaceOrder ==
  /\ status' = [status EXCEPT ![attempt] = "Submitted"]
  /\ seen' = [seen EXCEPT ![attempt] = "PendingSubmit"]
  /\ price' = [price EXCEPT ![attempt] = limit]
  /\ pc' = "wait"
  /\ UNCHANGED <<filled, refused, cancels, seenFilled, attempt, limit, result, reported, infoLogged>>

CancelOrder ==
  /\ cancels' = cancels \cup {attempt}
  /\ UNCHANGED <<status, filled, refused, price, seen, seenFilled>>

\* Mutant: the first fill is taken for all of them.
FilledAtFirstFill ==
  /\ pc = "wait" /\ seenFilled[attempt] > 0
  /\ Return("FILLED", seenFilled[attempt])

OrderFilled ==
  /\ pc = "wait" /\ seen[attempt] = "Filled"
  /\ Return("FILLED", seenFilled[attempt])

\* The call is logged with keywords logger.info does not take: it raises if INFO is enabled.
OrderPartlyFilled ==
  /\ pc = "wait" /\ seen[attempt] = "Submitted" /\ seenFilled[attempt] > 0
  /\ \/ ~infoLogged /\ Return("PARTIAL", seenFilled[attempt])
     \/ infoLogged /\ Raise

\* The wait ends with an order neither filled nor partly filled, as far as is known.
Unfilled ==
  /\ pc = "wait"
  /\ \/ seen[attempt] \in {"PendingSubmit", "Submitted"} /\ seenFilled[attempt] = 0
     \/ seen[attempt] \in {"Cancelled", "Inactive"}

\* A call of ib raises (the connection is lost).
IbCallRaises == pc \in {"try", "wait"} /\ Raise

-----------------------------------------------------------------------------
(* Properties *)

Statuses == {"none", "PendingSubmit", "Submitted", "Filled", "Cancelled", "Inactive"}

TypeOK ==
  /\ status \in [Attempts -> Statuses \ {"PendingSubmit"}]
  /\ filled \in [Attempts -> 0..Qty]
  /\ refused \subseteq Attempts /\ cancels \subseteq Attempts
  /\ price \in [Attempts -> Int]
  /\ seen \in [Attempts -> Statuses]
  /\ seenFilled \in [Attempts -> 0..Qty]
  /\ pc \in {"check", "try", "wait", "sleep", "done", "raised"}
  /\ attempt \in Attempts
  /\ limit \in Int
  /\ result \in {"none", "FILLED", "PARTIAL", "REJECTED", "CANCELED"}
  /\ reported \in 0..Qty
  /\ infoLogged \in BOOLEAN

\* No order is ever worth less than the minimum premium, from whatever mid price the ladder
\* starts and however many increments it takes.
FloorKept == \A a \in Attempts : status[a] # "none" => AbsPrice(price[a]) >= Floor

\* What is returned as bought was bought: all of it for FILLED, and at least what is
\* reported for PARTIAL, even if the ib object lags behind TWS.
ResultIsTrue ==
  /\ result = "FILLED" => reported = Qty /\ filled[attempt] = Qty
  /\ result = "PARTIAL" => reported \in 1..filled[attempt]

\* What makes ResultIsTrue inductive: what ib knows never runs ahead of TWS, an order that
\* is complete is no longer worked on, and nothing is placed yet for the attempts to come.
OrderInv ==
  /\ \A a \in Attempts :
       /\ status[a] = "none" => filled[a] = 0
       /\ status[a] = "Submitted" => filled[a] < Qty
       /\ status[a] = "Filled" => filled[a] = Qty
       /\ seenFilled[a] <= filled[a]
       /\ seen[a] = "Filled" => seenFilled[a] = Qty
       /\ seen[a] \in {"Filled", "Cancelled", "Inactive"} => status[a] = seen[a]
       /\ (a > attempt \/ (a = attempt /\ pc \in {"check", "try"})) => status[a] = "none"
  /\ pc \notin {"done", "raised"} => result = "none"

\* No order keeps working unattended: one the ladder went past was asked to cancel, and at
\* the end only the rest of a PARTIAL order may still be filled, or the order an exception
\* took the ladder from.
NothingLeftWorking ==
  \A a \in Attempts : status[a] = "Submitted" /\ a \notin cancels =>
    a = attempt /\ (pc \in {"wait", "raised"} \/ (pc = "done" /\ result = "PARTIAL"))

\* Every execution returns, whatever TWS does.
ExecutionEnds == pc = "check" ~> pc \in {"done", "raised"}

\* "Fill Validation: Confirms order fill status and pricing" (docs/order-execution.md:239):
\* nothing was bought for an execution that returns REJECTED without an exception.
RejectedBoughtNothing ==
  pc = "done" /\ result = "REJECTED" => \A a \in Attempts : filled[a] = 0
=============================================================================
