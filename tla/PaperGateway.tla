---------------------------- MODULE PaperGateway ----------------------------
(***************************************************************************)
(* paper-gateway: a simulated broker.  The handlers of its FastAPI         *)
(* application share one MongoDB database and interleave at every await: a *)
(* MongoDB call is one action, what a handler computes before its next     *)
(* call goes with the call before.  Of prices only what an order may be    *)
(* filled at matters; average cost and P&L are left out but for the        *)
(* quantity that P&L was booked on.                                        *)
(***************************************************************************)
EXTENDS Sums

CONSTANTS
  Handlers,           \* requests that may be in flight
  Symbols,
  Quantities,         \* quantities of orders
  Quotes,             \* simulated fills: a price and the commission charged
  LargeOrder,         \* quantity from which fills may be partial (501 in the code)
  SlippageEstimates,  \* what can_afford_order may add to the cost
  InitialBalance,     \* paper_initial_balance
  Balances,           \* balances an administrator sets
  MaxRequests         \* bound: requests served

ASSUME PaperAssumption ==
  /\ "none" \notin Symbols /\ Quantities \subseteq Nat \ {0} /\ LargeOrder \in Nat \ {0, 1}
  /\ Quotes \subseteq [price : Nat, commission : Nat] /\ SlippageEstimates \subseteq Nat
  /\ InitialBalance \in Nat /\ Balances \subseteq Nat /\ MaxRequests \in Nat

VARIABLES
  mode,       \* what may happen: requests in flight together, admin requests, failures
  accounts,   \* MongoDB: the documents of account, in natural order
  positions,  \* MongoDB: at most one document of positions per symbol
  orders,     \* MongoDB: the documents of orders, in natural order
  req,        \* the request each handler serves
  clock,      \* milliseconds, as far as order ids tell them apart
  began       \* requests served so far

mongo == <<accounts, positions, orders>>
vars == <<mode, mongo, req, clock, began>>

Modes == SUBSET {"overlap", "admin", "failure"}
Actions == {"BUY", "SELL"}
NoPosition == [quantity |-> 0, realized |-> 0]
NewAccount == [cash |-> InitialBalance, commission |-> 0, realized |-> 0]

Order(id, s, a, q) ==
  [id |-> id, symbol |-> s, action |-> a, quantity |-> q,
   status |-> "NEW", filled |-> 0, price |-> 0, commission |-> 0]

\* The request of an idle handler.
NoOrder == Order(0, "none", "none", 0)
Idle == [pc |-> "idle", order |-> NoOrder, value |-> 0]

At(h, place) == req[h].pc = place
Goto(h, place) == req' = [req EXCEPT ![h].pc = place]
Done(h) == req' = [req EXCEPT ![h] = Idle]

Init ==
  /\ mode \in Modes
  /\ accounts = <<NewAccount>> /\ positions = [s \in Symbols |-> NoPosition] /\ orders = <<>>
  /\ req = [h \in Handlers |-> Idle] /\ clock = 0 /\ began = 0

-----------------------------------------------------------------------------
(* Requests. *)

Begin(h, place, order, value) ==
  /\ At(h, "idle") /\ began < MaxRequests
  /\ "overlap" \in mode \/ \A g \in Handlers : At(g, "idle")
  /\ req' = [req EXCEPT ![h] = [pc |-> place, order |-> order, value |-> value]]
  /\ began' = began + 1
  /\ UNCHANGED <<mode, mongo>>

\* The order id is the time in milliseconds: another order may have the same.
PostOrder(h) ==
  \E t \in {clock, clock + 1}, s \in Symbols, a \in Actions, q \in Quantities :
    clock' = t /\ Begin(h, "account", Order(t, s, a, q), 0)

PostClose(h) == \E s \in Symbols : Begin(h, "close", Order(0, s, "none", 0), 0) /\ UNCHANGED clock
GetAccount(h) == Begin(h, "account", NoOrder, 0) /\ UNCHANGED clock
PutBalance(h) ==
  "admin" \in mode /\ (\E b \in Balances : Begin(h, "balance", NoOrder, b)) /\ UNCHANGED clock
PostReset(h) == "admin" \in mode /\ Begin(h, "reset", NoOrder, 0) /\ UNCHANGED clock

-----------------------------------------------------------------------------
(* place_order: the account is read before the order is simulated. *)

Filled(o) == o.status \in {"FILLED", "PARTIAL"}
Cost(o) == o.filled * o.price + o.commission
Delta(o) == IF o.action = "BUY" THEN -Cost(o) ELSE o.filled * o.price - o.commission

Fills(q) == {[status |-> "FILLED", filled |-> q]}
            \cup (IF q < LargeOrder THEN {} ELSE [status : {"PARTIAL"}, filled : 1..(q - 1)])

\* Mutant: only the price is compared with the cash.
AffordsPrice(o, cash, e) == o.action = "SELL" \/ cash >= o.filled * o.price

\* can_afford_order: e estimates the slippage once more.
Affordable(o, cash, e) == o.action = "SELL" \/ cash >= Cost(o) + e

Rejected(o) == [o EXCEPT !.status = "REJECTED", !.filled = 0, !.price = 0]

Fill(o, f, p) ==
  [id |-> o.id, symbol |-> o.symbol, action |-> o.action, quantity |-> o.quantity,
   status |-> f.status, filled |-> f.filled, price |-> p.price, commission |-> p.commission]

\* An order that cannot be paid for keeps the commission it is not charged.
Paid(x, cash, e) == IF Affordable(x, cash, e) THEN x ELSE Rejected(x)

\* Outside market hours, or with a limit price out of reach, nothing is filled.
Executions(o, cash, e) ==
  {Rejected(o)} \cup {Paid(Fill(o, f, p), cash, e) : f \in Fills(o.quantity), p \in Quotes}

\* get_account() has returned: the order is simulated (this raises for an incomplete option),
\* or the account is all that was asked for.
HaveAccount(h, cash) ==
  \/ Done(h)
  \/ /\ req[h].order # NoOrder
     /\ \E e \in SlippageEstimates : \E x \in Executions(req[h].order, cash, e) :
          req' = [req EXCEPT ![h] = [pc |-> "save", order |-> x, value |-> 0]]

Awaits(h, place) == At(h, place) /\ UNCHANGED <<mode, began>>

ReadAccount(h) ==
  /\ Awaits(h, "account") /\ UNCHANGED <<mongo, clock>>
  /\ IF accounts = <<>> THEN Goto(h, "initialize") ELSE HaveAccount(h, accounts[1].cash)

\* initialize_account(): find_one, then insert_one.
Initialize(h) ==
  /\ Awaits(h, "initialize") /\ UNCHANGED <<mongo, clock>>
  /\ IF accounts = <<>> THEN Goto(h, "insert") ELSE HaveAccount(h, accounts[1].cash)

InsertAccount(h) ==
  /\ Awaits(h, "insert") /\ UNCHANGED <<positions, orders, clock>>
  /\ accounts' = Append(accounts, NewAccount)
  /\ HaveAccount(h, InitialBalance)

\* order_id is unique: insert_one raises if it is taken.
SaveOrder(h) ==
  /\ Awaits(h, "save") /\ UNCHANGED <<accounts, positions, clock>>
  /\ IF \E i \in 1..Len(orders) : orders[i].id = req[h].order.id
     THEN Done(h) /\ UNCHANGED orders
     ELSE /\ orders' = Append(orders, req[h].order)
          /\ IF Filled(req[h].order) THEN Goto(h, "cash") ELSE Done(h)

\* update_one({}, ...) changes the first account, if there is one.
UpdateFirst(account) == accounts' = IF accounts = <<>> THEN <<>> ELSE [accounts EXCEPT ![1] = account]

\* The $inc of an order.
Charged(account, o) ==
  [cash |-> account.cash + Delta(o), commission |-> account.commission + o.commission,
   realized |-> account.realized]

\* Mutant: the quantity ordered is charged.
ChargeOrdered(h) ==
  /\ Awaits(h, "cash") /\ UNCHANGED <<positions, orders, clock>>
  /\ UpdateFirst(Charged(accounts[1], [req[h].order EXCEPT !.filled = req[h].order.quantity]))
  /\ Goto(h, "position")

UpdateBalance(h) ==
  /\ Awaits(h, "cash") /\ UNCHANGED <<positions, orders, clock>>
  /\ UpdateFirst(Charged(accounts[1], req[h].order))
  /\ Goto(h, "position")

\* update_position reads the position and then writes what it computed from it.  Selling
\* what is not held changes nothing here, though the cash has been credited.
Held(h) == positions[req[h].order.symbol]

ReadPosition(h) ==
  /\ Awaits(h, "position") /\ UNCHANGED <<mongo, clock>>
  /\ LET o == req[h].order
         write(place, q) == req' = [req EXCEPT ![h] = [pc |-> place, order |-> o, value |-> q]]
     IN  \/ o.action = "BUY" /\ Held(h) = NoPosition /\ write("insert position", o.filled)
         \/ o.action = "BUY" /\ Held(h) # NoPosition /\ write("set position", Held(h).quantity + o.filled)
         \/ o.action = "SELL" /\ Held(h) = NoPosition /\ Done(h)
         \/ /\ o.action = "SELL" /\ Held(h) # NoPosition
            /\ IF Held(h).quantity - o.filled <= 0 THEN write("delete position", 0)
               ELSE write("set position", Held(h).quantity - o.filled)

WritePosition(h, p) == positions' = [positions EXCEPT ![req[h].order.symbol] = p]
PositionWritten(h) == IF req[h].order.action = "BUY" THEN Done(h) ELSE Goto(h, "realize")

\* The symbol is unique: insert_one raises if there is a position by now.
InsertPosition(h) ==
  /\ Awaits(h, "insert position") /\ UNCHANGED <<accounts, orders, clock>>
  /\ IF Held(h) = NoPosition THEN WritePosition(h, [quantity |-> req[h].value, realized |-> 0])
     ELSE UNCHANGED positions
  /\ Done(h)

\* Mutant: the new quantity is added to the one in the database.
AddPosition(h) ==
  /\ Awaits(h, "set position") /\ UNCHANGED <<accounts, orders, clock>>
  /\ IF Held(h) = NoPosition THEN UNCHANGED positions
     ELSE WritePosition(h, [Held(h) EXCEPT !.quantity = @ + req[h].value])
  /\ PositionWritten(h)

\* update_one with $set of the quantity and $inc of the P&L, if there still is a position.
SetPosition(h) ==
  /\ Awaits(h, "set position") /\ UNCHANGED <<accounts, orders, clock>>
  /\ LET sold == IF req[h].order.action = "SELL" THEN req[h].order.filled ELSE 0
     IN  IF Held(h) = NoPosition THEN UNCHANGED positions
         ELSE WritePosition(h, [quantity |-> req[h].value, realized |-> Held(h).realized + sold])
  /\ PositionWritten(h)

DeletePosition(h) ==
  /\ Awaits(h, "delete position") /\ UNCHANGED <<accounts, orders, clock>>
  /\ WritePosition(h, NoPosition)
  /\ PositionWritten(h)

Realize(h) ==
  /\ Awaits(h, "realize") /\ UNCHANGED <<positions, orders, clock>>
  /\ UpdateFirst([accounts[1] EXCEPT !.realized = @ + req[h].order.filled])
  /\ Done(h)

PlaceOrder(h) == ReadAccount(h) \/ Initialize(h) \/ InsertAccount(h) \/ SaveOrder(h)
                 \/ UpdateBalance(h) \/ ReadPosition(h) \/ InsertPosition(h) \/ SetPosition(h)
                 \/ DeletePosition(h) \/ Realize(h)

-----------------------------------------------------------------------------
(* close_position, set_balance and reset_account; failures. *)

\* place_order is called with the position found, however it changes meanwhile.  Positions
\* are never short: the branch that buys one back is not reached.
ClosePosition(h) ==
  /\ Awaits(h, "close") /\ UNCHANGED mongo
  /\ \/ Held(h) = NoPosition /\ Done(h) /\ UNCHANGED clock
     \/ /\ Held(h) # NoPosition
        /\ \E t \in {clock, clock + 1} :
             /\ clock' = t
             /\ req' = [req EXCEPT ![h] =
                          [pc |-> "account", value |-> 0,
                           order |-> Order(t, @.order.symbol, "SELL", Held(h).quantity)]]

SetBalance(h) ==
  /\ Awaits(h, "balance") /\ UNCHANGED <<positions, orders, clock>>
  /\ UpdateFirst([accounts[1] EXCEPT !.cash = req[h].value])
  /\ req' = [req EXCEPT ![h] = [pc |-> "account", order |-> NoOrder, value |-> 0]]

DeleteOrders(h) ==
  /\ Awaits(h, "reset") /\ UNCHANGED <<accounts, positions, clock>>
  /\ orders' = <<>> /\ Goto(h, "reset positions")

\* Mutant: the positions are left out of the reset.
KeepPositions(h) ==
  /\ Awaits(h, "reset positions") /\ UNCHANGED <<mongo, clock>> /\ Goto(h, "reset account")

DeletePositions(h) ==
  /\ Awaits(h, "reset positions") /\ UNCHANGED <<accounts, orders, clock>>
  /\ positions' = [s \in Symbols |-> NoPosition] /\ Goto(h, "reset account")

DeleteAccount(h) ==
  /\ Awaits(h, "reset account") /\ UNCHANGED <<positions, orders, clock>>
  /\ accounts' = <<>> /\ Goto(h, "initialize")

\* A call of MongoDB raises.  If it took effect, this is the step after it.
Raises(h) ==
  /\ "failure" \in mode /\ ~At(h, "idle") /\ Done(h)
  /\ UNCHANGED <<mode, mongo, clock, began>>

\* Mutant: lifespan inserts an account without looking for one.
RestartAfresh ==
  /\ "failure" \in mode /\ req' = [h \in Handlers |-> Idle]
  /\ accounts' = Append(accounts, NewAccount)
  /\ UNCHANGED <<mode, positions, orders, clock, began>>

\* The process ends and starts again; lifespan initializes the account before it serves.
Restart ==
  /\ "failure" \in mode /\ req' = [h \in Handlers |-> Idle]
  /\ accounts' = IF accounts = <<>> THEN <<NewAccount>> ELSE accounts
  /\ UNCHANGED <<mode, positions, orders, clock, began>>

Request(h) == PostOrder(h) \/ PostClose(h) \/ GetAccount(h) \/ PutBalance(h) \/ PostReset(h)
Handler(h) == PlaceOrder(h) \/ ClosePosition(h) \/ SetBalance(h)
              \/ DeleteOrders(h) \/ DeletePositions(h) \/ DeleteAccount(h)

Next == Restart \/ \E h \in Handlers : Request(h) \/ Handler(h) \/ Raises(h)

Spec == Init /\ [][Next]_vars

-----------------------------------------------------------------------------
(* Properties. *)

Places == {"idle", "account", "initialize", "insert", "save", "cash", "position", "insert position",
           "set position", "delete position", "realize", "close", "balance", "reset",
           "reset positions", "reset account"}

OrderRecords ==
  [id : Nat, symbol : Symbols \cup {"none"}, action : Actions \cup {"none"}, quantity : Nat,
   status : {"NEW", "REJECTED", "FILLED", "PARTIAL"}, filled : Nat, price : Nat, commission : Nat]

Positions == {NoPosition} \cup [quantity : Nat \ {0}, realized : Nat]

\* What a handler knows of its order; it books fills at the places Booking.
Booking == {"cash", "position", "insert position", "set position", "delete position", "realize"}
Placed(r) == r.order.symbol \in Symbols /\ (r.pc # "close" => r.order.quantity > 0)
RequestOK(r) ==
  /\ r \in [pc : Places, order : OrderRecords, value : Nat]
  /\ r.order = NoOrder \/ Placed(r)
  /\ r.pc \in {"close", "save"} => r.order # NoOrder
  /\ r.pc \in Booking => Filled(r.order)
  /\ IF Filled(r.order) THEN r.order.filled \in 1..r.order.quantity ELSE r.order.filled = 0
  /\ r.pc \in {"insert position", "set position"} => r.value > 0

\* State of the database and of the handlers.  A position is never short, and a fill is of a
\* positive quantity and at most the one ordered.
TypeOK ==
  /\ mode \in Modes /\ clock \in Nat /\ began \in Nat /\ began <= MaxRequests
  /\ accounts \in Seq([cash : Int, commission : Nat, realized : Nat])
  /\ positions \in [Symbols -> Positions]
  /\ orders \in Seq(OrderRecords)
  /\ DOMAIN req = Handlers /\ \A h \in Handlers : RequestOK(req[h])

\* Whatever runs together, cash and commission are those of the filled orders, each booked
\* once: none is lost between save_order and update_account_balance, or charged twice.
Uncharged == {req[h].order.id : h \in {g \in Handlers : At(g, "cash")}}
Booked(o) == Filled(o) /\ o.id \notin Uncharged
CashFollowsOrders ==
  mode \cap {"admin", "failure"} = {} =>
    LET changes == [i \in DOMAIN orders |-> IF Booked(orders[i]) THEN Delta(orders[i]) ELSE 0]
        charged == [i \in DOMAIN orders |-> IF Booked(orders[i]) THEN orders[i].commission ELSE 0]
    IN  /\ accounts[1].cash = InitialBalance + Total(changes)
        /\ accounts[1].commission = Total(charged)

\* With requests one at a time, the positions are what the order book comes to, also after
\* resets: sales are capped at what was held, and what was realized goes with the position.
Book(p, o) ==
  IF o.action = "BUY" THEN [p EXCEPT !.quantity = @ + o.filled]
  ELSE IF p.quantity <= o.filled THEN NoPosition
  ELSE [quantity |-> p.quantity - o.filled, realized |-> p.realized + o.filled]
Comes(q, s) ==
  LET after[k \in 0..Len(q)] ==
        IF k = 0 THEN NoPosition
        ELSE IF q[k].symbol = s THEN Book(after[k - 1], q[k]) ELSE after[k - 1]
  IN  after[Len(q)]
Settled(h) == req[h].pc \notin {"cash", "position", "insert position", "set position",
                               "delete position", "reset positions"}
PositionsFollowOrders ==
  mode \cap {"overlap", "failure"} = {} /\ (\A h \in Handlers : Settled(h)) =>
    \A s \in Symbols : positions[s] = Comes(orders, s)

\* Requests and failures that interleave may lose shares but never make any: a position is
\* never larger than what was bought.
Purchases(q, s) ==
  [i \in DOMAIN q |-> IF q[i].symbol = s /\ q[i].action = "BUY" THEN q[i].filled ELSE 0]
HeldWasBought ==
  "admin" \notin mode =>
    \A s \in Symbols : positions[s].quantity <= Total(Purchases(orders, s))

\* The account and the positions against the order book, in the modes in which they can be
\* told from it.
BooksInv == CashFollowsOrders /\ PositionsFollowOrders /\ HeldWasBought

\* Unless a reset runs beside other requests there is one account ("only one account for
\* paper trading"), and it is there when a fill is charged, also after failures in a reset.
OneAccount ==
  ~({"overlap", "admin"} \subseteq mode) =>
    Len(accounts) \in {0, 1} /\ \A h \in Handlers : At(h, "cash") => Len(accounts) = 1

\* With requests one at a time no purchase overdraws the account, also after failures: the
\* cash that can_afford_order saw is the cash that is charged.
Purchase(h) == UpdateBalance(h) /\ req[h].order.action = "BUY"
NoOverdraft ==
  [][\A h \in Handlers : "overlap" \notin mode /\ Purchase(h) => accounts'[1].cash >= 0]_vars

=============================================================================
