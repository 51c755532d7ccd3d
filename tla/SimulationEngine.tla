-------------------------- MODULE SimulationEngine --------------------------
(***************************************************************************)
(* simulation.py of spreadpilot-core: an engine that replays historical    *)
(* data point by point, fills the orders of a strategy and keeps cash,     *)
(* positions, the equity curve and its drawdown.  It is driven by run(),   *)
(* or by hand as docs/SIMULATION_REPLAY_MODE.md shows for its step mode.   *)
(*                                                                         *)
(* Time is the number of data points replayed.  Floating-point amounts are *)
(* integers, a drawdown is the fraction loss/of; the pauses of the replay  *)
(* mode and the layout of the results are left out.                        *)
(***************************************************************************)
EXTENDS Sums, Sequences

CONSTANTS Symbols, Prices, Quantities,
          Points,       \* the number of data points
          Strategies,   \* what a strategy may order at one data point: sequences of moves
          Capital,      \* initial_capital
          Commission,   \* commission_per_trade
          Percent,      \* slippage_pct, in hundredths
          MaxManual,    \* bounds the orders placed by hand
          MaxRuns       \* bounds the calls of run()

Types == {"MARKET", "LIMIT"}
Moves == [symbol : Symbols, action : {"BUY", "SELL"}, quantity : Quantities, type : Types,
          limit : Prices]

ASSUME EngineAssumption ==
    /\ Prices \subseteq Nat /\ Quantities \subseteq Nat \ {0} /\ Points \in Nat
    /\ Strategies \subseteq Seq(Moves)
    /\ Capital \in Nat \ {0} /\ Commission \in Nat /\ Percent \in 0..100
    /\ \A p \in Prices : (p * Percent) % 100 = 0
    /\ MaxManual \in Nat /\ MaxRuns \in Nat

VARIABLES
    data,       \* the data points in the order of their timestamps
    strategy,   \* what the strategy orders when it is shown each but the first of them
    caller,     \* "idle", or where run() is: "stepping" or calling the "strategy"
    manual,     \* orders placed by hand so far
    index,      \* data points replayed
    cash, positions, orders, trades,
    curve,      \* the equity after each data point
    peak,       \* max_equity
    drawdown,   \* max_drawdown
    results     \* what the calls of run() returned

inputs == <<data, strategy>>
books == <<cash, positions, trades>>
performance == <<curve, peak, drawdown>>
engine == <<index, orders, books, performance>>
vars == <<inputs, caller, manual, engine, results>>

-----------------------------------------------------------------------------
NoPositions == [s \in Symbols |-> 0]
NoDrawdown == [loss |-> 0, of |-> 1]

Fresh ==
    /\ index = 0 /\ orders = <<>>
    /\ cash = Capital /\ positions = NoPositions /\ trades = <<>>
    /\ curve = <<>> /\ peak = Capital /\ drawdown = NoDrawdown

Init ==
    /\ data \in [1..Points -> [symbol : Symbols, close : Prices]]
    /\ strategy \in [2..Points -> Strategies]
    /\ caller = "idle" /\ manual = 0 /\ results = <<>>
    /\ Fresh

\* Mutant: the orders stay.
ResetBooks ==
    /\ index' = 0 /\ UNCHANGED orders
    /\ cash' = Capital /\ positions' = NoPositions /\ trades' = <<>>
    /\ curve' = <<>> /\ peak' = Capital /\ drawdown' = NoDrawdown

Reset ==
    /\ index' = 0 /\ orders' = <<>>
    /\ cash' = Capital /\ positions' = NoPositions /\ trades' = <<>>
    /\ curve' = <<>> /\ peak' = Capital /\ drawdown' = NoDrawdown

-----------------------------------------------------------------------------
(* Orders.  An order keeps the time it was placed at and, once it is filled, *)
(* that of the fill and its price.                                           *)

Order(move) ==
    [move |-> move, status |-> "PENDING", placed |-> index, at |-> 0, price |-> 0]

PlaceOrders(moves) ==
    orders' = orders \o [k \in DOMAIN moves |-> Order(moves[k])]

\* Mutant: an order is filled at the price of any symbol.
FillsAnySymbol(o, point) ==
    /\ o.status = "PENDING"
    /\ \/ o.move.type = "MARKET"
       \/ o.move.action = "BUY" /\ point.close <= o.move.limit
       \/ o.move.action = "SELL" /\ point.close >= o.move.limit

Fills(o, point) ==
    /\ o.status = "PENDING" /\ o.move.symbol = point.symbol
    /\ \/ o.move.type = "MARKET"
       \/ o.move.action = "BUY" /\ point.close <= o.move.limit
       \/ o.move.action = "SELL" /\ point.close >= o.move.limit

Slippage(price) == (price * Percent) \div 100

\* Mutant: the slippage is to the advantage of the strategy.
Bargain(move, price) ==
    IF move.type = "LIMIT" THEN move.limit
    ELSE IF move.action = "SELL" THEN price + Slippage(price)
    ELSE price - Slippage(price)

\* A market order pays the slippage, a limit order its limit.
FillPrice(move, price) ==
    IF move.type = "LIMIT" THEN move.limit
    ELSE IF move.action = "BUY" THEN price + Slippage(price)
    ELSE price - Slippage(price)

Signed(move) == IF move.action = "BUY" THEN move.quantity ELSE -move.quantity

\* Mutant: a sale is credited with the commission.
CashFlowWithBonus(move, price) ==
    -Signed(move) * price - (IF move.action = "BUY" THEN 1 ELSE -1) * Commission

CashFlow(move, price) == -Signed(move) * price - Commission

\* step() is at the i-th data point.
Executed(o, i, point) ==
    [o EXCEPT !.status = "FILLED", !.at = i, !.price = FillPrice(o.move, point.close)]

\* _execute_order()
Charged(b, move, i, point) ==
    LET price == FillPrice(move, point.close)
    IN  [cash |-> b.cash + CashFlow(move, price),
         positions |-> [b.positions EXCEPT ![move.symbol] = @ + Signed(move)],
         trades |-> Append(b.trades, [move |-> move, at |-> i, price |-> price])]

\* _process_orders(): the books after each of the orders.
Processed(b, placed, i, point) ==
    LET after[k \in 0..Len(placed)] ==
          IF k = 0 THEN b
          ELSE IF Fills(placed[k], point) THEN Charged(after[k - 1], placed[k].move, i, point)
          ELSE after[k - 1]
    IN  after[Len(placed)]

Settled(placed, i, point) ==
    [k \in DOMAIN placed |->
       IF Fills(placed[k], point) THEN Executed(placed[k], i, point) ELSE placed[k]]

ProcessOrders ==
    LET after == Processed([cash |-> cash, positions |-> positions, trades |-> trades],
                           orders, index + 1, data[index + 1])
    IN  /\ orders' = Settled(orders, index + 1, data[index + 1])
        /\ cash' = after.cash /\ positions' = after.positions /\ trades' = after.trades

\* The position in the symbol of the data point is the only one that counts.
Equity(c, held, point) == c + held[point.symbol] * point.close

Deeper(a, b) == a.loss * b.of > b.loss * a.of

\* Mutant: losses are measured from the initial capital.
TrackFromCapital(equity) ==
    LET drop == [loss |-> Capital - equity, of |-> Capital]
    IN  /\ curve' = Append(curve, equity)
        /\ peak' = IF equity > peak THEN equity ELSE peak
        /\ drawdown' = IF Deeper(drop, drawdown) THEN drop ELSE drawdown

TrackEquity(equity) ==
    LET top == IF equity > peak THEN equity ELSE peak
        drop == [loss |-> top - equity, of |-> top]
    IN  /\ curve' = Append(curve, equity)
        /\ peak' = top
        /\ drawdown' = IF Deeper(drop, drawdown) THEN drop ELSE drawdown

\* step(): the orders are filled at the data point that comes next, which is the
\* one that run() has shown to the strategy.
Step ==
    /\ index < Len(data)
    /\ ProcessOrders
    /\ TrackEquity(Equity(cash', positions', data[index + 1]))
    /\ index' = index + 1

-----------------------------------------------------------------------------
(* Driven by hand *)

PlaceOrderByHand ==
    /\ caller = "idle" /\ manual < MaxManual
    /\ \E moves \in Strategies : moves # <<>> /\ PlaceOrders(moves)
    /\ manual' = manual + 1
    /\ UNCHANGED <<inputs, caller, index, books, performance, results>>

StepByHand ==
    /\ caller = "idle" /\ Step
    /\ UNCHANGED <<inputs, caller, manual, results>>

-----------------------------------------------------------------------------
(* run() *)

\* get_results(): every trade counts as won (_is_winning_trade).
Results(mode) ==
    [mode |-> mode, equity |-> IF curve = <<>> THEN Capital ELSE Last(curve),
     drawdown |-> drawdown, trades |-> trades, won |-> Len(trades),
     commission |-> Commission * Len(trades)]

NothingTraded ==
    [mode |-> "step", equity |-> Capital, drawdown |-> NoDrawdown, trades |-> <<>>,
     won |-> 0, commission |-> 0]

\* The backtest and replay modes differ in their pauses.
Run ==
    /\ caller = "idle" /\ Len(results) < MaxRuns
    /\ Reset /\ caller' = "stepping"
    /\ UNCHANGED <<inputs, manual, results>>

\* In step mode run() resets the engine and returns.
RunStepMode ==
    /\ caller = "idle" /\ Len(results) < MaxRuns
    /\ Reset /\ results' = Append(results, NothingTraded)
    /\ UNCHANGED <<inputs, caller, manual>>

\* After a step there is a data point to show, or step() returns False next.
RunStep ==
    /\ caller = "stepping" /\ Step
    /\ caller' = IF index + 1 < Len(data) THEN "strategy" ELSE "stepping"
    /\ UNCHANGED <<inputs, manual, results>>

CallStrategy ==
    /\ caller = "strategy"
    /\ PlaceOrders(strategy[index + 1])
    /\ caller' = "stepping"
    /\ UNCHANGED <<inputs, manual, index, books, performance, results>>

EndRun ==
    /\ caller = "stepping" /\ index = Len(data)
    /\ results' = Append(results, Results("run"))
    /\ caller' = "idle"
    /\ UNCHANGED <<inputs, manual, engine>>

Next ==
    \/ PlaceOrderByHand \/ StepByHand
    \/ Run \/ RunStepMode \/ RunStep \/ CallStrategy \/ EndRun

Spec == Init /\ [][Next]_vars
=============================================================================
