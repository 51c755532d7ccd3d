------------------------ MODULE SimulationProperties ------------------------
(* What the simulation engine is to keep, for any data, strategy and driver. *)
EXTENDS SimulationEngine, FiniteSetsExt

\* State of the engine: orders and trades are moves at times of the replay, and
\* no more was replayed than there is.
TypeOK ==
    /\ data \in [1..Points -> [symbol : Symbols, close : Prices]]
    /\ caller \in {"idle", "stepping", "strategy"} /\ manual \in 0..MaxManual
    /\ index \in 0..Points /\ Len(curve) = index /\ Len(results) <= MaxRuns
    /\ cash \in Int /\ positions \in [Symbols -> Int] /\ peak >= Capital
    /\ drawdown.loss \in Nat /\ drawdown.of \in Nat \ {0}
    /\ \A k \in DOMAIN orders :
         /\ orders[k].move \in Moves /\ orders[k].placed \in 0..index
         /\ orders[k].status = "PENDING" \/ orders[k].at \in 1..index

\* The data points an order could be filled at: those of its symbol after it was
\* placed, at its limit or better.
Acceptable(o, close) ==
    \/ o.move.type = "MARKET"
    \/ close = o.move.limit
    \/ (close < o.move.limit) = (o.move.action = "BUY")
Chances(o) ==
    {i \in (o.placed + 1)..index : data[i].symbol = o.move.symbol /\ Acceptable(o, data[i].close)}

\* _process_orders(): an order is filled once, at the first data point that it
\* accepts; and one that is still pending has not been passed over.
FilledAtFirstChance ==
    \A k \in DOMAIN orders :
      LET o == orders[k]
      IN  IF Chances(o) = {} THEN o.status = "PENDING"
          ELSE o.status = "FILLED" /\ o.at = Min(Chances(o))

\* What the orders that were filled add to the trades, the expenses and the
\* position in s.
Filled(o) == o.status = "FILLED"
Counts(placed) == [k \in DOMAIN placed |-> IF Filled(placed[k]) THEN 1 ELSE 0]
Expenses(placed) ==
    [k \in DOMAIN placed |->
       IF Filled(placed[k]) THEN Signed(placed[k].move) * placed[k].price + Commission ELSE 0]
Changes(placed, s) ==
    [k \in DOMAIN placed |->
       IF Filled(placed[k]) /\ placed[k].move.symbol = s THEN Signed(placed[k].move) ELSE 0]

\* _execute_order(): cash and positions are what the orders that were filled come
\* to, each with one commission and none of them left out of the trades.
BooksFollowOrders ==
    /\ Len(trades) = Total(Counts(orders))
    /\ cash = Capital - Total(Expenses(orders))
    /\ \A s \in Symbols : positions[s] = Total(Changes(orders, s))

\* The initial capital and the equity curve.
EquityAt(i) == IF i = 0 THEN Capital ELSE curve[i]
Falls == {p \in (0..index) \X (0..index) : p[1] < p[2] /\ EquityAt(p[1]) > EquityAt(p[2])}

\* step(), max_drawdown: no fall of the equity, from any earlier value to a later
\* one that is not a debt, is deeper than the drawdown; and some fall is as deep.
DrawdownIsWorst ==
    /\ \A fall \in Falls :
         EquityAt(fall[1]) > 0 /\ EquityAt(fall[2]) >= 0 =>
           ~Deeper([loss |-> EquityAt(fall[1]) - EquityAt(fall[2]), of |-> EquityAt(fall[1])],
                   drawdown)
    /\ drawdown = NoDrawdown \/
       \E fall \in Falls :
         drawdown = [loss |-> EquityAt(fall[1]) - EquityAt(fall[2]), of |-> EquityAt(fall[1])]

\* reset(): whatever was done with the engine before, by hand or by an earlier
\* run, a run of the same strategy returns the same results.
RerunIsFresh ==
    \A a, b \in DOMAIN results :
      results[a].mode = "run" /\ results[b].mode = "run" => results[a] = results[b]

\* Slippage and limits: at the close of its data point a step that trades makes
\* nobody richer, and every trade costs at least its commission.
NoGainFromTrading ==
    [][index' = index + 1 =>
         Equity(cash', positions', data[index'])
           <= Equity(cash, positions, data[index']) - Commission * (Len(trades') - Len(trades))]_vars

\* A replay: its orders, its books, its results, and none of the one before.
ReplayInv ==
    TypeOK /\ FilledAtFirstChance /\ BooksFollowOrders /\ DrawdownIsWorst /\ RerunIsFresh
=============================================================================
