--------------------------- MODULE Simulation_proofs ---------------------------
(***************************************************************************)
(* The dry-run mode and the simulation engine, for any tasks, data,        *)
(* strategies and orders placed by hand.                                   *)
(***************************************************************************)
EXTENDS SimulationProperties, DryRun, Sums_proofs, SequenceTheorems

-----------------------------------------------------------------------------
(* Dry run: contexts never change what a service has chosen.  FlagRestored *)
(* is not inductive: it says nothing of the states in between.  There, a   *)
(* flag that is on without having been configured is due to some context   *)
(* that found it off and has not been left, and a context can only have    *)
(* found it off if it was not configured.                                  *)

\* The task is in a context that found the flag off.
FoundOff(t) == \E i \in 1..Len(contexts[t]) : contexts[t][i] = FALSE

\* A flag that nobody configured is due to a context that found it off.
FlagIsOwed ==
    /\ configured = TRUE => enabled = TRUE /\ \A t \in Tasks : ~FoundOff(t)
    /\ configured = FALSE /\ enabled = TRUE => \E t \in Tasks : FoundOff(t)

DryInv == DryTypeOK /\ FlagIsOwed

USE DryRunAssumption

\* A task that is in no context is in none that found the flag off.
LEMMA NoContext == \A t \in Tasks : contexts[t] = <<>> => ~FoundOff(t)
<1>1. 1..Len(<<>>) = {}
  OBVIOUS
<1> QED
  BY <1>1 DEF FoundOff

\* At first every variable has its type.
LEMMA InitTypes == DryInit => DryTypeOK
<1> SUFFICES ASSUME DryInit PROVE DryTypeOK
  OBVIOUS
<1>1. log \in Seq(Tasks)
  BY EmptySeq DEF DryInit
<1>2. contexts \in [Tasks -> Seq(BOOLEAN)]
  BY EmptySeq DEF DryInit
<1>3. /\ shared \in BOOLEAN /\ enabled \in BOOLEAN /\ configured \in BOOLEAN
      /\ coroutines \in [Tasks -> Nat] /\ executed \in [Tasks -> Nat] /\ calls \in Nat
  BY DEF DryInit
<1> QED
  BY <1>1, <1>2, <1>3 DEF DryTypeOK

\* Decorated calls add to the log and to the count of the caller at most.
LEMMA RunOrSimulateTypes ==
    ASSUME DryTypeOK, NEW t \in Tasks, RunOrSimulate(t)
    PROVE  log' \in Seq(Tasks) /\ executed' \in [Tasks -> Nat]
BY DEF DryTypeOK, RunOrSimulate

\* Every variable keeps its type.
LEMMA TypesAreKept == DryTypeOK /\ [DryNext]_dryVars => DryTypeOK'
<1> SUFFICES ASSUME DryTypeOK, [DryNext]_dryVars PROVE DryTypeOK'
  OBVIOUS
<1>1. ASSUME NEW on \in BOOLEAN, Configure(on) PROVE DryTypeOK'
  BY <1>1 DEF DryTypeOK, Configure
<1>2. ASSUME ClearOperationsLog PROVE DryTypeOK'
  BY <1>2 DEF DryTypeOK, ClearOperationsLog
<1>3. ASSUME NEW t \in Tasks, Enter(t) PROVE DryTypeOK'
  <2>1. contexts' \in [Tasks -> Seq(BOOLEAN)]
    BY <1>3 DEF DryTypeOK, Enter
  <2> QED
    BY <1>3, <2>1 DEF DryTypeOK, Enter
<1>4. ASSUME NEW t \in Tasks, Exit(t) PROVE DryTypeOK'
  <2>1. contexts' \in [Tasks -> Seq(BOOLEAN)]
    BY <1>4 DEF DryTypeOK, Exit, InContext
  <2>2. enabled' \in BOOLEAN
    BY <1>4 DEF DryTypeOK, Exit, EnabledAfter
  <2> QED
    BY <1>4, <2>1, <2>2 DEF DryTypeOK, Exit
<1>5. ASSUME NEW t \in Tasks, Call(t) PROVE DryTypeOK'
  BY <1>5, RunOrSimulateTypes DEF DryTypeOK, Call
<1>6. ASSUME NEW t \in Tasks, CallAsync(t) PROVE DryTypeOK'
  BY <1>6 DEF DryTypeOK, CallAsync, configVars
<1>7. ASSUME NEW t \in Tasks, Await(t) PROVE DryTypeOK'
  BY <1>7, RunOrSimulateTypes DEF DryTypeOK, Await
<1>8. CASE UNCHANGED dryVars
  BY <1>8 DEF DryTypeOK, dryVars, configVars
<1> QED
  BY <1>1, <1>2, <1>3, <1>4, <1>5, <1>6, <1>7, <1>8 DEF DryNext, DryStep

\* Entering a context adds one that found the flag as it was.
LEMMA EnterOwes ==
    ASSUME DryInv, NEW t \in Tasks, Enter(t)
    PROVE  FlagIsOwed'
<1> DEFINE s == contexts[t]
<1>1. /\ s \in Seq(BOOLEAN) /\ contexts'[t] = Append(s, enabled)
      /\ \A u \in Tasks \ {t} : contexts'[u] = contexts[u]
  BY DEF DryInv, DryTypeOK, Enter
<1>2. enabled' = TRUE /\ configured' = configured
  BY DEF Enter
<1>3. /\ Len(contexts'[t]) = Len(s) + 1
      /\ \A i \in 1..Len(s) : contexts'[t][i] = s[i]
      /\ contexts'[t][Len(s) + 1] = enabled
  BY <1>1 DEF DryInv, DryTypeOK
<1>4. Len(s) \in Nat
  BY <1>1
<1>5. ASSUME configured = TRUE PROVE \A u \in Tasks : ~FoundOff(u)'
  <2> TAKE u \in Tasks
  <2>1. ~FoundOff(u) /\ enabled = TRUE
    BY <1>5 DEF DryInv, FlagIsOwed
  <2>2. CASE u = t
    <3> SUFFICES ASSUME NEW i \in 1..Len(contexts'[t]), contexts'[t][i] = FALSE PROVE FALSE
      BY <2>2 DEF FoundOff
    <3>1. i \in 1..Len(s) \/ i = Len(s) + 1
      BY <1>3, <1>4
    <3> QED
      BY <1>3, <2>1, <2>2, <3>1 DEF FoundOff
  <2>3. CASE u # t
    BY <1>1, <2>1, <2>3 DEF FoundOff
  <2> QED
    BY <2>2, <2>3
<1>6. ASSUME configured = FALSE PROVE \E u \in Tasks : FoundOff(u)'
  <2>1. CASE enabled = FALSE
    BY <1>3, <1>4, <2>1 DEF FoundOff
  <2>2. CASE enabled = TRUE
    <3>1. PICK u \in Tasks : FoundOff(u)
      BY <1>6, <2>2 DEF DryInv, FlagIsOwed
    <3>2. CASE u = t
      <4>1. PICK i \in 1..Len(s) : s[i] = FALSE
        BY <3>1, <3>2 DEF FoundOff
      <4>2. i \in 1..Len(contexts'[t]) /\ contexts'[t][i] = FALSE
        BY <1>3, <1>4, <4>1
      <4> QED
        BY <4>2 DEF FoundOff
    <3>3. CASE u # t
      BY <1>1, <3>1, <3>3 DEF FoundOff
    <3> QED
      BY <3>2, <3>3
  <2> QED
    BY <2>1, <2>2 DEF DryInv, DryTypeOK
<1> QED
  BY <1>2, <1>5, <1>6 DEF FlagIsOwed

\* Leaving a context that found the flag off turns it off; another one that did
\* is still there otherwise.
LEMMA ExitOwes ==
    ASSUME DryInv, NEW t \in Tasks, Exit(t)
    PROVE  FlagIsOwed'
<1> DEFINE s == contexts[t]
           n == Len(contexts[t])
<1>1. /\ s \in Seq(BOOLEAN) /\ s # <<>> /\ contexts'[t] = SubSeq(s, 1, n - 1)
      /\ \A u \in Tasks \ {t} : contexts'[u] = contexts[u]
  BY DEF DryInv, DryTypeOK, Exit, InContext
<1>2. configured' = configured /\ enabled' = EnabledAfter(s[n])
  BY DEF Exit
<1>3. n \in Nat \ {0} /\ s[n] \in BOOLEAN
  BY <1>1
<1>4. Len(contexts'[t]) = n - 1 /\ \A i \in 1..(n - 1) : contexts'[t][i] = s[i]
  BY <1>1, <1>3
<1>5. ASSUME configured = TRUE PROVE enabled' = TRUE /\ \A u \in Tasks : ~FoundOff(u)'
  <2>1. enabled = TRUE /\ \A u \in Tasks : ~FoundOff(u)
    BY <1>5 DEF DryInv, FlagIsOwed
  <2>2. s[n] = TRUE
    BY <1>3, <2>1 DEF FoundOff
  <2>3. enabled' = TRUE
    BY <1>2, <2>1, <2>2 DEF EnabledAfter
  <2>4. ASSUME NEW u \in Tasks PROVE ~FoundOff(u)'
    <3>1. CASE u = t
      BY <1>3, <1>4, <2>1, <3>1 DEF FoundOff
    <3>2. CASE u # t
      BY <1>1, <2>1, <3>2 DEF FoundOff
    <3> QED
      BY <3>1, <3>2
  <2> QED
    BY <2>3, <2>4
<1>6. ASSUME configured = FALSE, enabled' = TRUE PROVE \E u \in Tasks : FoundOff(u)'
  <2>1. s[n] = TRUE /\ enabled = TRUE
    BY <1>2, <1>3, <1>6 DEF EnabledAfter
  <2>2. PICK u \in Tasks : FoundOff(u)
    BY <1>6, <2>1 DEF DryInv, FlagIsOwed
  <2>3. CASE u = t
    <3>1. PICK i \in 1..n : s[i] = FALSE
      BY <2>2, <2>3 DEF FoundOff
    <3>2. i \in 1..(n - 1)
      BY <1>3, <2>1, <3>1
    <3> QED
      BY <1>4, <3>1, <3>2 DEF FoundOff
  <2>4. CASE u # t
    BY <1>1, <2>2, <2>4 DEF FoundOff
  <2> QED
    BY <2>3, <2>4
<1> QED
  BY <1>2, <1>5, <1>6 DEF FlagIsOwed

\* So every step keeps the flag owed.
LEMMA FlagIsAlwaysOwed == DryInv /\ [DryNext]_dryVars => FlagIsOwed'
<1> SUFFICES ASSUME DryInv, [DryNext]_dryVars PROVE FlagIsOwed'
  OBVIOUS
<1>1. ASSUME NEW on \in BOOLEAN, Configure(on) PROVE FlagIsOwed'
  <2>1. \A t \in Tasks : contexts[t] = <<>>
    BY <1>1 DEF Configure, InContext
  <2>2. \A t \in Tasks : ~FoundOff(t)'
    <3>1. \A t \in Tasks : ~FoundOff(t)
      BY <2>1, NoContext
    <3> QED
      BY <1>1, <3>1 DEF Configure, FoundOff
  <2>3. configured' = on /\ enabled' = on
    BY <1>1 DEF Configure
  <2> QED
    BY <2>2, <2>3 DEF FlagIsOwed
<1>2. CASE UNCHANGED <<enabled, configured, contexts>>
  BY <1>2 DEF DryInv, FlagIsOwed, FoundOff
<1>3. ASSUME NEW t \in Tasks, Call(t) \/ CallAsync(t) \/ Await(t) \/ ClearOperationsLog
             PROVE UNCHANGED <<enabled, configured, contexts>>
  BY <1>3 DEF Call, CallAsync, Await, ClearOperationsLog, configVars
<1>4. ASSUME ClearOperationsLog \/ UNCHANGED dryVars
      PROVE  UNCHANGED <<enabled, configured, contexts>>
  BY <1>4 DEF ClearOperationsLog, dryVars, configVars
<1> QED
  BY <1>1, <1>2, <1>3, <1>4, EnterOwes, ExitOwes DEF DryNext, DryStep

\* The flag that the contexts share is given back: configured dry runs are
\* never suspended, and none outlasts the contexts.
THEOREM DryRunFlagRestored == DrySpec => []FlagRestored
<1>1. DryInit => DryInv
  <2> SUFFICES ASSUME DryInit PROVE DryInv
    OBVIOUS
  <2>1. DryTypeOK
    BY InitTypes
  <2>2. FlagIsOwed
    BY NoContext DEF DryInit, FlagIsOwed
  <2> QED
    BY <2>1, <2>2 DEF DryInv
<1>2. DryInv /\ [DryNext]_dryVars => DryInv'
  BY TypesAreKept, FlagIsAlwaysOwed DEF DryInv
<1>3. DryInv => FlagRestored
  <2> SUFFICES ASSUME DryInv PROVE FlagRestored
    OBVIOUS
  <2>1. configured => enabled
    BY DEF DryInv, DryTypeOK, FlagIsOwed
  <2>2. ASSUME \A t \in Tasks : ~InContext(t), enabled PROVE configured
    <3>1. \A t \in Tasks : ~FoundOff(t)
      BY <2>2, NoContext DEF InContext
    <3>2. configured # FALSE
      BY <2>2, <3>1 DEF DryInv, FlagIsOwed, DryTypeOK
    <3> QED
      BY <3>2 DEF DryInv, DryTypeOK
  <2> QED
    BY <2>1, <2>2 DEF FlagRestored
<1> QED
  BY <1>1, <1>2, <1>3, PTL DEF DrySpec

\* The type invariant, for any tasks.
THEOREM DryRunTypes == DrySpec => []DryTypeOK
BY InitTypes, TypesAreKept, PTL DEF DrySpec

\* Without another task in a context, a context is on, and found those around it on.
ContextIsOn ==
    ~shared =>
        \A t \in Tasks : InContext(t) =>
            /\ enabled = TRUE
            /\ \A i \in 2..Len(contexts[t]) : contexts[t][i] = TRUE
            /\ \A u \in Tasks \ {t} : ~InContext(u)

\* Entering and leaving contexts keeps them on.
LEMMA ContextStaysOn ==
    ASSUME DryTypeOK, ContextIsOn, [DryNext]_dryVars
    PROVE  ContextIsOn'
<1>1. ASSUME NEW t \in Tasks, Enter(t) PROVE ContextIsOn'
  <2> DEFINE s == contexts[t]
  <2>1. /\ s \in Seq(BOOLEAN) /\ contexts'[t] = Append(s, enabled)
        /\ \A u \in Tasks \ {t} : contexts'[u] = contexts[u]
        /\ enabled' = TRUE /\ shared' = shared
        /\ ~shared => \A u \in Tasks \ {t} : ~InContext(u)
    BY <1>1 DEF DryTypeOK, Enter
  <2>2. ASSUME ~shared, NEW i \in 2..Len(contexts'[t]) PROVE contexts'[t][i] = TRUE
    <3>1. Len(contexts'[t]) = Len(s) + 1 /\ Len(s) \in Nat /\ contexts'[t][Len(s) + 1] = enabled
          /\ \A k \in 1..Len(s) : contexts'[t][k] = s[k]
      BY <2>1 DEF DryTypeOK
    <3>2. CASE i = Len(s) + 1
      <4>1. InContext(t)
        <5>1. Len(s) # 0
          BY <2>2, <3>1, <3>2
        <5> QED
          BY <5>1, Len(<<>>) = 0 DEF InContext
      <4> QED
        BY <2>2, <3>1, <3>2, <4>1 DEF ContextIsOn
    <3>3. CASE i # Len(s) + 1
      <4>1. i \in 2..Len(s) /\ i \in 1..Len(s)
        BY <2>2, <3>1, <3>3
      <4>2. InContext(t)
        BY <3>1, <4>1, Len(<<>>) = 0 DEF InContext
      <4> QED
        BY <2>2, <3>1, <4>1, <4>2 DEF ContextIsOn
    <3> QED
      BY <3>2, <3>3
  <2>3. ~shared => \A u \in Tasks \ {t} : ~InContext(u)'
    BY <2>1 DEF InContext
  <2> QED
    BY <2>1, <2>2, <2>3 DEF ContextIsOn
<1>2. ASSUME NEW t \in Tasks, Exit(t) PROVE ContextIsOn'
  <2> DEFINE s == contexts[t]
             n == Len(contexts[t])
  <2>1. /\ s \in Seq(BOOLEAN) /\ InContext(t) /\ contexts'[t] = SubSeq(s, 1, n - 1)
        /\ \A u \in Tasks \ {t} : contexts'[u] = contexts[u]
        /\ enabled' = EnabledAfter(s[n]) /\ shared' = shared
    BY <1>2 DEF DryTypeOK, Exit
  <2> SUFFICES ASSUME ~shared PROVE ContextIsOn'
    BY <2>1 DEF ContextIsOn
  <2>2. /\ enabled = TRUE /\ \A i \in 2..n : s[i] = TRUE
        /\ \A u \in Tasks \ {t} : ~InContext(u)
    BY <2>1 DEF ContextIsOn
  <2>3. n \in Nat \ {0} /\ Len(contexts'[t]) = n - 1
        /\ \A i \in 1..(n - 1) : contexts'[t][i] = s[i]
    BY <2>1 DEF InContext
  <2>4. \A u \in Tasks \ {t} : ~InContext(u)'
    BY <2>1, <2>2 DEF InContext
  <2>5. CASE n = 1
    <3>1. contexts'[t] = <<>>
      BY <2>1, <2>5
    <3> QED
      BY <2>4, <3>1 DEF ContextIsOn, InContext
  <2>6. CASE n # 1
    <3>1. n \in 2..n
      <4>1. n \in Nat \ {0} /\ n # 1
        BY <2>3, <2>6
      <4> HIDE DEF n
      <4> QED
        BY <4>1
    <3>2. enabled' = TRUE
      BY <2>1, <2>2, <3>1 DEF EnabledAfter
    <3>3. \A i \in 2..(n - 1) : contexts'[t][i] = TRUE
      BY <2>2, <2>3
    <3> QED
      BY <2>3, <2>4, <3>2, <3>3 DEF ContextIsOn
  <2> QED
    BY <2>5, <2>6
<1>3. ASSUME NEW on \in BOOLEAN, Configure(on) PROVE ContextIsOn'
  BY <1>3 DEF Configure, ContextIsOn, InContext
<1>4. CASE UNCHANGED <<shared, enabled, contexts>>
  BY <1>4 DEF ContextIsOn, InContext
<1>5. ASSUME NEW t \in Tasks, Call(t) \/ CallAsync(t) \/ Await(t) PROVE ContextIsOn'
  BY <1>4, <1>5 DEF Call, CallAsync, Await, configVars
<1> QED
  BY <1>1, <1>2, <1>3, <1>4, <1>5 DEF DryNext, DryStep, ClearOperationsLog, dryVars, configVars

\* Whatever a task calls or awaits in a context, nested or not, is simulated while no other
\* task is in one.
THEOREM ContextsSimulate == DrySpec => ContextSimulates
<1> DEFINE A == \A t \in Tasks : ~shared /\ InContext(t) => executed'[t] = executed[t]
<1>1. DryInit => ContextIsOn
  BY DEF DryInit, ContextIsOn, InContext
<1>2. ContextIsOn /\ DryTypeOK /\ [DryNext]_dryVars => [A]_dryVars
  <2> SUFFICES ASSUME ContextIsOn, DryTypeOK, DryNext, NEW t \in Tasks, ~shared, InContext(t)
               PROVE  executed'[t] = executed[t]
    OBVIOUS
  <2>1. enabled = TRUE
    BY DEF ContextIsOn
  <2>2. executed' = executed
    BY <2>1 DEF DryNext, DryStep, Configure, ClearOperationsLog, Enter, Exit, Call, CallAsync,
                Await, RunOrSimulate
  <2> QED
    BY <2>2
<1>3. ContextIsOn /\ DryTypeOK /\ [DryNext]_dryVars => ContextIsOn'
  BY ContextStaysOn
<1>4. DrySpec => [][A]_dryVars
  <2> HIDE DEF A
  <2> QED
    BY <1>1, <1>2, <1>3, InitTypes, TypesAreKept, PTL DEF DrySpec
<1> QED
  BY <1>4 DEF ContextSimulates, A

-----------------------------------------------------------------------------
(* Orders of the simulation engine.  Processed() is a recursive function   *)
(* of the number of orders looked at: there is one such function, and its  *)
(* values are books.                                                       *)

OrderSet == [move : Moves, status : {"PENDING", "FILLED"}, placed : Nat, at : Nat, price : Int]
TradeSet == [move : Moves, at : Nat, price : Int]
BookSet == [cash : Int, positions : [Symbols -> Int], trades : Seq(TradeSet)]
PointSet == [symbol : Symbols, close : Prices]

\* What an order is filled at is its limit or the close with the slippage, never
\* better than the close; the amounts are integers.
LEMMA PriceOfFill ==
  ASSUME NEW o \in OrderSet, NEW point \in PointSet, Fills(o, point), EngineAssumption
  PROVE  LET price == FillPrice(o.move, point.close)
         IN  /\ price \in Int /\ Signed(o.move) \in Int /\ CashFlow(o.move, price) \in Int
             /\ CashFlow(o.move, price) + Signed(o.move) * point.close <= -Commission
             /\ o.move.symbol = point.symbol
<1> DEFINE price == FillPrice(o.move, point.close)
           q == o.move.quantity
           c == point.close
           sl == Slippage(c)
<1>1. o.move \in Moves /\ c \in Nat /\ point.symbol \in Symbols
  BY DEF OrderSet, PointSet, EngineAssumption
<1>2. q \in Nat /\ o.move.limit \in Nat /\ o.move.action \in {"BUY", "SELL"}
      /\ o.move.type \in {"MARKET", "LIMIT"}
  BY <1>1 DEF Moves, Types, EngineAssumption
<1>3. Percent \in Nat /\ Commission \in Nat BY DEF EngineAssumption
<1>4. sl \in Nat
  <2>1. c * Percent \in Nat BY <1>1, <1>3
  <2>2. \A x \in Nat : x \div 100 \in Nat OBVIOUS
  <2> QED BY <2>1, <2>2 DEF Slippage
<1>5. price \in Int
  BY <1>1, <1>2, <1>4 DEF FillPrice
<1>6. o.move.action = "BUY" => price >= c
  BY <1>1, <1>2, <1>4 DEF FillPrice, Fills
<1>7. o.move.action = "SELL" => price <= c
  BY <1>1, <1>2, <1>4 DEF FillPrice, Fills
<1>8. Signed(o.move) \in Int BY <1>2 DEF Signed
<1>9. CashFlow(o.move, price) \in Int
  <2>1. \A x, y \in Int : -x * y - Commission \in Int BY <1>3
  <2> HIDE DEF price
  <2> QED BY <1>5, <1>8, <2>1 DEF CashFlow
<1>10. CashFlow(o.move, price) + Signed(o.move) * c <= -Commission
  <2>1. \A x, y, z \in Nat : x >= y => -z * x - Commission + z * y <= -Commission
    <3> SUFFICES ASSUME NEW x \in Nat, NEW y \in Nat, NEW z \in Nat, x >= y
                 PROVE  -z * x - Commission + z * y <= -Commission
      OBVIOUS
    <3>1. z * (x - y) \in Nat OBVIOUS
    <3>2. z * x - z * y = z * (x - y) OBVIOUS
    <3> QED BY <3>1, <3>2, <1>3
  <2>2. \A x \in Int, y, z \in Nat : x <= y => -(-z) * x - Commission + (-z) * y <= -Commission
    <3> SUFFICES ASSUME NEW x \in Int, NEW y \in Nat, NEW z \in Nat, x <= y
                 PROVE  -(-z) * x - Commission + (-z) * y <= -Commission
      OBVIOUS
    <3>1. z * (y - x) \in Nat OBVIOUS
    <3>2. z * y - z * x = z * (y - x) OBVIOUS
    <3> QED BY <3>1, <3>2, <1>3
  <2> HIDE DEF price, q, c
  <2>3. CASE o.move.action = "BUY"
    <3>1. Signed(o.move) = q BY <2>3 DEF Signed, q
    <3>2. price \in Nat BY <1>5, <1>6, <1>1, <2>3
    <3>3. -q * price - Commission + q * c <= -Commission BY <1>1, <1>2, <1>6, <2>1, <2>3, <3>2
    <3> QED BY <3>1, <3>3 DEF CashFlow
  <2>4. CASE o.move.action = "SELL"
    <3>1. Signed(o.move) = -q BY <2>4 DEF Signed, q
    <3>3. -(-q) * price - Commission + (-q) * c <= -Commission
      BY <1>1, <1>2, <1>5, <1>7, <2>2, <2>4
    <3> QED BY <3>1, <3>3 DEF CashFlow
  <2> QED BY <1>2, <2>3, <2>4
<1> QED BY <1>5, <1>8, <1>9, <1>10 DEF Fills

\* The function that Processed() applies to the number of orders.
After(b, placed, i, point) ==
  CHOOSE g : g = [k \in 0..Len(placed) |->
                    IF k = 0 THEN b
                    ELSE IF Fills(placed[k], point) THEN Charged(g[k - 1], placed[k].move, i, point)
                    ELSE g[k - 1]]

\* Processed() is the value of that function for all orders.
LEMMA ProcessedIsAfter ==
  ASSUME NEW b, NEW placed, NEW i, NEW point
  PROVE  Processed(b, placed, i, point) = After(b, placed, i, point)[Len(placed)]
BY DEF Processed, After

\* One order after the other is charged to the books if it is filled.
LEMMA AfterStep ==
  ASSUME NEW b, NEW placed, NEW i, NEW point, Len(placed) \in Nat
  PROVE  /\ After(b, placed, i, point)[0] = b
         /\ \A k \in 1..Len(placed) :
              After(b, placed, i, point)[k] =
                IF Fills(placed[k], point)
                THEN Charged(After(b, placed, i, point)[k - 1], placed[k].move, i, point)
                ELSE After(b, placed, i, point)[k - 1]
<1> DEFINE Recurs(g, k) == IF k = 0 THEN b
                         ELSE IF Fills(placed[k], point)
                         THEN Charged(g[k - 1], placed[k].move, i, point)
                         ELSE g[k - 1]
           T == {n \in Nat : \E g : g = [k \in 0..n |-> Recurs(g, k)]}
<1>1. 0 \in T
  <2>1. [k \in 0..0 |-> b] = [k \in 0..0 |-> Recurs([j \in 0..0 |-> b], k)] OBVIOUS
  <2> QED BY <2>1
<1>2. ASSUME NEW n \in T PROVE n + 1 \in T
  <2>1. PICK g : g = [k \in 0..n |-> Recurs(g, k)] BY <1>2
  <2> DEFINE h == [k \in 0..(n+1) |-> IF k = n + 1 THEN Recurs(g, k) ELSE g[k]]
  <2>2. ASSUME NEW k \in 0..(n+1) PROVE h[k] = Recurs(h, k)
    <3>1. k # 0 => k - 1 \in 0..n /\ h[k - 1] = g[k - 1] BY n \in Nat
    <3>2. k # n + 1 => k \in 0..n BY n \in Nat
    <3>3. k # n + 1 => h[k] = Recurs(g, k)
      <4>1. k # n + 1 => h[k] = g[k] OBVIOUS
      <4>2. \A j \in 0..n : g[j] = Recurs(g, j) BY <2>1
      <4> HIDE DEF h, Recurs
      <4> QED BY <4>1, <4>2, <3>2
    <3>4. k = n + 1 => h[k] = Recurs(g, k) OBVIOUS
    <3>5. Recurs(h, k) = Recurs(g, k)
      <4> HIDE DEF h
      <4> QED BY <3>1
    <3> HIDE DEF h, Recurs
    <3> QED BY <3>3, <3>4, <3>5
  <2>3. h = [k \in 0..(n+1) |-> Recurs(h, k)]
    <3>1. h = [k \in 0..(n+1) |-> h[k]] OBVIOUS
    <3> HIDE DEF h, Recurs
    <3> QED BY <2>2, <3>1
  <2> HIDE DEF h, Recurs
  <2> QED BY <2>3, n \in Nat
<1>3. T = Nat
  <2> HIDE DEF T
  <2> QED BY <1>1, <1>2, SetInduction, T \subseteq Nat DEF T
<1>4. \E g : g = [k \in 0..Len(placed) |-> Recurs(g, k)] BY <1>3
<1> DEFINE a == After(b, placed, i, point)
<1>5. a = [k \in 0..Len(placed) |-> Recurs(a, k)]
  BY <1>4 DEF After
<1> HIDE DEF a
<1>6. \A k \in 0..Len(placed) : a[k] = Recurs(a, k)
  <2> HIDE DEF Recurs
  <2> QED BY <1>5
<1>7. a[0] = b BY <1>6
<1>8. \A k \in 1..Len(placed) : a[k] = Recurs(a, k) /\ k # 0 BY <1>6
<1> QED BY <1>7, <1>8 DEF a

\* The books after an order, and before.
ChargedFor(b, after, o, price) ==
  /\ after \in BookSet
  /\ after.cash = b.cash + CashFlow(o.move, price)
  /\ after.positions = [b.positions EXCEPT ![o.move.symbol] = @ + Signed(o.move)]
  /\ Len(after.trades) = Len(b.trades) + 1

\* Charging a trade adds to the books what it costs and what it moves.
LEMMA ChargedBooks ==
  ASSUME NEW b \in BookSet, NEW o \in OrderSet, NEW i \in Nat, NEW point \in PointSet,
         Fills(o, point), EngineAssumption
  PROVE  ChargedFor(b, Charged(b, o.move, i, point), o, FillPrice(o.move, point.close))
<1> DEFINE price == FillPrice(o.move, point.close)
           after == Charged(b, o.move, i, point)
           trade == [move |-> o.move, at |-> i, price |-> price]
           moved == [b.positions EXCEPT ![o.move.symbol] = @ + Signed(o.move)]
<1>1. price \in Int /\ Signed(o.move) \in Int /\ CashFlow(o.move, price) \in Int
  BY PriceOfFill
<1>2. o.move \in Moves /\ o.move.symbol \in Symbols BY DEF OrderSet, Moves
<1>3. b.cash \in Int /\ b.positions \in [Symbols -> Int] /\ b.trades \in Seq(TradeSet)
  BY DEF BookSet
<1>4. trade \in TradeSet
  <2> HIDE DEF price
  <2> QED BY <1>1, <1>2 DEF TradeSet
<1>5. after.cash = b.cash + CashFlow(o.move, price) /\ after.positions = moved
      /\ after.trades = Append(b.trades, trade)
      /\ after = [cash |-> b.cash + CashFlow(o.move, price), positions |-> moved,
                  trades |-> Append(b.trades, trade)]
  BY DEF Charged
<1>6. moved \in [Symbols -> Int]
  BY <1>1, <1>2, <1>3
<1>7. Append(b.trades, trade) \in Seq(TradeSet) /\ Len(Append(b.trades, trade)) = Len(b.trades) + 1
  <2> HIDE DEF trade
  <2> QED BY <1>3, <1>4
<1>8. b.cash + CashFlow(o.move, price) \in Int
  <2> HIDE DEF price
  <2> QED BY <1>1, <1>3
<1>9. after \in BookSet
  <2> HIDE DEF after, price, trade, moved
  <2> QED BY <1>5, <1>6, <1>7, <1>8 DEF BookSet
<1> HIDE DEF after, price, trade
<1> QED BY <1>5, <1>7, <1>9 DEF ChargedFor, after, price

\* What the engine is at one data point: its orders, its books and the point.
AtPoint(b, placed, i, point) ==
  EngineAssumption /\ b \in BookSet /\ placed \in Seq(OrderSet) /\ i \in Nat /\ point \in PointSet

\* The books stay books after each order.
LEMMA AfterTyped ==
  ASSUME NEW b, NEW placed, NEW i, NEW point, AtPoint(b, placed, i, point)
  PROVE  \A k \in 0..Len(placed) : After(b, placed, i, point)[k] \in BookSet
<1> DEFINE a == After(b, placed, i, point)
           T == {k \in Nat : k <= Len(placed) => a[k] \in BookSet}
<1>0. /\ Len(placed) \in Nat /\ a[0] = b
      /\ \A k \in 1..Len(placed) :
           a[k] = IF Fills(placed[k], point) THEN Charged(a[k - 1], placed[k].move, i, point)
                  ELSE a[k - 1]
  BY AfterStep DEF AtPoint
<1> HIDE DEF a
<1>1. 0 \in T BY <1>0 DEF AtPoint
<1>2. ASSUME NEW k \in T PROVE k + 1 \in T
  <2> SUFFICES ASSUME k + 1 <= Len(placed) PROVE a[k + 1] \in BookSet OBVIOUS
  <2>1. a[k] \in BookSet /\ k + 1 \in 1..Len(placed) /\ (k + 1) - 1 = k BY <1>0
  <2>2. placed[k + 1] \in OrderSet BY <2>1 DEF AtPoint
  <2>3. Fills(placed[k + 1], point) => Charged(a[k], placed[k + 1].move, i, point) \in BookSet
    BY <2>1, <2>2, ChargedBooks DEF AtPoint, ChargedFor
  <2>4. a[k + 1] = IF Fills(placed[k + 1], point) THEN Charged(a[k], placed[k + 1].move, i, point)
                   ELSE a[k]
    BY <1>0, <2>1
  <2> QED BY <2>1, <2>3, <2>4
<1>3. T = Nat
  <2> HIDE DEF T
  <2> QED BY <1>1, <1>2, SetInduction, T \subseteq Nat DEF T
<1> QED BY <1>3 DEF a

\* The orders of which the first k have been looked at.
Seen(placed, i, point, k) ==
  [j \in DOMAIN placed |-> IF j <= k /\ Fills(placed[j], point) THEN Executed(placed[j], i, point)
                           ELSE placed[j]]

\* What follows from the filled orders is in the books.
Follows(b, placed) ==
  /\ Len(b.trades) = Total(Counts(placed))
  /\ b.cash = Capital - Total(Expenses(placed))
  /\ \A s \in Symbols : b.positions[s] = Total(Changes(placed, s))

\* An order that is filled is one with the price.
LEMMA ExecutedOrder ==
  ASSUME NEW o \in OrderSet, NEW i \in Nat, NEW point \in PointSet, Fills(o, point),
         EngineAssumption
  PROVE  /\ Executed(o, i, point) \in OrderSet /\ Filled(Executed(o, i, point)) /\ ~Filled(o)
         /\ Executed(o, i, point).move = o.move /\ Executed(o, i, point).placed = o.placed
         /\ Executed(o, i, point).at = i
         /\ Executed(o, i, point).price = FillPrice(o.move, point.close)
<1>1. FillPrice(o.move, point.close) \in Int BY PriceOfFill
<1>2. \A s \in OrderSet, p \in Int :
        LET t == [s EXCEPT !.status = "FILLED", !.at = i, !.price = p]
        IN  /\ t \in OrderSet /\ t.status = "FILLED" /\ t.move = s.move
            /\ t.placed = s.placed /\ t.at = i /\ t.price = p
  BY DEF OrderSet
<1> QED BY <1>1, <1>2 DEF Executed, Filled, Fills

\* Orders stay orders while they are looked at.
LEMMA SeenTyped ==
  ASSUME NEW b, NEW placed, NEW i, NEW point, AtPoint(b, placed, i, point), NEW k \in Nat
  PROVE  Seen(placed, i, point, k) \in Seq(OrderSet) /\ Len(Seen(placed, i, point, k)) = Len(placed)
         /\ DOMAIN Seen(placed, i, point, k) = 1..Len(placed)
<1>1. placed \in Seq(OrderSet) /\ Len(placed) \in Nat /\ DOMAIN placed = 1..Len(placed)
  BY DEF AtPoint
<1>2. ASSUME NEW j \in 1..Len(placed)
      PROVE  (IF j <= k /\ Fills(placed[j], point) THEN Executed(placed[j], i, point) ELSE placed[j])
               \in OrderSet
  <2>1. placed[j] \in OrderSet BY <1>1
  <2> QED BY <2>1, ExecutedOrder DEF AtPoint
<1> DEFINE s == Seen(placed, i, point, k)
<1>3. s \in [1..Len(placed) -> OrderSet] BY <1>1, <1>2 DEF Seen
<1> HIDE DEF s
<1>4. s \in Seq(OrderSet) /\ Len(s) = Len(placed) /\ DOMAIN s = 1..Len(placed)
  BY <1>1, <1>3
<1> QED BY <1>4 DEF s

\* The amounts of orders are sequences of integers.
LEMMA AmountsTyped ==
  ASSUME NEW placed \in Seq(OrderSet), NEW s, EngineAssumption
  PROVE  /\ Counts(placed) \in Seq(Int) /\ Len(Counts(placed)) = Len(placed)
         /\ Expenses(placed) \in Seq(Int) /\ Len(Expenses(placed)) = Len(placed)
         /\ Changes(placed, s) \in Seq(Int) /\ Len(Changes(placed, s)) = Len(placed)
<1>1. DOMAIN placed = 1..Len(placed) /\ Len(placed) \in Nat /\ Commission \in Int
  BY DEF EngineAssumption
<1>2. ASSUME NEW k \in 1..Len(placed)
      PROVE  Signed(placed[k].move) \in Int /\ placed[k].price \in Int
  <2>1. placed[k] \in OrderSet BY <1>2
  <2>2. placed[k].move.quantity \in Nat /\ placed[k].price \in Int
    BY <2>1 DEF OrderSet, Moves, EngineAssumption
  <2> QED BY <2>2 DEF Signed
<1>3. \A x, y \in Int : x * y + Commission \in Int BY <1>1
<1>4. Counts(placed) \in [1..Len(placed) -> Int] BY <1>1 DEF Counts
<1>5. Expenses(placed) \in [1..Len(placed) -> Int] BY <1>1, <1>2, <1>3 DEF Expenses
<1>6. Changes(placed, s) \in [1..Len(placed) -> Int] BY <1>1, <1>2 DEF Changes
<1>7. \A f \in [1..Len(placed) -> Int] : f \in Seq(Int) /\ Len(f) = Len(placed) BY <1>1
<1> QED BY <1>4, <1>5, <1>6, <1>7

\* What an order that has just been filled changes in the sums is what it is
\* charged.
LEMMA OneMoreSeen ==
  ASSUME NEW b, NEW placed, NEW i, NEW point, AtPoint(b, placed, i, point),
         NEW k \in Nat, k + 1 <= Len(placed),
         Follows(After(b, placed, i, point)[k], Seen(placed, i, point, k))
  PROVE  Follows(After(b, placed, i, point)[k + 1], Seen(placed, i, point, k + 1))
<1> DEFINE a == After(b, placed, i, point)
           o == placed[k + 1]
           p == Seen(placed, i, point, k)
           q == Seen(placed, i, point, k + 1)
           c == k + 1
           price == FillPrice(o.move, point.close)
<1>0. Len(placed) \in Nat /\ DOMAIN placed = 1..Len(placed) /\ c \in 1..Len(placed)
      /\ o \in OrderSet /\ point \in PointSet /\ i \in Nat /\ EngineAssumption
  BY DEF AtPoint
<1>1. a[k] \in BookSet BY <1>0, AfterTyped, k \in 0..Len(placed)
<1>2. a[c] = IF Fills(o, point) THEN Charged(a[k], o.move, i, point) ELSE a[k]
  <2>1. \A j \in 1..Len(placed) :
           a[j] = IF Fills(placed[j], point) THEN Charged(a[j - 1], placed[j].move, i, point)
                  ELSE a[j - 1]
    BY <1>0, AfterStep
  <2> HIDE DEF a
  <2> QED BY <1>0, <2>1, (k + 1) - 1 = k
<1>3. p \in Seq(OrderSet) /\ Len(p) = Len(placed) /\ DOMAIN p = 1..Len(placed)
      /\ q \in Seq(OrderSet) /\ Len(q) = Len(placed) /\ DOMAIN q = 1..Len(placed)
  BY SeenTyped, k + 1 \in Nat
<1>4. /\ p[c] = o
      /\ q[c] = IF Fills(o, point) THEN Executed(o, i, point) ELSE o
      /\ \A j \in 1..Len(placed) : j # c => q[j] = p[j]
  BY <1>0 DEF Seen
<1> HIDE DEF a, o, p, q, c, price
<1>5. CASE ~Fills(o, point)
  <2>1. q = p BY <1>3, <1>4, <1>5, IsASeq
  <2> QED BY <1>2, <1>5, <2>1 DEF a, p, q, c
<1>6. CASE Fills(o, point)
  <2>1. /\ price \in Int /\ Signed(o.move) \in Int /\ CashFlow(o.move, price) \in Int
        /\ o.move.symbol \in Symbols /\ Commission \in Int
    <3>1. o.move \in Moves BY <1>0 DEF OrderSet
    <3>2. o.move.symbol \in Symbols BY <3>1 DEF Moves
    <3>3. Commission \in Int BY <1>0 DEF EngineAssumption
    <3> QED BY <1>0, <1>6, <3>2, <3>3, PriceOfFill DEF price
  <2>2. /\ a[c].cash = a[k].cash + CashFlow(o.move, price)
        /\ a[c].positions = [a[k].positions EXCEPT ![o.move.symbol] = @ + Signed(o.move)]
        /\ Len(a[c].trades) = Len(a[k].trades) + 1
    <3>1. ChargedFor(a[k], a[c], o, price) BY <1>0, <1>1, <1>2, <1>6, ChargedBooks DEF price
    <3> QED BY <3>1 DEF ChargedFor
  <2>3. a[k].cash \in Int /\ a[k].positions \in [Symbols -> Int] /\ Len(a[k].trades) \in Nat
    BY <1>1 DEF BookSet
  <2>4. Filled(q[c]) /\ ~Filled(p[c]) /\ q[c].move = o.move /\ q[c].price = price
    BY <1>0, <1>4, <1>6, ExecutedOrder DEF price
  <2>5. /\ Len(a[k].trades) = Total(Counts(p))
        /\ a[k].cash = Capital - Total(Expenses(p))
        /\ \A s \in Symbols : a[k].positions[s] = Total(Changes(p, s))
    BY DEF Follows, a, p
  <2>6. Total(Counts(q)) = Total(Counts(p)) + 1
    <3>1. Counts(q)[c] = 1 /\ Counts(p)[c] = 0 BY <1>0, <1>3, <2>4 DEF Counts
    <3>4. \A j \in 1..Len(placed) : j # c => Counts(q)[j] = Counts(p)[j]
      BY <1>0, <1>3, <1>4 DEF Counts
    <3>2. Counts(p) \in Seq(Int) /\ Len(Counts(p)) = Len(placed)
          /\ Counts(q) \in Seq(Int) /\ Len(Counts(q)) = Len(placed)
      BY <1>0, <1>3, AmountsTyped
    <3>3. Total(Counts(q)) = Total(Counts(p)) + (Counts(q)[c] - Counts(p)[c])
      BY <1>0, <3>2, <3>4, TotalChange
    <3> QED BY <3>1, <3>3
  <2>7. Total(Expenses(q)) = Total(Expenses(p)) - CashFlow(o.move, price)
    <3>1. Expenses(q)[c] = Signed(o.move) * price + Commission /\ Expenses(p)[c] = 0
      BY <1>0, <1>3, <2>4 DEF Expenses
    <3>2. \A j \in 1..Len(placed) : j # c => Expenses(q)[j] = Expenses(p)[j]
      BY <1>0, <1>3, <1>4 DEF Expenses
    <3>3. Expenses(p) \in Seq(Int) /\ Len(Expenses(p)) = Len(placed)
          /\ Expenses(q) \in Seq(Int) /\ Len(Expenses(q)) = Len(placed)
      BY <1>0, <1>3, AmountsTyped
    <3>4. Total(Expenses(q)) = Total(Expenses(p)) + (Expenses(q)[c] - Expenses(p)[c])
      BY <1>0, <3>2, <3>3, TotalChange
    <3>5. \A x, y \in Int : x * y + Commission = -(-x * y - Commission) BY <2>1
    <3>6. Expenses(q)[c] = -CashFlow(o.move, price) BY <2>1, <3>1, <3>5 DEF CashFlow
    <3>7. Total(Expenses(p)) \in Int BY <3>3, TotalIsInt
    <3> QED BY <2>1, <3>1, <3>4, <3>6, <3>7
  <2>8. ASSUME NEW s \in Symbols
        PROVE  Total(Changes(q, s)) = a[c].positions[s]
    <3>1. /\ Changes(q, s)[c] = IF o.move.symbol = s THEN Signed(o.move) ELSE 0
          /\ Changes(p, s)[c] = 0
      BY <1>0, <1>3, <2>4 DEF Changes
    <3>2. \A j \in 1..Len(placed) : j # c => Changes(q, s)[j] = Changes(p, s)[j]
      BY <1>0, <1>3, <1>4 DEF Changes
    <3>3. Changes(p, s) \in Seq(Int) /\ Len(Changes(p, s)) = Len(placed)
          /\ Changes(q, s) \in Seq(Int) /\ Len(Changes(q, s)) = Len(placed)
      BY <1>0, <1>3, AmountsTyped
    <3>4. Total(Changes(q, s)) = Total(Changes(p, s)) + (Changes(q, s)[c] - Changes(p, s)[c])
      BY <1>0, <3>2, <3>3, TotalChange
    <3>5. a[c].positions[s] = a[k].positions[s] + (IF o.move.symbol = s THEN Signed(o.move) ELSE 0)
      BY <2>1, <2>2, <2>3
    <3>6. a[k].positions[s] = Total(Changes(p, s)) /\ a[k].positions[s] \in Int BY <2>3, <2>5
    <3> QED BY <2>1, <3>1, <3>4, <3>5, <3>6
  <2>9. Len(a[c].trades) = Total(Counts(q)) BY <2>2, <2>5, <2>6
  <2>10. a[c].cash = Capital - Total(Expenses(q))
    <3>1. Total(Expenses(p)) \in Int BY <1>0, <1>3, AmountsTyped, TotalIsInt
    <3>2. Capital \in Int BY <1>0 DEF EngineAssumption
    <3> QED BY <2>1, <2>2, <2>5, <2>7, <3>1, <3>2
  <2> QED BY <2>8, <2>9, <2>10 DEF Follows, a, q, c
<1> QED BY <1>5, <1>6

\* _process_orders() keeps the books with the orders, which stay orders.
LEMMA ProcessFollows ==
  ASSUME NEW b, NEW placed, NEW i, NEW point, AtPoint(b, placed, i, point), Follows(b, placed)
  PROVE  /\ Follows(Processed(b, placed, i, point), Settled(placed, i, point))
         /\ Processed(b, placed, i, point) \in BookSet
         /\ Settled(placed, i, point) \in Seq(OrderSet)
         /\ Len(Settled(placed, i, point)) = Len(placed)
<1> DEFINE a == After(b, placed, i, point)
           T == {k \in Nat : k <= Len(placed) => Follows(a[k], Seen(placed, i, point, k))}
<1>0. Len(placed) \in Nat /\ DOMAIN placed = 1..Len(placed) /\ a[0] = b
      /\ placed = [k \in 1..Len(placed) |-> placed[k]]
  BY AfterStep DEF AtPoint
<1> HIDE DEF a
<1>1. 0 \in T
  <2>1. Seen(placed, i, point, 0) = placed
    <3>1. Seen(placed, i, point, 0) = [k \in 1..Len(placed) |-> placed[k]] BY <1>0 DEF Seen
    <3> QED BY <1>0, <3>1
  <2> QED BY <1>0, <2>1
<1>2. ASSUME NEW k \in T PROVE k + 1 \in T
  BY <1>0, OneMoreSeen DEF a
<1>3. T = Nat
  <2> HIDE DEF T
  <2> QED BY <1>1, <1>2, SetInduction, T \subseteq Nat DEF T
<1>4. Seen(placed, i, point, Len(placed)) = Settled(placed, i, point)
  <2>1. \A k \in DOMAIN placed : k <= Len(placed) BY <1>0
  <2> QED BY <2>1 DEF Seen, Settled
<1>5. Processed(b, placed, i, point) = a[Len(placed)] BY ProcessedIsAfter DEF a
<1>6. a[Len(placed)] \in BookSet
  BY AfterTyped, <1>0, Len(placed) \in 0..Len(placed) DEF a
<1>7. Follows(a[Len(placed)], Seen(placed, i, point, Len(placed))) BY <1>0, <1>3
<1>8. Settled(placed, i, point) \in Seq(OrderSet) /\ Len(Settled(placed, i, point)) = Len(placed)
  BY <1>0, <1>4, SeenTyped
<1> QED BY <1>4, <1>5, <1>6, <1>7, <1>8

\* A step that trades costs at least its commissions.
LEMMA ProcessGainsNothing ==
  ASSUME NEW b, NEW placed, NEW i, NEW point, AtPoint(b, placed, i, point)
  PROVE  LET after == Processed(b, placed, i, point)
         IN  Equity(after.cash, after.positions, point)
               <= Equity(b.cash, b.positions, point)
                    - Commission * (Len(after.trades) - Len(b.trades))
<1> DEFINE a == After(b, placed, i, point)
           E(x) == Equity(x.cash, x.positions, point)
           Gain(x) == E(x) + Commission * (Len(x.trades) - Len(b.trades))
           T == {k \in Nat : k <= Len(placed) => Gain(a[k]) <= E(b)}
<1>0. Len(placed) \in Nat /\ Commission \in Nat /\ b \in BookSet /\ point \in PointSet
      /\ point.symbol \in Symbols /\ point.close \in Nat
  <2>1. EngineAssumption /\ b \in BookSet /\ point \in PointSet /\ Len(placed) \in Nat
    BY DEF AtPoint
  <2>2. point.symbol \in Symbols /\ point.close \in Prices BY <2>1 DEF PointSet
  <2>3. Commission \in Nat /\ Prices \subseteq Nat BY <2>1 DEF EngineAssumption
  <2> QED BY <2>1, <2>2, <2>3
<1>1. /\ a[0] = b
      /\ \A k \in 1..Len(placed) :
           a[k] = IF Fills(placed[k], point) THEN Charged(a[k - 1], placed[k].move, i, point)
                  ELSE a[k - 1]
  BY <1>0, AfterStep
<1>2. \A k \in 0..Len(placed) : a[k] \in BookSet BY AfterTyped
<1> HIDE DEF a
<1>3. ASSUME NEW x \in BookSet
      PROVE  /\ x.cash \in Int /\ x.positions[point.symbol] \in Int /\ Len(x.trades) \in Nat
             /\ E(x) = x.cash + x.positions[point.symbol] * point.close
             /\ E(x) \in Int /\ Commission * (Len(x.trades) - Len(b.trades)) \in Int
  <2>1. x.cash \in Int /\ x.positions[point.symbol] \in Int /\ Len(x.trades) \in Nat
        /\ Len(b.trades) \in Nat
    BY <1>0 DEF BookSet
  <2>2. \A c, p \in Int, d \in Nat : c + p * d \in Int OBVIOUS
  <2>3. \A m, n \in Nat : Commission * (m - n) \in Int BY <1>0
  <2>4. E(x) = x.cash + x.positions[point.symbol] * point.close BY DEF Equity
  <2> QED BY <1>0, <2>1, <2>2, <2>3, <2>4
<1> HIDE DEF Gain, E
<1>4. 0 \in T
  <2>1. E(b) \in Int /\ Len(b.trades) \in Nat BY <1>0, <1>3
  <2>2. Commission * (Len(b.trades) - Len(b.trades)) = 0 BY <1>0, <2>1
  <2>3. Gain(b) <= E(b) BY <2>1, <2>2 DEF Gain
  <2> QED BY <1>1, <2>3
<1>5. ASSUME NEW k \in T PROVE k + 1 \in T
  <2> SUFFICES ASSUME k + 1 <= Len(placed) PROVE Gain(a[k + 1]) <= E(b)
    BY DEF T
  <2> DEFINE o == placed[k + 1]
             price == FillPrice(o.move, point.close)
  <2>1. a[k + 1] = IF Fills(o, point) THEN Charged(a[k], o.move, i, point) ELSE a[k]
    BY <1>1, <1>0, k + 1 \in 1..Len(placed), (k + 1) - 1 = k
  <2>2. Gain(a[k]) <= E(b) BY <1>0
  <2>3. o \in OrderSet /\ a[k] \in BookSet /\ a[k + 1] \in BookSet
    BY <1>0, <1>2, k \in 0..Len(placed), k + 1 \in 0..Len(placed), k + 1 \in 1..Len(placed)
       DEF AtPoint
  <2>4. CASE ~Fills(o, point)
    BY <2>1, <2>2, <2>4
  <2>5. CASE Fills(o, point)
    <3>1. ChargedFor(a[k], a[k + 1], o, price)
      BY <2>1, <2>3, <2>5, ChargedBooks DEF AtPoint
    <3>2. /\ Signed(o.move) \in Int /\ CashFlow(o.move, price) \in Int
          /\ CashFlow(o.move, price) + Signed(o.move) * point.close <= -Commission
          /\ o.move.symbol = point.symbol
      BY <1>0, <2>3, <2>5, PriceOfFill DEF AtPoint
    <3> HIDE DEF o, price
    <3>3. /\ a[k + 1].cash = a[k].cash + CashFlow(o.move, price)
          /\ a[k + 1].positions = [a[k].positions EXCEPT ![o.move.symbol] = @ + Signed(o.move)]
          /\ Len(a[k + 1].trades) = Len(a[k].trades) + 1
      BY <3>1 DEF ChargedFor
    <3>4. a[k + 1].positions[point.symbol] = a[k].positions[point.symbol] + Signed(o.move)
      <4>1. a[k].positions \in [Symbols -> Int] BY <2>3 DEF BookSet
      <4> QED BY <1>0, <3>2, <3>3, <4>1
    <3>5. \A c, f, p, s \in Int, d \in Nat :
            (c + f) + (p + s) * d = (c + p * d) + (f + s * d)
      OBVIOUS
    <3>6. E(a[k + 1]) = E(a[k]) + (CashFlow(o.move, price) + Signed(o.move) * point.close)
      <4>1. E(a[k]) = a[k].cash + a[k].positions[point.symbol] * point.close
            /\ a[k].cash \in Int /\ a[k].positions[point.symbol] \in Int
        BY <1>3, <2>3
      <4>2. E(a[k + 1]) = a[k + 1].cash + a[k + 1].positions[point.symbol] * point.close
        BY <1>3, <2>3
      <4>3. E(a[k + 1]) = (a[k].cash + CashFlow(o.move, price))
                          + (a[k].positions[point.symbol] + Signed(o.move)) * point.close
        BY <3>3, <3>4, <4>2
      <4>4. (a[k].cash + CashFlow(o.move, price))
              + (a[k].positions[point.symbol] + Signed(o.move)) * point.close
            = (a[k].cash + a[k].positions[point.symbol] * point.close)
              + (CashFlow(o.move, price) + Signed(o.move) * point.close)
        BY <1>0, <3>2, <3>5, <4>1
      <4> QED BY <4>1, <4>3, <4>4
    <3>7. Commission * (Len(a[k + 1].trades) - Len(b.trades))
            = Commission * (Len(a[k].trades) - Len(b.trades)) + Commission
      <4>1. \A m, n \in Nat : Commission * ((m + 1) - n) = Commission * (m - n) + Commission
        BY <1>0
      <4>2. Len(a[k].trades) \in Nat BY <1>3, <2>3
      <4>3. Len(b.trades) \in Nat BY <1>0, <1>3
      <4>4. Len(a[k + 1].trades) = Len(a[k].trades) + 1 BY <3>3
      <4> QED BY <4>1, <4>2, <4>3, <4>4
    <3>8. CashFlow(o.move, price) + Signed(o.move) * point.close \in Int
      <4>1. \A f, s \in Int, d \in Nat : f + s * d \in Int OBVIOUS
      <4> QED BY <1>0, <3>2, <4>1
    <3>9. E(a[k]) \in Int /\ Commission * (Len(a[k].trades) - Len(b.trades)) \in Int
          /\ E(b) \in Int
      BY <1>0, <1>3, <2>3
    <3> DEFINE y == CashFlow(o.move, price) + Signed(o.move) * point.close
               u == Commission * (Len(a[k].trades) - Len(b.trades))
               v == Commission * (Len(a[k + 1].trades) - Len(b.trades))
    <3>10. E(a[k + 1]) = E(a[k]) + y /\ v = u + Commission /\ y \in Int /\ u \in Int
           /\ y <= -Commission
      BY <3>2, <3>6, <3>7, <3>8, <3>9
    <3>11. E(a[k]) + u <= E(b) BY <2>2 DEF Gain
    <3>13. E(a[k + 1]) \in Int BY <1>3, <2>3
    <3>14. Commission \in Int BY <1>0
    <3> HIDE DEF y, u, v
    <3>12. E(a[k + 1]) + v <= E(b) BY <3>9, <3>10, <3>11, <3>13, <3>14
    <3> QED BY <3>12 DEF Gain, v
  <2> QED BY <2>4, <2>5
<1>6. T = Nat
  <2> HIDE DEF T
  <2> QED BY <1>4, <1>5, SetInduction, T \subseteq Nat DEF T
<1>7. Processed(b, placed, i, point) = a[Len(placed)] BY ProcessedIsAfter DEF a
<1>8. Gain(a[Len(placed)]) <= E(b)
  BY <1>0, <1>6
<1>9. a[Len(placed)] \in BookSet BY <1>0, <1>2, Len(placed) \in 0..Len(placed)
<1> DEFINE after == a[Len(placed)]
           w == Commission * (Len(after.trades) - Len(b.trades))
<1>10. E(after) + w <= E(b) BY <1>8 DEF Gain
<1>11. E(after) \in Int /\ w \in Int /\ E(b) \in Int BY <1>0, <1>3, <1>9
<1> HIDE DEF w
<1>12. E(after) <= E(b) - w BY <1>10, <1>11
<1> QED BY <1>7, <1>12 DEF E, w

-----------------------------------------------------------------------------
(* The engine keeps its types, and the books follow the orders.            *)

DrawdownSet == [loss : Nat, of : Nat \ {0}]
ResultSet == [mode : {"run", "step"}, equity : Int, drawdown : DrawdownSet,
              trades : Seq(TradeSet), won : Nat, commission : Nat]
BooksNow == [cash |-> cash, positions |-> positions, trades |-> trades]

InputsOK ==
    /\ data \in [1..Points -> PointSet]
    /\ strategy \in [2..Points -> Strategies]

AccountOK ==
    /\ orders \in Seq(OrderSet)
    /\ cash \in Int /\ positions \in [Symbols -> Int] /\ trades \in Seq(TradeSet)

TimesOK ==
    /\ index \in 0..Points
    /\ \A k \in DOMAIN orders :
         /\ orders[k].placed \in 0..index
         /\ orders[k].status = "PENDING" \/ orders[k].at \in 1..index

PerformanceOK ==
    /\ curve \in Seq(Int) /\ Len(curve) = index
    /\ peak \in Int /\ peak >= Capital
    /\ drawdown \in DrawdownSet

DriverOK ==
    /\ caller \in {"idle", "stepping", "strategy"} /\ manual \in 0..MaxManual
    /\ caller = "strategy" => index \in 1..(Points - 1)
    /\ results \in Seq(ResultSet) /\ Len(results) <= MaxRuns
    /\ caller # "idle" => Len(results) < MaxRuns

EngineOK == InputsOK /\ AccountOK /\ TimesOK /\ PerformanceOK /\ DriverOK

\* The engine's types are those that the runs check.
LEMMA EngineTypes == EngineOK => TypeOK
<1> SUFFICES ASSUME EngineOK PROVE TypeOK OBVIOUS
<1>1. InputsOK /\ AccountOK /\ TimesOK /\ PerformanceOK /\ DriverOK BY DEF EngineOK
<1>2. data \in [1..Points -> [symbol : Symbols, close : Prices]]
  BY <1>1 DEF InputsOK, PointSet
<1>3. \A k \in DOMAIN orders : orders[k].move \in Moves
  <2>1. \A k \in DOMAIN orders : orders[k] \in OrderSet BY <1>1 DEF AccountOK
  <2>2. \A o \in OrderSet : o.move \in Moves BY DEF OrderSet
  <2> QED BY <2>1, <2>2
<1>4. drawdown.loss \in Nat /\ drawdown.of \in Nat \ {0}
  BY <1>1 DEF PerformanceOK, DrawdownSet
<1> QED BY <1>1, <1>2, <1>3, <1>4 DEF TypeOK, AccountOK, TimesOK, PerformanceOK, DriverOK

\* The engine is at a data point when step() begins.
LEMMA AtNow ==
  ASSUME EngineOK, index < Len(data)
  PROVE  /\ AtPoint(BooksNow, orders, index + 1, data[index + 1])
         /\ index + 1 \in 1..Points /\ index \in Nat /\ index < Points /\ Len(data) = Points
<1>1. Points \in Nat BY EngineAssumption
<1>2. InputsOK /\ AccountOK /\ TimesOK BY DEF EngineOK
<1>3. data \in [1..Points -> PointSet] BY <1>2 DEF InputsOK
<1>4. Len(data) = Points BY <1>1, <1>3
<1>5. index \in 0..Points BY <1>2 DEF TimesOK
<1>6. index + 1 \in 1..Points /\ index \in Nat /\ index < Points BY <1>1, <1>4, <1>5
<1>7. data[index + 1] \in PointSet BY <1>3, <1>6
<1>8. BooksNow \in BookSet /\ orders \in Seq(OrderSet)
  BY <1>2 DEF AccountOK, BooksNow, BookSet
<1>9. index + 1 \in Nat BY <1>6
<1> QED BY <1>4, <1>6, <1>7, <1>8, <1>9, EngineAssumption DEF AtPoint

\* What a step does to the orders and the books.
LEMMA StepProcesses ==
  ASSUME EngineOK, BooksFollowOrders, Step
  PROVE  /\ AtPoint(BooksNow, orders, index + 1, data[index + 1])
         /\ orders' = Settled(orders, index + 1, data[index + 1])
         /\ BooksNow' = Processed(BooksNow, orders, index + 1, data[index + 1])
         /\ AccountOK' /\ BooksFollowOrders' /\ Len(orders') = Len(orders)
<1>1. index < Len(data) /\ ProcessOrders BY DEF Step
<1>2. AtPoint(BooksNow, orders, index + 1, data[index + 1]) BY <1>1, AtNow
<1> DEFINE after == Processed(BooksNow, orders, index + 1, data[index + 1])
<1>3. /\ orders' = Settled(orders, index + 1, data[index + 1])
      /\ cash' = after.cash /\ positions' = after.positions /\ trades' = after.trades
  BY <1>1 DEF ProcessOrders, BooksNow
<1>4. Follows(BooksNow, orders) BY DEF Follows, BooksNow, BooksFollowOrders
<1>5. /\ Follows(after, Settled(orders, index + 1, data[index + 1])) /\ after \in BookSet
      /\ Settled(orders, index + 1, data[index + 1]) \in Seq(OrderSet)
      /\ Len(Settled(orders, index + 1, data[index + 1])) = Len(orders)
  BY <1>2, <1>4, ProcessFollows
<1> HIDE DEF after
<1>6. BooksNow' = after
  <2>1. BooksNow' = [cash |-> cash', positions |-> positions', trades |-> trades']
    BY DEF BooksNow
  <2>2. after = [cash |-> after.cash, positions |-> after.positions, trades |-> after.trades]
    BY <1>5 DEF BookSet
  <2> QED BY <1>3, <2>1, <2>2
<1>7. AccountOK' BY <1>3, <1>5 DEF AccountOK, BookSet
<1>8. BooksFollowOrders' BY <1>3, <1>5 DEF BooksFollowOrders, Follows
<1> QED BY <1>2, <1>3, <1>5, <1>6, <1>7, <1>8 DEF after

\* Orders that are placed add nothing yet.
LEMMA PlaceOrdersKeeps ==
  ASSUME EngineOK, BooksFollowOrders, NEW moves \in Strategies, PlaceOrders(moves),
         UNCHANGED <<index, cash, positions, trades>>
  PROVE  /\ AccountOK' /\ BooksFollowOrders' /\ TimesOK'
         /\ \A k \in DOMAIN orders' :
              IF k \in DOMAIN orders THEN orders'[k] = orders[k]
              ELSE orders'[k].status = "PENDING" /\ orders'[k].placed = index
<1> DEFINE new == [k \in DOMAIN moves |-> Order(moves[k])]
<1>0. moves \in Seq(Moves) /\ index \in 0..Points /\ Points \in Nat
  BY EngineAssumption DEF EngineOK, TimesOK
<1>1. \A k \in DOMAIN moves : new[k] \in OrderSet /\ new[k].status = "PENDING"
        /\ new[k].placed = index
  BY <1>0 DEF Order, OrderSet
<1>2. new \in Seq(OrderSet) /\ DOMAIN new = DOMAIN moves
  <2>1. \A k \in 1..Len(moves) : new[k] \in OrderSet BY <1>0, <1>1
  <2>2. new \in [1..Len(moves) -> OrderSet]
    <3>1. new = [k \in 1..Len(moves) |-> new[k]] BY <1>0
    <3> HIDE DEF new
    <3> QED BY <2>1, <3>1
  <2> QED BY <1>0, <2>2
<1>3. orders \in Seq(OrderSet) BY DEF EngineOK, AccountOK
<1>4. orders' = orders \o new BY DEF PlaceOrders
<1> HIDE DEF new
<1>5. /\ orders' \in Seq(OrderSet) /\ Len(orders') = Len(orders) + Len(new)
      /\ DOMAIN orders = 1..Len(orders) /\ DOMAIN orders' = 1..Len(orders')
      /\ Len(orders) \in Nat /\ Len(new) \in Nat /\ Len(orders') \in Nat
  BY <1>2, <1>3, <1>4
<1>6. \A k \in 1..Len(orders') :
        IF k \in 1..Len(orders) THEN orders'[k] = orders[k]
        ELSE orders'[k].status = "PENDING" /\ orders'[k].placed = index
  <2> SUFFICES ASSUME NEW k \in 1..Len(orders')
               PROVE  IF k \in 1..Len(orders) THEN orders'[k] = orders[k]
                      ELSE orders'[k].status = "PENDING" /\ orders'[k].placed = index
    OBVIOUS
  <2>1. CASE k \in 1..Len(orders) BY <1>2, <1>3, <1>4, <2>1
  <2>2. CASE k \notin 1..Len(orders)
    <3>1. k - Len(orders) \in 1..Len(new) /\ orders'[k] = new[k - Len(orders)]
      BY <1>2, <1>3, <1>4, <1>5, <2>2
    <3>2. k - Len(orders) \in DOMAIN moves BY <1>2, <3>1
    <3> QED BY <1>1, <2>2, <3>1, <3>2
  <2> QED BY <2>1, <2>2
<1>7. AccountOK' BY <1>5 DEF EngineOK, AccountOK
<1>8. TimesOK'
  <2>1. TimesOK BY DEF EngineOK
  <2> QED BY <1>0, <1>5, <1>6, <2>1 DEF TimesOK
<1>9. /\ Total(Counts(orders')) = Total(Counts(orders))
      /\ Total(Expenses(orders')) = Total(Expenses(orders))
  <2>1. \A k \in 1..Len(orders) : /\ Counts(orders')[k] = Counts(orders)[k]
                                  /\ Expenses(orders')[k] = Expenses(orders)[k]
    BY <1>5, <1>6 DEF Counts, Expenses
  <2>2. \A k \in 1..Len(orders') :
          k > Len(orders) => Counts(orders')[k] = 0 /\ Expenses(orders')[k] = 0
    BY <1>5, <1>6 DEF Counts, Expenses, Filled
  <2>3. /\ Counts(orders) \in Seq(Int) /\ Len(Counts(orders)) = Len(orders)
        /\ Expenses(orders) \in Seq(Int) /\ Len(Expenses(orders)) = Len(orders)
    BY <1>3, AmountsTyped, EngineAssumption
  <2>4. /\ Counts(orders') \in Seq(Int) /\ Len(Counts(orders')) = Len(orders')
        /\ Expenses(orders') \in Seq(Int) /\ Len(Expenses(orders')) = Len(orders')
    BY <1>5, AmountsTyped, EngineAssumption
  <2>5. Len(orders) <= Len(orders') BY <1>5
  <2>6. Total(Counts(orders')) = Total(Counts(orders))
    BY <2>1, <2>2, <2>3, <2>4, <2>5, TotalZeros
  <2>7. Total(Expenses(orders')) = Total(Expenses(orders))
    BY <2>1, <2>2, <2>3, <2>4, <2>5, TotalZeros
  <2> QED BY <2>6, <2>7
<1>10. ASSUME NEW s \in Symbols
       PROVE  Total(Changes(orders', s)) = Total(Changes(orders, s))
  <2>1. \A k \in 1..Len(orders) : Changes(orders', s)[k] = Changes(orders, s)[k]
    BY <1>5, <1>6 DEF Changes
  <2>2. \A k \in 1..Len(orders') : k > Len(orders) => Changes(orders', s)[k] = 0
    BY <1>5, <1>6 DEF Changes, Filled
  <2>3. Changes(orders, s) \in Seq(Int) /\ Len(Changes(orders, s)) = Len(orders)
    BY <1>3, AmountsTyped, EngineAssumption
  <2>4. Changes(orders', s) \in Seq(Int) /\ Len(Changes(orders', s)) = Len(orders')
    BY <1>5, AmountsTyped, EngineAssumption
  <2>5. Len(orders) <= Len(orders') BY <1>5
  <2> QED BY <2>1, <2>2, <2>3, <2>4, <2>5, TotalZeros
<1>11. BooksFollowOrders' BY <1>9, <1>10 DEF BooksFollowOrders
<1> QED BY <1>5, <1>6, <1>7, <1>8, <1>11

-----------------------------------------------------------------------------
(* Orders are filled at their first chance.                                *)

\* What a step finds acceptable is what it fills.
LEMMA AcceptableIsFilled ==
  ASSUME NEW o \in OrderSet, NEW point \in PointSet, EngineAssumption
  PROVE  Fills(o, point) <=> /\ ~Filled(o) /\ point.symbol = o.move.symbol
                             /\ Acceptable(o, point.close)
<1>1. o.status \in {"PENDING", "FILLED"} /\ o.move \in Moves /\ point.close \in Prices
  BY DEF OrderSet, PointSet
<1>2. o.move.action \in {"BUY", "SELL"} /\ o.move.limit \in Nat /\ point.close \in Nat
  BY <1>1 DEF Moves, EngineAssumption
<1> QED BY <1>1, <1>2 DEF Fills, Filled, Acceptable

\* The chances of an order among the first n of the data points d.
ChancesAt(o, d, n) ==
  {j \in (o.placed + 1)..n : d[j].symbol = o.move.symbol /\ Acceptable(o, d[j].close)}

AtFirstChance(o, d, n) ==
  IF ChancesAt(o, d, n) = {} THEN o.status = "PENDING"
  ELSE o.status = "FILLED" /\ o.at = Min(ChancesAt(o, d, n))

\* The property in terms of them, before and after a step.
LEMMA FirstChances ==
  /\ FilledAtFirstChance <=> \A k \in DOMAIN orders : AtFirstChance(orders[k], data, index)
  /\ FilledAtFirstChance' <=> \A k \in DOMAIN orders' : AtFirstChance(orders'[k], data', index')
BY DEF FilledAtFirstChance, AtFirstChance, ChancesAt, Chances, Acceptable

\* A step gives each order the chance of its data point.
LEMMA StepFillsFirst ==
  ASSUME EngineOK, BooksFollowOrders, FilledAtFirstChance, Step, UNCHANGED data
  PROVE  FilledAtFirstChance' /\ TimesOK'
<1> DEFINE i == index + 1
<1>1. /\ AtPoint(BooksNow, orders, i, data[i]) /\ orders' = Settled(orders, i, data[i])
      /\ Len(orders') = Len(orders) /\ AccountOK'
  BY StepProcesses
<1>2. index' = i /\ i \in 1..Points /\ index \in Nat
  BY AtNow DEF Step
<1>3. orders \in Seq(OrderSet) /\ orders' \in Seq(OrderSet)
      /\ DOMAIN orders = 1..Len(orders) /\ DOMAIN orders' = DOMAIN orders
  BY <1>1 DEF AtPoint, AccountOK
<1>4. TimesOK /\ Points \in Nat BY EngineAssumption DEF EngineOK
<1> HIDE DEF i
<1>5. ASSUME NEW k \in DOMAIN orders
      PROVE  /\ AtFirstChance(orders'[k], data, index')
             /\ orders'[k].placed \in 0..index'
             /\ orders'[k].status = "PENDING" \/ orders'[k].at \in 1..index'
  <2> DEFINE o == orders[k]
             p == orders'[k]
             C == ChancesAt(o, data, index)
             D == ChancesAt(o, data, i)
  <2>1. o \in OrderSet /\ data[i] \in PointSet /\ i \in Nat BY <1>1, <1>3 DEF AtPoint
  <2>2. p = IF Fills(o, data[i]) THEN Executed(o, i, data[i]) ELSE o
    BY <1>1, <1>3 DEF Settled
  <2>3. o.placed \in 0..index /\ (o.status = "PENDING" \/ o.at \in 1..index)
    BY <1>4 DEF TimesOK
  <2>4. IF C = {} THEN o.status = "PENDING" ELSE o.status = "FILLED" /\ o.at = Min(C)
    BY FirstChances DEF AtFirstChance
  <2>5. C = {j \in (o.placed + 1)..index :
               data[j].symbol = o.move.symbol /\ Acceptable(o, data[j].close)}
    BY DEF ChancesAt
  <2>6. D = {j \in (o.placed + 1)..i :
               data[j].symbol = o.move.symbol /\ Acceptable(o, data[j].close)}
    BY DEF ChancesAt
  <2> HIDE DEF o, p, C, D
  <2>7. D = C \cup {j \in {i} : data[i].symbol = o.move.symbol /\ Acceptable(o, data[i].close)}
    <3>1. (o.placed + 1)..i = ((o.placed + 1)..index) \cup {i} /\ i \notin (o.placed + 1)..index
      BY <1>2, <2>3 DEF i
    <3> QED BY <2>5, <2>6, <3>1
  <2>8. \A j \in C : j \in Nat /\ j < i
    BY <1>2, <2>3, <2>5 DEF i
  <2>9. p.move = o.move /\ p.placed = o.placed
    BY <2>1, <2>2, ExecutedOrder, EngineAssumption
  <2>10. ChancesAt(p, data, index') = D
    BY <1>2, <2>6, <2>9 DEF ChancesAt, Acceptable
  <2>11. CASE C # {}
    <3>1. o.status = "FILLED" /\ o.at = Min(C) BY <2>4, <2>11
    <3>2. p = o BY <2>2, <3>1 DEF Fills
    <3>3. PICK m \in C : \A j \in C : m <= j
      <4>1. C \subseteq Nat /\ C # {} BY <2>8, <2>11
      <4> QED BY <4>1, LeastOf
    <3>4. Min(C) \in C /\ \A j \in C : Min(C) <= j
      BY <3>3 DEF Min
    <3>5. \A j \in D : Min(C) <= j /\ j \in Nat
      BY <2>7, <2>8, <2>1, <3>4
    <3>6. Min(C) \in D BY <2>7, <3>4
    <3>7. Min(D) \in D /\ \A j \in D : Min(D) <= j
      BY <3>5, <3>6 DEF Min
    <3>8. Min(D) = Min(C) BY <3>5, <3>6, <3>7
    <3>9. D # {} /\ p.status = "FILLED" /\ p.at = Min(D) BY <3>1, <3>2, <3>6, <3>8
    <3>10. p.at \in 1..index' BY <1>2, <2>3, <3>1, <3>2 DEF i
    <3>11. p.placed \in 0..index' BY <1>2, <2>3, <2>9 DEF i
    <3> QED BY <2>10, <3>9, <3>10, <3>11 DEF AtFirstChance, p
  <2>12. CASE C = {}
    <3>1. o.status = "PENDING" BY <2>4, <2>12
    <3>2. Fills(o, data[i]) <=> data[i].symbol = o.move.symbol /\ Acceptable(o, data[i].close)
      BY <2>1, <3>1, AcceptableIsFilled, EngineAssumption DEF Filled
    <3>3. D = IF Fills(o, data[i]) THEN {i} ELSE {} BY <2>7, <2>12, <3>2
    <3>4. p.placed \in 0..index' BY <1>2, <2>3, <2>9 DEF i
    <3>5. CASE Fills(o, data[i])
      <4>1. p.status = "FILLED" /\ p.at = i
        BY <2>1, <2>2, <3>5, ExecutedOrder, EngineAssumption DEF Filled
      <4>2. Min(D) = i
        <5>1. i <= i BY <2>1
        <5> QED BY <3>3, <3>5, <5>1 DEF Min
      <4>3. D # {} BY <3>3, <3>5
      <4>4. i \in 1..index' BY <1>2
      <4> QED BY <2>10, <3>4, <4>1, <4>2, <4>3, <4>4 DEF AtFirstChance, p
    <3>6. CASE ~Fills(o, data[i])
      <4>1. p = o /\ D = {} BY <2>2, <3>3, <3>6
      <4> QED BY <2>10, <3>1, <3>4, <4>1 DEF AtFirstChance, p
    <3> QED BY <3>5, <3>6
  <2> QED BY <2>11, <2>12
<1>6. FilledAtFirstChance'
  <2>1. \A k \in DOMAIN orders' : AtFirstChance(orders'[k], data', index')
    BY <1>3, <1>5
  <2> QED BY <2>1, FirstChances
<1>7. TimesOK' BY <1>2, <1>3, <1>5 DEF TimesOK
<1> QED BY <1>6, <1>7

\* An order that was just placed has had no chance.
LEMMA PlacedHadNoChance ==
  ASSUME EngineOK, BooksFollowOrders, FilledAtFirstChance,
         NEW moves \in Strategies, PlaceOrders(moves),
         UNCHANGED <<data, index, cash, positions, trades>>
  PROVE  FilledAtFirstChance'
<1>1. \A k \in DOMAIN orders' :
        IF k \in DOMAIN orders THEN orders'[k] = orders[k]
        ELSE orders'[k].status = "PENDING" /\ orders'[k].placed = index
  BY PlaceOrdersKeeps
<1>2. index \in Nat BY EngineAssumption DEF EngineOK, TimesOK
<1>3. ASSUME NEW k \in DOMAIN orders'
      PROVE  AtFirstChance(orders'[k], data', index')
  <2>1. CASE k \in DOMAIN orders
    <3>1. orders'[k] = orders[k] BY <1>1, <2>1
    <3>2. AtFirstChance(orders[k], data, index) BY <2>1, FirstChances
    <3> QED BY <3>1, <3>2
  <2>2. CASE k \notin DOMAIN orders
    <3>1. orders'[k].status = "PENDING" /\ orders'[k].placed = index BY <1>1, <2>2
    <3>2. (index + 1)..index = {} BY <1>2
    <3>3. ChancesAt(orders'[k], data', index') = {} BY <3>1, <3>2 DEF ChancesAt
    <3> QED BY <3>1, <3>3 DEF AtFirstChance
  <2> QED BY <2>1, <2>2
<1> QED BY <1>3, FirstChances

-----------------------------------------------------------------------------
(* The drawdown is the deepest fall from the highest value so far.         *)

\* The equity of a curve, and its first n values' falls and peak.
ValueOf(line, i) == IF i = 0 THEN Capital ELSE line[i]

Fall(line, i, j) ==
  [loss |-> ValueOf(line, i) - ValueOf(line, j), of |-> ValueOf(line, i)]

NoneDeeper(line, n, deepest) ==
  \A i, j \in 0..n :
    i < j /\ ValueOf(line, i) > ValueOf(line, j) /\ ValueOf(line, i) > 0
          /\ ValueOf(line, j) >= 0 => ~Deeper(Fall(line, i, j), deepest)

IsFall(line, n, deepest) ==
  \/ deepest = NoDrawdown
  \/ \E i, j \in 0..n : /\ i < j /\ ValueOf(line, i) > ValueOf(line, j)
                        /\ deepest = Fall(line, i, j)

IsPeak(line, n, top) ==
  /\ \E i \in 0..n : top = ValueOf(line, i)
  /\ \A i \in 0..n : ValueOf(line, i) <= top

\* The property in terms of them.
LEMMA WorstDrawdown ==
  NoneDeeper(curve, index, drawdown) /\ IsFall(curve, index, drawdown) => DrawdownIsWorst
<1> SUFFICES ASSUME NoneDeeper(curve, index, drawdown), IsFall(curve, index, drawdown)
             PROVE  DrawdownIsWorst
  OBVIOUS
<1>1. \A i : EquityAt(i) = ValueOf(curve, i) BY DEF EquityAt, ValueOf
<1>2. ASSUME NEW fall \in Falls, EquityAt(fall[1]) > 0, EquityAt(fall[2]) >= 0
      PROVE  ~Deeper([loss |-> EquityAt(fall[1]) - EquityAt(fall[2]), of |-> EquityAt(fall[1])],
                     drawdown)
  <2>1. /\ fall[1] \in 0..index /\ fall[2] \in 0..index /\ fall[1] < fall[2]
        /\ EquityAt(fall[1]) > EquityAt(fall[2])
    BY DEF Falls
  <2>2. ~Deeper(Fall(curve, fall[1], fall[2]), drawdown)
    BY <1>1, <1>2, <2>1 DEF NoneDeeper
  <2> QED BY <1>1, <2>2 DEF Fall
<1>3. ASSUME NEW i \in 0..index, NEW j \in 0..index, i < j,
             ValueOf(curve, i) > ValueOf(curve, j), drawdown = Fall(curve, i, j)
      PROVE  \E fall \in Falls :
               drawdown = [loss |-> EquityAt(fall[1]) - EquityAt(fall[2]),
                           of |-> EquityAt(fall[1])]
  <2> DEFINE fall == <<i, j>>
  <2>1. fall \in Falls BY <1>1, <1>3 DEF Falls
  <2>2. drawdown = [loss |-> EquityAt(fall[1]) - EquityAt(fall[2]), of |-> EquityAt(fall[1])]
    BY <1>1, <1>3 DEF Fall
  <2> QED BY <2>1, <2>2
<1> QED BY <1>2, <1>3 DEF DrawdownIsWorst, IsFall

\* A loss a of u is no greater part than a loss b of v.
AtMostAsDeep(a, u, b, v) == a * v <= b * u

\* That is transitive: products are compared over a common divisor.
LEMMA AsDeepTransitive ==
  ASSUME NEW a \in Int, NEW u \in Nat \ {0}, NEW b \in Int, NEW v \in Nat \ {0},
         NEW c \in Int, NEW w \in Nat \ {0},
         AtMostAsDeep(a, u, b, v), AtMostAsDeep(b, v, c, w)
  PROVE  AtMostAsDeep(a, u, c, w)
<1>0. a * v <= b * u /\ b * w <= c * v BY DEF AtMostAsDeep
<1>1. \A x, y \in Int, z \in Nat : x <= y => z * x <= z * y
  <2> SUFFICES ASSUME NEW x \in Int, NEW y \in Int, NEW z \in Nat, x <= y
               PROVE  z * x <= z * y
    OBVIOUS
  <2>1. y - x \in Nat /\ z * (y - x) \in Nat OBVIOUS
  <2>2. z * y - z * x = z * (y - x) OBVIOUS
  <2> QED BY <2>1, <2>2
<1>2. \A x, y \in Int, z \in Nat \ {0} : z * x <= z * y => x <= y
  <2> SUFFICES ASSUME NEW x \in Int, NEW y \in Int, NEW z \in Nat \ {0}, x > y
               PROVE  z * x > z * y
    OBVIOUS
  <2>1. y + 1 <= x /\ y + 1 \in Int OBVIOUS
  <2>2. z * (y + 1) <= z * x BY <1>1, <2>1
  <2>3. z * (y + 1) = z * y + z OBVIOUS
  <2> QED BY <2>2, <2>3
<1>3. w * (a * v) <= w * (b * u)
  <2>1. a * v \in Int /\ b * u \in Int OBVIOUS
  <2> QED BY <1>0, <1>1, <2>1
<1>4. u * (b * w) <= u * (c * v)
  <2>1. b * w \in Int /\ c * v \in Int OBVIOUS
  <2> QED BY <1>0, <1>1, <2>1
<1>5. w * (b * u) = u * (b * w) OBVIOUS
<1>6. w * (a * v) = v * (a * w) OBVIOUS
<1>7. u * (c * v) = v * (c * u) OBVIOUS
<1>8. a * w \in Int /\ c * u \in Int /\ b * w \in Int /\ b * u \in Int OBVIOUS
<1>9. v * (a * w) <= v * (c * u)
  <2>1. \A x, y, z \in Int : x <= y /\ y <= z => x <= z OBVIOUS
  <2>2. v * (a * w) \in Int /\ u * (b * w) \in Int /\ v * (c * u) \in Int BY <1>8
  <2>3. v * (a * w) <= u * (b * w) BY <1>3, <1>5, <1>6
  <2>4. u * (b * w) <= v * (c * u) BY <1>4, <1>7
  <2> QED BY <2>1, <2>2, <2>3, <2>4
<1>10. a * w <= c * u BY <1>2, <1>8, <1>9
<1> QED BY <1>10 DEF AtMostAsDeep

\* From the highest value the fall to the present is the deepest.
LEMMA DeepestFromTop ==
  ASSUME NEW x \in Nat \ {0}, NEW top \in Nat \ {0}, x <= top, NEW e \in Nat
  PROVE  (x - e) * top <= (top - e) * x
<1>1. top - x \in Nat /\ e * (top - x) \in Nat OBVIOUS
<1>2. (top - e) * x - (x - e) * top = e * (top - x) OBVIOUS
<1>3. (top - e) * x \in Int /\ (x - e) * top \in Int OBVIOUS
<1> QED BY <1>1, <1>2, <1>3

\* One more value of the equity.
LEMMA TrackedWorst ==
  ASSUME EngineAssumption, NEW line \in Seq(Int), NEW n \in Nat, Len(line) = n,
         NEW oldTop \in Int, oldTop >= Capital, IsPeak(line, n, oldTop),
         NEW deepest \in DrawdownSet, NoneDeeper(line, n, deepest), IsFall(line, n, deepest),
         NEW e \in Int
  PROVE  LET top == IF e > oldTop THEN e ELSE oldTop
             drop == [loss |-> top - e, of |-> top]
             next == IF Deeper(drop, deepest) THEN drop ELSE deepest
         IN  /\ Append(line, e) \in Seq(Int) /\ Len(Append(line, e)) = n + 1
             /\ top \in Int /\ top >= Capital /\ IsPeak(Append(line, e), n + 1, top)
             /\ next \in DrawdownSet
             /\ NoneDeeper(Append(line, e), n + 1, next) /\ IsFall(Append(line, e), n + 1, next)
<1> DEFINE top == IF e > oldTop THEN e ELSE oldTop
           drop == [loss |-> top - e, of |-> top]
           next == IF Deeper(drop, deepest) THEN drop ELSE deepest
           more == Append(line, e)
<1>0. Capital \in Nat \ {0} BY EngineAssumption DEF EngineAssumption
<1>1. more \in Seq(Int) /\ Len(more) = n + 1 /\ more[n + 1] = e
      /\ \A i \in 1..n : more[i] = line[i]
  OBVIOUS
<1>2. top \in Nat \ {0} /\ top >= Capital /\ top >= e /\ top >= oldTop BY <1>0
<1>3. drop.loss \in Nat /\ drop.of \in Nat \ {0} /\ drop.loss = top - e /\ drop.of = top
      /\ drop \in DrawdownSet
  <2>1. top - e \in Nat BY <1>2
  <2> HIDE DEF top
  <2> QED BY <1>2, <2>1 DEF DrawdownSet
<1>4. deepest.loss \in Nat /\ deepest.of \in Nat \ {0} BY DEF DrawdownSet
<1> HIDE DEF more, drop
<1>5. next \in DrawdownSet BY <1>3
<1>6. next.loss \in Nat /\ next.of \in Nat \ {0} BY <1>5 DEF DrawdownSet
<1>7. deepest.loss * next.of <= next.loss * deepest.of
  <2>1. CASE Deeper(drop, deepest)
    <3>1. drop.loss * deepest.of > deepest.loss * drop.of BY <2>1 DEF Deeper
    <3>2. drop.loss * deepest.of \in Int /\ deepest.loss * drop.of \in Int BY <1>3, <1>4
    <3> QED BY <2>1, <3>1, <3>2
  <2>2. CASE ~Deeper(drop, deepest)
    <3>1. deepest.loss * deepest.of \in Int BY <1>4
    <3> QED BY <2>2, <3>1
  <2> QED BY <2>1, <2>2
<1>8. drop.loss * next.of <= next.loss * drop.of
  <2>1. CASE Deeper(drop, deepest)
    <3>1. drop.loss * drop.of \in Int BY <1>3
    <3> QED BY <2>1, <3>1
  <2>2. CASE ~Deeper(drop, deepest)
    <3>1. ~(drop.loss * deepest.of > deepest.loss * drop.of) BY <2>2 DEF Deeper
    <3>2. drop.loss * deepest.of \in Int /\ deepest.loss * drop.of \in Int BY <1>3, <1>4
    <3> QED BY <2>2, <3>1, <3>2
  <2> QED BY <2>1, <2>2
<1>9. \A i \in 0..n : ValueOf(more, i) = ValueOf(line, i) /\ ValueOf(line, i) \in Int
  BY <1>0, <1>1 DEF ValueOf
<1>10. ValueOf(more, n + 1) = e BY <1>1 DEF ValueOf
<1>11. 0..(n + 1) = (0..n) \cup {n + 1} OBVIOUS
<1>12. IsPeak(more, n + 1, top)
  <2>1. \E i \in 0..(n + 1) : top = ValueOf(more, i)
    <3>1. CASE e > oldTop BY <1>10, <1>11, <3>1
    <3>2. CASE ~(e > oldTop) BY <1>9, <1>11, <3>2 DEF IsPeak
    <3> QED BY <3>1, <3>2
  <2>2. ASSUME NEW i \in 0..(n + 1) PROVE ValueOf(more, i) <= top
    <3>1. CASE i \in 0..n
      <4>1. ValueOf(line, i) <= oldTop BY <3>1 DEF IsPeak
      <4> QED BY <1>2, <1>9, <3>1, <4>1
    <3>2. CASE i = n + 1 BY <1>2, <1>10, <3>2
    <3> QED BY <1>11, <3>1, <3>2
  <2> QED BY <2>1, <2>2 DEF IsPeak
<1> HIDE DEF top, next
<1>13. ASSUME NEW i \in 0..(n + 1), NEW j \in 0..(n + 1), i < j,
              ValueOf(more, i) > ValueOf(more, j), ValueOf(more, i) > 0, ValueOf(more, j) >= 0
       PROVE  ~Deeper(Fall(more, i, j), next)
  <2> DEFINE x == ValueOf(more, i)
             y == ValueOf(more, j)
  <2>1. i \in 0..n BY <1>13
  <2>2. x \in Int BY <1>9, <2>1
  <2>3. x \in Nat \ {0} BY <2>2, <1>13
  <2>4. CASE j \in 0..n
    <3>1. y \in Int BY <1>9, <2>4
    <3>2. ~Deeper(Fall(line, i, j), deepest)
      BY <1>9, <1>13, <2>1, <2>4 DEF NoneDeeper
    <3>3. ~((x - y) * deepest.of > deepest.loss * x)
      BY <1>9, <2>1, <2>4, <3>2 DEF Deeper, Fall
    <3> HIDE DEF x, y
    <3>4. x - y \in Int /\ (x - y) * deepest.of \in Int /\ deepest.loss * x \in Int
      BY <1>4, <2>3, <3>1
    <3>5. (x - y) * deepest.of <= deepest.loss * x BY <3>3, <3>4
    <3>6. (x - y) * next.of <= next.loss * x
      <4>1. /\ AtMostAsDeep(x - y, x, deepest.loss, deepest.of)
            /\ AtMostAsDeep(deepest.loss, deepest.of, next.loss, next.of)
        BY <1>7, <3>5 DEF AtMostAsDeep
      <4>2. deepest.loss \in Int /\ next.loss \in Int BY <1>4, <1>6
      <4>3. AtMostAsDeep(x - y, x, next.loss, next.of)
        BY <1>4, <1>6, <2>3, <3>4, <4>1, <4>2, AsDeepTransitive
      <4> QED BY <4>3 DEF AtMostAsDeep
    <3>7. (x - y) * next.of \in Int /\ next.loss * x \in Int BY <1>6, <2>3, <3>4
    <3>8. ~((x - y) * next.of > next.loss * x) BY <3>6, <3>7
    <3> QED BY <3>8 DEF Deeper, Fall, x, y
  <2>5. CASE j = n + 1
    <3>1. y = e /\ e \in Nat BY <1>10, <1>13, <2>5
    <3>2. x <= top BY <1>12, <1>13 DEF IsPeak
    <3> HIDE DEF x, y
    <3>3. (x - e) * top <= (top - e) * x BY <1>2, <2>3, <3>1, <3>2, DeepestFromTop
    <3>4. (x - e) * drop.of <= drop.loss * x BY <1>3, <3>3
    <3>5. x - e \in Int BY <2>3, <3>1
    <3>6. (x - e) * next.of <= next.loss * x
      <4>1. /\ AtMostAsDeep(x - e, x, drop.loss, drop.of)
            /\ AtMostAsDeep(drop.loss, drop.of, next.loss, next.of)
        BY <1>8, <3>4 DEF AtMostAsDeep
      <4>2. drop.loss \in Int /\ next.loss \in Int BY <1>3, <1>6
      <4>3. AtMostAsDeep(x - e, x, next.loss, next.of)
        BY <1>3, <1>6, <2>3, <3>5, <4>1, <4>2, AsDeepTransitive
      <4> QED BY <4>3 DEF AtMostAsDeep
    <3>7. (x - e) * next.of \in Int /\ next.loss * x \in Int BY <1>6, <2>3, <3>5
    <3>8. ~((x - e) * next.of > next.loss * x) BY <3>6, <3>7
    <3> QED BY <3>1, <3>8 DEF Deeper, Fall, x, y
  <2> QED BY <1>11, <2>4, <2>5
<1>14. NoneDeeper(more, n + 1, next) BY <1>13 DEF NoneDeeper
<1>15. IsFall(more, n + 1, next)
  <2>1. CASE Deeper(drop, deepest)
    <3>1. drop.loss * deepest.of > deepest.loss * drop.of BY <2>1 DEF Deeper
    <3>2. deepest.loss * drop.of \in Nat BY <1>3, <1>4
    <3>3. drop.loss # 0
      <4>1. 0 * deepest.of = 0 BY <1>4
      <4> QED BY <3>1, <3>2, <4>1
    <3>4. top # e BY <1>2, <1>3, <3>3
    <3>5. top = oldTop /\ e < top BY <1>2, <3>4 DEF top
    <3>6. PICK i \in 0..n : top = ValueOf(line, i) BY <3>5 DEF IsPeak
    <3>7. next = Fall(more, i, n + 1)
      BY <1>9, <1>10, <2>1, <3>6 DEF Fall, next, drop
    <3>8. ValueOf(more, i) > ValueOf(more, n + 1) BY <1>9, <1>10, <1>2, <3>5, <3>6
    <3>9. i < n + 1 /\ i \in 0..(n + 1) /\ n + 1 \in 0..(n + 1) OBVIOUS
    <3> QED BY <3>7, <3>8, <3>9 DEF IsFall
  <2>2. CASE ~Deeper(drop, deepest)
    <3>1. next = deepest BY <2>2 DEF next
    <3>2. CASE deepest = NoDrawdown BY <3>1, <3>2 DEF IsFall
    <3>3. ASSUME NEW i \in 0..n, NEW j \in 0..n, i < j,
                 ValueOf(line, i) > ValueOf(line, j), deepest = Fall(line, i, j)
          PROVE  IsFall(more, n + 1, next)
      <4>1. next = Fall(more, i, j) BY <1>9, <3>1, <3>3 DEF Fall
      <4>2. i \in 0..(n + 1) /\ j \in 0..(n + 1) OBVIOUS
      <4> QED BY <1>9, <3>3, <4>1, <4>2 DEF IsFall
    <3> QED BY <3>2, <3>3 DEF IsFall
  <2> QED BY <2>1, <2>2
<1>16. top \in Int BY <1>2
<1> QED BY <1>1, <1>2, <1>5, <1>12, <1>14, <1>15, <1>16 DEF more, top, next, drop

DrawdownInv ==
    IsPeak(curve, index, peak) /\ NoneDeeper(curve, index, drawdown)
    /\ IsFall(curve, index, drawdown)

\* What a new engine and a reset one have in common.
FreshInv == AccountOK /\ TimesOK /\ PerformanceOK /\ BooksFollowOrders
            /\ FilledAtFirstChance /\ DrawdownInv

\* No order was placed, and the only value is the initial capital.
LEMMA FreshIsRight == Fresh => FreshInv
<1> SUFFICES ASSUME Fresh PROVE FreshInv OBVIOUS
<1>0. Capital \in Nat \ {0} /\ Points \in Nat BY EngineAssumption DEF EngineAssumption
<1>1. /\ index = 0 /\ orders = <<>> /\ cash = Capital /\ positions = NoPositions
      /\ trades = <<>> /\ curve = <<>> /\ peak = Capital /\ drawdown = NoDrawdown
  BY DEF Fresh
<1>2. DOMAIN orders = {} /\ Len(trades) = 0 /\ Len(curve) = 0 BY <1>1
<1>3. AccountOK BY <1>0, <1>1 DEF AccountOK, NoPositions
<1>4. TimesOK BY <1>0, <1>1, <1>2 DEF TimesOK
<1>5. PerformanceOK
  <2>1. drawdown \in DrawdownSet BY <1>1 DEF DrawdownSet, NoDrawdown
  <2> QED BY <1>0, <1>1, <1>2, <2>1 DEF PerformanceOK
<1>6. BooksFollowOrders
  <2>1. \A q : q \in Seq(Int) /\ Len(q) = Len(orders) => Total(q) = 0
    <3>1. \A q : q \in Seq(Int) /\ Len(q) = 0 => q = <<>> OBVIOUS
    <3> QED BY <1>1, <3>1, TotalOfNothing
  <2>2. orders \in Seq(OrderSet) BY <1>1
  <2>3. /\ Total(Counts(orders)) = 0 /\ Total(Expenses(orders)) = 0
        /\ \A s \in Symbols : Total(Changes(orders, s)) = 0
    BY <2>1, <2>2, AmountsTyped, EngineAssumption
  <2> QED BY <1>0, <1>1, <1>2, <2>3 DEF BooksFollowOrders, NoPositions
<1>7. FilledAtFirstChance BY <1>2 DEF FilledAtFirstChance
<1>8. DrawdownInv
  <2>1. IsPeak(curve, index, peak) BY <1>0, <1>1 DEF IsPeak, ValueOf
  <2>2. NoneDeeper(curve, index, drawdown) BY <1>1 DEF NoneDeeper
  <2>3. IsFall(curve, index, drawdown) BY <1>1 DEF IsFall
  <2> QED BY <2>1, <2>2, <2>3 DEF DrawdownInv
<1> QED BY <1>3, <1>4, <1>5, <1>6, <1>7, <1>8 DEF FreshInv

\* The same after reset().
LEMMA ResetIsRight == Reset => FreshInv'
<1>1. Reset => Fresh' BY DEF Reset, Fresh
<1>2. Fresh' => FreshInv' BY FreshIsRight, PTL
<1> QED BY <1>1, <1>2

\* step() tracks the equity of the account it leaves.
LEMMA StepTracks ==
  ASSUME EngineOK, BooksFollowOrders, DrawdownInv, Step
  PROVE  PerformanceOK' /\ DrawdownInv'
<1> DEFINE e == Equity(cash', positions', data[index + 1])
<1>1. index < Len(data) /\ TrackEquity(e) /\ index' = index + 1 BY DEF Step
<1>2. AccountOK' /\ AtPoint(BooksNow, orders, index + 1, data[index + 1]) BY StepProcesses
<1>3. e \in Int
  <2>1. data[index + 1] \in PointSet BY <1>2 DEF AtPoint
  <2>2. data[index + 1].symbol \in Symbols /\ data[index + 1].close \in Nat
    BY <2>1, EngineAssumption DEF PointSet, EngineAssumption
  <2>3. cash' \in Int /\ positions'[data[index + 1].symbol] \in Int
    BY <1>2, <2>2 DEF AccountOK
  <2>4. \A c, p \in Int, d \in Nat : c + p * d \in Int OBVIOUS
  <2> QED BY <2>2, <2>3, <2>4 DEF Equity
<1> HIDE DEF e
<1>4. PerformanceOK /\ index \in Nat BY AtNow, <1>1 DEF EngineOK
<1>5. /\ curve \in Seq(Int) /\ Len(curve) = index /\ peak \in Int /\ peak >= Capital
      /\ drawdown \in DrawdownSet
  BY <1>4 DEF PerformanceOK
<1>6. /\ IsPeak(curve, index, peak) /\ NoneDeeper(curve, index, drawdown)
      /\ IsFall(curve, index, drawdown)
  BY DEF DrawdownInv
<1> DEFINE top == IF e > peak THEN e ELSE peak
           drop == [loss |-> top - e, of |-> top]
           next == IF Deeper(drop, drawdown) THEN drop ELSE drawdown
<1>7. /\ Append(curve, e) \in Seq(Int) /\ Len(Append(curve, e)) = index + 1
      /\ top \in Int /\ top >= Capital /\ IsPeak(Append(curve, e), index + 1, top)
      /\ next \in DrawdownSet
      /\ NoneDeeper(Append(curve, e), index + 1, next)
      /\ IsFall(Append(curve, e), index + 1, next)
  BY <1>3, <1>4, <1>5, <1>6, TrackedWorst, EngineAssumption
<1>8. curve' = Append(curve, e) /\ peak' = top /\ drawdown' = next
  BY <1>1 DEF TrackEquity
<1> HIDE DEF top, next
<1>9. PerformanceOK' BY <1>1, <1>7, <1>8 DEF PerformanceOK
<1>10. DrawdownInv' BY <1>1, <1>7, <1>8 DEF DrawdownInv
<1> QED BY <1>9, <1>10

-----------------------------------------------------------------------------
(* A run is the replay of its data and strategy.                           *)

EngineNow == [index |-> index, cash |-> cash, positions |-> positions, orders |-> orders,
              trades |-> trades, curve |-> curve, peak |-> peak, drawdown |-> drawdown]

FreshEngine ==
  [index |-> 0, cash |-> Capital, positions |-> NoPositions, orders |-> <<>>,
   trades |-> <<>>, curve |-> <<>>, peak |-> Capital, drawdown |-> NoDrawdown]

\* The engine after place_order() and after step().
Ordered(e, moves) ==
  [index |-> e.index, cash |-> e.cash, positions |-> e.positions,
   orders |-> e.orders \o [k \in DOMAIN moves |->
                             [move |-> moves[k], status |-> "PENDING", placed |-> e.index,
                              at |-> 0, price |-> 0]],
   trades |-> e.trades, curve |-> e.curve, peak |-> e.peak, drawdown |-> e.drawdown]

Stepped(e, point) ==
  LET i == e.index + 1
      after == Processed([cash |-> e.cash, positions |-> e.positions, trades |-> e.trades],
                         e.orders, i, point)
      equity == Equity(after.cash, after.positions, point)
      top == IF equity > e.peak THEN equity ELSE e.peak
      drop == [loss |-> top - equity, of |-> top]
  IN  [index |-> i, cash |-> after.cash, positions |-> after.positions,
       orders |-> Settled(e.orders, i, point), trades |-> after.trades,
       curve |-> Append(e.curve, equity), peak |-> top,
       drawdown |-> IF Deeper(drop, e.drawdown) THEN drop ELSE e.drawdown]

\* The engine once the strategy s was shown what follows the first i data points.
Shown(e, i, s) == IF i = 0 \/ i = Points THEN e ELSE Ordered(e, s[i + 1])

\* R is the replay of the first n of the data points d under the strategy s.
IsReplay(R, n, d, s) ==
  /\ R[0] = FreshEngine
  /\ \A i \in 1..n : R[i] = Stepped(Shown(R[i - 1], i - 1, s), d[i])

ResultOf(e) ==
  [mode |-> "run", equity |-> IF e.curve = <<>> THEN Capital ELSE Last(e.curve),
   drawdown |-> e.drawdown, trades |-> e.trades, won |-> Len(e.trades),
   commission |-> Commission * Len(e.trades)]

\* run() is in the middle of the replay, and what it returned are its results.
RunIsReplay ==
  /\ caller # "idle" =>
       \E R : /\ IsReplay(R, index, data, strategy)
              /\ EngineNow = IF caller = "strategy" THEN R[index]
                             ELSE Shown(R[index], index, strategy)
  /\ \A a \in DOMAIN results :
       results[a].mode = "run" =>
         \E R : IsReplay(R, Points, data, strategy) /\ results[a] = ResultOf(R[Points])

\* There is one replay of the same data under the same strategy.
LEMMA OneReplay ==
  ASSUME NEW n \in Nat, NEW d, NEW s, NEW R, NEW Q, IsReplay(R, n, d, s), IsReplay(Q, n, d, s)
  PROVE  R[n] = Q[n]
<1> DEFINE T == {i \in Nat : i <= n => R[i] = Q[i]}
<1>1. 0 \in T BY DEF IsReplay
<1>2. ASSUME NEW i \in T PROVE i + 1 \in T
  <2> SUFFICES ASSUME i + 1 <= n PROVE R[i + 1] = Q[i + 1] OBVIOUS
  <2>1. i + 1 \in 1..n /\ (i + 1) - 1 = i OBVIOUS
  <2>2. R[i] = Q[i] OBVIOUS
  <2>3. /\ R[i + 1] = Stepped(Shown(R[i], i, s), d[i + 1])
        /\ Q[i + 1] = Stepped(Shown(Q[i], i, s), d[i + 1])
    BY <2>1 DEF IsReplay
  <2> QED BY <2>2, <2>3
<1>3. T = Nat
  <2> HIDE DEF T
  <2> QED BY <1>1, <1>2, SetInduction, T \subseteq Nat DEF T
<1> QED BY <1>3

\* Runs that are replays return the same results.
LEMMA ReplaysAgree == RunIsReplay => RerunIsFresh
<1> SUFFICES ASSUME RunIsReplay, NEW a \in DOMAIN results, NEW b \in DOMAIN results,
                    results[a].mode = "run", results[b].mode = "run"
             PROVE  results[a] = results[b]
  BY DEF RerunIsFresh
<1>1. PICK R : IsReplay(R, Points, data, strategy) /\ results[a] = ResultOf(R[Points])
  BY DEF RunIsReplay
<1>2. PICK Q : IsReplay(Q, Points, data, strategy) /\ results[b] = ResultOf(Q[Points])
  BY DEF RunIsReplay
<1>3. Points \in Nat BY EngineAssumption DEF EngineAssumption
<1>4. R[Points] = Q[Points] BY <1>1, <1>2, <1>3, OneReplay
<1> QED BY <1>1, <1>2, <1>4

\* The actions in these terms.
LEMMA StepIsStepped == Step => EngineNow' = Stepped(EngineNow, data[index + 1])
BY DEF Step, ProcessOrders, TrackEquity, EngineNow, Stepped

\* place_order() adds to the orders only.
LEMMA PlaceIsOrdered ==
  ASSUME NEW moves, PlaceOrders(moves), UNCHANGED <<index, books, performance>>
  PROVE  EngineNow' = Ordered(EngineNow, moves)
BY DEF PlaceOrders, Order, EngineNow, Ordered, books, performance

\* One more step of the replay.
LEMMA ReplayGoesOn ==
  ASSUME NEW n \in Nat, NEW d, NEW s, NEW R, IsReplay(R, n, d, s)
  PROVE  \E Q : IsReplay(Q, n + 1, d, s)
                /\ Q[n + 1] = Stepped(Shown(R[n], n, s), d[n + 1])
<1> DEFINE new == Stepped(Shown(R[n], n, s), d[n + 1])
           Q == [i \in 0..(n + 1) |-> IF i = n + 1 THEN new ELSE R[i]]
<1> HIDE DEF new
<1>1. Q[0] = R[0] /\ Q[n + 1] = new /\ \A i \in 0..n : Q[i] = R[i] OBVIOUS
<1> HIDE DEF Q
<1>2. ASSUME NEW i \in 1..(n + 1)
      PROVE  Q[i] = Stepped(Shown(Q[i - 1], i - 1, s), d[i])
  <2>1. CASE i = n + 1
    <3>1. i - 1 = n /\ Q[n] = R[n] BY <1>1, <2>1
    <3> QED BY <1>1, <2>1, <3>1 DEF new
  <2>2. CASE i # n + 1
    <3>1. i \in 1..n /\ i - 1 \in 0..n /\ i \in 0..n BY <2>2
    <3>2. R[i] = Stepped(Shown(R[i - 1], i - 1, s), d[i]) BY <3>1 DEF IsReplay
    <3> QED BY <1>1, <3>1, <3>2
  <2> QED BY <2>1, <2>2
<1>3. IsReplay(Q, n + 1, d, s) BY <1>1, <1>2 DEF IsReplay
<1> QED BY <1>1, <1>3 DEF new

\* The inductive invariant.
ReplayIInv ==
    /\ EngineOK /\ BooksFollowOrders /\ FilledAtFirstChance /\ DrawdownInv /\ RunIsReplay

\* Everything starts fresh.
LEMMA InitReplays == Init => ReplayIInv
<1> SUFFICES ASSUME Init PROVE ReplayIInv OBVIOUS
<1>1. FreshInv BY FreshIsRight DEF Init
<1>2. InputsOK BY DEF Init, InputsOK, PointSet
<1>3. DriverOK
  <2>1. MaxManual \in Nat /\ MaxRuns \in Nat BY EngineAssumption DEF EngineAssumption
  <2> QED BY <2>1 DEF Init, DriverOK
<1>4. RunIsReplay
  <2>1. caller = "idle" /\ DOMAIN results = {} BY DEF Init
  <2> QED BY <2>1 DEF RunIsReplay
<1> QED BY <1>1, <1>2, <1>3, <1>4 DEF ReplayIInv, EngineOK, FreshInv

\* What the steps by hand and of run() have in common.
LEMMA StepKeeps ==
  ASSUME ReplayIInv, Step, UNCHANGED inputs
  PROVE  InputsOK' /\ AccountOK' /\ TimesOK' /\ PerformanceOK'
         /\ BooksFollowOrders' /\ FilledAtFirstChance' /\ DrawdownInv'
<1>1. /\ EngineOK /\ BooksFollowOrders /\ FilledAtFirstChance /\ DrawdownInv
      /\ UNCHANGED data
  BY DEF ReplayIInv, inputs
<1>2. InputsOK' BY <1>1 DEF EngineOK, InputsOK, inputs
<1>3. AccountOK' /\ BooksFollowOrders' BY <1>1, StepProcesses
<1>4. TimesOK' /\ FilledAtFirstChance' BY <1>1, StepFillsFirst
<1>5. PerformanceOK' /\ DrawdownInv' BY <1>1, StepTracks
<1> QED BY <1>2, <1>3, <1>4, <1>5

\* What placing orders by hand and by a strategy have in common.
LEMMA PlacingKeeps ==
  ASSUME ReplayIInv, NEW moves \in Strategies, PlaceOrders(moves),
         UNCHANGED <<inputs, index, books, performance>>
  PROVE  InputsOK' /\ AccountOK' /\ TimesOK' /\ PerformanceOK'
         /\ BooksFollowOrders' /\ FilledAtFirstChance' /\ DrawdownInv'
<1>1. /\ EngineOK /\ BooksFollowOrders /\ FilledAtFirstChance /\ DrawdownInv
      /\ UNCHANGED <<data, strategy, index, cash, positions, trades, curve, peak, drawdown>>
  BY DEF ReplayIInv, inputs, books, performance
<1>2. InputsOK' BY <1>1 DEF EngineOK, InputsOK
<1>3. AccountOK' /\ BooksFollowOrders' /\ TimesOK' BY <1>1, PlaceOrdersKeeps
<1>4. FilledAtFirstChance' BY <1>1, PlacedHadNoChance
<1>5. PerformanceOK' BY <1>1 DEF EngineOK, PerformanceOK
<1>6. DrawdownInv' BY <1>1 DEF DrawdownInv
<1> QED BY <1>2, <1>3, <1>4, <1>5, <1>6

\* What run() returns is a result.
LEMMA ResultsTyped ==
  ASSUME EngineOK
  PROVE  /\ Results("run") \in ResultSet /\ Results("run") = ResultOf(EngineNow)
         /\ NothingTraded \in ResultSet
<1>1. /\ curve \in Seq(Int) /\ drawdown \in DrawdownSet /\ trades \in Seq(TradeSet)
  BY DEF EngineOK, PerformanceOK, AccountOK
<1>2. Capital \in Int /\ Commission \in Nat BY EngineAssumption DEF EngineAssumption
<1>3. (IF curve = <<>> THEN Capital ELSE Last(curve)) \in Int
  <2>1. curve # <<>> => Len(curve) \in 1..Len(curve) BY <1>1
  <2>2. curve # <<>> => curve[Len(curve)] \in Int BY <1>1, <2>1
  <2> QED BY <1>2, <2>2 DEF Last
<1>4. Len(trades) \in Nat BY <1>1
<1>5. Commission * Len(trades) \in Nat BY <1>2, <1>4
<1>6. Results("run") \in ResultSet
  <2> DEFINE v == IF curve = <<>> THEN Capital ELSE Last(curve)
  <2>1. v \in Int BY <1>3
  <2>2. Results("run") = [mode |-> "run", equity |-> v, drawdown |-> drawdown,
                          trades |-> trades, won |-> Len(trades),
                          commission |-> Commission * Len(trades)]
    BY DEF Results
  <2> HIDE DEF v
  <2> QED BY <1>1, <1>4, <1>5, <2>1, <2>2 DEF ResultSet
<1>7. Results("run") = ResultOf(EngineNow) BY DEF Results, ResultOf, EngineNow
<1>8. NothingTraded \in ResultSet
  <2>1. NoDrawdown \in DrawdownSet BY DEF NoDrawdown, DrawdownSet
  <2>2. <<>> \in Seq(TradeSet) OBVIOUS
  <2> QED BY <1>2, <2>1, <2>2 DEF NothingTraded, ResultSet
<1> QED BY <1>6, <1>7, <1>8

\* What happens outside of run() does not touch its results.
LEMMA IdleKeepsReplay ==
  ASSUME RunIsReplay, UNCHANGED <<inputs, results>>, caller' = "idle"
  PROVE  RunIsReplay'
BY DEF RunIsReplay, inputs

\* One more result.
LEMMA AppendResult ==
  ASSUME EngineOK, NEW r \in ResultSet, results' = Append(results, r), Len(results) < MaxRuns
  PROVE  /\ results' \in Seq(ResultSet) /\ Len(results') <= MaxRuns
         /\ \A a \in DOMAIN results' : \/ a \in DOMAIN results /\ results'[a] = results[a]
                                       \/ results'[a] = r
<1>1. results \in Seq(ResultSet) /\ MaxRuns \in Nat
  BY EngineAssumption DEF EngineOK, DriverOK, EngineAssumption
<1> QED BY <1>1

\* Each action keeps the invariant.
LEMMA ByHandReplays == ReplayIInv /\ (PlaceOrderByHand \/ StepByHand) => ReplayIInv'
<1> SUFFICES ASSUME ReplayIInv, PlaceOrderByHand \/ StepByHand PROVE ReplayIInv' OBVIOUS
<1>1. EngineOK /\ RunIsReplay /\ DriverOK BY DEF ReplayIInv, EngineOK
<1>2. InputsOK' /\ AccountOK' /\ TimesOK' /\ PerformanceOK'
      /\ BooksFollowOrders' /\ FilledAtFirstChance' /\ DrawdownInv'
  <2>1. CASE PlaceOrderByHand
    <3>1. PICK moves \in Strategies : PlaceOrders(moves) BY <2>1 DEF PlaceOrderByHand
    <3> QED BY <2>1, <3>1, PlacingKeeps DEF PlaceOrderByHand
  <2>2. CASE StepByHand BY <2>2, StepKeeps DEF StepByHand
  <2> QED BY <2>1, <2>2
<1>3. UNCHANGED <<inputs, results>> /\ caller' = "idle"
  BY DEF PlaceOrderByHand, StepByHand
<1>4. DriverOK'
  <2>1. MaxManual \in Nat BY EngineAssumption DEF EngineAssumption
  <2>2. manual' \in 0..MaxManual
    BY <1>1, <2>1 DEF PlaceOrderByHand, StepByHand, DriverOK
  <2> QED BY <1>1, <1>3, <2>2 DEF DriverOK
<1>5. RunIsReplay' BY <1>1, <1>3, IdleKeepsReplay
<1> QED BY <1>2, <1>4, <1>5 DEF ReplayIInv, EngineOK

\* run() begins with a new engine.
LEMMA RunReplays == ReplayIInv /\ (Run \/ RunStepMode) => ReplayIInv'
<1> SUFFICES ASSUME ReplayIInv, Run \/ RunStepMode PROVE ReplayIInv' OBVIOUS
<1>1. EngineOK /\ RunIsReplay /\ DriverOK /\ InputsOK BY DEF ReplayIInv, EngineOK
<1>2. Reset /\ UNCHANGED inputs /\ caller = "idle" /\ Len(results) < MaxRuns
      /\ manual' = manual
  BY DEF Run, RunStepMode
<1>3. FreshInv' BY <1>2, ResetIsRight
<1>4. InputsOK' BY <1>1, <1>2 DEF InputsOK, inputs
<1>5. index' = 0 /\ EngineNow' = FreshEngine
  BY <1>2 DEF Reset, EngineNow, FreshEngine
<1>6. CASE Run
  <2>1. caller' = "stepping" /\ results' = results BY <1>6 DEF Run
  <2>2. DriverOK' BY <1>1, <1>2, <2>1 DEF DriverOK
  <2>3. RunIsReplay'
    <3> DEFINE R == [i \in {0} |-> FreshEngine]
    <3>1. IsReplay(R, index', data', strategy') BY <1>5 DEF IsReplay
    <3>2. EngineNow' = Shown(R[index'], index', strategy') BY <1>5 DEF Shown
    <3>3. UNCHANGED <<data, strategy, results>> BY <1>2, <2>1 DEF inputs
    <3> HIDE DEF R
    <3> QED BY <1>1, <2>1, <3>1, <3>2, <3>3 DEF RunIsReplay
  <2> QED BY <1>3, <1>4, <2>2, <2>3 DEF ReplayIInv, EngineOK, FreshInv
<1>7. CASE RunStepMode
  <2>1. caller' = "idle" /\ results' = Append(results, NothingTraded)
    BY <1>7 DEF RunStepMode
  <2>2. NothingTraded \in ResultSet BY <1>1, ResultsTyped
  <2>3. /\ results' \in Seq(ResultSet) /\ Len(results') <= MaxRuns
        /\ \A a \in DOMAIN results' : \/ a \in DOMAIN results /\ results'[a] = results[a]
                                      \/ results'[a] = NothingTraded
    BY <1>1, <1>2, <2>1, <2>2, AppendResult
  <2>4. DriverOK' BY <1>1, <1>2, <2>1, <2>3 DEF DriverOK
  <2>5. RunIsReplay'
    <3>1. NothingTraded.mode # "run" BY DEF NothingTraded
    <3>2. UNCHANGED <<data, strategy>> BY <1>2 DEF inputs
    <3>3. \A a \in DOMAIN results' :
            results'[a].mode = "run" => a \in DOMAIN results /\ results'[a] = results[a]
      BY <2>3, <3>1
    <3> QED BY <1>1, <2>1, <3>2, <3>3 DEF RunIsReplay
  <2> QED BY <1>3, <1>4, <2>4, <2>5 DEF ReplayIInv, EngineOK, FreshInv
<1> QED BY <1>6, <1>7

\* One step of run().
LEMMA RunStepReplays == ReplayIInv /\ RunStep => ReplayIInv'
<1> SUFFICES ASSUME ReplayIInv, RunStep PROVE ReplayIInv' OBVIOUS
<1>1. EngineOK /\ RunIsReplay /\ DriverOK BY DEF ReplayIInv, EngineOK
<1>2. /\ caller = "stepping" /\ Step /\ UNCHANGED <<inputs, manual, results>>
      /\ caller' = IF index + 1 < Len(data) THEN "strategy" ELSE "stepping"
  BY DEF RunStep
<1>3. InputsOK' /\ AccountOK' /\ TimesOK' /\ PerformanceOK'
      /\ BooksFollowOrders' /\ FilledAtFirstChance' /\ DrawdownInv'
  BY <1>2, StepKeeps
<1>4. /\ index' = index + 1 /\ index + 1 \in 1..Points /\ index \in Nat /\ index < Points
      /\ Len(data) = Points /\ Points \in Nat
  BY <1>1, <1>2, AtNow, EngineAssumption DEF Step, EngineAssumption
<1>5. DriverOK' BY <1>1, <1>2, <1>4 DEF DriverOK
<1>6. RunIsReplay'
  <2>1. PICK R : IsReplay(R, index, data, strategy)
                 /\ EngineNow = Shown(R[index], index, strategy)
    BY <1>1, <1>2 DEF RunIsReplay
  <2>2. PICK Q : IsReplay(Q, index + 1, data, strategy)
                 /\ Q[index + 1] = Stepped(Shown(R[index], index, strategy), data[index + 1])
    BY <1>4, <2>1, ReplayGoesOn
  <2>3. EngineNow' = Q[index']
    BY <1>2, <1>4, <2>1, <2>2, StepIsStepped
  <2>4. UNCHANGED <<data, strategy, results>> BY <1>2 DEF inputs
  <2>5. caller' # "strategy" => Shown(Q[index'], index', strategy') = Q[index']
    BY <1>2, <1>4 DEF Shown
  <2>6. IsReplay(Q, index', data', strategy') BY <1>4, <2>2, <2>4
  <2>7. \A a \in DOMAIN results' :
          results'[a].mode = "run" =>
            \E P : IsReplay(P, Points, data', strategy') /\ results'[a] = ResultOf(P[Points])
    BY <1>1, <2>4 DEF RunIsReplay
  <2> QED BY <2>3, <2>5, <2>6, <2>7 DEF RunIsReplay
<1> QED BY <1>3, <1>5, <1>6 DEF ReplayIInv, EngineOK

\* The strategy is shown the next data point.
LEMMA CallStrategyReplays == ReplayIInv /\ CallStrategy => ReplayIInv'
<1> SUFFICES ASSUME ReplayIInv, CallStrategy PROVE ReplayIInv' OBVIOUS
<1>1. EngineOK /\ RunIsReplay /\ DriverOK /\ InputsOK BY DEF ReplayIInv, EngineOK
<1>2. /\ caller = "strategy" /\ PlaceOrders(strategy[index + 1]) /\ caller' = "stepping"
      /\ UNCHANGED <<inputs, manual, index, books, performance, results>>
  BY DEF CallStrategy
<1>3. index \in 1..(Points - 1) /\ Points \in Nat
  BY <1>1, <1>2, EngineAssumption DEF DriverOK, EngineAssumption
<1>4. strategy[index + 1] \in Strategies
  <2>1. index + 1 \in 2..Points BY <1>3
  <2> QED BY <1>1, <2>1 DEF InputsOK
<1>5. InputsOK' /\ AccountOK' /\ TimesOK' /\ PerformanceOK'
      /\ BooksFollowOrders' /\ FilledAtFirstChance' /\ DrawdownInv'
  BY <1>2, <1>4, PlacingKeeps
<1>6. DriverOK' BY <1>1, <1>2 DEF DriverOK
<1>7. RunIsReplay'
  <2>1. PICK R : IsReplay(R, index, data, strategy) /\ EngineNow = R[index]
    BY <1>1, <1>2 DEF RunIsReplay
  <2>2. EngineNow' = Ordered(R[index], strategy[index + 1])
    BY <1>2, <2>1, PlaceIsOrdered
  <2>3. UNCHANGED <<data, strategy, results, index>> BY <1>2 DEF inputs
  <2>4. EngineNow' = Shown(R[index'], index', strategy')
    BY <1>3, <2>2, <2>3 DEF Shown
  <2>5. IsReplay(R, index', data', strategy') BY <2>1, <2>3
  <2>6. \A a \in DOMAIN results' :
          results'[a].mode = "run" =>
            \E P : IsReplay(P, Points, data', strategy') /\ results'[a] = ResultOf(P[Points])
    BY <1>1, <2>3 DEF RunIsReplay
  <2> QED BY <1>2, <2>4, <2>5, <2>6 DEF RunIsReplay
<1> QED BY <1>5, <1>6, <1>7 DEF ReplayIInv, EngineOK

\* run() returns the results of the replay.
LEMMA EndRunReplays == ReplayIInv /\ EndRun => ReplayIInv'
<1> SUFFICES ASSUME ReplayIInv, EndRun PROVE ReplayIInv' OBVIOUS
<1>1. /\ EngineOK /\ RunIsReplay /\ DriverOK /\ InputsOK /\ AccountOK /\ TimesOK
      /\ PerformanceOK /\ BooksFollowOrders /\ FilledAtFirstChance /\ DrawdownInv
  BY DEF ReplayIInv, EngineOK
<1>2. /\ caller = "stepping" /\ index = Len(data) /\ caller' = "idle"
      /\ results' = Append(results, Results("run")) /\ UNCHANGED <<inputs, manual, engine>>
  BY DEF EndRun
<1>3. UNCHANGED <<data, strategy, index, orders, cash, positions, trades, curve, peak, drawdown>>
  BY <1>2 DEF inputs, engine, books, performance
<1>4. Points \in Nat /\ Len(data) = Points
  BY <1>1, EngineAssumption DEF EngineAssumption, InputsOK
<1>5. Len(results) < MaxRuns BY <1>1, <1>2 DEF DriverOK
<1>6. Results("run") \in ResultSet /\ Results("run") = ResultOf(EngineNow)
  BY <1>1, ResultsTyped
<1>7. /\ results' \in Seq(ResultSet) /\ Len(results') <= MaxRuns
      /\ \A a \in DOMAIN results' : \/ a \in DOMAIN results /\ results'[a] = results[a]
                                    \/ results'[a] = Results("run")
  BY <1>1, <1>2, <1>5, <1>6, AppendResult
<1>8. DriverOK' BY <1>1, <1>2, <1>3, <1>7 DEF DriverOK
<1>9. InputsOK' /\ AccountOK' /\ TimesOK' /\ PerformanceOK' /\ DrawdownInv'
  BY <1>1, <1>3 DEF InputsOK, AccountOK, TimesOK, PerformanceOK, DrawdownInv
<1>10. BooksFollowOrders' BY <1>1, <1>3 DEF BooksFollowOrders
<1>11. FilledAtFirstChance' BY <1>1, <1>3, FirstChances
<1>12. RunIsReplay'
  <2>1. PICK R : IsReplay(R, index, data, strategy)
                 /\ EngineNow = Shown(R[index], index, strategy)
    BY <1>1, <1>2 DEF RunIsReplay
  <2>2. EngineNow = R[Points] BY <1>2, <1>4, <2>1 DEF Shown
  <2>3. Results("run") = ResultOf(R[Points]) /\ IsReplay(R, Points, data, strategy)
    BY <1>2, <1>4, <1>6, <2>1, <2>2
  <2>4. \A a \in DOMAIN results' :
          results'[a].mode = "run" =>
            \E P : IsReplay(P, Points, data, strategy) /\ results'[a] = ResultOf(P[Points])
    <3> SUFFICES ASSUME NEW a \in DOMAIN results', results'[a].mode = "run"
                 PROVE  \E P : IsReplay(P, Points, data, strategy)
                               /\ results'[a] = ResultOf(P[Points])
      OBVIOUS
    <3>1. CASE a \in DOMAIN results /\ results'[a] = results[a]
      BY <1>1, <3>1 DEF RunIsReplay
    <3>2. CASE results'[a] = Results("run") BY <2>3, <3>2
    <3> QED BY <1>7, <3>1, <3>2
  <2> QED BY <1>2, <1>3, <2>4 DEF RunIsReplay
<1> QED BY <1>8, <1>9, <1>10, <1>11, <1>12 DEF ReplayIInv, EngineOK

\* The inductive invariant is kept by every step.
LEMMA NextReplays == ReplayIInv /\ [Next]_vars => ReplayIInv'
<1> SUFFICES ASSUME ReplayIInv, [Next]_vars PROVE ReplayIInv' OBVIOUS
<1>1. CASE UNCHANGED vars
  <2>1. /\ EngineOK /\ RunIsReplay /\ BooksFollowOrders /\ FilledAtFirstChance /\ DrawdownInv
    BY DEF ReplayIInv
  <2>2. /\ UNCHANGED <<data, strategy, caller, manual, results, index, orders, cash>>
        /\ UNCHANGED <<positions, trades, curve, peak, drawdown>>
    BY <1>1 DEF vars, inputs, engine, books, performance
  <2>3. EngineOK'
    BY <2>1, <2>2 DEF EngineOK, InputsOK, AccountOK, TimesOK, PerformanceOK, DriverOK
  <2>4. BooksFollowOrders' BY <2>1, <2>2 DEF BooksFollowOrders
  <2>5. FilledAtFirstChance' BY <2>1, <2>2, FirstChances
  <2>6. DrawdownInv' BY <2>1, <2>2 DEF DrawdownInv
  <2>7. RunIsReplay' BY <2>1, <2>2 DEF RunIsReplay, EngineNow
  <2> QED BY <2>3, <2>4, <2>5, <2>6, <2>7 DEF ReplayIInv
<1>2. CASE PlaceOrderByHand \/ StepByHand BY <1>2, ByHandReplays
<1>3. CASE Run \/ RunStepMode BY <1>3, RunReplays
<1>4. CASE RunStep BY <1>4, RunStepReplays
<1>5. CASE CallStrategy BY <1>5, CallStrategyReplays
<1>6. CASE EndRun BY <1>6, EndRunReplays
<1> QED BY <1>1, <1>2, <1>3, <1>4, <1>5, <1>6 DEF Next

\* The inductive invariant holds of every replay and of every engine used by hand.
LEMMA EngineReplays == Spec => []ReplayIInv
BY InitReplays, NextReplays, PTL DEF Spec

\* Orders are filled at their first chance, the books follow them, the drawdown is
\* the worst fall, and a run returns the same results whatever the engine did before
\* (_process_orders(), _execute_order(), step(), reset() and run()).
THEOREM ReplayIsRight == Spec => []ReplayInv
<1>1. ReplayIInv => ReplayInv
  <2> SUFFICES ASSUME ReplayIInv PROVE ReplayInv OBVIOUS
  <2>1. EngineOK /\ BooksFollowOrders /\ FilledAtFirstChance /\ DrawdownInv /\ RunIsReplay
    BY DEF ReplayIInv
  <2>2. DrawdownIsWorst BY <2>1, WorstDrawdown DEF DrawdownInv
  <2> QED BY <2>1, <2>2, EngineTypes, ReplaysAgree DEF ReplayInv
<1> QED BY <1>1, EngineReplays, PTL

\* A step that fills orders makes nobody richer at the close of its data point, and
\* every trade costs its commission (_execute_order()).
LEMMA StepGainsNothing ==
  ASSUME ReplayIInv, Step
  PROVE  Equity(cash', positions', data[index'])
           <= Equity(cash, positions, data[index']) - Commission * (Len(trades') - Len(trades))
<1>1. EngineOK /\ BooksFollowOrders BY DEF ReplayIInv
<1>2. /\ AtPoint(BooksNow, orders, index + 1, data[index + 1])
      /\ BooksNow' = Processed(BooksNow, orders, index + 1, data[index + 1])
  BY <1>1, StepProcesses
<1>3. index' = index + 1 BY DEF Step
<1>4. /\ BooksNow.cash = cash /\ BooksNow.positions = positions /\ BooksNow.trades = trades
      /\ BooksNow'.cash = cash' /\ BooksNow'.positions = positions'
      /\ BooksNow'.trades = trades'
  BY DEF BooksNow
<1>5. LET after == Processed(BooksNow, orders, index + 1, data[index + 1])
      IN  Equity(after.cash, after.positions, data[index + 1])
            <= Equity(BooksNow.cash, BooksNow.positions, data[index + 1])
                 - Commission * (Len(after.trades) - Len(BooksNow.trades))
  BY <1>2, ProcessGainsNothing
<1> QED BY <1>2, <1>3, <1>4, <1>5

\* Trading gains nothing: slippage and limits work against the strategy.
THEOREM TradingGainsNothing == Spec => NoGainFromTrading
<1> DEFINE A == index' = index + 1 =>
                  Equity(cash', positions', data[index'])
                    <= Equity(cash, positions, data[index'])
                         - Commission * (Len(trades') - Len(trades))
<1>1. ReplayIInv /\ [Next]_vars => [A]_vars
  <2> SUFFICES ASSUME ReplayIInv, Next, index' = index + 1
               PROVE  Equity(cash', positions', data[index'])
                        <= Equity(cash, positions, data[index'])
                             - Commission * (Len(trades') - Len(trades))
    OBVIOUS
  <2>1. index \in Nat BY EngineAssumption DEF ReplayIInv, EngineOK, TimesOK, EngineAssumption
  <2>2. index' # index /\ index' # 0 BY <2>1
  <2>3. StepByHand \/ RunStep
    BY <2>2 DEF Next, PlaceOrderByHand, Run, RunStepMode, Reset, CallStrategy, EndRun, engine
  <2>4. Step BY <2>3 DEF StepByHand, RunStep
  <2> QED BY <2>4, StepGainsNothing
<1>2. Spec => [][A]_vars
  <2> HIDE DEF A
  <2> QED BY <1>1, EngineReplays, PTL DEF Spec
<1> QED BY <1>2 DEF NoGainFromTrading
=============================================================================
