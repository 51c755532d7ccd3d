------------------------------ MODULE PnL_proofs ------------------------------
(***************************************************************************)
(* The tables of the P&L service and the mails of the report worker, for   *)
(* any followers, days, values, rates and runs: a day is filed as it       *)
(* closed, a month is the sum of its days, it is billed once and for       *)
(* everybody, the total that was billed stands, and it is mailed.          *)
(***************************************************************************)
EXTENDS PnLProperties, Sums_proofs

\* A sequence that is at most one long and not empty.
LEMMA OneLong ==
  ASSUME NEW S, NEW s \in Seq(S), Len(s) <= 1, s # <<>>
  PROVE  Len(s) = 1
<1>1. Len(s) = 0 => s = <<>>
  OBVIOUS
<1>2. Len(s) \in Nat
  OBVIOUS
<1> QED BY <1>1, <1>2

\* A sequence without elements.
LEMMA NoneLong ==
  ASSUME NEW S, NEW s \in Seq(S), \A k \in DOMAIN s : FALSE
  PROVE  s = <<>>
<1>1. Len(s) > 0 => 1 \in DOMAIN s
  OBVIOUS
<1>2. Len(s) \in Nat
  OBVIOUS
<1>3. Len(s) = 0
  BY <1>1, <1>2
<1> QED BY <1>3

\* Disjoint finite sets are counted one after the other.
LEMMA DisjointCount ==
  ASSUME NEW S, NEW T, IsFiniteSet(S), IsFiniteSet(T), S \intersect T = {}
  PROVE  Cardinality(S \union T) = Cardinality(S) + Cardinality(T)
<1>1. Cardinality(S) \in Nat /\ Cardinality(T) \in Nat /\ Cardinality(S \intersect T) = 0
  BY FS_CardinalityType, FS_EmptySet
<1>2. Cardinality(S \union T)
        = Cardinality(S) + Cardinality(T) - Cardinality(S \intersect T)
  BY FS_Union
<1> QED BY <1>1, <1>2

USE PnLAssumption, MailerAssumption

-----------------------------------------------------------------------------
(* The inductive invariants *)

Begun(d) == d < day \/ (d = day /\ phase # "open")
Past(d) == d < day \/ (d = day /\ phase \in {"closed", "first", "after"})
MonthIsOver == phase \in {"first", "after"}

HasRow(f, d) == \E k \in DOMAIN dailyRows[f] : dailyRows[f][k].day = d

\* The loops run in their parts of the day, and nothing is stored ahead of time.
TimeInv ==
    /\ mtm.on => phase = "open"
    /\ daily.on => phase = "window"
    /\ monthly.on => phase = "first"
    /\ MonthIsOver => day = Days
    /\ \A f \in Followers, d \in 1..Days : d > day => snapshots[f][d] = <<>>
    /\ \A f \in Followers : \A k \in DOMAIN dailyRows[f] : Begun(dailyRows[f][k].day)

\* A total that was rolled up is that of the daily rows, which are complete by
\* then; so is the one in hand.
TotalsInv ==
    /\ \A f \in Followers : \A m \in DOMAIN monthlyRows[f] :
         MonthIsOver /\ monthlyRows[f][m] = MonthTotal(f)
    /\ monthly.due # None =>
         /\ monthly.on /\ monthly.due \in monthly.seen
         /\ monthlyRows[monthly.due] # <<>> /\ monthly.total = MonthTotal(monthly.due)

\* No row of the day in hand, or of the month, is that of a follower whom the
\* iteration has not seen.
OnceInv ==
    mode # "failing" =>
        /\ \A f \in Followers : \A j, k \in DOMAIN dailyRows[f] :
             dailyRows[f][j].day = dailyRows[f][k].day => j = k
        /\ daily.on => \A f \in Followers \ daily.seen : ~HasRow(f, day)
        /\ \A f \in Followers : Len(monthlyRows[f]) <= 1
        /\ monthly.on => \A f \in Followers \ monthly.seen : monthlyRows[f] = <<>>

Filed(f, d) == snapshots[f][d] # <<>> => HasRow(f, d)

\* Without failures and changes no iteration breaks, and a window is looked into
\* before it ends: every day that is over is filed.
FiledInv ==
    mode = "steady" =>
        /\ up /\ active = Followers
        /\ daily.on => daily.size = Cardinality(Followers) /\ polls > 0
        /\ \A f \in Followers, d \in 1..Days : Past(d) => Filed(f, d)
        /\ phase = "window" /\ polls = 0 => \A f \in Followers : ~HasRow(f, day)
        /\ phase = "window" /\ polls > 0 =>
             \A f \in Followers : ~daily.on \/ f \in daily.seen => Filed(f, day)

\* The last day that counts in a follower's rows.
LastFiled(f) == IF Past(day) \/ HasRow(f, day) THEN day ELSE day - 1

\* The rows add up to the closes of the days up to then.
SumInv ==
    mode = "steady" =>
        \A f \in Followers :
            MonthTotal(f) = Total([d \in 1..LastFiled(f) |-> CurrentPnl(f, d)])

\* Whoever has rows is billed in turn, if the month's window is looked into.
Billed(f) == dailyRows[f] # <<>> => commissions[f] # <<>>
BilledInv ==
    mode = "steady" =>
        /\ monthly.on => monthly.size = Cardinality(Followers) /\ polls > 0
        /\ phase = "first" /\ polls = 0 => \A f \in Followers : monthlyRows[f] = <<>>
        /\ phase = "first" /\ polls > 0 =>
             \A f \in Followers :
                 ~monthly.on \/ f \in monthly.seen => Billed(f) \/ monthly.due = f
        /\ phase = "after" /\ MonthlyCompleted => \A f \in Followers : Billed(f)

\* Unless something fails, the commission in hand is the follower's first.
DueInv ==
    mode # "failing" /\ monthly.due # None => commissions[monthly.due] = <<>>

-----------------------------------------------------------------------------
Sent(f) == commissions[f] # <<>> /\ commissions[f][1].sent

InHand == {"open", "send", "commit", "remove"}
Holds(r, f) == run[r].at \in InHand /\ run[r].f = f

\* Where a run is, and what it has done for the follower in hand.
RunInv ==
    \A r \in Runs :
        /\ run[r].at \in InHand =>
             /\ run[r].f \in Followers \ run[r].queue
             /\ commissions[run[r].f] # <<>>
        /\ run[r].at = "idle" => run[r].queue = {}
        /\ \A f \in run[r].queue : commissions[f] # <<>>
        /\ run[r].at \in InHand \ {"open"} => run[r].attempt >= 1
        /\ run[r].at \in {"commit", "remove"} => mails[run[r].f] > 0
        /\ mode # "failing" /\ run[r].at = "remove" => Sent(run[r].f)
        /\ ~overlap => \A q \in Runs : run[q].at # "idle" /\ run[r].at # "idle" => q = r

\* How many mails for the follower a run may still send.
Left(r, f) ==
    IF Holds(r, f)
    THEN CASE run[r].at = "open" -> MaxRetries
           [] run[r].at = "send" -> MaxRetries + 1 - run[r].attempt
           [] run[r].at \in {"commit", "remove"} -> MaxRetries - run[r].attempt
    ELSE IF f \in run[r].queue \/ ~Sent(f) THEN MaxRetries ELSE 0
AllLeft(f) == {t \in Runs \X (1..MaxRetries) : t[2] <= Left(t[1], f)}

MailBound ==
    IF overlap THEN 1 + MaxRetries * (Cardinality(Runs) - 1) ELSE 1

\* No file of the follower was removed yet, and every run is at its first attempt.
Mailing(f) == {r \in Runs : Holds(r, f) /\ run[r].at \in {"commit", "remove"}}
Unremoved(f) ==
    /\ \A r \in Runs : Holds(r, f) => f \in pdf /\ (run[r].at = "open" \/ run[r].attempt <= 1)
    /\ mails[f] = Cardinality(Mailing(f))

\* What was mailed and what may still be mailed are within the bound.
Within(f) == mails[f] + Cardinality(AllLeft(f)) <= MailBound

\* Until a file is removed there is a mail for each; later on the bound holds.
MailsInv ==
    mode # "failing" =>
        \A f \in Followers :
            Unremoved(f) \/ Within(f)

-----------------------------------------------------------------------------
(* Types *)

\* The values that iterations take have their type.
LEMMA IterationsTyped ==
  ASSUME TypeOK
  PROVE  /\ Idle \in Iterations /\ Begin \in Iterations
         /\ \A it \in Iterations, f \in Followers :
              /\ After(it, f) \in Iterations
              /\ \A total \in Int :
                   [After(it, f) EXCEPT !.due = f, !.total = total] \in Iterations
         /\ \A it \in Iterations : [it EXCEPT !.due = None, !.total = 0] \in Iterations
<1>1. IsFiniteSet(Followers) /\ active \subseteq Followers
  BY DEF TypeOK
<1>2. Cardinality(active) \in Nat /\ Cardinality(active) <= Cardinality(Followers)
      /\ Cardinality(Followers) \in Nat
  BY <1>1, FS_Subset, FS_CardinalityType
<1>3. Idle \in Iterations
  BY <1>2 DEF Idle, Iterations
<1>4. Begin \in Iterations
  <2>1. \A it \in Iterations, n \in 0..Cardinality(Followers) :
          [it EXCEPT !.on = TRUE, !.size = n] \in Iterations
    BY DEF Iterations
  <2>2. Cardinality(active) \in 0..Cardinality(Followers)
    BY <1>2
  <2> QED BY <1>3, <2>1, <2>2 DEF Begin
<1>5. \A it \in Iterations, f \in Followers : After(it, f) \in Iterations
  BY DEF After, Iterations
<1>6. \A it \in Iterations, f \in Followers, total \in Int :
        [After(it, f) EXCEPT !.due = f, !.total = total] \in Iterations
  BY DEF After, Iterations
<1>7. ASSUME NEW it \in Iterations
      PROVE  [it EXCEPT !.due = None, !.total = 0] \in Iterations
  BY None \in Followers \union {None}, 0 \in Int DEF Iterations
<1> QED BY <1>3, <1>4, <1>5, <1>6, <1>7

\* The rows of a follower are numbers to add up.
LEMMA RowsTyped ==
  ASSUME TypeOK, NEW f \in Followers
  PROVE  /\ [k \in DOMAIN dailyRows[f] |-> dailyRows[f][k].pnl] \in Seq(Int)
         /\ MonthTotal(f) \in Int
         /\ \A d \in 1..Days : CurrentPnl(f, d) \in Int
<1>1. dailyRows[f] \in Seq(DailyRows)
  BY DEF TypeOK
<1>2. ASSUME NEW k \in 1..Len(dailyRows[f]) PROVE dailyRows[f][k].pnl \in Int
  <2>1. dailyRows[f][k] \in DailyRows
    BY <1>1
  <2> QED BY <2>1 DEF DailyRows
<1>3. [k \in DOMAIN dailyRows[f] |-> dailyRows[f][k].pnl] \in Seq(Int)
  BY <1>1, <1>2
<1>4. MonthTotal(f) \in Int
  BY <1>3, TotalIsInt DEF MonthTotal
<1>5. ASSUME NEW d \in 1..Days PROVE CurrentPnl(f, d) \in Int
  <2>1. snapshots[f][d] \in Seq(Int)
    BY DEF TypeOK
  <2> QED BY <2>1 DEF CurrentPnl, Last
<1> QED BY <1>3, <1>4, <1>5

\* An entry that is new or written over tells of the total, and stays sent or unsent.
Upserted(rows, total, rate, new) ==
    /\ new \in Seq(CommissionRows) /\ new # <<>>
    /\ rows # <<>> => Len(new) = Len(rows) /\ new[1].sent = rows[1].sent
    /\ rows = <<>> => Len(new) = 1 /\ ~new[1].sent
    /\ new[1].pnl = total /\ new[1].payable = IsPayable(total)
    /\ new[1].amount = Amount(total, rate)

\* What _calculate_monthly_commission() writes is an entry, and tells of the total.
LEMMA UpsertTyped ==
  ASSUME NEW rows \in Seq(CommissionRows), NEW total \in Int, NEW rate \in Rates
  PROVE  Upserted(rows, total, rate, Upsert(rows, total, rate))
<1>1. Amount(total, rate) \in Nat /\ IsPayable(total) \in BOOLEAN
  <2>1. rate \in Nat
    BY DEF PnLAssumption
  <2> QED BY <2>1 DEF Amount, IsPayable
<1>2. NewCommission(total, rate) \in CommissionRows
  BY <1>1 DEF NewCommission, CommissionRows
<1>3. CASE rows = <<>>
  BY <1>2, <1>3 DEF Upserted, Upsert, NewCommission
<1>4. CASE rows # <<>>
  <2> DEFINE row == [NewCommission(total, rate) EXCEPT !.paid = rows[1].paid, !.sent = rows[1].sent]
  <2>1. 1 \in DOMAIN rows /\ rows[1] \in CommissionRows
    BY <1>4
  <2>2. row \in CommissionRows /\ row.sent = rows[1].sent /\ row.pnl = total
        /\ row.payable = IsPayable(total) /\ row.amount = Amount(total, rate)
    BY <1>1, <2>1 DEF NewCommission, CommissionRows
  <2>3. Upsert(rows, total, rate) = [rows EXCEPT ![1] = row]
    BY <1>4 DEF Upsert
  <2> HIDE DEF row
  <2> QED BY <1>4, <2>1, <2>2, <2>3 DEF Upserted
<1> QED BY <1>3, <1>4

\* What the mailer and mark_commission_paid() change in an entry.
LEMMA MarkTyped ==
  ASSUME NEW rows \in Seq(CommissionRows)
  PROVE  /\ [rows EXCEPT ![1].sent = TRUE] \in Seq(CommissionRows)
         /\ [rows EXCEPT ![1].paid = TRUE] \in Seq(CommissionRows)
<1>1. CASE rows = <<>>
  <2>1. [rows EXCEPT ![1].sent = TRUE] = rows /\ [rows EXCEPT ![1].paid = TRUE] = rows
    BY <1>1
  <2> QED BY <2>1
<1>2. CASE rows # <<>>
  <2>1. 1 \in DOMAIN rows /\ rows[1] \in CommissionRows
    BY <1>2
  <2>2. [rows[1] EXCEPT !.sent = TRUE] \in CommissionRows
        /\ [rows[1] EXCEPT !.paid = TRUE] \in CommissionRows
    BY <2>1 DEF CommissionRows
  <2>3. [rows EXCEPT ![1].sent = TRUE] = [rows EXCEPT ![1] = [rows[1] EXCEPT !.sent = TRUE]]
        /\ [rows EXCEPT ![1].paid = TRUE] = [rows EXCEPT ![1] = [rows[1] EXCEPT !.paid = TRUE]]
    OBVIOUS
  <2> QED BY <2>1, <2>2, <2>3
<1> QED BY <1>1, <1>2

\* The state is one that the program can start in.
LEMMA InitTyped == Init => TypeOK
<1> SUFFICES ASSUME Init PROVE TypeOK
  OBVIOUS
<1>1. Idle \in Iterations
  <2>1. Cardinality(Followers) \in Nat
    BY FS_CardinalityType
  <2> QED BY <2>1 DEF Idle, Iterations
<1>2. RunIdle \in RunStates
  BY DEF RunIdle, RunStates, MailerAssumption
<1>3. /\ snapshots \in [Followers -> [1..Days -> Seq(Int)]]
      /\ dailyRows \in [Followers -> Seq(DailyRows)]
      /\ monthlyRows \in [Followers -> Seq(Int)]
      /\ commissions \in [Followers -> Seq(CommissionRows)]
      /\ mails \in [Followers -> Nat]
  BY DEF Init, PnlInit
<1> QED BY <1>1, <1>2, <1>3 DEF Init, PnlInit, TypeOK, Modes, Phases

\* The counter of failures is a number.
LEMMA FailuresTyped == TypeOK /\ (Fails \/ NoneFails) => failures' \in Nat
BY DEF TypeOK, Fails, NoneFails

\* The steps of the three loops write what has its type.
LEMMA LoopTyped == TypeOK /\ LoopStep /\ UNCHANGED mailVars => TypeOK'
<1> SUFFICES ASSUME TypeOK, LoopStep, UNCHANGED mailVars PROVE TypeOK'
  OBVIOUS
<1> USE DEF pnlVars, timeVars, processVars, loopVars, tableVars, mailVars
<1>1. CASE BeginMtm
  BY <1>1, IterationsTyped DEF TypeOK, BeginMtm
<1>2. CASE EndMtm
  BY <1>2, IterationsTyped DEF TypeOK, EndMtm
<1>3. CASE PollDaily
  <2>1. failures' \in Nat /\ daily' \in Iterations
    BY <1>3, FailuresTyped, IterationsTyped DEF TypeOK, PollDaily
  <2> QED BY <1>3, <2>1 DEF TypeOK, PollDaily
<1>4. CASE EndDaily
  BY <1>4, IterationsTyped DEF TypeOK, EndDaily
<1>5. CASE PollMonthly
  <2>1. failures' \in Nat /\ monthly' \in Iterations
    BY <1>5, FailuresTyped, IterationsTyped DEF TypeOK, PollMonthly
  <2> QED BY <1>5, <2>1 DEF TypeOK, PollMonthly
<1>6. CASE CalculateCommission
  <2>1. monthly' \in Iterations
    BY <1>6, IterationsTyped DEF TypeOK, CalculateCommission
  <2>2. monthly.due \in Followers /\ monthly.total \in Int
    BY <1>6 DEF TypeOK, CalculateCommission, Iterations
  <2>3. \A rate \in Rates :
          Upsert(commissions[monthly.due], monthly.total, rate) \in Seq(CommissionRows)
    BY <2>2, UpsertTyped DEF TypeOK, Upserted
  <2>4. commissions' \in [Followers -> Seq(CommissionRows)]
    BY <1>6, <2>2, <2>3 DEF TypeOK, CalculateCommission
  <2>a. failures' \in Nat
    BY <1>6, FailuresTyped DEF CalculateCommission
  <2> QED BY <1>6, <2>a, <2>1, <2>4 DEF TypeOK, CalculateCommission
<1>7. CASE EndMonthly
  BY <1>7, IterationsTyped DEF TypeOK, EndMonthly
<1>8. ASSUME NEW f \in Followers, FollowerMtm(f) PROVE TypeOK'
  <2>1. mtm' \in Iterations
    BY <1>8, IterationsTyped DEF TypeOK, FollowerMtm
  <2>2. ASSUME NEW value \in Values, StoreIntraday(f, value)
        PROVE  snapshots' \in [Followers -> [1..Days -> Seq(Int)]]
    <3>1. snapshots[f] \in [1..Days -> Seq(Int)] /\ day \in 1..Days /\ value \in Int
      BY DEF TypeOK, PnLAssumption
    <3>2. [snapshots[f] EXCEPT ![day] = Append(@, value)] \in [1..Days -> Seq(Int)]
      BY <3>1
    <3>3. snapshots' = [snapshots EXCEPT ![f] = [snapshots[f] EXCEPT ![day] = Append(@, value)]]
      BY <2>2 DEF StoreIntraday, Today
    <3> HIDE DEF PnLAssumption
    <3> QED BY <3>2, <3>3 DEF TypeOK
  <2>3. snapshots' \in [Followers -> [1..Days -> Seq(Int)]]
    BY <1>8, <2>2 DEF TypeOK, FollowerMtm
  <2> QED BY <1>8, <2>1, <2>3 DEF TypeOK, FollowerMtm
<1>9. ASSUME NEW f \in Followers, RollupDaily(f) PROVE TypeOK'
  <2>1. daily' \in Iterations
    BY <1>9, IterationsTyped DEF TypeOK, RollupDaily
  <2>2. DailyRow(f) \in DailyRows
    BY RowsTyped DEF DailyRow, DailyRows, Today, TypeOK
  <2>3. dailyRows' \in [Followers -> Seq(DailyRows)]
    <3>1. Append(dailyRows[f], DailyRow(f)) \in Seq(DailyRows)
      BY <2>2 DEF TypeOK
    <3>2. dailyRows' = dailyRows \/ dailyRows' = [dailyRows EXCEPT ![f] = Append(@, DailyRow(f))]
      BY <1>9 DEF RollupDaily
    <3> QED BY <3>1, <3>2 DEF TypeOK
  <2>a. failures' \in Nat
    BY <1>9, FailuresTyped DEF RollupDaily
  <2> QED BY <1>9, <2>a, <2>1, <2>3 DEF TypeOK, RollupDaily
<1>10. ASSUME NEW f \in Followers, RollupMonthly(f) PROVE TypeOK'
  <2>1. MonthTotal(f) \in Int
    BY RowsTyped
  <2>2. monthly' \in Iterations
    <3>1. \/ monthly' = After(monthly, f)
          \/ monthly' = [After(monthly, f) EXCEPT !.due = f, !.total = MonthTotal(f)]
      BY <1>10 DEF RollupMonthly
    <3>2. monthly \in Iterations
      BY DEF TypeOK
    <3>3. After(monthly, f) \in Iterations
      BY <3>2, IterationsTyped
    <3>4. [After(monthly, f) EXCEPT !.due = f, !.total = MonthTotal(f)] \in Iterations
      BY <2>1, <3>2, IterationsTyped
    <3> QED BY <3>1, <3>3, <3>4
  <2>3. monthlyRows' \in [Followers -> Seq(Int)]
    <3>1. Append(monthlyRows[f], MonthTotal(f)) \in Seq(Int)
      BY <2>1 DEF TypeOK
    <3>2. \/ monthlyRows' = monthlyRows
          \/ monthlyRows' = [monthlyRows EXCEPT ![f] = Append(@, MonthTotal(f))]
      BY <1>10 DEF RollupMonthly
    <3> QED BY <3>1, <3>2 DEF TypeOK
  <2>a. failures' \in Nat
    BY <1>10, FailuresTyped DEF RollupMonthly
  <2> QED BY <1>10, <2>a, <2>2, <2>3 DEF TypeOK, RollupMonthly
<1> QED BY <1>1, <1>2, <1>3, <1>4, <1>5, <1>6, <1>7, <1>8, <1>9, <1>10 DEF LoopStep

\* So do changes of the followers, restarts and time.
LEMMA ControlTyped ==
  ASSUME TypeOK, UNCHANGED mailVars,
         \/ \E f \in Followers : AddFollower(f) \/ RemoveFollower(f)
         \/ Crash \/ StartMonitoring \/ Tick
  PROVE  TypeOK'
<1> USE DEF pnlVars, timeVars, processVars, loopVars, tableVars, mailVars
<1>1. ASSUME NEW f \in Followers, AddFollower(f) \/ RemoveFollower(f) PROVE TypeOK'
  <2>1. active' \in {active \union {f}, active \ {f}} /\ changes' = changes + 1
    BY <1>1 DEF AddFollower, RemoveFollower
  <2>2. active' \subseteq Followers /\ changes' \in Nat
    BY <2>1 DEF TypeOK
  <2> QED BY <1>1, <2>2 DEF TypeOK, AddFollower, RemoveFollower
<1>2. CASE Crash
  <2>1. failures' \in Nat
    BY <1>2, FailuresTyped DEF Crash
  <2> QED BY <1>2, <2>1, IterationsTyped DEF TypeOK, Crash
<1>3. CASE StartMonitoring
  BY <1>3 DEF TypeOK, StartMonitoring
<1>4. CASE Tick
  <2>1. day' \in 1..Days /\ phase' \in Phases
    BY <1>4 DEF Tick, NextPhase, TypeOK, Phases, PnLAssumption
  <2> QED BY <1>4, <2>1 DEF TypeOK, Tick
<1> QED BY <1>1, <1>2, <1>3, <1>4

\* A commit, or a payment, marks one entry of one follower.
Marked(f, rows) ==
    \/ rows = commissions
    \/ rows = [commissions EXCEPT ![f] = [@ EXCEPT ![1].sent = TRUE]]
    \/ rows = [commissions EXCEPT ![f] = [@ EXCEPT ![1].paid = TRUE]]

\* Marked entries are entries.
LEMMA MarkedTyped ==
  ASSUME TypeOK, NEW f \in Followers, Marked(f, commissions')
  PROVE  commissions' \in [Followers -> Seq(CommissionRows)]
<1>1. /\ [commissions[f] EXCEPT ![1].sent = TRUE] \in Seq(CommissionRows)
      /\ [commissions[f] EXCEPT ![1].paid = TRUE] \in Seq(CommissionRows)
  BY MarkTyped DEF TypeOK
<1> QED BY <1>1 DEF Marked, TypeOK

\* The runs of the mailer, and mark_commission_paid(), keep the types.  Whom a
\* run holds is a follower, which RunInv says and its types do not.
LEMMA MailerTyped ==
  ASSUME TypeOK, RunInv, \E r \in Runs : StartRun(r) \/ MailerStep(r)
  PROVE  TypeOK'
<1> USE DEF pnlVars, timeVars, processVars, loopVars, tableVars, mailVars, otherPnlVars
<1>1. PICK r \in Runs : StartRun(r) \/ MailerStep(r)
  OBVIOUS
<1>2. run[r] \in RunStates /\ Pending \subseteq Followers
  BY DEF TypeOK, Pending
<1>3. \A s \in RunStates : [run EXCEPT ![r] = s] \in [Runs -> RunStates]
  BY DEF TypeOK
<1>a. 0 \in 0..MaxRetries /\ 1 \in 0..MaxRetries /\ None \in Followers \union {None}
  BY DEF MailerAssumption
<1>b. RunIdle \in RunStates
  BY <1>a DEF RunIdle, RunStates
<1>c. Done(r) \in RunStates
  <2> HIDE DEF None
  <2> QED BY <1>a, <1>2 DEF Done, RunStates
<1>4. RunIdle \in RunStates /\ Done(r) \in RunStates
  BY <1>b, <1>c
<1>5. run[r].at = "send" \/ run[r].at = "commit" \/ run[r].at = "remove"
      => AttemptFails(r) \in RunStates
  <2>1. CASE run[r].attempt < MaxRetries
    <3>1. run[r].attempt + 1 \in 0..MaxRetries
      BY <1>2, <2>1 DEF RunStates, MailerAssumption
    <3>2. AttemptFails(r) = [run[r] EXCEPT !.at = "send", !.attempt = run[r].attempt + 1]
      BY <2>1 DEF AttemptFails
    <3> QED BY <1>2, <3>1, <3>2 DEF RunStates
  <2>2. CASE ~(run[r].attempt < MaxRetries)
    BY <1>4, <2>2 DEF AttemptFails
  <2> QED BY <2>1, <2>2
<1>6. run[r].at \in InHand => run[r].f \in Followers
  BY DEF RunInv
<1>7. CASE StartRun(r)
  <2>1. [RunIdle EXCEPT !.at = "next", !.queue = Pending] \in RunStates
    BY <1>2, <1>4 DEF RunStates
  <2> QED BY <1>3, <1>7, <2>1 DEF TypeOK, StartRun
<1>8. CASE EndRun(r)
  BY <1>3, <1>4, <1>8 DEF TypeOK, EndRun
<1>9. CASE Prepare(r)
  <2>1. PICK f \in run[r].queue :
          /\ pdf' = pdf \union {f}
          /\ NoneFails \/ Fails
          /\ \/ run' = [run EXCEPT ![r] = [[run[r] EXCEPT !.queue = @ \ {f}]
                                             EXCEPT !.at = "open", !.f = f]]
             \/ run' = [run EXCEPT ![r] = [run[r] EXCEPT !.queue = @ \ {f}]]
    BY <1>9 DEF Prepare
  <2>2. f \in Followers
    BY <1>2 DEF RunStates
  <2>3. [run[r] EXCEPT !.queue = @ \ {f}] \in RunStates
    BY <1>2 DEF RunStates
  <2>4. [[run[r] EXCEPT !.queue = @ \ {f}] EXCEPT !.at = "open", !.f = f] \in RunStates
    BY <2>2, <2>3 DEF RunStates
  <2>5. run' \in [Runs -> RunStates]
    BY <1>3, <2>1, <2>3, <2>4
  <2>6. failures' \in Nat
    BY <2>1, FailuresTyped
  <2> QED BY <1>9, <2>1, <2>2, <2>5, <2>6 DEF TypeOK, Prepare
<1>10. CASE Attach(r)
  <2>1. [run[r] EXCEPT !.at = "send", !.attempt = 1] \in RunStates
    BY <1>2, <1>a DEF RunStates
  <2> QED BY <1>3, <1>4, <1>10, <2>1 DEF TypeOK, Attach
<1>11. CASE Send(r)
  <2>1. [run[r] EXCEPT !.at = "commit"] \in RunStates
    BY <1>2 DEF RunStates
  <2>2. [run EXCEPT ![r].at = "commit"] = [run EXCEPT ![r] = [run[r] EXCEPT !.at = "commit"]]
    OBVIOUS
  <2>3. run' \in [Runs -> RunStates]
    BY <1>3, <1>5, <1>11, <2>1, <2>2 DEF Send
  <2>4. failures' \in Nat
    BY <1>11, FailuresTyped DEF Send
  <2>5. mails' \in [Followers -> Nat]
    <3>1. run[r].f \in Followers
      BY <1>6, <1>11 DEF Send, InHand
    <3>2. PICK f \in Followers : f = run[r].f
      BY <3>1
    <3>3. mails' = mails \/ mails' = [mails EXCEPT ![f] = mails[f] + 1]
      BY <1>11, <3>2 DEF Send
    <3>4. mails \in [Followers -> Nat] /\ mails[f] + 1 \in Nat
      BY DEF TypeOK
    <3> QED BY <3>3, <3>4
  <2> QED BY <1>11, <2>3, <2>4, <2>5 DEF TypeOK, Send
<1>12. CASE Commit(r)
  <2>1. [run[r] EXCEPT !.at = "remove"] \in RunStates
    BY <1>2 DEF RunStates
  <2>2. [run EXCEPT ![r].at = "remove"] = [run EXCEPT ![r] = [run[r] EXCEPT !.at = "remove"]]
    OBVIOUS
  <2>3. run' \in [Runs -> RunStates]
    BY <1>3, <1>5, <1>12, <2>1, <2>2 DEF Commit
  <2>4. failures' \in Nat
    BY <1>12, FailuresTyped DEF Commit
  <2>5. run[r].f \in Followers /\ Marked(run[r].f, commissions')
    BY <1>6, <1>12 DEF Commit, InHand, MarkSent, Marked
  <2> QED BY <1>12, <2>3, <2>4, <2>5, MarkedTyped DEF TypeOK, Commit
<1>13. CASE RemovePdf(r)
  <2>1. run' \in [Runs -> RunStates]
    BY <1>3, <1>4, <1>5, <1>13 DEF RemovePdf
  <2> QED BY <1>13, <2>1 DEF TypeOK, RemovePdf
<1> QED BY <1>1, <1>7, <1>8, <1>9, <1>10, <1>11, <1>12, <1>13 DEF MailerStep

\* A payment changes the commissions only.
LEMMA PaidTyped ==
  ASSUME TypeOK, NEW f \in Followers, MarkCommissionPaid(f)
  PROVE  TypeOK'
<1>1. Marked(f, commissions')
  BY DEF MarkCommissionPaid, Marked
<1>2. commissions' \in [Followers -> Seq(CommissionRows)]
  BY <1>1, MarkedTyped
<1> QED BY <1>2 DEF TypeOK, MarkCommissionPaid, pnlVars, timeVars, processVars, loopVars,
                    tableVars, mailVars

-----------------------------------------------------------------------------
(* The tables *)

\* What the rollups depend on, and the steps that leave it as it is.
rollVars == <<mode, timeVars, up, active, loopVars, snapshots, dailyRows, monthlyRows>>
RollInv == TimeInv /\ DailyIsTheClose /\ TotalsInv /\ OnceInv /\ FiledInv /\ SumInv

\* The mailer and payments leave what the rollups depend on.
LEMMA MailerLeavesTables ==
  ASSUME \/ \E r \in Runs : StartRun(r) \/ MailerStep(r)
         \/ \E f \in Followers : MarkCommissionPaid(f)
         \/ UNCHANGED vars
  PROVE  UNCHANGED rollVars
BY DEF MailerStep, StartRun, EndRun, Prepare, Attach, Send, Commit, RemovePdf,
       MarkCommissionPaid, rollVars, vars, pnlVars, mailVars, otherPnlVars, timeVars,
       processVars, loopVars, tableVars

\* MonthTotal and CurrentPnl are sums and ends of the tables.
LEMMA TotalsStay ==
  ASSUME NEW f \in Followers
  PROVE  /\ dailyRows'[f] = dailyRows[f] => MonthTotal(f)' = MonthTotal(f)
         /\ \A d \in 1..Days : snapshots'[f][d] = snapshots[f][d]
                                 => CurrentPnl(f, d)' = CurrentPnl(f, d)
BY DEF MonthTotal, CurrentPnl

\* So do stutters: what is said of the tables stays true.
LEMMA RollStays == RollInv /\ UNCHANGED rollVars => RollInv'
<1> SUFFICES ASSUME RollInv, UNCHANGED rollVars PROVE RollInv'
  OBVIOUS
<1> USE DEF RollInv, rollVars, timeVars, loopVars
<1>1. TimeInv'
  BY DEF TimeInv, Begun, MonthIsOver
<1>2. \A f \in Followers : MonthTotal(f)' = MonthTotal(f)
                           /\ \A d : CurrentPnl(f, d)' = CurrentPnl(f, d)
  BY DEF MonthTotal, CurrentPnl
<1>3. DailyIsTheClose'
  BY <1>2 DEF DailyIsTheClose
<1>4. TotalsInv'
  BY <1>2 DEF TotalsInv, MonthIsOver, MonthTotal
<1>5. OnceInv'
  BY DEF OnceInv, HasRow
<1>6. FiledInv'
  BY DEF FiledInv, Filed, HasRow, Past
<1>7. SumInv'
  <2>1. \A f \in Followers : LastFiled(f)' = LastFiled(f)
    BY DEF LastFiled, Past, HasRow
  <2>2. \A f \in Followers : [d \in 1..LastFiled(f) |-> CurrentPnl(f, d)]'
                             = [d \in 1..LastFiled(f) |-> CurrentPnl(f, d)]
    BY <1>2, <2>1
  <2> QED BY <1>2, <2>2 DEF SumInv
<1> QED BY <1>1, <1>3, <1>4, <1>5, <1>6, <1>7

\* What the steps of the service do to the loops and the time; MailerLeavesTables
\* and these are all there are.
LEMMA InitRoll == Init => RollInv
<1> SUFFICES ASSUME Init PROVE RollInv
  OBVIOUS
<1> USE DEF Init, PnlInit, Idle
<1>1. TimeInv
  BY DEF TimeInv, MonthIsOver
<1>2. DailyIsTheClose
  BY DEF DailyIsTheClose
<1>3. TotalsInv
  BY DEF TotalsInv
<1>4. OnceInv
  BY DEF OnceInv
<1>5. FiledInv
  BY DEF FiledInv, Past, Filed
<1>6. SumInv
  <2> SUFFICES ASSUME NEW f \in Followers
               PROVE MonthTotal(f) = Total([d \in 1..LastFiled(f) |-> CurrentPnl(f, d)])
    BY DEF SumInv
  <2>1. LastFiled(f) = 0
    BY DEF LastFiled, Past, HasRow
  <2>2. [d \in 1..LastFiled(f) |-> CurrentPnl(f, d)] = <<>>
    BY <2>1
  <2>3. [k \in DOMAIN dailyRows[f] |-> dailyRows[f][k].pnl] = <<>>
    OBVIOUS
  <2> QED BY <2>2, <2>3 DEF MonthTotal
<1> QED BY <1>1, <1>2, <1>3, <1>4, <1>5, <1>6 DEF RollInv

\* A step that leaves the time, the snapshots and the daily rows as they are.
LEMMA RowsStay ==
  ASSUME RollInv, UNCHANGED <<mode, day, phase, snapshots, dailyRows>>
  PROVE  /\ DailyIsTheClose' /\ SumInv'
         /\ \A f \in Followers : MonthTotal(f)' = MonthTotal(f)
         /\ \A f \in Followers, d \in 1..Days : HasRow(f, d)' = HasRow(f, d)
         /\ mtm' = mtm \/ ~mtm'.on \/ phase = "open" =>
              (daily' = daily \/ ~daily'.on \/ phase = "window" =>
                 (monthly' = monthly \/ ~monthly'.on \/ phase = "first" => TimeInv'))
<1> USE DEF RollInv
<1>1. \A f \in Followers : MonthTotal(f)' = MonthTotal(f)
                           /\ \A d : CurrentPnl(f, d)' = CurrentPnl(f, d)
  BY DEF MonthTotal, CurrentPnl
<1>2. DailyIsTheClose'
  BY <1>1 DEF DailyIsTheClose
<1>3. SumInv'
  <2>1. \A f \in Followers : LastFiled(f)' = LastFiled(f)
    BY DEF LastFiled, Past, HasRow
  <2>2. \A f \in Followers : [d \in 1..LastFiled(f) |-> CurrentPnl(f, d)]'
                             = [d \in 1..LastFiled(f) |-> CurrentPnl(f, d)]
    BY <1>1, <2>1
  <2> QED BY <1>1, <2>2 DEF SumInv
<1>4. \A f \in Followers, d \in 1..Days : HasRow(f, d)' = HasRow(f, d)
  BY DEF HasRow
<1>5. ASSUME mtm' = mtm \/ ~mtm'.on \/ phase = "open",
             daily' = daily \/ ~daily'.on \/ phase = "window",
             monthly' = monthly \/ ~monthly'.on \/ phase = "first"
      PROVE  TimeInv'
  BY <1>5 DEF TimeInv, Begun, MonthIsOver
<1> QED BY <1>1, <1>2, <1>3, <1>4, <1>5

\* Beginning and end of a round of marking to market.
LEMMA MtmRoll == TypeOK /\ RollInv /\ (BeginMtm \/ EndMtm) => RollInv'
<1> SUFFICES ASSUME TypeOK, RollInv, BeginMtm \/ EndMtm PROVE RollInv'
  OBVIOUS
<1>0. /\ UNCHANGED <<mode, day, phase, polls, up, active, daily, monthly, snapshots, dailyRows,
                     monthlyRows>>
      /\ ~mtm'.on \/ phase = "open"
  BY DEF BeginMtm, EndMtm, timeVars, processVars, tableVars, IsMarketOpen, Idle
<1>1. DailyIsTheClose' /\ SumInv' /\ TimeInv'
      /\ \A f \in Followers : MonthTotal(f)' = MonthTotal(f)
  BY <1>0, RowsStay
<1>2. TotalsInv'
  BY <1>0, <1>1 DEF RollInv, TotalsInv, MonthIsOver, MonthTotal
<1>3. OnceInv'
  BY <1>0 DEF RollInv, OnceInv, HasRow
<1>4. FiledInv'
  BY <1>0 DEF RollInv, FiledInv, Filed, HasRow, Past
<1> QED BY <1>1, <1>2, <1>3, <1>4 DEF RollInv

\* The commission is calculated, and the monthly iteration ends.
LEMMA MonthlyEndRoll == TypeOK /\ RollInv /\ (CalculateCommission \/ EndMonthly) => RollInv'
<1> SUFFICES ASSUME TypeOK, RollInv, CalculateCommission \/ EndMonthly PROVE RollInv'
  OBVIOUS
<1>0. /\ UNCHANGED <<mode, day, phase, polls, up, active, mtm, daily, snapshots, dailyRows,
                     monthlyRows>>
      /\ monthly.on /\ monthly'.due = None
      /\ monthly'.on => monthly'.seen = monthly.seen
  <2>1. /\ [monthly EXCEPT !.due = None, !.total = 0].due = None
        /\ [monthly EXCEPT !.due = None, !.total = 0].seen = monthly.seen
    <3>1. monthly \in Iterations
      BY DEF TypeOK
    <3> QED BY <3>1 DEF Iterations
  <2>2. Idle.due = None /\ ~Idle.on
    BY DEF Idle
  <2> QED BY <2>1, <2>2 DEF CalculateCommission, EndMonthly, timeVars, processVars, tableVars
<1>1. DailyIsTheClose' /\ SumInv' /\ TimeInv'
      /\ \A f \in Followers : MonthTotal(f)' = MonthTotal(f)
  <2>1. phase = "first"
    BY <1>0 DEF RollInv, TimeInv
  <2> QED BY <1>0, <2>1, RowsStay
<1>2. TotalsInv'
  BY <1>0, <1>1 DEF RollInv, TotalsInv, MonthIsOver, MonthTotal
<1>3. OnceInv'
  BY <1>0 DEF RollInv, OnceInv, HasRow
<1>4. FiledInv'
  BY <1>0 DEF RollInv, FiledInv, Filed, HasRow, Past
<1> QED BY <1>1, <1>2, <1>3, <1>4 DEF RollInv

\* A window is looked into: nothing was filed if the rollup begins, unless a
\* query failed.
LEMMA PollMonthlyRoll == TypeOK /\ RollInv /\ PollMonthly => RollInv'
<1> SUFFICES ASSUME TypeOK, RollInv, PollMonthly PROVE RollInv'
  OBVIOUS
<1>0. /\ UNCHANGED <<mode, day, phase, up, active, mtm, daily, snapshots, dailyRows, monthlyRows>>
      /\ polls' = polls + 1 /\ ~monthly.on /\ phase = "first"
      /\ \/ monthly' = monthly
         \/ /\ monthly'.due = None /\ monthly'.seen = {} /\ monthly'.on
            /\ mode # "failing" => ~MonthlyCompleted
  BY DEF PollMonthly, timeVars, processVars, tableVars, Idle, Begin, Fails
<1>1. DailyIsTheClose' /\ SumInv' /\ TimeInv'
      /\ \A f \in Followers : MonthTotal(f)' = MonthTotal(f)
  BY <1>0, RowsStay
<1>2. TotalsInv'
  BY <1>0, <1>1 DEF RollInv, TotalsInv, MonthIsOver, MonthTotal
<1>3. OnceInv'
  BY <1>0 DEF RollInv, OnceInv, HasRow, MonthlyCompleted
<1>4. FiledInv'
  BY <1>0 DEF RollInv, FiledInv, Filed, HasRow, Past, TimeInv
<1> QED BY <1>1, <1>2, <1>3, <1>4 DEF RollInv

\* A look into the daily window begins an iteration before anyone has a row of the
\* day, or finds such a row.
LEMMA PollDailyRoll == TypeOK /\ RollInv /\ PollDaily => RollInv'
<1> SUFFICES ASSUME TypeOK, RollInv, PollDaily PROVE RollInv'
  OBVIOUS
<1>0. /\ UNCHANGED <<mode, day, phase, up, active, mtm, monthly, snapshots, dailyRows, monthlyRows>>
      /\ polls' = polls + 1 /\ ~daily.on /\ phase = "window"
      /\ \/ daily' = daily /\ DailyCompleted
         \/ /\ daily'.seen = {} /\ daily'.on /\ daily'.size = Cardinality(active)
            /\ mode # "failing" => ~DailyCompleted
  BY DEF PollDaily, timeVars, processVars, tableVars, Idle, Begin, Fails
<1>1. DailyIsTheClose' /\ SumInv' /\ TimeInv'
      /\ \A f \in Followers : MonthTotal(f)' = MonthTotal(f)
  BY <1>0, RowsStay
<1>2. TotalsInv'
  BY <1>0, <1>1 DEF RollInv, TotalsInv, MonthIsOver, MonthTotal
<1>3. OnceInv'
  BY <1>0 DEF RollInv, OnceInv, HasRow, DailyCompleted, Today
<1>4. FiledInv'
  <2> SUFFICES ASSUME mode = "steady" PROVE FiledInv'
    BY <1>0 DEF FiledInv
  <2>1. polls \in Nat
    BY DEF TypeOK
  <2>2. \A f \in Followers, d \in 1..Days : Filed(f, d)' = Filed(f, d)
    BY <1>0 DEF Filed, HasRow
  <2>3. polls = 0 => ~DailyCompleted
    BY <1>0 DEF RollInv, FiledInv, HasRow, DailyCompleted, Today
  <2>4. ASSUME NEW f \in Followers, ~daily'.on \/ f \in daily'.seen PROVE Filed(f, day)
    BY <1>0, <2>1, <2>3, <2>4 DEF RollInv, FiledInv
  <2>5. day \in 1..Days
    BY DEF TypeOK
  <2>6. daily'.on => daily'.size = Cardinality(Followers) /\ polls' > 0
    BY <1>0, <2>1 DEF RollInv, FiledInv
  <2>7. \A f \in Followers, d \in 1..Days : Past(d)' => Filed(f, d)'
    BY <1>0, <2>2 DEF RollInv, FiledInv, Past
  <2> QED BY <1>0, <2>1, <2>2, <2>4, <2>5, <2>6, <2>7 DEF RollInv, FiledInv
<1> QED BY <1>1, <1>2, <1>3, <1>4 DEF RollInv

\* The daily iteration ends when it has seen everybody, or breaks.
LEMMA EndDailyRoll == TypeOK /\ RollInv /\ EndDaily => RollInv'
<1> SUFFICES ASSUME TypeOK, RollInv, EndDaily PROVE RollInv'
  OBVIOUS
<1>0. /\ UNCHANGED <<mode, day, phase, polls, up, active, mtm, monthly, snapshots, dailyRows,
                     monthlyRows>>
      /\ daily.on /\ ~daily'.on /\ Ahead(daily) = {}
  BY DEF EndDaily, timeVars, processVars, tableVars, Idle
<1>1. DailyIsTheClose' /\ SumInv' /\ TimeInv'
      /\ \A f \in Followers : MonthTotal(f)' = MonthTotal(f)
  BY <1>0, RowsStay
<1>2. TotalsInv'
  BY <1>0, <1>1 DEF RollInv, TotalsInv, MonthIsOver, MonthTotal
<1>3. OnceInv'
  BY <1>0 DEF RollInv, OnceInv, HasRow
<1>4. FiledInv'
  <2>1. mode = "steady" => Followers \subseteq daily.seen
    BY <1>0 DEF RollInv, FiledInv, Ahead, Broken
  <2> QED BY <1>0, <2>1 DEF RollInv, FiledInv, Filed, HasRow, Past
<1> QED BY <1>1, <1>2, <1>3, <1>4 DEF RollInv

\* A snapshot is stored while the market is open, when no row tells of the day.
LEMMA FollowerMtmRoll ==
  ASSUME TypeOK, RollInv, NEW f \in Followers, FollowerMtm(f)
  PROVE  RollInv'
<1>0. /\ UNCHANGED <<mode, day, phase, polls, up, active, daily, monthly, dailyRows, monthlyRows>>
      /\ mtm.on
  BY DEF FollowerMtm, timeVars, processVars
<1>1. phase = "open" /\ day \in 1..Days
  BY <1>0 DEF RollInv, TimeInv, TypeOK
<1>2. \A g \in Followers, d \in 1..Days : d # day => snapshots'[g][d] = snapshots[g][d]
  <2>1. snapshots \in [Followers -> [1..Days -> Seq(Int)]]
    BY DEF TypeOK
  <2> QED BY <1>1, <2>1 DEF FollowerMtm, StoreIntraday, Today
<1>3. \A g \in Followers : \A k \in DOMAIN dailyRows[g] :
        dailyRows[g][k].day \in 1..Days /\ dailyRows[g][k].day < day
  <2> SUFFICES ASSUME NEW g \in Followers, NEW k \in DOMAIN dailyRows[g]
               PROVE  dailyRows[g][k].day \in 1..Days /\ dailyRows[g][k].day < day
    OBVIOUS
  <2>1. dailyRows[g][k] \in DailyRows
    BY DEF TypeOK
  <2> QED BY <1>1, <2>1 DEF RollInv, TimeInv, Begun, DailyRows
<1>4. \A g \in Followers, d \in 1..Days : d # day => CurrentPnl(g, d)' = CurrentPnl(g, d)
  BY <1>2 DEF CurrentPnl
<1>5. \A g \in Followers : MonthTotal(g)' = MonthTotal(g)
  BY <1>0 DEF MonthTotal
<1>6. TimeInv'
  BY <1>0, <1>1, <1>2 DEF RollInv, TimeInv, Begun, MonthIsOver
<1>7. DailyIsTheClose'
  BY <1>0, <1>2, <1>3, <1>4 DEF RollInv, DailyIsTheClose
<1>8. TotalsInv'
  BY <1>0, <1>5 DEF RollInv, TotalsInv, MonthIsOver, MonthTotal
<1>9. OnceInv'
  BY <1>0 DEF RollInv, OnceInv, HasRow
<1>10. FiledInv'
  <2>1. \A g \in Followers, d \in 1..Days : d # day => Filed(g, d)' = Filed(g, d)
    BY <1>0, <1>2 DEF Filed, HasRow
  <2>2. \A d \in 1..Days : Past(d)' => Past(d) /\ d # day
    BY <1>0, <1>1 DEF Past
  <2> QED BY <1>0, <1>1, <2>1, <2>2 DEF RollInv, FiledInv
<1>11. SumInv'
  <2> SUFFICES ASSUME mode = "steady", NEW g \in Followers
               PROVE (MonthTotal(g) = Total([d \in 1..LastFiled(g) |-> CurrentPnl(g, d)]))'
    BY <1>0 DEF SumInv
  <2>1. ~HasRow(g, day) /\ ~HasRow(g, day)'
    BY <1>0, <1>3 DEF HasRow
  <2>2. LastFiled(g) = day - 1 /\ LastFiled(g)' = day - 1
    BY <1>0, <1>1, <2>1 DEF LastFiled, Past
  <2>3. [d \in 1..LastFiled(g) |-> CurrentPnl(g, d)]' = [d \in 1..LastFiled(g) |-> CurrentPnl(g, d)]
    BY <1>1, <1>4, <2>2
  <2> QED BY <1>5, <2>3 DEF RollInv, SumInv
<1> QED BY <1>6, <1>7, <1>8, <1>9, <1>10, <1>11 DEF RollInv

\* The row appended is that of the day's last snapshot.
LEMMA RollupDailyRoll ==
  ASSUME TypeOK, RollInv, NEW f \in Followers, RollupDaily(f)
  PROVE  RollInv'
<1>0. /\ UNCHANGED <<mode, day, phase, polls, up, active, mtm, monthly, snapshots, monthlyRows>>
      /\ daily.on /\ f \in Followers \ daily.seen
      /\ daily' = After(daily, f)
  BY DEF RollupDaily, timeVars, processVars, Ahead
<1>1. phase = "window" /\ day \in 1..Days
  BY <1>0 DEF RollInv, TimeInv, TypeOK
<1>2. daily'.on /\ daily'.seen = daily.seen \union {f} /\ daily'.size = daily.size
  <2>1. daily \in Iterations
    BY DEF TypeOK
  <2> QED BY <1>0, <2>1 DEF After, Iterations
<1>3. \A g \in Followers, d \in 1..Days : CurrentPnl(g, d)' = CurrentPnl(g, d)
  BY <1>0 DEF CurrentPnl
<1>4. \/ /\ dailyRows' = dailyRows
         /\ mode # "failing" => snapshots[f][day] = <<>>
      \/ /\ dailyRows' = [dailyRows EXCEPT ![f] = Append(@, [day |-> day, pnl |-> CurrentPnl(f, day)])]
         /\ snapshots[f][day] # <<>>
  BY DEF RollupDaily, DailyRow, Today, Fails
<1>5. \A g \in Followers : monthlyRows[g] = <<>>
  <2> SUFFICES ASSUME NEW g \in Followers PROVE monthlyRows[g] = <<>>
    OBVIOUS
  <2>1. monthlyRows[g] \in Seq(Int)
    BY DEF TypeOK
  <2>2. \A m \in DOMAIN monthlyRows[g] : FALSE
    BY <1>1 DEF RollInv, TotalsInv, MonthIsOver
  <2> QED BY <2>1, <2>2, NoneLong
<1>6. TotalsInv'
  <2>1. monthly.due = None
    BY <1>1 DEF RollInv, TotalsInv, TimeInv
  <2> QED BY <1>0, <1>5, <2>1 DEF TotalsInv
<1>7. CASE dailyRows' = dailyRows /\ (mode # "failing" => snapshots[f][day] = <<>>)
  <2>1. DailyIsTheClose' /\ SumInv' /\ TimeInv'
    BY <1>0, <1>1, <1>7, RowsStay
  <2>2. OnceInv'
    BY <1>0, <1>2, <1>7 DEF RollInv, OnceInv, HasRow
  <2>3. FiledInv'
    BY <1>0, <1>1, <1>2, <1>7 DEF RollInv, FiledInv, Filed, HasRow, Past
  <2> QED BY <1>6, <2>1, <2>2, <2>3 DEF RollInv
<1>8. CASE /\ dailyRows' = [dailyRows EXCEPT ![f] = Append(@, [day |-> day, pnl |-> CurrentPnl(f, day)])]
           /\ snapshots[f][day] # <<>>
  <2> DEFINE row == [day |-> day, pnl |-> CurrentPnl(f, day)]
  <2>a. dailyRows \in [Followers -> Seq(DailyRows)] /\ row \in DailyRows /\ CurrentPnl(f, day) \in Int
    BY <1>1, RowsTyped DEF TypeOK, DailyRows
  <2>b. /\ \A g \in Followers \ {f} : dailyRows'[g] = dailyRows[g]
        /\ dailyRows'[f] = Append(dailyRows[f], row)
    BY <1>8, <2>a
  <2>c. /\ Len(dailyRows'[f]) = Len(dailyRows[f]) + 1 /\ DOMAIN dailyRows'[f] = 1..(Len(dailyRows[f]) + 1)
        /\ dailyRows'[f][Len(dailyRows[f]) + 1] = row
        /\ \A k \in DOMAIN dailyRows[f] : dailyRows'[f][k] = dailyRows[f][k]
        /\ DOMAIN dailyRows[f] = 1..Len(dailyRows[f]) /\ Len(dailyRows[f]) \in Nat
    BY <2>a, <2>b
  <2>d. \A k \in DOMAIN dailyRows'[f] :
          \/ k \in DOMAIN dailyRows[f] /\ dailyRows'[f][k] = dailyRows[f][k]
          \/ k = Len(dailyRows[f]) + 1 /\ dailyRows'[f][k] = row
    BY <2>c
  <2>e. /\ \A g \in Followers, d \in 1..Days : HasRow(g, d) => HasRow(g, d)'
        /\ HasRow(f, day)'
        /\ \A g \in Followers, d \in 1..Days : HasRow(g, d)' => HasRow(g, d) \/ (g = f /\ d = day)
    <3>1. ASSUME NEW g \in Followers, NEW d \in 1..Days, HasRow(g, d)
          PROVE  HasRow(g, d)'
      <4>1. CASE g # f
        BY <2>b, <3>1, <4>1 DEF HasRow
      <4>2. CASE g = f
        BY <2>c, <3>1, <4>2 DEF HasRow
      <4> QED BY <4>1, <4>2
    <3>2. HasRow(f, day)'
      <4>1. Len(dailyRows[f]) + 1 \in DOMAIN dailyRows'[f]
        BY <2>c
      <4> QED BY <1>0, <2>c, <4>1 DEF HasRow
    <3>3. ASSUME NEW g \in Followers, NEW d \in 1..Days, HasRow(g, d)'
          PROVE  HasRow(g, d) \/ (g = f /\ d = day)
      <4>1. CASE g # f
        BY <2>b, <3>3, <4>1 DEF HasRow
      <4>2. CASE g = f
        BY <2>d, <3>3, <4>2 DEF HasRow
      <4> QED BY <4>1, <4>2
    <3> QED BY <1>0, <3>1, <3>2, <3>3
  <2>1. TimeInv'
    BY <1>0, <1>1, <2>b, <2>d DEF RollInv, TimeInv, Begun, MonthIsOver
  <2>2. DailyIsTheClose'
    <3> SUFFICES ASSUME NEW g \in Followers, NEW k \in DOMAIN dailyRows'[g]
                 PROVE  /\ snapshots[g][dailyRows'[g][k].day] # <<>>
                        /\ dailyRows'[g][k].pnl = CurrentPnl(g, dailyRows'[g][k].day)
      BY <1>0 DEF DailyIsTheClose, CurrentPnl
    <3>1. CASE g # f
      BY <2>b, <3>1 DEF RollInv, DailyIsTheClose
    <3>2. CASE g = f
      BY <1>8, <2>d, <3>2 DEF RollInv, DailyIsTheClose
    <3> QED BY <3>1, <3>2
  <2>3. OnceInv'
    <3> SUFFICES ASSUME mode # "failing" PROVE OnceInv'
      BY <1>0 DEF OnceInv
    <3>1. ~HasRow(f, day)
      BY <1>0 DEF RollInv, OnceInv
    <3>2. \A g \in Followers : \A j, k \in DOMAIN dailyRows'[g] :
            dailyRows'[g][j].day = dailyRows'[g][k].day => j = k
      <4> SUFFICES ASSUME NEW g \in Followers, NEW j \in DOMAIN dailyRows'[g],
                          NEW k \in DOMAIN dailyRows'[g],
                          dailyRows'[g][j].day = dailyRows'[g][k].day
                   PROVE  j = k
        OBVIOUS
      <4>1. CASE g # f
        BY <2>b, <4>1 DEF RollInv, OnceInv
      <4>2. CASE g = f
        BY <2>d, <3>1, <4>2 DEF RollInv, OnceInv, HasRow
      <4> QED BY <4>1, <4>2
    <3>3. \A g \in Followers \ daily'.seen : ~HasRow(g, day)'
      BY <1>0, <1>1, <1>2, <2>e DEF RollInv, OnceInv
    <3> QED BY <1>0, <3>2, <3>3 DEF RollInv, OnceInv
  <2>4. FiledInv'
    <3>1. \A g \in Followers, d \in 1..Days : Filed(g, d) => Filed(g, d)'
      BY <1>0, <2>e DEF Filed
    <3>2. Filed(f, day)'
      BY <2>e DEF Filed
    <3>3. mode = "steady" => polls > 0
      BY <1>0 DEF RollInv, FiledInv
    <3>4. \A d \in 1..Days : Past(d)' = Past(d)
      BY <1>0 DEF Past
    <3>5. polls \in Nat
      BY DEF TypeOK
    <3> QED BY <1>0, <1>1, <1>2, <3>1, <3>2, <3>3, <3>4, <3>5 DEF RollInv, FiledInv
  <2>5. SumInv'
    <3> SUFFICES ASSUME mode = "steady", NEW g \in Followers
                 PROVE (MonthTotal(g) = Total([d \in 1..LastFiled(g) |-> CurrentPnl(g, d)]))'
      BY <1>0 DEF SumInv
    <3>1. CASE g # f
      <4>1. LastFiled(g)' = LastFiled(g) /\ MonthTotal(g)' = MonthTotal(g)
        BY <1>0, <2>b, <3>1 DEF LastFiled, Past, HasRow, MonthTotal
      <4>2. LastFiled(g) \in 0..Days
        BY <1>1 DEF LastFiled
      <4>3. [d \in 1..LastFiled(g) |-> CurrentPnl(g, d)]' = [d \in 1..LastFiled(g) |-> CurrentPnl(g, d)]
        BY <1>3, <4>1, <4>2
      <4> QED BY <4>1, <4>3 DEF RollInv, SumInv
    <3>2. CASE g = f
      <4> DEFINE before == [d \in 1..(day - 1) |-> CurrentPnl(f, d)]
                 pnls == [k \in DOMAIN dailyRows[f] |-> dailyRows[f][k].pnl]
      <4>1. ~HasRow(f, day)
        BY <1>0 DEF RollInv, OnceInv
      <4>2. LastFiled(f) = day - 1 /\ LastFiled(f)' = day
        BY <1>0, <1>1, <2>e, <4>1 DEF LastFiled, Past
      <4>3. MonthTotal(f) = Total(before)
        BY <4>2 DEF RollInv, SumInv
      <4>4. before \in Seq(Int) /\ Len(before) = day - 1
        <5>1. \A d \in 1..(day - 1) : CurrentPnl(f, d) \in Int
          <6>1. \A d \in 1..Days : CurrentPnl(f, d) \in Int
            BY RowsTyped
          <6> QED BY <1>1, <6>1
        <5> QED BY <1>1, <5>1
      <4>5. [d \in 1..day |-> CurrentPnl(f, d)] = Append(before, CurrentPnl(f, day))
        <5>1. Len(before) + 1 = day
          BY <1>1, <4>4
        <5> QED BY <1>1, <4>4, <5>1
      <4>6. pnls \in Seq(Int) /\ Len(pnls) = Len(dailyRows[f])
        <5>1. pnls \in Seq(Int)
          BY RowsTyped
        <5>2. DOMAIN pnls = 1..Len(dailyRows[f])
          BY <2>c
        <5> QED BY <2>c, <5>1, <5>2
      <4>7. [k \in DOMAIN dailyRows'[f] |-> dailyRows'[f][k].pnl] = Append(pnls, CurrentPnl(f, day))
        BY <2>c, <4>6
      <4>8. MonthTotal(f)' = MonthTotal(f) + CurrentPnl(f, day)
        <5> HIDE DEF pnls
        <5>1. Total(Append(pnls, CurrentPnl(f, day))) = Total(pnls) + CurrentPnl(f, day)
          BY <2>a, <4>6, TotalAppend
        <5> QED BY <4>7, <5>1 DEF MonthTotal, pnls
      <4>9. Total([d \in 1..day |-> CurrentPnl(f, d)]) = Total(before) + CurrentPnl(f, day)
        <5> HIDE DEF before
        <5> QED BY <2>a, <4>4, <4>5, TotalAppend
      <4>10. [d \in 1..LastFiled(f) |-> CurrentPnl(f, d)]' = [d \in 1..day |-> CurrentPnl(f, d)]
        BY <1>1, <1>3, <4>2
      <4> QED BY <3>2, <4>3, <4>8, <4>9, <4>10
    <3> QED BY <3>1, <3>2
  <2> QED BY <1>6, <2>1, <2>2, <2>3, <2>4, <2>5 DEF RollInv
<1> QED BY <1>4, <1>7, <1>8

\* The total appended is that of the daily rows.
LEMMA RollupMonthlyRoll ==
  ASSUME TypeOK, RollInv, NEW f \in Followers, RollupMonthly(f)
  PROVE  RollInv'
<1>0. /\ UNCHANGED <<mode, day, phase, polls, up, active, mtm, daily, snapshots, dailyRows>>
      /\ monthly.on /\ monthly.due = None /\ f \in Followers \ monthly.seen
  BY DEF RollupMonthly, timeVars, processVars, Ahead
<1>1. phase = "first"
  BY <1>0 DEF RollInv, TimeInv
<1>2. monthly'.on /\ monthly'.seen = monthly.seen \union {f}
      /\ (monthly'.due = None \/ (monthly'.due = f /\ monthly'.total = MonthTotal(f)
                                  /\ monthlyRows'[f] # <<>>))
  <2>1. monthly \in Iterations
    BY DEF TypeOK
  <2>2. /\ After(monthly, f).on /\ After(monthly, f).seen = monthly.seen \union {f}
        /\ After(monthly, f).due = None /\ After(monthly, f) \in Iterations
    BY <1>0, <2>1, IterationsTyped DEF After, Iterations
  <2>3. ASSUME NEW it \in Iterations, NEW total
        PROVE  LET new == [it EXCEPT !.due = f, !.total = total]
               IN  new.on = it.on /\ new.seen = it.seen /\ new.due = f /\ new.total = total
    BY DEF Iterations
  <2>4. CASE monthly' = After(monthly, f)
    BY <2>2, <2>4
  <2>5. CASE /\ monthly' = [After(monthly, f) EXCEPT !.due = f, !.total = MonthTotal(f)]
             /\ monthlyRows' = [monthlyRows EXCEPT ![f] = Append(@, MonthTotal(f))]
    <3>1. monthlyRows[f] \in Seq(Int) /\ monthlyRows'[f] = Append(monthlyRows[f], MonthTotal(f))
      BY <2>5 DEF TypeOK
    <3>2. monthlyRows'[f] # <<>>
      BY <3>1
    <3> QED BY <2>2, <2>3, <2>5, <3>2
  <2> QED BY <2>4, <2>5 DEF RollupMonthly
<1>3. monthlyRows \in [Followers -> Seq(Int)] /\ MonthTotal(f) \in Int
  BY RowsTyped DEF TypeOK
<1>4. /\ \A g \in Followers \ {f} : monthlyRows'[g] = monthlyRows[g]
      /\ \/ monthlyRows'[f] = monthlyRows[f]
         \/ monthlyRows'[f] = Append(monthlyRows[f], MonthTotal(f))
  BY <1>3 DEF RollupMonthly
<1>5. DailyIsTheClose' /\ SumInv' /\ TimeInv'
      /\ \A g \in Followers : MonthTotal(g)' = MonthTotal(g)
  BY <1>0, <1>1, RowsStay
<1>6. TotalsInv'
  <2>1. \A g \in Followers : \A m \in DOMAIN monthlyRows'[g] : monthlyRows'[g][m] = MonthTotal(g)
    <3> SUFFICES ASSUME NEW g \in Followers, NEW m \in DOMAIN monthlyRows'[g]
                 PROVE  monthlyRows'[g][m] = MonthTotal(g)
      OBVIOUS
    <3>1. CASE monthlyRows'[g] = monthlyRows[g]
      BY <3>1 DEF RollInv, TotalsInv
    <3>2. CASE g = f /\ monthlyRows'[f] = Append(monthlyRows[f], MonthTotal(f))
      <4>1. monthlyRows[f] \in Seq(Int) /\ \A k \in DOMAIN monthlyRows[f] : monthlyRows[f][k] = MonthTotal(f)
        BY <1>3 DEF RollInv, TotalsInv
      <4> HIDE DEF MonthTotal
      <4> QED BY <1>3, <3>2, <4>1
    <3> QED BY <1>4, <3>1, <3>2
  <2>2. MonthIsOver'
    BY <1>0, <1>1 DEF MonthIsOver
  <2> QED BY <1>0, <1>2, <1>5, <2>1, <2>2 DEF TotalsInv, MonthTotal
<1>7. OnceInv'
  <2> SUFFICES ASSUME mode # "failing" PROVE OnceInv'
    BY <1>0 DEF OnceInv
  <2>1. monthlyRows[f] = <<>>
    BY <1>0 DEF RollInv, OnceInv
  <2>2. Len(monthlyRows'[f]) <= 1
    <3>1. CASE monthlyRows'[f] = monthlyRows[f]
      BY <2>1, <3>1
    <3>2. CASE monthlyRows'[f] = Append(monthlyRows[f], MonthTotal(f))
      BY <1>3, <2>1, <3>2
    <3> QED BY <1>4, <3>1, <3>2
  <2>3. \A g \in Followers : Len(monthlyRows'[g]) <= 1
    BY <1>4, <2>2 DEF RollInv, OnceInv
  <2> QED BY <1>0, <1>2, <1>4, <2>3 DEF RollInv, OnceInv, HasRow
<1>8. FiledInv'
  BY <1>0 DEF RollInv, FiledInv, Filed, HasRow, Past
<1> QED BY <1>5, <1>6, <1>7, <1>8 DEF RollInv

\* The followers change only in the mode that is not steady.
LEMMA FollowersRoll ==
  ASSUME TypeOK, RollInv, \E f \in Followers : AddFollower(f) \/ RemoveFollower(f)
  PROVE  RollInv'
<1>0. /\ UNCHANGED <<mode, day, phase, polls, up, mtm, daily, monthly, snapshots, dailyRows,
                     monthlyRows>>
      /\ mode # "steady"
  BY DEF AddFollower, RemoveFollower, timeVars, loopVars, tableVars
<1>1. DailyIsTheClose' /\ SumInv' /\ TimeInv'
      /\ \A f \in Followers : MonthTotal(f)' = MonthTotal(f)
  BY <1>0, RowsStay
<1>2. TotalsInv'
  BY <1>0, <1>1 DEF RollInv, TotalsInv, MonthIsOver, MonthTotal
<1>3. OnceInv'
  BY <1>0 DEF RollInv, OnceInv, HasRow
<1>4. FiledInv'
  BY <1>0 DEF RollInv, FiledInv
<1> QED BY <1>1, <1>2, <1>3, <1>4 DEF RollInv

\* A restart ends the iterations.
LEMMA RestartRoll == TypeOK /\ RollInv /\ (Crash \/ StartMonitoring) => RollInv'
<1> SUFFICES ASSUME TypeOK, RollInv, Crash \/ StartMonitoring PROVE RollInv'
  OBVIOUS
<1>0. /\ UNCHANGED <<mode, day, phase, polls, snapshots, dailyRows, monthlyRows>>
      /\ \/ UNCHANGED <<mtm, daily, monthly>>
         \/ ~mtm'.on /\ ~daily'.on /\ ~monthly'.on /\ monthly'.due = None
      /\ mode # "steady"
  BY DEF Crash, StartMonitoring, Fails, Idle, timeVars, loopVars, tableVars, RollInv, FiledInv
<1>1. DailyIsTheClose' /\ SumInv' /\ TimeInv'
      /\ \A f \in Followers : MonthTotal(f)' = MonthTotal(f)
  BY <1>0, RowsStay
<1>2. TotalsInv'
  BY <1>0, <1>1 DEF RollInv, TotalsInv, MonthIsOver, MonthTotal
<1>3. OnceInv'
  BY <1>0 DEF RollInv, OnceInv, HasRow
<1>4. FiledInv'
  BY <1>0 DEF RollInv, FiledInv
<1> QED BY <1>1, <1>2, <1>3, <1>4 DEF RollInv

\* The times that may follow each other.
LEMMA Times ==
  ASSUME TypeOK, RollInv, Tick
  PROVE  \/ phase = "open" /\ phase' = "window" /\ day' = day
         \/ phase = "window" /\ phase' = "closed" /\ day' = day
         \/ phase = "closed" /\ phase' = "open" /\ day' = day + 1 /\ day < Days
         \/ phase = "closed" /\ phase' = "first" /\ day' = day /\ day = Days
         \/ phase = "first" /\ phase' = "after" /\ day' = day
BY DEF Tick, NextPhase, TypeOK, Phases, PnLAssumption

\* Time passes: what was not filed when the window ends had no snapshot.
LEMMA TickRoll == TypeOK /\ RollInv /\ Tick => RollInv'
<1> SUFFICES ASSUME TypeOK, RollInv, Tick PROVE RollInv'
  OBVIOUS
<1>0. /\ UNCHANGED <<mode, up, active, mtm, daily, monthly, snapshots, dailyRows, monthlyRows>>
      /\ ~mtm.on /\ ~daily.on /\ ~monthly.on /\ polls' = 0
      /\ phase = "window" => WindowServed
  BY DEF Tick, processVars, loopVars, tableVars
<1>1. day \in 1..Days /\ Days \in Nat
  BY DEF TypeOK, PnLAssumption
<1>2. \A g \in Followers : /\ MonthTotal(g)' = MonthTotal(g)
                           /\ \A d \in 1..Days : CurrentPnl(g, d)' = CurrentPnl(g, d)
  BY <1>0 DEF MonthTotal, CurrentPnl
<1>3. \A g \in Followers : \A k \in DOMAIN dailyRows[g] : dailyRows[g][k].day \in 1..Days
  <2> SUFFICES ASSUME NEW g \in Followers, NEW k \in DOMAIN dailyRows[g]
               PROVE  dailyRows[g][k].day \in 1..Days
    OBVIOUS
  <2>1. dailyRows[g][k] \in DailyRows
    BY DEF TypeOK
  <2> QED BY <2>1 DEF DailyRows
<1>4. TimeInv'
  BY <1>0, <1>1, <1>3, Times DEF RollInv, TimeInv, Begun, MonthIsOver
<1>5. DailyIsTheClose'
  BY <1>0, <1>2, <1>3 DEF RollInv, DailyIsTheClose
<1>6. TotalsInv'
  BY <1>0, <1>2, Times DEF RollInv, TotalsInv, MonthIsOver, MonthTotal
<1>7. OnceInv'
  BY <1>0 DEF RollInv, OnceInv
<1>8. mode = "steady" => \A g \in Followers, d \in 1..Days : Past(d)' => Filed(g, d)
  <2> SUFFICES ASSUME mode = "steady", NEW g \in Followers, NEW d \in 1..Days, Past(d)'
               PROVE  Filed(g, d)
    OBVIOUS
  <2>1. CASE Past(d)
    BY <2>1 DEF RollInv, FiledInv
  <2>2. CASE ~Past(d)
    <3>1. phase = "window" /\ d = day
      BY <1>1, <2>2, Times DEF Past
    <3>2. polls > 0
      BY <1>0, <3>1 DEF WindowServed, RollInv, FiledInv
    <3> QED BY <1>0, <3>1, <3>2 DEF RollInv, FiledInv
  <2> QED BY <2>1, <2>2
<1>9. FiledInv'
  <2> SUFFICES ASSUME mode = "steady" PROVE FiledInv'
    BY <1>0 DEF FiledInv
  <2>1. \A g \in Followers, d \in 1..Days : Past(d)' => Filed(g, d)'
    BY <1>0, <1>8 DEF Filed, HasRow
  <2>2. phase' = "window" => \A g \in Followers : ~HasRow(g, day)'
    <3>1. phase' = "window" => phase = "open" /\ day' = day
      BY Times
    <3> QED BY <1>0, <1>1, <1>3, <3>1 DEF RollInv, TimeInv, Begun, HasRow
  <2> QED BY <1>0, <2>1, <2>2 DEF RollInv, FiledInv
<1>10. SumInv'
  <2> SUFFICES ASSUME mode = "steady", NEW g \in Followers
               PROVE (MonthTotal(g) = Total([d \in 1..LastFiled(g) |-> CurrentPnl(g, d)]))'
    BY <1>0 DEF SumInv
  <2>1. MonthTotal(g) = Total([d \in 1..LastFiled(g) |-> CurrentPnl(g, d)])
    BY DEF RollInv, SumInv
  <2>2. ~HasRow(g, day + 1)
    BY <1>1, <1>3 DEF RollInv, TimeInv, Begun, HasRow
  <2>3. LastFiled(g)' = LastFiled(g)
        \/ (phase = "window" /\ ~HasRow(g, day) /\ LastFiled(g) = day - 1 /\ LastFiled(g)' = day)
    <3>1. HasRow(g, day)' = HasRow(g, day')
      BY <1>0 DEF HasRow
    <3> HIDE DEF HasRow
    <3> QED BY <1>1, <2>2, <3>1, Times DEF LastFiled, Past
  <2>4. CASE LastFiled(g)' = LastFiled(g)
    <3>1. LastFiled(g) \in 0..Days
      BY <1>1 DEF LastFiled
    <3>2. [d \in 1..LastFiled(g) |-> CurrentPnl(g, d)]' = [d \in 1..LastFiled(g) |-> CurrentPnl(g, d)]
      BY <1>2, <2>4, <3>1
    <3> QED BY <1>2, <2>1, <3>2
  <2>5. CASE phase = "window" /\ ~HasRow(g, day) /\ LastFiled(g) = day - 1 /\ LastFiled(g)' = day
    <3> DEFINE before == [d \in 1..(day - 1) |-> CurrentPnl(g, d)]
    <3>1. CurrentPnl(g, day) = 0
      <4>1. polls > 0
        BY <1>0, <2>5 DEF WindowServed, RollInv, FiledInv
      <4>2. Filed(g, day)
        BY <1>0, <2>5, <4>1 DEF RollInv, FiledInv
      <4> QED BY <2>5, <4>2 DEF Filed, CurrentPnl
    <3>2. before \in Seq(Int) /\ Len(before) = day - 1
      <4>1. \A d \in 1..Days : CurrentPnl(g, d) \in Int
        BY RowsTyped
      <4>2. \A d \in 1..(day - 1) : CurrentPnl(g, d) \in Int
        BY <1>1, <4>1
      <4> QED BY <1>1, <4>2
    <3>3. [d \in 1..day |-> CurrentPnl(g, d)] = Append(before, 0)
      <4>1. Len(before) + 1 = day
        BY <1>1, <3>2
      <4> QED BY <1>1, <3>1, <3>2, <4>1
    <3>4. Total(Append(before, 0)) = Total(before)
      <4> HIDE DEF before
      <4> QED BY <3>2, TotalAppend, TotalIsInt
    <3>5. [d \in 1..LastFiled(g) |-> CurrentPnl(g, d)]' = [d \in 1..day |-> CurrentPnl(g, d)]
      BY <1>1, <1>2, <2>5
    <3> QED BY <1>2, <2>1, <2>5, <3>3, <3>4, <3>5
  <2> QED BY <2>3, <2>4, <2>5
<1> QED BY <1>4, <1>5, <1>6, <1>7, <1>9, <1>10 DEF RollInv

\* Every step of the service keeps what is said of its loops and tables.
LEMMA RollStep == TypeOK /\ RollInv /\ [Next]_vars => RollInv'
<1> SUFFICES ASSUME TypeOK, RollInv, [Next]_vars PROVE RollInv'
  OBVIOUS
<1>1. CASE PnlNext
  <2>1. CASE LoopStep
    BY <2>1, MtmRoll, MonthlyEndRoll, PollMonthlyRoll, PollDailyRoll, EndDailyRoll,
       FollowerMtmRoll, RollupDailyRoll, RollupMonthlyRoll DEF LoopStep
  <2> QED BY <1>1, <2>1, FollowersRoll, RestartRoll, TickRoll DEF PnlNext
<1>2. CASE \/ \E r \in Runs : StartRun(r) \/ MailerStep(r)
           \/ \E f \in Followers : MarkCommissionPaid(f)
           \/ UNCHANGED vars
  BY <1>2, MailerLeavesTables, RollStays
<1> QED BY <1>1, <1>2 DEF Next

-----------------------------------------------------------------------------
(* The commissions *)

\* The bill of an entry.
SameBills(old, new) ==
    /\ Len(new) = Len(old)
    /\ \A k \in DOMAIN old : /\ new[k].pnl = old[k].pnl /\ new[k].amount = old[k].amount
                             /\ new[k].payable = old[k].payable
                             /\ old[k].sent => new[k].sent

\* A mark changes neither a bill nor the entries of others.
LEMMA MarkedKeeps ==
  ASSUME TypeOK, NEW f \in Followers, NEW rows, Marked(f, rows)
  PROVE  /\ \A g \in Followers \ {f} : rows[g] = commissions[g]
         /\ SameBills(commissions[f], rows[f])
<1>1. commissions[f] \in Seq(CommissionRows)
  BY DEF TypeOK
<1>2. \A c \in CommissionRows :
        /\ [c EXCEPT !.sent = TRUE].pnl = c.pnl /\ [c EXCEPT !.sent = TRUE].amount = c.amount
        /\ [c EXCEPT !.sent = TRUE].payable = c.payable /\ [c EXCEPT !.sent = TRUE].sent
        /\ [c EXCEPT !.paid = TRUE].pnl = c.pnl /\ [c EXCEPT !.paid = TRUE].amount = c.amount
        /\ [c EXCEPT !.paid = TRUE].payable = c.payable /\ [c EXCEPT !.paid = TRUE].sent = c.sent
  BY DEF CommissionRows
<1>3. \/ rows[f] = commissions[f]
      \/ rows[f] = [commissions[f] EXCEPT ![1] = [commissions[f][1] EXCEPT !.sent = TRUE]]
      \/ rows[f] = [commissions[f] EXCEPT ![1] = [commissions[f][1] EXCEPT !.paid = TRUE]]
  BY DEF Marked, TypeOK
<1>4. \A k \in DOMAIN commissions[f] : commissions[f][k] \in CommissionRows
  BY <1>1
<1>5. Len(rows[f]) = Len(commissions[f])
  BY <1>1, <1>3
<1>6. SameBills(commissions[f], rows[f])
  <2> SUFFICES ASSUME NEW k \in DOMAIN commissions[f]
               PROVE  /\ rows[f][k].pnl = commissions[f][k].pnl
                      /\ rows[f][k].amount = commissions[f][k].amount
                      /\ rows[f][k].payable = commissions[f][k].payable
                      /\ commissions[f][k].sent => rows[f][k].sent
    BY <1>5 DEF SameBills
  <2>1. commissions[f][k] \in CommissionRows
    BY <1>4
  <2>2. \/ rows[f][k] = commissions[f][k]
        \/ rows[f][k] = [commissions[f][k] EXCEPT !.sent = TRUE]
        \/ rows[f][k] = [commissions[f][k] EXCEPT !.paid = TRUE]
    BY <1>1, <1>3
  <2> QED BY <1>2, <2>1, <2>2
<1> QED BY <1>6 DEF Marked, TypeOK

\* The steps that write commissions: the calculation, a commit of the mailer, a payment.
LEMMA CommissionActions ==
  ASSUME [Next]_vars
  PROVE  \/ CalculateCommission \/ commissions' = commissions
         \/ \E r \in Runs : Commit(r)
         \/ \E f \in Followers : MarkCommissionPaid(f)
<1>1. CASE PnlNext /\ ~CalculateCommission
  BY <1>1 DEF PnlNext, LoopStep, BeginMtm, EndMtm, PollDaily, EndDaily, PollMonthly, EndMonthly,
              FollowerMtm, RollupDaily, RollupMonthly, AddFollower, RemoveFollower, Crash,
              StartMonitoring, Tick, tableVars
<1>2. ASSUME NEW r \in Runs, StartRun(r) \/ MailerStep(r), ~Commit(r)
      PROVE  commissions' = commissions
  BY <1>2 DEF MailerStep, StartRun, EndRun, Prepare, Attach, Send, RemovePdf, pnlVars,
              otherPnlVars, tableVars
<1>3. UNCHANGED vars => commissions' = commissions
  BY DEF vars, pnlVars, tableVars
<1> QED BY <1>1, <1>2, <1>3 DEF Next

\* How they change the entries: the commission in hand is written, or an entry is marked.
LEMMA CommissionSteps ==
  ASSUME TypeOK, RunInv, [Next]_vars
  PROVE  \/ CalculateCommission
         \/ commissions' = commissions
         \/ \E f \in Followers : Marked(f, commissions') /\ UNCHANGED rollVars
<1>1. ASSUME NEW r \in Runs, Commit(r)
      PROVE \E f \in Followers : Marked(f, commissions') /\ UNCHANGED rollVars
  <2>1. run[r].f \in Followers
    BY <1>1 DEF RunInv, Commit, InHand
  <2>2. UNCHANGED rollVars
    BY <1>1, MailerLeavesTables DEF MailerStep
  <2> QED BY <1>1, <2>1, <2>2 DEF Commit, MarkSent, Marked
<1>2. ASSUME NEW f \in Followers, MarkCommissionPaid(f)
      PROVE  \E g \in Followers : Marked(g, commissions') /\ UNCHANGED rollVars
  BY <1>2, MailerLeavesTables DEF MarkCommissionPaid, Marked
<1> QED BY <1>1, <1>2, CommissionActions

\* There is one bill, of the rows that were rolled up; calculating it again
\* comes to the same total.
LEMMA BillsFollowTotals ==
  ASSUME TypeOK, RollInv, OneCommission, NEW f \in Followers, NEW k \in DOMAIN commissions[f]
  PROVE  /\ k = 1 /\ commissions[f][k] \in CommissionRows
         /\ commissions[f][k].pnl = MonthTotal(f)
         /\ commissions[f][k].payable = IsPayable(MonthTotal(f))
<1>1. commissions[f] \in Seq(CommissionRows) /\ Len(commissions[f]) <= 1
  BY DEF TypeOK, OneCommission
<1>2. k = 1 /\ commissions[f][k] \in CommissionRows
  BY <1>1
<1>3. commissions[f][k].pnl = MonthTotal(f)
  BY DEF OneCommission, RollInv, TotalsInv
<1>4. commissions[f][k].payable \in BOOLEAN
  BY <1>2 DEF CommissionRows
<1>5. commissions[f][k].payable <=> commissions[f][k].pnl > 0
  BY DEF OneCommission
<1>6. commissions[f][k].payable = IsPayable(MonthTotal(f))
  BY <1>3, <1>4, <1>5 DEF IsPayable
<1> QED BY <1>2, <1>3, <1>6

\* The step that writes a commission.
LEMMA CalculateEffect ==
  ASSUME TypeOK, RollInv, OneCommission, CalculateCommission
  PROVE  LET f == monthly.due
         IN  /\ f \in Followers /\ f \in monthly.seen /\ monthlyRows[f] # <<>>
             /\ UNCHANGED <<mode, timeVars, dailyRows, snapshots, monthlyRows>>
             /\ monthly'.on /\ monthly'.due = None /\ monthly'.seen = monthly.seen
             /\ monthly'.size = monthly.size
             /\ \A g \in Followers \ {f} : commissions'[g] = commissions[g]
             /\ commissions' # commissions \/ mode = "steady" =>
                  /\ Len(commissions'[f]) = 1
                  /\ commissions'[f][1].pnl = MonthTotal(f)
                  /\ commissions'[f][1].payable = IsPayable(MonthTotal(f))
                  /\ \E rate \in Rates : commissions'[f][1].amount = Amount(MonthTotal(f), rate)
             /\ IF commissions[f] = <<>>
                THEN commissions'[f] = <<>> \/ ~commissions'[f][1].sent
                ELSE commissions'[f] # <<>> /\ commissions'[f][1].sent = commissions[f][1].sent
<1> DEFINE f == monthly.due
<1>1. monthly \in Iterations
  BY DEF TypeOK
<1>2. f \in Followers /\ f \in monthly.seen /\ monthlyRows[f] # <<>> /\ monthly.on
      /\ monthly.total = MonthTotal(f) /\ monthly.total \in Int
  BY <1>1 DEF CalculateCommission, RollInv, TotalsInv, Iterations
<1>3. /\ UNCHANGED <<mode, timeVars, dailyRows, snapshots, monthlyRows>>
      /\ monthly' = [monthly EXCEPT !.due = None, !.total = 0]
      /\ \/ \E rate \in Rates :
              commissions' = [commissions EXCEPT ![f] = Upsert(@, monthly.total, rate)]
         \/ mode \in {"changing", "failing"} /\ UNCHANGED commissions
  BY DEF CalculateCommission, Fails
<1>4. monthly'.on /\ monthly'.due = None /\ monthly'.seen = monthly.seen
      /\ monthly'.size = monthly.size
  BY <1>1, <1>2, <1>3 DEF Iterations
<1>5. commissions \in [Followers -> Seq(CommissionRows)] /\ Len(commissions[f]) <= 1
  BY <1>2 DEF TypeOK, OneCommission
<1>6. ASSUME NEW rate \in Rates,
             commissions' = [commissions EXCEPT ![f] = Upsert(@, monthly.total, rate)]
      PROVE  /\ \A g \in Followers \ {f} : commissions'[g] = commissions[g]
             /\ Len(commissions'[f]) = 1
             /\ commissions'[f][1].pnl = MonthTotal(f)
             /\ commissions'[f][1].payable = IsPayable(MonthTotal(f))
             /\ commissions'[f][1].amount = Amount(MonthTotal(f), rate)
             /\ IF commissions[f] = <<>>
                THEN ~commissions'[f][1].sent
                ELSE commissions'[f] # <<>> /\ commissions'[f][1].sent = commissions[f][1].sent
  <2> DEFINE new == Upsert(commissions[f], monthly.total, rate)
  <2>1. commissions'[f] = new /\ \A g \in Followers \ {f} : commissions'[g] = commissions[g]
    BY <1>2, <1>5, <1>6
  <2>2. Upserted(commissions[f], monthly.total, rate, new)
    <3>1. commissions[f] \in Seq(CommissionRows) /\ monthly.total \in Int
      BY <1>2, <1>5
    <3> QED BY <3>1, UpsertTyped
  <2>3. Len(new) = 1
    <3>1. commissions[f] # <<>> => Len(commissions[f]) = 1
      BY <1>2, <1>5, OneLong
    <3> HIDE DEF new
    <3> QED BY <2>2, <3>1 DEF Upserted
  <2> HIDE DEF new
  <2> QED BY <1>2, <2>1, <2>2, <2>3 DEF Upserted
<1>7. CASE mode \in {"changing", "failing"} /\ UNCHANGED commissions
  BY <1>2, <1>3, <1>4, <1>7
<1>8. CASE \E rate \in Rates :
             commissions' = [commissions EXCEPT ![f] = Upsert(@, monthly.total, rate)]
  <2>1. PICK rate \in Rates :
          commissions' = [commissions EXCEPT ![f] = Upsert(@, monthly.total, rate)]
    BY <1>8
  <2> HIDE DEF f
  <2> QED BY <1>2, <1>3, <1>4, <1>6, <2>1 DEF f
<1> QED BY <1>3, <1>7, <1>8

\* Rows of the month are only appended.
LEMMA RowsGrow ==
  ASSUME TypeOK, [Next]_vars, NEW g \in Followers
  PROVE  \A m \in DOMAIN monthlyRows[g] :
           m \in DOMAIN monthlyRows'[g] /\ monthlyRows'[g][m] = monthlyRows[g][m]
<1>1. CASE UNCHANGED monthlyRows
  BY <1>1
<1>2. ASSUME NEW f \in Followers, RollupMonthly(f)
      PROVE  \A m \in DOMAIN monthlyRows[g] :
               m \in DOMAIN monthlyRows'[g] /\ monthlyRows'[g][m] = monthlyRows[g][m]
  <2>1. monthlyRows \in [Followers -> Seq(Int)] /\ MonthTotal(f) \in Int
    BY RowsTyped DEF TypeOK
  <2>2. \/ monthlyRows'[g] = monthlyRows[g]
        \/ monthlyRows'[g] = Append(monthlyRows[g], MonthTotal(f))
    BY <1>2, <2>1 DEF RollupMonthly
  <2>3. \A s \in Seq(Int), e \in Int : \A m \in DOMAIN s :
          m \in DOMAIN Append(s, e) /\ Append(s, e)[m] = s[m]
    OBVIOUS
  <2>4. monthlyRows[g] \in Seq(Int)
    BY <2>1
  <2>5. CASE monthlyRows'[g] = monthlyRows[g]
    BY <2>5
  <2>6. CASE monthlyRows'[g] = Append(monthlyRows[g], MonthTotal(f))
    <3>1. MonthTotal(f) \in Int BY <2>1
    <3> QED BY <2>3, <2>4, <2>6, <3>1
  <2> QED BY <2>2, <2>5, <2>6
<1>3. CASE \/ \E r \in Runs : StartRun(r) \/ MailerStep(r)
           \/ \E f \in Followers : MarkCommissionPaid(f)
           \/ UNCHANGED vars
  BY <1>1, <1>3, MailerLeavesTables DEF rollVars
<1>4. CASE PnlNext /\ ~\E f \in Followers : RollupMonthly(f)
  <2>1. UNCHANGED monthlyRows
    BY <1>4 DEF PnlNext, LoopStep, BeginMtm, EndMtm, PollDaily, EndDaily, PollMonthly, EndMonthly,
                CalculateCommission, FollowerMtm, RollupDaily, AddFollower, RemoveFollower, Crash,
                StartMonitoring, Tick, tableVars
  <2> QED BY <1>1, <2>1
<1> QED BY <1>2, <1>3, <1>4 DEF Next

\* The calculation writes entries.
LEMMA CommissionsTyped ==
  ASSUME TypeOK, CalculateCommission
  PROVE  commissions' \in [Followers -> Seq(CommissionRows)]
<1>1. monthly.due \in Followers /\ monthly.total \in Int
  BY DEF TypeOK, CalculateCommission, Iterations
<1>2. \A rate \in Rates :
        Upsert(commissions[monthly.due], monthly.total, rate) \in Seq(CommissionRows)
  BY <1>1, UpsertTyped DEF TypeOK, Upserted
<1> QED BY <1>1, <1>2 DEF TypeOK, CalculateCommission

\* Every step leaves one entry per follower, of a total that was rolled up.
LEMMA OneCommissionStep ==
  ASSUME TypeOK, RollInv, RunInv, OneCommission, [Next]_vars
  PROVE  OneCommission'
<1> SUFFICES ASSUME NEW g \in Followers
             PROVE  /\ Len(commissions'[g]) <= 1
                    /\ \A k \in DOMAIN commissions'[g] :
                         LET c == commissions'[g][k]
                         IN  /\ \E m \in DOMAIN monthlyRows'[g] : monthlyRows'[g][m] = c.pnl
                             /\ c.payable <=> c.pnl > 0
                             /\ IF c.payable THEN \E rate \in Rates : c.amount = rate * c.pnl
                                             ELSE c.amount = 0
  BY DEF OneCommission
<1>1. /\ Len(commissions[g]) <= 1
      /\ \A k \in DOMAIN commissions[g] :
           LET c == commissions[g][k]
           IN  /\ \E m \in DOMAIN monthlyRows[g] : monthlyRows[g][m] = c.pnl
               /\ c.payable <=> c.pnl > 0
               /\ IF c.payable THEN \E rate \in Rates : c.amount = rate * c.pnl
                               ELSE c.amount = 0
  BY DEF OneCommission
<1>2. CASE commissions' = commissions
  <2>1. \A m \in DOMAIN monthlyRows[g] :
          m \in DOMAIN monthlyRows'[g] /\ monthlyRows'[g][m] = monthlyRows[g][m]
    BY RowsGrow
  <2> QED BY <1>1, <1>2, <2>1
<1>3. ASSUME NEW f \in Followers, Marked(f, commissions'), UNCHANGED rollVars
      PROVE  /\ Len(commissions'[g]) <= 1
             /\ \A k \in DOMAIN commissions'[g] :
                  LET c == commissions'[g][k]
                  IN  /\ \E m \in DOMAIN monthlyRows'[g] : monthlyRows'[g][m] = c.pnl
                      /\ c.payable <=> c.pnl > 0
                      /\ IF c.payable THEN \E rate \in Rates : c.amount = rate * c.pnl
                                      ELSE c.amount = 0
  <2>1. SameBills(commissions[g], commissions'[g])
    <3>1. CASE g = f
      BY <1>3, <3>1, MarkedKeeps
    <3>2. CASE g # f
      BY <1>3, <3>2, MarkedKeeps DEF SameBills
    <3> QED BY <3>1, <3>2
  <2>2. commissions[g] \in Seq(CommissionRows) /\ commissions'[g] \in Seq(CommissionRows)
    BY <1>3, MarkedTyped DEF TypeOK
  <2>3. monthlyRows' = monthlyRows
    BY <1>3 DEF rollVars
  <2>4. DOMAIN commissions'[g] = DOMAIN commissions[g]
    BY <2>1, <2>2 DEF SameBills
  <2> QED BY <1>1, <2>1, <2>3, <2>4 DEF SameBills
<1>4. CASE CalculateCommission
  <2> DEFINE f == monthly.due
  <2>0. /\ f \in Followers /\ monthlyRows[f] # <<>> /\ monthlyRows' = monthlyRows
        /\ \A h \in Followers \ {f} : commissions'[h] = commissions[h]
        /\ commissions' # commissions =>
             /\ Len(commissions'[f]) = 1
             /\ commissions'[f][1].pnl = MonthTotal(f)
             /\ commissions'[f][1].payable = IsPayable(MonthTotal(f))
             /\ \E rate \in Rates : commissions'[f][1].amount = Amount(MonthTotal(f), rate)
    BY <1>4, CalculateEffect
  <2>1. CASE g # f
    BY <1>1, <2>0, <2>1
  <2>2. CASE g = f /\ commissions' # commissions
    <3>1. commissions'[f] \in Seq(CommissionRows)
      BY <1>4, <2>0, CommissionsTyped
    <3>2. DOMAIN commissions'[f] = {1}
      BY <2>0, <2>2, <3>1
    <3>3. \E m \in DOMAIN monthlyRows[f] : monthlyRows[f][m] = MonthTotal(f)
      <4>1. monthlyRows[f] \in Seq(Int)
        BY <2>0 DEF TypeOK
      <4>2. 1 \in DOMAIN monthlyRows[f]
        BY <2>0, <4>1
      <4> QED BY <2>0, <4>2 DEF RollInv, TotalsInv
    <3>4. /\ commissions'[f][1].payable <=> commissions'[f][1].pnl > 0
          /\ IF commissions'[f][1].payable
             THEN \E rate \in Rates : commissions'[f][1].amount = rate * commissions'[f][1].pnl
             ELSE commissions'[f][1].amount = 0
      <4>1. PICK rate \in Rates : commissions'[f][1].amount = Amount(MonthTotal(f), rate)
        BY <2>0, <2>2
      <4> QED BY <2>0, <2>2, <4>1 DEF IsPayable, Amount
    <3>5. Len(commissions'[f]) <= 1
      <4>1. Len(commissions'[f]) = 1
        BY <2>0, <2>2
      <4>2. \A n : n = 1 => n <= 1
        OBVIOUS
      <4> QED BY <4>1, <4>2
    <3>6. ASSUME NEW k \in DOMAIN commissions'[f]
          PROVE  LET c == commissions'[f][k]
                 IN  /\ \E m \in DOMAIN monthlyRows[f] : monthlyRows[f][m] = c.pnl
                     /\ c.payable <=> c.pnl > 0
                     /\ IF c.payable THEN \E rate \in Rates : c.amount = rate * c.pnl
                                     ELSE c.amount = 0
      <4>1. k = 1
        BY <3>2
      <4> QED BY <2>0, <2>2, <3>3, <3>4, <4>1
    <3> HIDE DEF f
    <3> QED BY <2>0, <2>2, <3>5, <3>6
  <2> QED BY <1>1, <1>2, <2>1, <2>2
<1> QED BY <1>2, <1>3, <1>4, CommissionSteps

\* An entry that is there stays there.
LEMMA EntriesStay ==
  ASSUME TypeOK, RollInv, RunInv, OneCommission, [Next]_vars, NEW g \in Followers,
         commissions[g] # <<>>
  PROVE  commissions'[g] # <<>>
<1>1. CASE CalculateCommission
  BY <1>1, CalculateEffect
<1>2. ASSUME NEW f \in Followers, Marked(f, commissions')
      PROVE  commissions'[g] # <<>>
  <2>1. CASE g # f
    BY <1>2, <2>1, MarkedKeeps
  <2>2. CASE g = f
    <3>1. Len(commissions'[g]) = Len(commissions[g])
      BY <1>2, <2>2, MarkedKeeps DEF SameBills
    <3>2. commissions[g] \in Seq(CommissionRows)
      BY DEF TypeOK
    <3>3. Len(commissions[g]) # 0
      BY <3>2
    <3> QED BY <3>1, <3>3
  <2> QED BY <2>1, <2>2
<1> QED BY <1>1, <1>2, CommissionSteps

\* The mode stays.
LEMMA ModeStays == [Next]_vars => mode' = mode
BY DEF Next, PnlNext, LoopStep, BeginMtm, EndMtm, PollDaily, EndDaily, PollMonthly,
       EndMonthly, CalculateCommission, FollowerMtm, RollupDaily, RollupMonthly,
       AddFollower, RemoveFollower, Crash, StartMonitoring, Tick, MailerStep, StartRun,
       EndRun, Prepare, Attach, Send, Commit, RemovePdf, MarkCommissionPaid, vars, pnlVars,
       otherPnlVars

\* Whoever has rows is billed in turn.
LEMMA BilledStep ==
  ASSUME TypeOK, RollInv, RunInv, OneCommission, BilledInv, [Next]_vars
  PROVE  BilledInv'
<1> SUFFICES ASSUME mode = "steady", mode' = mode PROVE BilledInv'
  <2>1. mode' = mode
    BY ModeStays
  <2> QED BY <2>1 DEF BilledInv
<1>1. \A g \in Followers : commissions[g] # <<>> => commissions'[g] # <<>>
  BY EntriesStay
<1>2. /\ monthly.on => phase = "first" /\ monthly.size = Cardinality(Followers) /\ polls > 0
      /\ phase = "first" /\ polls = 0 => \A g \in Followers : monthlyRows[g] = <<>>
      /\ phase = "first" /\ polls > 0 =>
           \A g \in Followers : ~monthly.on \/ g \in monthly.seen => Billed(g) \/ monthly.due = g
      /\ phase = "after" /\ MonthlyCompleted => \A g \in Followers : Billed(g)
      /\ up /\ active = Followers /\ polls \in Nat /\ monthly \in Iterations
  BY DEF BilledInv, RollInv, TimeInv, FiledInv, TypeOK
<1>3. ASSUME UNCHANGED <<phase, polls, monthly, dailyRows, monthlyRows>> PROVE BilledInv'
  BY <1>1, <1>2, <1>3 DEF BilledInv, Billed, MonthlyCompleted
<1>4. ASSUME ~monthly'.on, phase' \notin {"first", "after"} PROVE BilledInv'
  BY <1>4 DEF BilledInv
<1>5. CASE \/ \E r \in Runs : StartRun(r) \/ MailerStep(r)
           \/ \E f \in Followers : MarkCommissionPaid(f)
           \/ UNCHANGED vars
  BY <1>3, <1>5, MailerLeavesTables DEF rollVars, timeVars, loopVars
<1>6. CASE BeginMtm \/ EndMtm \/ EndDaily \/ \E f \in Followers : FollowerMtm(f)
  BY <1>3, <1>6 DEF BeginMtm, EndMtm, EndDaily, FollowerMtm, timeVars, tableVars
<1>7. CASE PollDaily \/ \E f \in Followers : RollupDaily(f)
  <2>1. phase = "window" /\ phase' = phase /\ monthly' = monthly
    BY <1>7 DEF PollDaily, RollupDaily, timeVars, RollInv, TimeInv
  <2> QED BY <1>2, <1>4, <2>1
<1>8. CASE PollMonthly
  <2>1. /\ UNCHANGED <<phase, dailyRows, monthlyRows>> /\ phase = "first" /\ ~monthly.on
        /\ polls' = polls + 1
        /\ \/ monthly' = monthly /\ MonthlyCompleted
           \/ /\ monthly'.on /\ monthly'.seen = {} /\ monthly'.size = Cardinality(Followers)
              /\ monthly'.due = None
    BY <1>2, <1>8 DEF PollMonthly, Begin, Idle, Fails, tableVars
  <2>2. ASSUME NEW g \in Followers, ~monthly'.on \/ g \in monthly'.seen
        PROVE  Billed(g)'
    <3>1. monthly' = monthly /\ MonthlyCompleted
      BY <2>1, <2>2
    <3>2. polls > 0
      BY <1>2, <2>1, <3>1 DEF MonthlyCompleted
    <3>3. monthly.due # g
      BY <2>1 DEF RollInv, TotalsInv
    <3>4. Billed(g)
      BY <1>2, <2>1, <3>2, <3>3
    <3> QED BY <1>1, <2>1, <3>4 DEF Billed
  <2>3. polls' > 0
    BY <1>2, <2>1
  <2> QED BY <1>2, <2>1, <2>2, <2>3 DEF BilledInv
<1>9. ASSUME NEW f \in Followers, RollupMonthly(f) PROVE BilledInv'
  <2>1. /\ UNCHANGED <<phase, polls, dailyRows, commissions>> /\ monthly.on /\ monthly.due = None
        /\ phase = "first" /\ polls > 0
    BY <1>2, <1>9 DEF RollupMonthly, timeVars
  <2>2. \/ monthly' = After(monthly, f) /\ dailyRows[f] = <<>>
        \/ monthly' = [After(monthly, f) EXCEPT !.due = f, !.total = MonthTotal(f)]
    BY <1>9 DEF RollupMonthly, Fails
  <2>3. /\ After(monthly, f).on /\ After(monthly, f).seen = monthly.seen \union {f}
        /\ After(monthly, f).size = monthly.size /\ After(monthly, f) \in Iterations
    BY <1>2, <2>1, IterationsTyped DEF After, Iterations
  <2>4. /\ monthly'.on /\ monthly'.seen = monthly.seen \union {f}
        /\ monthly'.size = Cardinality(Followers)
        /\ dailyRows[f] = <<>> \/ monthly'.due = f
    <3>1. ASSUME NEW it \in Iterations, NEW total
          PROVE  LET new == [it EXCEPT !.due = f, !.total = total]
                 IN  new.on = it.on /\ new.seen = it.seen /\ new.due = f /\ new.size = it.size
      BY DEF Iterations
    <3>2. CASE monthly' = After(monthly, f) /\ dailyRows[f] = <<>>
      BY <1>2, <2>1, <2>3, <3>2
    <3>3. CASE monthly' = [After(monthly, f) EXCEPT !.due = f, !.total = MonthTotal(f)]
      <4> DEFINE it == After(monthly, f)
      <4>1. /\ monthly'.on = it.on /\ monthly'.seen = it.seen
            /\ monthly'.due = f /\ monthly'.size = it.size
        BY <2>3, <3>1, <3>3
      <4> QED BY <1>2, <2>1, <2>3, <4>1
    <3> QED BY <2>2, <3>2, <3>3
  <2>5. \A g \in monthly.seen \cap Followers : Billed(g)
    BY <1>2, <2>1
  <2>6. \A g \in Followers : g \in monthly'.seen => Billed(g)' \/ monthly'.due = g
    BY <2>1, <2>4, <2>5 DEF Billed
  <2> QED BY <1>2, <2>1, <2>4, <2>6 DEF BilledInv
<1>10. CASE CalculateCommission
  <2>1. /\ UNCHANGED <<phase, polls, dailyRows, monthlyRows>>
        /\ monthly.due \in Followers
        /\ monthly'.on /\ monthly'.due = None /\ monthly'.seen = monthly.seen
        /\ monthly'.size = monthly.size
        /\ Len(commissions'[monthly.due]) = 1
    BY <1>10, CalculateEffect DEF timeVars
  <2>2. monthly.on /\ phase = "first" /\ polls > 0
    BY <1>2, <1>10 DEF CalculateCommission
  <2>3. commissions'[monthly.due] # <<>>
    <3>1. \A rows : Len(rows) = 1 => rows # <<>>
      OBVIOUS
    <3> QED BY <2>1, <3>1
  <2>4. \A g \in Followers : g \in monthly'.seen => Billed(g)'
    BY <1>1, <1>2, <2>1, <2>2, <2>3 DEF Billed
  <2> QED BY <1>2, <2>1, <2>2, <2>4 DEF BilledInv
<1>11. CASE EndMonthly
  <2>1. /\ UNCHANGED <<phase, polls, dailyRows, monthlyRows, commissions>>
        /\ ~monthly'.on /\ monthly.on /\ monthly.due = None /\ Ahead(monthly) = {}
    BY <1>11 DEF EndMonthly, Idle, timeVars, tableVars
  <2>2. Followers \subseteq monthly.seen
    BY <1>2, <2>1 DEF Ahead, Broken
  <2>3. \A g \in Followers : Billed(g)
    BY <1>2, <2>1, <2>2
  <2> QED BY <1>2, <2>1, <2>3 DEF BilledInv, Billed
<1>12. CASE Tick
  <2>1. /\ UNCHANGED <<monthly, dailyRows, monthlyRows, commissions>> /\ ~monthly.on /\ polls' = 0
    BY <1>12 DEF Tick, loopVars, tableVars
  <2>2. CASE phase' = "first"
    <3>1. phase = "closed"
      BY <1>12, <2>2, Times
    <3>2. \A g \in Followers : monthlyRows[g] = <<>>
      <4> SUFFICES ASSUME NEW g \in Followers PROVE monthlyRows[g] = <<>>
        OBVIOUS
      <4>1. \A m \in DOMAIN monthlyRows[g] : FALSE
        BY <3>1 DEF RollInv, TotalsInv, MonthIsOver
      <4>2. monthlyRows[g] \in Seq(Int)
        BY DEF TypeOK
      <4> QED BY <4>1, <4>2, NoneLong
    <3> QED BY <2>1, <2>2, <3>2 DEF BilledInv
  <2>3. CASE phase' = "after"
    <3>1. phase = "first"
      BY <1>12, <2>3, Times
    <3>2. MonthlyCompleted => polls > 0
      BY <1>2, <3>1 DEF MonthlyCompleted
    <3>3. MonthlyCompleted => \A g \in Followers : Billed(g)
      BY <1>2, <2>1, <3>1, <3>2 DEF RollInv, TotalsInv
    <3> QED BY <2>1, <2>3, <3>3 DEF BilledInv, Billed, MonthlyCompleted
  <2> QED BY <1>4, <2>1, <2>2, <2>3
<1>13. CASE Crash \/ StartMonitoring \/ \E f \in Followers : AddFollower(f) \/ RemoveFollower(f)
  BY <1>2, <1>13 DEF Crash, Fails, StartMonitoring, AddFollower, RemoveFollower
<1> QED BY <1>5, <1>6, <1>7, <1>8, <1>9, <1>10, <1>11, <1>12, <1>13 DEF Next, PnlNext, LoopStep

\* The commission in hand stays the first of its follower.
LEMMA DueStep ==
  ASSUME TypeOK, RollInv, RunInv, OneCommission, DueInv, [Next]_vars
  PROVE  DueInv'
<1> SUFFICES ASSUME mode # "failing", monthly'.due # None
             PROVE  commissions'[monthly'.due] = <<>>
  BY ModeStays DEF DueInv
<1>1. ASSUME monthly'.due = monthly.due, ~CalculateCommission
      PROVE  commissions'[monthly'.due] = <<>>
  <2>1. commissions[monthly.due] = <<>> /\ monthly.due \in Followers
    BY <1>1 DEF DueInv, TypeOK, Iterations
  <2>2. ASSUME NEW f \in Followers, Marked(f, commissions')
        PROVE  commissions'[monthly.due] = <<>>
    <3>1. CASE monthly.due # f
      BY <2>1, <2>2, <3>1, MarkedKeeps
    <3>2. CASE monthly.due = f
      <4>1. Len(commissions'[f]) = 0
        BY <2>1, <2>2, <3>2, MarkedKeeps DEF SameBills
      <4>2. commissions'[f] \in Seq(CommissionRows)
        BY <2>2, MarkedTyped
      <4> QED BY <3>2, <4>1, <4>2
    <3> QED BY <3>1, <3>2
  <2> QED BY <1>1, <2>1, <2>2, CommissionSteps
<1>2. ASSUME NEW f \in Followers, RollupMonthly(f)
      PROVE  commissions'[monthly'.due] = <<>>
  <2>1. monthly.on /\ monthly.due = None /\ f \notin monthly.seen /\ commissions' = commissions
    BY <1>2 DEF RollupMonthly, Ahead
  <2>2. monthly'.due = f
    <3>1. monthly \in Iterations /\ After(monthly, f) \in Iterations
      BY IterationsTyped DEF TypeOK
    <3>2. After(monthly, f).due = None
      BY <2>1, <3>1 DEF After, Iterations
    <3>3. [After(monthly, f) EXCEPT !.due = f, !.total = MonthTotal(f)].due = f
      BY <3>1 DEF Iterations
    <3> QED BY <1>2, <3>2, <3>3 DEF RollupMonthly
  <2>3. monthlyRows[f] = <<>>
    BY <2>1 DEF RollInv, OnceInv
  <2>4. \A k \in DOMAIN commissions[f] : FALSE
    BY <2>3 DEF OneCommission
  <2>5. commissions[f] \in Seq(CommissionRows)
    BY DEF TypeOK
  <2> QED BY <2>1, <2>2, <2>4, <2>5, NoneLong
<1>3. CASE CalculateCommission
  BY <1>3, CalculateEffect
<1>4. CASE PollMonthly
  BY <1>1, <1>4 DEF PollMonthly, Begin, Idle, CalculateCommission
<1>5. CASE EndMonthly \/ Crash
  BY <1>5 DEF EndMonthly, Crash, Idle
<1>6. CASE \/ \E r \in Runs : StartRun(r) \/ MailerStep(r)
           \/ \E f \in Followers : MarkCommissionPaid(f)
           \/ UNCHANGED vars
  BY <1>1, <1>3, <1>6, MailerLeavesTables DEF rollVars, loopVars
<1>7. CASE PnlNext /\ ~(PollMonthly \/ EndMonthly \/ Crash \/ CalculateCommission)
           /\ ~\E f \in Followers : RollupMonthly(f)
  <2>1. monthly' = monthly
    BY <1>7 DEF PnlNext, LoopStep, BeginMtm, EndMtm, PollDaily, EndDaily, FollowerMtm, RollupDaily,
                AddFollower, RemoveFollower, StartMonitoring, Tick, loopVars
  <2> QED BY <1>1, <1>7, <2>1
<1> QED BY <1>2, <1>3, <1>4, <1>5, <1>6, <1>7 DEF Next

-----------------------------------------------------------------------------
(* The mails *)

\* Only a commit marks an entry as sent; and what is sent stays so.
LEMMA SentStays ==
  ASSUME TypeOK, RollInv, RunInv, OneCommission, [Next]_vars, NEW g \in Followers
  PROVE  /\ Sent(g) => Sent(g)'
         /\ Sent(g)' => Sent(g) \/ \E r \in Runs : Commit(r) /\ run[r].f = g
<1>1. commissions[g] # <<>> => commissions'[g] # <<>>
  BY EntriesStay
<1>2. commissions[g] \in Seq(CommissionRows) /\ Len(commissions[g]) <= 1
  BY DEF TypeOK, OneCommission
<1>3. commissions[g] # <<>> => 1 \in DOMAIN commissions[g] /\ commissions[g][1] \in CommissionRows
  BY <1>2, OneLong
<1>4. CASE CalculateCommission
  <2>1. CASE monthly.due = g
    BY <1>4, <2>1, CalculateEffect DEF Sent
  <2>2. CASE monthly.due # g
    BY <1>4, <2>2, CalculateEffect DEF Sent
  <2> QED BY <2>1, <2>2
<1>5. CASE commissions' = commissions
  BY <1>5 DEF Sent
<1>6. ASSUME NEW f \in Followers, Marked(f, commissions'), f = g
      PROVE  Sent(g) => Sent(g)'
  BY <1>1, <1>3, <1>6, MarkedKeeps DEF SameBills, Sent
<1>7. ASSUME NEW f \in Followers, Marked(f, commissions'), f # g
      PROVE  Sent(g) = Sent(g)'
  BY <1>7, MarkedKeeps DEF Sent
<1>8. ASSUME NEW r \in Runs, Commit(r)
      PROVE  /\ Sent(g) => Sent(g)'
             /\ Sent(g)' => Sent(g) \/ run[r].f = g
  <2>1. run[r].f \in Followers /\ Marked(run[r].f, commissions')
    BY <1>8 DEF RunInv, Commit, InHand, MarkSent, Marked
  <2> QED BY <1>6, <1>7, <2>1
<1>9. ASSUME NEW f \in Followers, MarkCommissionPaid(f)
      PROVE  Sent(g) = Sent(g)'
  <2>1. Marked(f, commissions')
    BY <1>9 DEF MarkCommissionPaid, Marked
  <2>2. CASE f # g
    BY <1>7, <2>1, <2>2
  <2>3. CASE f = g
    <3>1. commissions[g] # <<>> /\ commissions'[g] = [commissions[g] EXCEPT ![1] =
                                                        [commissions[g][1] EXCEPT !.paid = TRUE]]
      BY <1>9, <2>3 DEF MarkCommissionPaid, TypeOK
    <3>2. commissions'[g][1] = [commissions[g][1] EXCEPT !.paid = TRUE]
      BY <1>2, <1>3, <3>1
    <3>3. commissions'[g][1].sent = commissions[g][1].sent
      BY <1>3, <3>1, <3>2 DEF CommissionRows
    <3> QED BY <1>1, <3>1, <3>3 DEF Sent
  <2> QED BY <2>2, <2>3
<1> QED BY <1>4, <1>5, <1>8, <1>9, CommissionActions

\* A commit that is not raised marks the entry as sent.
LEMMA CommitMarks ==
  ASSUME TypeOK, RunInv, NEW r \in Runs, Commit(r), mode # "failing",
         NEW f \in Followers, run[r].f = f
  PROVE  commissions'[f] # <<>> /\ commissions'[f][1].sent
<1>1. commissions[f] # <<>> /\ commissions[f] \in Seq(CommissionRows)
  BY DEF RunInv, Commit, InHand, TypeOK
<1>2. commissions' = [commissions EXCEPT ![f][1].sent = TRUE]
  BY DEF Commit, MarkSent, Fails
<1>3. 1 \in DOMAIN commissions[f] /\ commissions[f][1] \in CommissionRows
  <2>1. Len(commissions[f]) # 0
    BY <1>1
  <2> QED BY <1>1, <2>1
<1>4. commissions'[f] = [commissions[f] EXCEPT ![1] = [commissions[f][1] EXCEPT !.sent = TRUE]]
  BY <1>2 DEF TypeOK
<1>5. Len(commissions'[f]) = Len(commissions[f])
      /\ commissions'[f][1] = [commissions[f][1] EXCEPT !.sent = TRUE]
  BY <1>1, <1>3, <1>4
<1>6. commissions'[f][1].sent
  BY <1>3, <1>5 DEF CommissionRows
<1>7. commissions'[f] # <<>>
  <2>1. Len(commissions[f]) # 0
    BY <1>1
  <2> QED BY <1>5, <2>1
<1> QED BY <1>6, <1>7

\* A run takes one step; the others stay where they are.
LEMMA RunSteps ==
  ASSUME TypeOK, RunInv, [Next]_vars
  PROVE  \/ UNCHANGED mailVars
         \/ \E r \in Runs : (StartRun(r) \/ MailerStep(r)) /\ mode' = mode /\ overlap' = overlap
                            /\ run'[r] \in RunStates
                            /\ \A q \in Runs \ {r} : run'[q] = run[q]
<1>1. ASSUME NEW r \in Runs, StartRun(r) \/ MailerStep(r)
      PROVE  /\ mode' = mode /\ overlap' = overlap
             /\ run'[r] \in RunStates
             /\ \A q \in Runs \ {r} : run'[q] = run[q]
  <2>1. TypeOK'
    BY <1>1, MailerTyped
  <2>2. \A q \in Runs \ {r} : run'[q] = run[q]
    BY <1>1 DEF TypeOK, StartRun, MailerStep, EndRun, Prepare, Attach, Send, Commit, RemovePdf
  <2>3. mode' = mode /\ overlap' = overlap
    BY <1>1 DEF StartRun, MailerStep, EndRun, Prepare, Attach, Send, Commit, RemovePdf,
                pnlVars, mailVars, otherPnlVars
  <2> QED BY <2>1, <2>2, <2>3 DEF TypeOK
<1>2. \A f \in Followers : MarkCommissionPaid(f) => UNCHANGED mailVars
  BY DEF MarkCommissionPaid
<1> QED BY <1>1, <1>2 DEF Next, vars

\* Mails are only added.
LEMMA MailsGrow ==
  ASSUME TypeOK, RunInv, [Next]_vars, NEW f \in Followers
  PROVE  mails'[f] \in Nat /\ mails'[f] >= mails[f]
<1>1. mails \in [Followers -> Nat]
  BY DEF TypeOK
<1>2. ASSUME NEW r \in Runs, Send(r) PROVE mails'[f] \in Nat /\ mails'[f] >= mails[f]
  <2>1. PICK g \in Followers : g = run[r].f
    BY <1>2 DEF RunInv, Send, InHand
  <2>2. mails' = mails \/ mails' = [mails EXCEPT ![g] = mails[g] + 1]
    BY <1>2, <2>1 DEF Send
  <2> QED BY <1>1, <2>2
<1>3. mails' = mails \/ \E r \in Runs : Send(r)
  BY DEF Next, StartRun, MailerStep, EndRun, Prepare, Attach, Commit, RemovePdf,
         MarkCommissionPaid, vars, mailVars
<1> QED BY <1>1, <1>2, <1>3

\* What the steps of a run do to it.
Tried(r) ==
    \/ run'[r].at = "next" /\ run[r].attempt = MaxRetries
    \/ /\ run'[r].at = "send" /\ run'[r].f = run[r].f
       /\ run'[r].attempt = run[r].attempt + 1 /\ run[r].attempt < MaxRetries

\* The record of a run after its step.
LEMMA RunFields ==
  ASSUME TypeOK, NEW r \in Runs, NEW s \in RunStates, run' = [run EXCEPT ![r] = s]
  PROVE  run'[r] = s
BY DEF TypeOK

\* The record fails, or the next attempt follows.
LEMMA Attempts ==
  ASSUME TypeOK, NEW r \in Runs
  PROVE  /\ run' = [run EXCEPT ![r] = Done(r)] =>
              run'[r].at = "next" /\ run'[r].queue = run[r].queue
         /\ run' = [run EXCEPT ![r] = AttemptFails(r)] =>
              Tried(r) /\ run'[r].queue = run[r].queue
<1>1. run[r] \in RunStates /\ run[r].attempt \in 0..MaxRetries /\ run \in [Runs -> RunStates]
  BY DEF TypeOK, RunStates
<1>2. Done(r).at = "next" /\ Done(r).queue = run[r].queue
  BY <1>1 DEF Done, RunStates
<1>3. run' = [run EXCEPT ![r] = Done(r)] => run'[r] = Done(r)
  BY <1>1
<1>4. ASSUME run' = [run EXCEPT ![r] = AttemptFails(r)]
      PROVE  Tried(r) /\ run'[r].queue = run[r].queue
  <2>1. run'[r] = AttemptFails(r)
    BY <1>1, <1>4
  <2>2. CASE run[r].attempt < MaxRetries
    <3>1. run'[r] = [run[r] EXCEPT !.at = "send", !.attempt = run[r].attempt + 1]
      BY <2>1, <2>2 DEF AttemptFails
    <3>2. /\ run'[r].at = "send" /\ run'[r].f = run[r].f /\ run'[r].queue = run[r].queue
          /\ run'[r].attempt = run[r].attempt + 1
      BY <1>1, <3>1 DEF RunStates
    <3> QED BY <2>2, <3>2 DEF Tried
  <2>3. CASE ~(run[r].attempt < MaxRetries)
    <3>1. run'[r] = Done(r)
      BY <2>1, <2>3 DEF AttemptFails
    <3>2. run[r].attempt = MaxRetries
      BY <1>1, <2>3 DEF MailerAssumption
    <3> QED BY <1>2, <3>1, <3>2 DEF Tried
  <2> QED BY <2>2, <2>3
<1> QED BY <1>2, <1>3, <1>4

Started(r) == run'[r].at = "next" /\ run'[r].queue = Pending /\ run[r].at = "idle"

Prepared(r) ==
    \E f \in run[r].queue :
        /\ run[r].at = "next" /\ pdf' = pdf \union {f}
        /\ run'[r].queue = run[r].queue \ {f}
        /\ run'[r].at = "next" \/ (run'[r].at = "open" /\ run'[r].f = f)

Attached(r) ==
    /\ run[r].at = "open" /\ run'[r].queue = run[r].queue
    /\ \/ run[r].f \notin pdf /\ run'[r].at = "next"
       \/ run[r].f \in pdf /\ run'[r].at = "send" /\ run'[r].f = run[r].f /\ run'[r].attempt = 1

SentNow(r) ==
    /\ run[r].at = "send" /\ run'[r].queue = run[r].queue
    /\ \/ /\ run'[r].at = "commit" /\ run'[r].f = run[r].f /\ run'[r].attempt = run[r].attempt
          /\ mails' = [mails EXCEPT ![run[r].f] = @ + 1]
       \/ mode = "failing" /\ Tried(r)

Committed(r) ==
    /\ run[r].at = "commit" /\ run'[r].queue = run[r].queue
    /\ \/ run'[r].at = "remove" /\ run'[r].f = run[r].f /\ run'[r].attempt = run[r].attempt
       \/ mode = "failing" /\ Tried(r)

Removed(r) ==
    /\ run[r].at = "remove" /\ run'[r].queue = run[r].queue /\ pdf' = pdf \ {run[r].f}
    /\ \/ run[r].f \in pdf /\ run'[r].at = "next"
       \/ run[r].f \notin pdf /\ Tried(r)

\* The actions of a run, by what they change.
LEMMA RunEffects ==
  ASSUME TypeOK, NEW r \in Runs
  PROVE  /\ StartRun(r) => Started(r) /\ UNCHANGED <<mails, pdf, commissions>>
         /\ EndRun(r) => /\ run'[r].at = "idle" /\ run'[r].queue = {}
                         /\ run[r].at = "next" /\ run[r].queue = {}
                         /\ UNCHANGED <<mails, pdf, commissions>>
         /\ Prepare(r) => Prepared(r) /\ UNCHANGED <<mails, commissions>>
         /\ Attach(r) => Attached(r) /\ UNCHANGED <<mails, pdf, commissions>>
         /\ Send(r) => SentNow(r) /\ UNCHANGED <<pdf, commissions>>
         /\ Commit(r) => Committed(r) /\ UNCHANGED <<mails, pdf>>
         /\ RemovePdf(r) => Removed(r) /\ UNCHANGED <<mails, commissions>>
<1> USE DEF pnlVars, otherPnlVars, tableVars
<1>1. run[r] \in RunStates /\ run \in [Runs -> RunStates]
  BY DEF TypeOK
<1>2. ASSUME StartRun(r) PROVE Started(r) /\ UNCHANGED <<mails, pdf, commissions>>
  <2>1. run'[r] = [RunIdle EXCEPT !.at = "next", !.queue = Pending]
    BY <1>1, <1>2 DEF StartRun
  <2> QED BY <1>2, <2>1 DEF StartRun, Started, RunIdle
<1>3. ASSUME EndRun(r)
      PROVE  /\ run'[r].at = "idle" /\ run'[r].queue = {}
             /\ run[r].at = "next" /\ run[r].queue = {}
             /\ UNCHANGED <<mails, pdf, commissions>>
  <2>1. run'[r] = RunIdle
    BY <1>1, <1>3 DEF EndRun
  <2> QED BY <1>3, <2>1 DEF EndRun, RunIdle
<1>4. ASSUME Prepare(r) PROVE Prepared(r) /\ UNCHANGED <<mails, commissions>>
  <2>1. PICK f \in run[r].queue :
          /\ pdf' = pdf \union {f}
          /\ \/ run' = [run EXCEPT ![r] = [[run[r] EXCEPT !.queue = @ \ {f}]
                                             EXCEPT !.at = "open", !.f = f]]
             \/ run' = [run EXCEPT ![r] = [run[r] EXCEPT !.queue = @ \ {f}]]
    BY <1>4 DEF Prepare
  <2>2. [run[r] EXCEPT !.queue = @ \ {f}] \in RunStates /\ f \in Followers
        /\ [run[r] EXCEPT !.queue = @ \ {f}].queue = run[r].queue \ {f}
        /\ [run[r] EXCEPT !.queue = @ \ {f}].at = run[r].at
    BY <1>1 DEF RunStates
  <2>3. \A s \in RunStates : /\ [s EXCEPT !.at = "open", !.f = f].queue = s.queue
                             /\ [s EXCEPT !.at = "open", !.f = f].at = "open"
                             /\ [s EXCEPT !.at = "open", !.f = f].f = f
    BY DEF RunStates
  <2>4. \/ run'[r] = [[run[r] EXCEPT !.queue = @ \ {f}] EXCEPT !.at = "open", !.f = f]
        \/ run'[r] = [run[r] EXCEPT !.queue = @ \ {f}]
    BY <1>1, <2>1
  <2>5. run[r].at = "next" /\ UNCHANGED <<mails, commissions>>
    BY <1>4 DEF Prepare
  <2> QED BY <2>1, <2>2, <2>3, <2>4, <2>5 DEF Prepared
<1>5. ASSUME Attach(r) PROVE Attached(r) /\ UNCHANGED <<mails, pdf, commissions>>
  <2>1. CASE run[r].f \in pdf
    <3>1. run'[r] = [run[r] EXCEPT !.at = "send", !.attempt = 1]
      BY <1>1, <1>5, <2>1 DEF Attach
    <3> QED BY <1>1, <1>5, <2>1, <3>1 DEF Attach, Attached, RunStates
  <2>2. CASE run[r].f \notin pdf
    <3>1. run' = [run EXCEPT ![r] = Done(r)]
      BY <1>5, <2>2 DEF Attach
    <3> QED BY <1>5, <2>2, <3>1, Attempts DEF Attach, Attached
  <2> QED BY <2>1, <2>2
<1>6. ASSUME Send(r) PROVE SentNow(r) /\ UNCHANGED <<pdf, commissions>>
  <2>1. CASE /\ mails' = [mails EXCEPT ![run[r].f] = @ + 1]
             /\ run' = [run EXCEPT ![r].at = "commit"]
    <3>1. run'[r] = [run[r] EXCEPT !.at = "commit"]
      BY <1>1, <2>1
    <3>2. /\ run'[r].at = "commit" /\ run'[r].f = run[r].f /\ run'[r].attempt = run[r].attempt
          /\ run'[r].queue = run[r].queue
      BY <1>1, <3>1 DEF RunStates
    <3> QED BY <1>6, <2>1, <3>2 DEF Send, SentNow
  <2>2. CASE Fails /\ run' = [run EXCEPT ![r] = AttemptFails(r)]
    BY <1>6, <2>2, Attempts DEF Send, SentNow, Fails
  <2> QED BY <1>6, <2>1, <2>2 DEF Send
<1>7. ASSUME Commit(r) PROVE Committed(r) /\ UNCHANGED <<mails, pdf>>
  <2>1. CASE run' = [run EXCEPT ![r].at = "remove"]
    <3>1. run'[r] = [run[r] EXCEPT !.at = "remove"]
      BY <1>1, <2>1
    <3>2. /\ run'[r].at = "remove" /\ run'[r].f = run[r].f /\ run'[r].attempt = run[r].attempt
          /\ run'[r].queue = run[r].queue
      BY <1>1, <3>1 DEF RunStates
    <3> QED BY <1>7, <2>1, <3>2 DEF Commit, Committed
  <2>2. CASE Fails /\ run' = [run EXCEPT ![r] = AttemptFails(r)]
    BY <1>7, <2>2, Attempts DEF Commit, Committed, Fails
  <2> QED BY <1>7, <2>1, <2>2 DEF Commit
<1>8. ASSUME RemovePdf(r) PROVE Removed(r) /\ UNCHANGED <<mails, commissions>>
  BY <1>8, Attempts DEF RemovePdf, Removed
<1> QED BY <1>2, <1>3, <1>4, <1>5, <1>6, <1>7, <1>8

\* A run that takes a step, as one relation.
RunActs(r) ==
    \/ Started(r) /\ UNCHANGED <<mails, pdf, commissions>>
    \/ /\ run'[r].at = "idle" /\ run'[r].queue = {} /\ run[r].at = "next" /\ run[r].queue = {}
       /\ UNCHANGED <<mails, pdf, commissions>>
    \/ Prepared(r) /\ UNCHANGED <<mails, commissions>>
    \/ Attached(r) /\ UNCHANGED <<mails, pdf, commissions>>
    \/ SentNow(r) /\ UNCHANGED <<pdf, commissions>>
    \/ Committed(r) /\ Commit(r) /\ UNCHANGED <<mails, pdf>>
    \/ Removed(r) /\ UNCHANGED <<mails, commissions>>

\* Every step of a run is one of these.
LEMMA Acts ==
  ASSUME TypeOK, NEW r \in Runs, StartRun(r) \/ MailerStep(r)
  PROVE  RunActs(r)
BY RunEffects DEF RunActs, MailerStep

\* What RunInv says of one run.
RunOK(r) ==
    /\ run[r].at \in InHand =>
         /\ run[r].f \in Followers \ run[r].queue
         /\ commissions[run[r].f] # <<>>
    /\ run[r].at = "idle" => run[r].queue = {}
    /\ \A f \in run[r].queue : commissions[f] # <<>>
    /\ run[r].at \in InHand \ {"open"} => run[r].attempt >= 1
    /\ run[r].at \in {"commit", "remove"} => mails[run[r].f] > 0
    /\ mode # "failing" /\ run[r].at = "remove" => Sent(run[r].f)

\* Every step keeps what is said of the runs.
LEMMA RunStep ==
  ASSUME TypeOK, RollInv, RunInv, OneCommission, [Next]_vars
  PROVE  RunInv'
<1>a. \A r \in Runs : /\ RunOK(r)
                      /\ ~overlap => \A q \in Runs : run[q].at # "idle" /\ run[r].at # "idle" => q = r
  BY DEF RunInv, RunOK
<1>b. \A f \in Followers : /\ commissions[f] # <<>> => commissions'[f] # <<>>
                           /\ Sent(f) => commissions'[f] # <<>> /\ commissions'[f][1].sent
                           /\ mails[f] > 0 => mails'[f] > 0
  <2> SUFFICES ASSUME NEW f \in Followers
               PROVE  /\ commissions[f] # <<>> => commissions'[f] # <<>>
                      /\ Sent(f) => commissions'[f] # <<>> /\ commissions'[f][1].sent
                      /\ mails[f] > 0 => mails'[f] > 0
    OBVIOUS
  <2>1. commissions[f] # <<>> => commissions'[f] # <<>>
    BY EntriesStay
  <2>2. Sent(f) => commissions'[f] # <<>> /\ commissions'[f][1].sent
    BY SentStays DEF Sent
  <2>3. mails[f] \in Nat /\ mails'[f] \in Nat /\ mails'[f] >= mails[f]
    BY MailsGrow DEF TypeOK
  <2> QED BY <2>1, <2>2, <2>3
<1>c. \A r \in Runs : run[r].queue \subseteq Followers
  BY DEF TypeOK, RunStates
<1>d. mode' = mode
  BY ModeStays
<1>1. ASSUME NEW r \in Runs, run'[r] = run[r] PROVE RunOK(r)'
  <2>1. run[r].at \in InHand => run[r].f \in Followers
    BY <1>a DEF RunOK
  <2> QED BY <1>a, <1>b, <1>c, <1>d, <1>1, <2>1 DEF RunOK, Sent, InHand
<1>2. CASE UNCHANGED mailVars
  <2>1. run' = run /\ overlap' = overlap
    BY <1>2 DEF mailVars
  <2> QED BY <1>a, <1>1, <2>1 DEF RunInv, RunOK
<1>3. ASSUME NEW r \in Runs, StartRun(r) \/ MailerStep(r), overlap' = overlap,
             run'[r] \in RunStates, \A q \in Runs \ {r} : run'[q] = run[q]
      PROVE  RunInv'
  <2>1. RunActs(r)
    BY <1>3, Acts
  <2>2. run[r] \in RunStates
    BY DEF TypeOK
  <2>q. /\ run'[r].queue \subseteq Followers
        /\ \A f \in run'[r].queue : commissions'[f] # <<>>
        /\ run'[r].at = "idle" => run'[r].queue = {}
    <3>1. \A f \in Pending : f \in Followers /\ commissions[f] # <<>>
      BY DEF Pending
    <3>2. run'[r].queue \subseteq Pending \/ run'[r].queue \subseteq run[r].queue
      BY <2>1 DEF RunActs, Started, Prepared, Attached, SentNow, Committed, Removed
    <3>3. run'[r].at = "idle" => run'[r].queue = {}
      BY <2>1 DEF RunActs, Started, Prepared, Attached, SentNow, Committed, Removed, Tried
    <3> QED BY <1>a, <1>b, <1>c, <3>1, <3>2, <3>3 DEF RunOK
  <2>3. run'[r].at \in InHand =>
          /\ run'[r].f \in Followers \ run'[r].queue /\ commissions'[run'[r].f] # <<>>
          /\ run'[r].at # "open" => run'[r].attempt >= 1
    <3> SUFFICES ASSUME run'[r].at \in InHand
                 PROVE  /\ run'[r].f \in Followers \ run'[r].queue
                        /\ commissions'[run'[r].f] # <<>>
                        /\ run'[r].at # "open" => run'[r].attempt >= 1
      OBVIOUS
    <3>1. CASE Prepared(r)
      <4>1. PICK f \in run[r].queue : run'[r].queue = run[r].queue \ {f} /\ run'[r].at = "open"
                                      /\ run'[r].f = f
        BY <3>1 DEF Prepared, InHand
      <4>2. f \in Followers /\ commissions'[f] # <<>>
        BY <1>a, <1>b, <1>c DEF RunOK
      <4> QED BY <4>1, <4>2
    <3>2. CASE run[r].at \in InHand /\ run'[r].f = run[r].f /\ run'[r].queue = run[r].queue
               /\ (run'[r].at # "open" => run'[r].attempt = 1 \/ run'[r].attempt = run[r].attempt
                                          \/ run'[r].attempt = run[r].attempt + 1)
               /\ run'[r].at # "open" /\ (run[r].at = "open" => run'[r].attempt = 1)
      <4>1. run[r].f \in Followers \ run[r].queue /\ commissions[run[r].f] # <<>>
            /\ (run[r].at # "open" => run[r].attempt >= 1)
        BY <1>a, <3>2 DEF RunOK, InHand
      <4>2. run[r].attempt \in Nat
        BY <2>2 DEF RunStates, MailerAssumption
      <4> QED BY <1>b, <3>2, <4>1, <4>2
    <3> QED BY <2>1, <3>1, <3>2 DEF RunActs, Started, Attached, SentNow, Committed, Removed,
                                    Tried, InHand
  <2>4. run'[r].at \in {"commit", "remove"} => mails'[run'[r].f] > 0
    <3>1. CASE run[r].at = "commit" /\ run'[r].f = run[r].f
      BY <1>a, <1>b, <3>1 DEF RunOK, InHand
    <3>2. CASE run[r].at = "send" /\ mails' = [mails EXCEPT ![run[r].f] = @ + 1]
               /\ run'[r].f = run[r].f
      <4>1. run[r].f \in Followers
        BY <1>a, <3>2 DEF RunOK, InHand
      <4>2. mails[run[r].f] \in Nat /\ mails \in [Followers -> Nat]
        BY <4>1 DEF TypeOK
      <4>3. mails'[run[r].f] = mails[run[r].f] + 1
        BY <3>2, <4>1, <4>2
      <4> QED BY <3>2, <4>2, <4>3
    <3> QED BY <2>1, <3>1, <3>2 DEF RunActs, Started, Prepared, Attached, SentNow, Committed, Removed,
                                    Tried
  <2>5. mode # "failing" /\ run'[r].at = "remove" => Sent(run[r].f)' /\ run'[r].f = run[r].f
    <3> SUFFICES ASSUME mode # "failing", run'[r].at = "remove"
                 PROVE  commissions'[run'[r].f] # <<>> /\ commissions'[run'[r].f][1].sent
                        /\ run'[r].f = run[r].f
      BY DEF Sent
    <3>1. Commit(r) /\ run'[r].f = run[r].f /\ run[r].at = "commit"
      BY <2>1 DEF RunActs, Started, Prepared, Attached, SentNow, Committed, Removed, Tried
    <3>2. PICK f \in Followers : f = run[r].f
      BY <1>a, <3>1 DEF RunOK, InHand
    <3> QED BY <3>1, <3>2, CommitMarks
  <2>6. RunOK(r)'
    BY <1>d, <2>q, <2>3, <2>4, <2>5 DEF RunOK, InHand, Sent
  <2>7. \A q \in Runs : RunOK(q)'
    BY <1>1, <1>3, <2>6
  <2>8. ~overlap => \A p, q \in Runs : run'[q].at # "idle" /\ run'[p].at # "idle" => q = p
    <3> SUFFICES ASSUME ~overlap, NEW p \in Runs, NEW q \in Runs, run'[q].at # "idle",
                        run'[p].at # "idle"
                 PROVE  q = p
      OBVIOUS
    <3>1. CASE StartRun(r)
      <4>1. \A s \in Runs : run[s].at = "idle"
        BY <3>1 DEF StartRun
      <4>2. q = r /\ p = r
        BY <1>3, <4>1
      <4> QED BY <4>2
    <3>2. CASE MailerStep(r)
      <4>1. run[r].at # "idle"
        BY <3>2 DEF MailerStep, EndRun, Prepare, Attach, Send, Commit, RemovePdf
      <4>2. \A s \in Runs : run'[s].at # "idle" => run[s].at # "idle"
        BY <1>3, <4>1
      <4> QED BY <1>a, <4>2
    <3> QED BY <1>3, <3>1, <3>2
  <2> QED BY <1>3, <2>7, <2>8 DEF RunInv, RunOK
<1> QED BY <1>2, <1>3, RunSteps

-----------------------------------------------------------------------------
(* What holds in every state *)

PnLInv == TypeOK /\ RollInv /\ OneCommission /\ BilledInv /\ DueInv /\ RunInv

\* At first the tables are empty and no run is in progress.
LEMMA InitPnL == Init => PnLInv /\ SentWasMailed
<1> SUFFICES ASSUME Init PROVE PnLInv /\ SentWasMailed
  OBVIOUS
<1>1. TypeOK /\ RollInv
  BY InitTyped, InitRoll
<1>2. \A f \in Followers : commissions[f] = <<>>
  BY DEF Init, PnlInit
<1>3. \A f \in Followers : Len(commissions[f]) <= 1 /\ DOMAIN commissions[f] = {}
  BY <1>2
<1>4. OneCommission /\ SentWasMailed
  BY <1>3 DEF OneCommission, SentWasMailed
<1>5. BilledInv /\ DueInv
  BY DEF Init, PnlInit, BilledInv, DueInv, Idle
<1>6. \A r \in Runs : run[r].at = "idle" /\ run[r].queue = {}
  BY DEF Init, RunIdle
<1>7. RunInv
  <2>1. run = [r \in Runs |-> RunIdle] /\ (~overlap => \A q, r \in Runs : run[q].at = "idle")
    BY <1>6 DEF Init
  <2> QED BY <1>6 DEF RunInv, InHand
<1> QED BY <1>1, <1>4, <1>5, <1>7 DEF PnLInv

\* Every step keeps it.
LEMMA PnLStep == PnLInv /\ [Next]_vars => PnLInv'
<1> SUFFICES ASSUME PnLInv, [Next]_vars PROVE PnLInv'
  OBVIOUS
<1> USE DEF PnLInv
<1>1. TypeOK'
  <2>1. CASE PnlNext /\ UNCHANGED mailVars
    <3>1. LoopStep => TypeOK'
      BY <2>1, LoopTyped
    <3>2. (\/ \E f \in Followers : AddFollower(f) \/ RemoveFollower(f)
           \/ Crash \/ StartMonitoring \/ Tick) => TypeOK'
      BY <2>1, ControlTyped
    <3> QED BY <2>1, <3>1, <3>2 DEF PnlNext
  <2>2. CASE \E r \in Runs : StartRun(r) \/ MailerStep(r)
    BY <2>2, MailerTyped
  <2>3. CASE \E f \in Followers : MarkCommissionPaid(f)
    BY <2>3, PaidTyped
  <2>4. CASE UNCHANGED vars
    BY <2>4 DEF TypeOK, vars, pnlVars, mailVars, timeVars, processVars, loopVars, tableVars
  <2> QED BY <2>1, <2>2, <2>3, <2>4 DEF Next
<1>2. RollInv'
  BY RollStep
<1>3. OneCommission'
  BY OneCommissionStep
<1>4. BilledInv' /\ DueInv'
  BY BilledStep, DueStep
<1>5. RunInv'
  BY RunStep
<1> QED BY <1>1, <1>2, <1>3, <1>4, <1>5

\* An entry is marked by the commit of a run that has mailed it.
LEMMA SentMailedStep == PnLInv /\ SentWasMailed /\ [Next]_vars => SentWasMailed'
<1> SUFFICES ASSUME PnLInv, SentWasMailed, [Next]_vars,
                    NEW f \in Followers, NEW k \in DOMAIN commissions'[f],
                    commissions'[f][k].sent
             PROVE  mails'[f] > 0
  BY DEF SentWasMailed
<1>1. TypeOK' /\ OneCommission'
  BY PnLStep DEF PnLInv
<1>2. k = 1 /\ commissions'[f] # <<>>
  <2>1. commissions'[f] \in Seq(CommissionRows) /\ Len(commissions'[f]) <= 1
    BY <1>1 DEF TypeOK, OneCommission
  <2> QED BY <2>1
<1>3. Sent(f)'
  BY <1>2 DEF Sent
<1>4. mails[f] > 0
  <2>1. CASE Sent(f)
    <3>1. commissions[f] \in Seq(CommissionRows)
      BY DEF PnLInv, TypeOK
    <3>2. 1 \in DOMAIN commissions[f]
      BY <2>1, <3>1 DEF Sent
    <3> QED BY <2>1, <3>2 DEF SentWasMailed, Sent
  <2>2. ASSUME NEW r \in Runs, Commit(r), run[r].f = f PROVE mails[f] > 0
    BY <2>2 DEF PnLInv, RunInv, Commit
  <2> QED BY <1>3, <2>1, <2>2, SentStays DEF PnLInv
<1>5. mails[f] \in Nat /\ mails'[f] \in Nat /\ mails'[f] >= mails[f]
  BY MailsGrow DEF PnLInv, TypeOK
<1> QED BY <1>4, <1>5

-----------------------------------------------------------------------------
(* The mails *)

\* The mails that a run may still send are numbered from 1 to MaxRetries.
LEMMA LeftBounded ==
  ASSUME TypeOK, RunInv, NEW r \in Runs, NEW f \in Followers
  PROVE  Left(r, f) \in 0..MaxRetries
<1>1. run[r].attempt \in 0..MaxRetries /\ MaxRetries \in Nat
  BY DEF TypeOK, RunStates, MailerAssumption
<1>2. run[r].at \in InHand \ {"open"} => run[r].attempt >= 1
  BY DEF RunInv
<1>3. CASE Holds(r, f)
  BY <1>1, <1>2, <1>3 DEF Left, Holds, InHand
<1>4. CASE ~Holds(r, f)
  BY <1>1, <1>4 DEF Left
<1> QED BY <1>3, <1>4

\* The mails that the runs may still send can be counted.
LEMMA LeftCounted ==
  ASSUME NEW f \in Followers
  PROVE  /\ IsFiniteSet(AllLeft(f)) /\ Cardinality(AllLeft(f)) \in Nat
         /\ IsFiniteSet(AllLeft(f)') /\ Cardinality(AllLeft(f)') \in Nat
<1>1. IsFiniteSet(1..MaxRetries)
  BY FS_Interval DEF MailerAssumption
<1>2. IsFiniteSet(Runs \X (1..MaxRetries))
  BY <1>1, FS_Product DEF MailerAssumption
<1>3. AllLeft(f) \subseteq Runs \X (1..MaxRetries) /\ AllLeft(f)' \subseteq Runs \X (1..MaxRetries)
  BY DEF AllLeft
<1> QED BY <1>2, <1>3, FS_Subset, FS_CardinalityType

\* The same of all runs and followers.
LEMMA LeftBoundedAll ==
  TypeOK /\ RunInv => \A r \in Runs, f \in Followers : Left(r, f) \in 0..MaxRetries
BY LeftBounded

\* And of the state after a step.
LEMMA LeftBoundedNext ==
  (TypeOK /\ RunInv => \A r \in Runs, f \in Followers : Left(r, f) \in 0..MaxRetries)'
BY LeftBoundedAll, PTL

\* When no call fails, a step leaves a run no more mails than it had left, and
\* one that sends a mail leaves it one less.
SendsOne(r, f) == run[r].at = "send" /\ run'[r].at = "commit" /\ run[r].f = f /\ run'[r].f = f
                  /\ run'[r].attempt = run[r].attempt

\* A step of the run, or none, leaves it no more.
LEMMA LeftStep ==
  ASSUME PnLInv, mode # "failing", [Next]_vars, NEW r \in Runs, NEW f \in Followers,
         run'[r] = run[r] \/ RunActs(r)
  PROVE  /\ Left(r, f)' <= Left(r, f)
         /\ SendsOne(r, f) => Left(r, f)' < Left(r, f)
<1>1. PnLInv'
  BY PnLStep
<1>2. Left(r, f) \in 0..MaxRetries /\ Left(r, f)' \in 0..MaxRetries
  BY <1>1, LeftBounded, LeftBoundedNext DEF PnLInv
<1>3. Sent(f) => commissions'[f] # <<>> /\ commissions'[f][1].sent
  BY SentStays DEF PnLInv, Sent
<1>4. run[r].attempt \in Nat /\ run'[r].attempt \in Nat /\ MaxRetries \in Nat
  <2>1. run[r] \in RunStates /\ run'[r] \in RunStates
    BY <1>1 DEF PnLInv, TypeOK
  <2>2. \A s \in RunStates : s.attempt \in Nat
    BY DEF RunStates, MailerAssumption
  <2> QED BY <2>1, <2>2 DEF MailerAssumption
<1>5. CASE ~Holds(r, f)
  <2>1. ~SendsOne(r, f)
    BY <1>5 DEF Holds, InHand, SendsOne
  <2>2. CASE f \in run[r].queue \/ ~Sent(f)
    <3>1. Left(r, f) = MaxRetries
      BY <1>5, <2>2 DEF Left
    <3> QED BY <1>2, <1>4, <2>1, <3>1
  <2>3. CASE f \notin run[r].queue /\ Sent(f)
    <3>1. f \notin Pending
      BY <2>3 DEF Pending, Sent
    <3>2. f \notin run'[r].queue
      BY <2>3, <3>1 DEF RunActs, Started, Prepared, Attached, SentNow, Committed, Removed
    <3>3. ~(run'[r].at \in InHand /\ run'[r].f = f)
      BY <1>5, <2>3 DEF RunActs, Started, Prepared, Attached, SentNow, Committed, Removed, Tried,
                        Holds, InHand
    <3>4. Left(r, f)' = 0
      BY <1>3, <2>3, <3>2, <3>3 DEF Left, Holds, Sent
    <3>5. Left(r, f) = 0
      BY <1>5, <2>3 DEF Left
    <3> QED BY <2>1, <3>4, <3>5
  <2> QED BY <2>2, <2>3
<1>6. CASE Holds(r, f)
  <2>1. f \notin run[r].queue /\ (run[r].at = "remove" => Sent(f))
    BY <1>6 DEF PnLInv, RunInv, Holds, InHand
  <2>2. CASE run'[r] = run[r]
    <3>1. ~SendsOne(r, f)
      BY <2>2 DEF SendsOne
    <3>2. Left(r, f)' = Left(r, f)
      BY <1>6, <2>2 DEF Left, Holds, InHand
    <3> QED BY <1>2, <3>1, <3>2
  <2>3. CASE RunActs(r) /\ run[r].at = "open"
    <3>1. Left(r, f) = MaxRetries
      BY <1>6, <2>3 DEF Left
    <3> QED BY <1>2, <1>4, <2>3, <3>1 DEF SendsOne
  <2>4. CASE RunActs(r) /\ run[r].at = "send"
    <3>1. run'[r].at = "commit" /\ run'[r].f = f /\ run'[r].attempt = run[r].attempt
      BY <1>6, <2>4 DEF Holds, RunActs, Started, Prepared, Attached, SentNow, Committed, Removed
    <3>2. Left(r, f) = MaxRetries + 1 - run[r].attempt
      BY <1>6, <2>4 DEF Left
    <3>3. Left(r, f)' = MaxRetries - run[r].attempt
      BY <3>1 DEF Left, Holds, InHand
    <3> QED BY <1>4, <3>2, <3>3
  <2>5. CASE RunActs(r) /\ run[r].at = "commit"
    <3>1. run'[r].at = "remove" /\ run'[r].f = f /\ run'[r].attempt = run[r].attempt
      BY <1>6, <2>5 DEF Holds, RunActs, Started, Prepared, Attached, SentNow, Committed, Removed
    <3>2. Left(r, f) = MaxRetries - run[r].attempt
      BY <1>6, <2>5 DEF Left
    <3>3. Left(r, f)' = MaxRetries - run[r].attempt
      BY <3>1 DEF Left, Holds, InHand
    <3> QED BY <1>4, <2>5, <3>2, <3>3 DEF SendsOne
  <2>6. CASE RunActs(r) /\ run[r].at = "remove"
    <3>1. run'[r].queue = run[r].queue /\ (run'[r].at = "next" \/ Tried(r))
      BY <1>6, <2>6 DEF RunActs, Started, Prepared, Attached, SentNow, Committed, Removed
    <3>2. Left(r, f) = MaxRetries - run[r].attempt
      BY <1>6, <2>6 DEF Left
    <3>3. CASE run'[r].at = "next"
      <4>1. Left(r, f)' = 0
        BY <1>3, <2>1, <2>6, <3>1, <3>3 DEF Left, Holds, InHand, Sent
      <4> QED BY <1>2, <2>6, <4>1 DEF SendsOne
    <3>4. CASE run'[r].at = "send" /\ run'[r].f = f /\ run'[r].attempt = run[r].attempt + 1
      <4>1. Left(r, f)' = MaxRetries + 1 - (run[r].attempt + 1)
        BY <3>4 DEF Left, Holds, InHand
      <4> QED BY <1>4, <2>6, <3>2, <4>1 DEF SendsOne
    <3> QED BY <1>6, <3>1, <3>3, <3>4 DEF Tried, Holds
  <2> QED BY <1>6, <2>2, <2>3, <2>4, <2>5, <2>6 DEF Holds, InHand
<1> QED BY <1>5, <1>6

\* A step of a run sends one mail, or none.
LEMMA MailEffect ==
  ASSUME PnLInv, mode # "failing", NEW r \in Runs, NEW f \in Followers, RunActs(r)
  PROVE  \/ mails'[f] = mails[f] /\ ~SendsOne(r, f)
         \/ mails'[f] = mails[f] + 1 /\ SendsOne(r, f)
<1>1. mails \in [Followers -> Nat]
  BY DEF PnLInv, TypeOK
<1>2. CASE ~SentNow(r)
  <2>1. mails' = mails
    BY <1>2 DEF RunActs
  <2>2. ~SendsOne(r, f)
    BY <1>2 DEF RunActs, Started, Prepared, Attached, Committed, Removed, SendsOne
  <2> QED BY <2>1, <2>2
<1>3. CASE SentNow(r)
  <2>1. /\ run[r].at = "send" /\ run'[r].at = "commit" /\ run'[r].f = run[r].f
        /\ run'[r].attempt = run[r].attempt
        /\ mails' = [mails EXCEPT ![run[r].f] = @ + 1]
    BY <1>3 DEF SentNow
  <2>2. PICK g \in Followers : g = run[r].f
    BY <2>1 DEF PnLInv, RunInv, InHand
  <2>3. mails' = [mails EXCEPT ![g] = mails[g] + 1]
    BY <2>1, <2>2
  <2> QED BY <1>1, <2>1, <2>2, <2>3 DEF SendsOne
<1> QED BY <1>2, <1>3

\* Every step keeps the bound.
LEMMA WithinStays ==
  ASSUME PnLInv, mode # "failing", [Next]_vars, NEW f \in Followers, Within(f)
  PROVE  Within(f)'
<1>1. /\ IsFiniteSet(AllLeft(f)) /\ Cardinality(AllLeft(f)) \in Nat
      /\ IsFiniteSet(AllLeft(f)') /\ Cardinality(AllLeft(f)') \in Nat
  BY LeftCounted
<1>2. /\ mails[f] \in Nat
      /\ MailBound \in Int /\ (overlap' = overlap => MailBound' = MailBound)
  <2>1. Cardinality(Runs) \in Nat
    BY FS_CardinalityType DEF MailerAssumption
  <2>2. MaxRetries * (Cardinality(Runs) - 1) \in Int
    BY <2>1 DEF MailerAssumption
  <2> QED BY <2>2 DEF PnLInv, TypeOK, MailBound
<1>3. \A q \in Runs : Left(q, f) \in 0..MaxRetries
  BY LeftBounded DEF PnLInv
<1>4. ASSUME \A q \in Runs : Left(q, f)' <= Left(q, f), \A q \in Runs : Left(q, f)' \in Int
      PROVE  AllLeft(f)' \subseteq AllLeft(f)
  <2> SUFFICES ASSUME NEW t \in Runs \X (1..MaxRetries), t[2] <= Left(t[1], f)'
               PROVE  t[2] <= Left(t[1], f)
    BY DEF AllLeft
  <2>1. t[1] \in Runs /\ t[2] \in 1..MaxRetries
    OBVIOUS
  <2> QED BY <1>3, <1>4, <2>1
<1>5. \A q \in Runs : Left(q, f)' \in Int
  BY PnLStep, LeftBoundedNext DEF PnLInv
<1>6. CASE UNCHANGED mailVars
  <2>1. \A q \in Runs : Left(q, f)' <= Left(q, f)
    BY <1>6, LeftStep DEF mailVars
  <2>2. Cardinality(AllLeft(f)') <= Cardinality(AllLeft(f))
    BY <1>1, <1>4, <1>5, <2>1, FS_Subset
  <2>3. mails' = mails /\ overlap' = overlap
    BY <1>6 DEF mailVars
  <2> QED BY <1>1, <1>2, <2>2, <2>3 DEF Within
<1>7. ASSUME NEW r \in Runs, RunActs(r), overlap' = overlap, \A q \in Runs \ {r} : run'[q] = run[q]
      PROVE  Within(f)'
  <2>1. \A q \in Runs : Left(q, f)' <= Left(q, f)
    BY <1>7, LeftStep
  <2>2. AllLeft(f)' \subseteq AllLeft(f)
    BY <1>4, <1>5, <2>1
  <2>3. Cardinality(AllLeft(f)') <= Cardinality(AllLeft(f))
    BY <1>1, <2>2, FS_Subset
  <2>4. CASE mails'[f] = mails[f]
    BY <1>1, <1>2, <1>7, <2>3, <2>4 DEF Within
  <2>5. CASE mails'[f] = mails[f] + 1 /\ SendsOne(r, f)
    <3>1. Left(r, f)' < Left(r, f)
      BY <1>7, <2>5, LeftStep
    <3>2. <<r, Left(r, f)>> \in AllLeft(f)
      <4>1. Left(r, f) \in 1..MaxRetries
        BY <1>3, <1>5, <3>1, LeftBoundedNext, PnLStep DEF PnLInv
      <4> QED BY <1>3, <4>1 DEF AllLeft
    <3>3. <<r, Left(r, f)>> \notin AllLeft(f)'
      BY <1>3, <1>5, <3>1 DEF AllLeft
    <3>4. Cardinality(AllLeft(f)') # Cardinality(AllLeft(f))
      BY <1>1, <2>2, <3>2, <3>3, FS_Subset
    <3> QED BY <1>1, <1>2, <1>7, <2>3, <2>5, <3>4 DEF Within
  <2> QED BY <1>7, <2>4, <2>5, MailEffect
<1> QED BY <1>6, <1>7, RunSteps, Acts DEF PnLInv

\* As long as no file of the follower is removed, each of its mails is one of a
\* run that is about to remove it.
LEMMA UnremovedStays ==
  ASSUME PnLInv, mode # "failing", NEW f \in Followers, Unremoved(f),
         NEW r \in Runs, RunActs(r), \A q \in Runs \ {r} : run'[q] = run[q],
         ~(Holds(r, f) /\ run[r].at = "remove")
  PROVE  Unremoved(f)'
<1>1. \A q \in Runs : Holds(q, f) => f \in pdf /\ (run[q].at = "open" \/ run[q].attempt <= 1)
  BY DEF Unremoved
<1>2. f \in pdf => f \in pdf'
  BY DEF RunActs, Started, Prepared, Attached, SentNow, Committed, Removed, Holds, InHand
<1>3. ASSUME run'[r].at \in InHand, run'[r].f = f
      PROVE  f \in pdf' /\ (run'[r].at = "open" \/ run'[r].attempt <= 1)
  <2>1. CASE Prepared(r)
    BY <1>3, <2>1 DEF Prepared, InHand
  <2>2. CASE Attached(r) /\ pdf' = pdf
    BY <1>3, <2>2 DEF Attached, InHand
  <2>3. CASE (SentNow(r) \/ Committed(r)) /\ pdf' = pdf
    <3>1. Holds(r, f) /\ run[r].at # "open" /\ run'[r].attempt = run[r].attempt
      BY <1>3, <2>3 DEF SentNow, Committed, Tried, Holds, InHand
    <3> QED BY <1>1, <2>3, <3>1
  <2>4. ~Removed(r)
    BY <1>3 DEF Removed, Tried, Holds, InHand
  <2> QED BY <1>3, <2>1, <2>2, <2>3, <2>4 DEF RunActs, Started, InHand
<1>4. \A q \in Runs : Holds(q, f)' => f \in pdf' /\ (run'[q].at = "open" \/ run'[q].attempt <= 1)
  <2>1. ASSUME NEW q \in Runs \ {r}, Holds(q, f)'
        PROVE  f \in pdf' /\ (run'[q].at = "open" \/ run'[q].attempt <= 1)
    BY <1>1, <1>2, <2>1 DEF Holds
  <2> QED BY <1>3, <2>1 DEF Holds, InHand
<1>5. IsFiniteSet(Mailing(f)) /\ Cardinality(Mailing(f)) \in Nat
  BY FS_Subset, FS_CardinalityType DEF Mailing, MailerAssumption
<1>6. \A q \in Runs \ {r} : q \in Mailing(f)' <=> q \in Mailing(f)
  BY DEF Mailing, Holds, InHand
<1>7. mails[f] = Cardinality(Mailing(f))
  BY DEF Unremoved
<1>8. CASE SendsOne(r, f) /\ mails'[f] = mails[f] + 1
  <2>1. r \notin Mailing(f) /\ r \in Mailing(f)'
    BY <1>8 DEF Mailing, Holds, InHand, SendsOne
  <2>2. Mailing(f)' = Mailing(f) \union {r}
    <3>1. Mailing(f) \subseteq Runs /\ Mailing(f)' \subseteq Runs
      BY DEF Mailing
    <3> QED BY <1>6, <2>1, <3>1
  <2>3. Cardinality(Mailing(f)') = Cardinality(Mailing(f)) + 1
    BY <1>5, <2>1, <2>2, FS_AddElement
  <2> QED BY <1>4, <1>7, <1>8, <2>3 DEF Unremoved
<1>9. CASE ~SendsOne(r, f) /\ mails'[f] = mails[f]
  <2>1. r \in Mailing(f)' <=> r \in Mailing(f)
    BY <1>9 DEF Mailing, Holds, InHand, RunActs, Started, Prepared, Attached, SentNow, Committed,
                Removed, Tried, SendsOne
  <2>2. Mailing(f)' = Mailing(f)
    <3>1. Mailing(f) \subseteq Runs /\ Mailing(f)' \subseteq Runs
      BY DEF Mailing
    <3> QED BY <1>6, <2>1, <3>1
  <2> QED BY <1>4, <1>7, <1>9, <2>2 DEF Unremoved
<1> QED BY <1>8, <1>9, MailEffect

\* The first removal leaves the others their attempts after the first.
LEMMA FirstRemoval ==
  ASSUME PnLInv, mode # "failing", [Next]_vars, NEW f \in Followers, Unremoved(f),
         NEW r \in Runs, RunActs(r), overlap' = overlap, \A q \in Runs \ {r} : run'[q] = run[q],
         Holds(r, f), run[r].at = "remove"
  PROVE  Within(f)'
<1>1. f \in pdf /\ f \notin run[r].queue /\ Sent(f) /\ r \in Mailing(f)
  BY DEF Unremoved, PnLInv, RunInv, Holds, Mailing, InHand
<1>2. run'[r].at = "next" /\ run'[r].queue = run[r].queue /\ mails'[f] = mails[f]
  BY <1>1 DEF RunActs, Started, Prepared, Attached, SentNow, Committed, Removed, Holds
<1>3. commissions'[f] # <<>> /\ commissions'[f][1].sent
  BY <1>1, SentStays DEF PnLInv, Sent
<1>4. Left(r, f)' = 0
  BY <1>1, <1>2, <1>3 DEF Left, Holds, Sent, InHand
<1>5. mails[f] = Cardinality(Mailing(f)) /\ Mailing(f) \subseteq Runs
  BY DEF Unremoved, Mailing
<1>6. IsFiniteSet(Runs) /\ IsFiniteSet(Mailing(f)) /\ Cardinality(Runs) \in Nat /\ MaxRetries \in Nat
  BY <1>5, FS_Subset, FS_CardinalityType DEF MailerAssumption
<1>7. CASE ~overlap
  <2>1. ASSUME NEW q \in Runs \ {r} PROVE run[q].at = "idle" /\ run[q].queue = {}
    BY <1>1, <1>7 DEF PnLInv, RunInv, Holds, InHand
  <2>2. Mailing(f) = {r}
    BY <1>1, <1>5, <2>1 DEF Mailing
  <2>3. \A q \in Runs : Left(q, f)' = 0
    BY <1>3, <1>4, <2>1 DEF Left, Holds, Sent, InHand
  <2>4. AllLeft(f)' = {}
    BY <2>3 DEF AllLeft
  <2>5. mails'[f] = 1 /\ Cardinality(AllLeft(f)') = 0
    BY <1>2, <1>5, <2>2, <2>4, FS_Singleton, FS_EmptySet
  <2> QED BY <1>7, <2>5 DEF Within, MailBound
<1>8. CASE overlap
  <2> DEFINE others == Mailing(f) \ {r}
             last == others \X {MaxRetries}
             all == (Runs \ {r}) \X (1..MaxRetries)
  <2>1. /\ IsFiniteSet(others) /\ Cardinality(others) = mails[f] - 1
        /\ IsFiniteSet(Runs \ {r}) /\ Cardinality(Runs \ {r}) = Cardinality(Runs) - 1
    BY <1>1, <1>5, <1>6, FS_RemoveElement
  <2>2. IsFiniteSet(1..MaxRetries) /\ Cardinality(1..MaxRetries) = MaxRetries
    BY FS_Interval DEF MailerAssumption
  <2>3. IsFiniteSet(all) /\ Cardinality(all) = (Cardinality(Runs) - 1) * MaxRetries
    <3>1. Cardinality(all) = Cardinality(Runs \ {r}) * Cardinality(1..MaxRetries) /\ IsFiniteSet(all)
      BY <2>1, <2>2, FS_Product
    <3> HIDE DEF all
    <3> QED BY <2>1, <2>2, <3>1
  <2>4. IsFiniteSet(last) /\ Cardinality(last) = mails[f] - 1
    <3>1. IsFiniteSet({MaxRetries}) /\ Cardinality({MaxRetries}) = 1
      BY FS_Singleton
    <3>2. IsFiniteSet(last) /\ Cardinality(last) = Cardinality(others) * Cardinality({MaxRetries})
      BY <2>1, <3>1, FS_Product
    <3>3. Cardinality(others) \in Nat
      BY <2>1, FS_CardinalityType
    <3> QED BY <2>1, <3>1, <3>2, <3>3
  <2>5. ASSUME NEW q \in others PROVE Left(q, f)' < MaxRetries
    <3>1. q \in Runs /\ run'[q] = run[q] /\ Holds(q, f) /\ run[q].at \in {"commit", "remove"}
      BY DEF Mailing
    <3>2. run[q].attempt >= 1 /\ run[q].attempt \in 0..MaxRetries
      BY <3>1 DEF PnLInv, RunInv, TypeOK, RunStates, InHand
    <3>3. Left(q, f)' = MaxRetries - run[q].attempt
      BY <3>1 DEF Left, Holds
    <3> QED BY <1>6, <3>2, <3>3
  <2>6. last \intersect AllLeft(f)' = {}
    <3> SUFFICES ASSUME NEW t \in last, t \in AllLeft(f)' PROVE FALSE
      OBVIOUS
    <3>1. t[1] \in others /\ t[2] = MaxRetries /\ t[2] <= Left(t[1], f)'
      BY DEF AllLeft
    <3>2. Left(t[1], f)' < MaxRetries /\ Left(t[1], f)' \in Int
      BY <2>5, <3>1, PnLStep, LeftBoundedNext DEF PnLInv, Mailing
    <3> QED BY <1>6, <3>1, <3>2
  <2>7. last \union AllLeft(f)' \subseteq all
    <3>1. last \subseteq all
      BY <1>5, <1>6 DEF MailerAssumption
    <3>2. ASSUME NEW t \in AllLeft(f)' PROVE t \in all
      <4>1. t \in Runs \X (1..MaxRetries) /\ t[2] <= Left(t[1], f)'
        BY DEF AllLeft
      <4>2. t[1] # r
        BY <1>4, <4>1
      <4> QED BY <4>1, <4>2
    <3> QED BY <3>1, <3>2
  <2>8. IsFiniteSet(AllLeft(f)') /\ Cardinality(AllLeft(f)') \in Nat
    BY LeftCounted
  <2>9. Cardinality(last \union AllLeft(f)') = Cardinality(last) + Cardinality(AllLeft(f)')
    <3> HIDE DEF last
    <3> QED BY ONLY <2>4, <2>6, <2>8, DisjointCount
  <2>10. Cardinality(last \union AllLeft(f)') <= Cardinality(all)
    <3> HIDE DEF last, all
    <3> QED BY <2>3, <2>7, FS_Subset
  <2>11. mails[f] \in Nat
    BY DEF PnLInv, TypeOK
  <2>12. Cardinality(AllLeft(f)') + mails[f] - 1 <= (Cardinality(Runs) - 1) * MaxRetries
    <3> HIDE DEF last, all
    <3> QED BY <2>3, <2>4, <2>8, <2>9, <2>10, <2>11
  <2>13. (Cardinality(Runs) - 1) * MaxRetries = MaxRetries * (Cardinality(Runs) - 1)
    BY <1>6
  <2>14. MaxRetries * (Cardinality(Runs) - 1) \in Int
    BY <1>6
  <2>15. MailBound' = 1 + MaxRetries * (Cardinality(Runs) - 1)
    BY <1>8 DEF MailBound
  <2> HIDE DEF last, all, others
  <2> QED BY <1>2, <2>8, <2>11, <2>12, <2>13, <2>14, <2>15 DEF Within
<1> QED BY <1>7, <1>8

\* Every step keeps the count.
LEMMA MailsStep == PnLInv /\ MailsInv /\ [Next]_vars => MailsInv'
<1> SUFFICES ASSUME PnLInv, MailsInv, [Next]_vars PROVE MailsInv'
  OBVIOUS
<1> SUFFICES ASSUME mode # "failing", NEW f \in Followers
             PROVE  Unremoved(f)' \/ Within(f)'
  BY ModeStays DEF MailsInv
<1>1. CASE Within(f)
  BY <1>1, WithinStays
<1>2. CASE Unremoved(f) /\ UNCHANGED mailVars
  BY <1>2 DEF mailVars, Unremoved, Mailing, Holds
<1>3. ASSUME Unremoved(f), NEW r \in Runs, StartRun(r) \/ MailerStep(r), overlap' = overlap,
             \A q \in Runs \ {r} : run'[q] = run[q]
      PROVE  Unremoved(f)' \/ Within(f)'
  <2>1. RunActs(r)
    BY <1>3, Acts DEF PnLInv
  <2> QED BY <1>3, <2>1, UnremovedStays, FirstRemoval
<1>4. Unremoved(f) \/ Within(f)
  BY DEF MailsInv
<1> QED BY <1>1, <1>2, <1>3, <1>4, RunSteps DEF PnLInv

-----------------------------------------------------------------------------
(* The properties *)

\* Nothing is sent at first.
LEMMA InitMails == Init => MailsInv
<1> SUFFICES ASSUME Init, NEW f \in Followers PROVE Unremoved(f)
  BY DEF MailsInv
<1>1. \A r \in Runs : run[r].at = "idle"
  BY DEF Init, RunIdle
<1>2. Mailing(f) = {} /\ \A r \in Runs : ~Holds(r, f)
  BY <1>1 DEF Mailing, Holds, InHand
<1>3. mails[f] = 0 /\ Cardinality({}) = 0
  BY FS_EmptySet DEF Init
<1> QED BY <1>2, <1>3 DEF Unremoved

\* A follower's mails stay within the bound, before the first removal and after.
LEMMA MailsAreBounded == PnLInv /\ MailsInv => MailsBounded
<1> SUFFICES ASSUME PnLInv, MailsInv, mode # "failing", NEW f \in Followers
             PROVE  mails[f] <= MailBound
  BY DEF MailsBounded, MailBound
<1>1. mails[f] \in Nat /\ Cardinality(Runs) \in Nat /\ IsFiniteSet(Runs)
      /\ MaxRetries \in Nat /\ MaxRetries >= 1
  BY FS_CardinalityType DEF PnLInv, TypeOK, MailerAssumption
<1>2. Cardinality(Runs) >= 1
  <2>1. Cardinality(Runs) # 0
    BY FS_EmptySet DEF MailerAssumption
  <2> QED BY <1>1, <2>1
<1>3. \A c, m \in Nat : c >= 1 /\ m >= 1 => m * (c - 1) \in Int /\ m * (c - 1) >= c - 1
  OBVIOUS
<1>4. MaxRetries * (Cardinality(Runs) - 1) \in Int
      /\ MaxRetries * (Cardinality(Runs) - 1) >= Cardinality(Runs) - 1
  BY <1>1, <1>2, <1>3
<1>5. CASE Within(f)
  <2>1. Cardinality(AllLeft(f)) \in Nat
    BY LeftCounted
  <2> QED BY <1>1, <1>4, <1>5, <2>1 DEF Within, MailBound
<1>6. CASE Unremoved(f)
  <2>1. mails[f] = Cardinality(Mailing(f)) /\ Mailing(f) \subseteq Runs
    BY <1>6 DEF Unremoved, Mailing
  <2>2. CASE overlap
    <3>1. Cardinality(Mailing(f)) <= Cardinality(Runs)
      BY <1>1, <2>1, FS_Subset
    <3> QED BY <1>1, <1>4, <2>1, <2>2, <3>1 DEF MailBound
  <2>3. CASE ~overlap
    <3>1. \A q, r \in Mailing(f) : q = r
      BY <2>3 DEF Mailing, Holds, InHand, PnLInv, RunInv
    <3>2. Mailing(f) = {} \/ \E r : Mailing(f) = {r}
      BY <3>1
    <3>3. Cardinality(Mailing(f)) = 0 \/ Cardinality(Mailing(f)) = 1
      BY <3>2, FS_EmptySet, FS_Singleton
    <3> QED BY <2>1, <2>3, <3>3 DEF MailBound
  <2> QED BY <2>2, <2>3
<1> QED BY <1>5, <1>6 DEF MailsInv

\* A day is filed once, and the month is the sum of its closes.
LEMMA RollupsAreRight == PnLInv => RollupInv
<1> SUFFICES ASSUME PnLInv PROVE DayRolledUpOnce /\ MonthIsAllDays
  BY DEF PnLInv, RollInv, RollupInv
<1>1. ASSUME mode # "failing", NEW f \in Followers, NEW d \in 1..Days
      PROVE  Cardinality(RowsOf(f, d)) <= 1
  <2>1. \A j, k \in RowsOf(f, d) : j = k
    BY <1>1 DEF RowsOf, PnLInv, RollInv, OnceInv
  <2>2. RowsOf(f, d) = {} \/ \E k : RowsOf(f, d) = {k}
    BY <2>1
  <2>3. Cardinality(RowsOf(f, d)) = 0 \/ Cardinality(RowsOf(f, d)) = 1
    BY <2>2, FS_EmptySet, FS_Singleton
  <2> QED BY <2>3
<1>2. ASSUME mode = "steady", NEW f \in Followers
      PROVE  /\ Len(monthlyRows[f]) <= 1
             /\ \A k \in DOMAIN monthlyRows[f] : monthlyRows[f][k] = Gained(f)
  <2>1. Len(monthlyRows[f]) <= 1
    BY <1>2 DEF PnLInv, RollInv, OnceInv
  <2>2. ASSUME NEW k \in DOMAIN monthlyRows[f] PROVE monthlyRows[f][k] = Gained(f)
    <3>1. MonthIsOver /\ monthlyRows[f][k] = MonthTotal(f) /\ day = Days
      BY DEF PnLInv, RollInv, TotalsInv, TimeInv
    <3>2. LastFiled(f) = Days
      BY <3>1 DEF LastFiled, Past, MonthIsOver
    <3>3. MonthTotal(f) = Total([d \in 1..Days |-> CurrentPnl(f, d)])
      BY <1>2, <3>2 DEF PnLInv, RollInv, SumInv
    <3> QED BY <3>1, <3>3 DEF Gained
  <2> QED BY <2>1, <2>2
<1> QED BY <1>1, <1>2 DEF DayRolledUpOnce, MonthIsAllDays

\* Once a month is rolled up every day is filed; when the loop has ended whoever
\* traded has rows, and is billed.
LEMMA TradersAreBilled == PnLInv => BilledTogether
<1> SUFFICES ASSUME PnLInv, mode = "steady", ~monthly.on, MonthlyCompleted, NEW f \in Followers,
                    NEW d \in 1..Days, snapshots[f][d] # <<>>
             PROVE  commissions[f] # <<>>
  BY DEF BilledTogether
<1>1. MonthIsOver /\ ~(phase = "first" /\ polls = 0)
  <2>1. PICK g \in Followers : monthlyRows[g] # <<>>
    BY DEF MonthlyCompleted
  <2>2. monthlyRows[g] \in Seq(Int)
    BY DEF PnLInv, TypeOK
  <2>3. ~\A m \in DOMAIN monthlyRows[g] : FALSE
    BY <2>1, <2>2, NoneLong
  <2> QED BY <2>1, <2>3 DEF PnLInv, RollInv, TotalsInv, BilledInv
<1>2. day = Days /\ monthly.due = None /\ polls \in Nat
  BY <1>1 DEF PnLInv, RollInv, TimeInv, TotalsInv, TypeOK
<1>3. Past(d)
  BY <1>1, <1>2, d <= Days, Days \in Nat DEF Past, MonthIsOver, PnLAssumption
<1>4. dailyRows[f] # <<>>
  BY <1>3 DEF PnLInv, RollInv, FiledInv, Filed, HasRow
<1>5. Billed(f)
  <2>1. monthly.due # f
    BY <1>2, None \notin Followers DEF PnLAssumption
  <2> QED BY <1>1, <1>2, <2>1 DEF PnLInv, BilledInv, MonthIsOver
<1> QED BY <1>4, <1>5 DEF Billed

\* What may change in the entries of a follower.
BillKept(f, k) ==
    /\ commissions'[f][k].pnl = commissions[f][k].pnl
    /\ commissions'[f][k].payable = commissions[f][k].payable
    /\ mode # "failing" => commissions'[f][k].amount = commissions[f][k].amount

\* An entry is written over with the total it has, and only after a failure.
LEMMA BillStands ==
  ASSUME PnLInv, [Next]_vars, NEW f \in Followers, NEW k \in DOMAIN commissions[f]
  PROVE  BillKept(f, k)
<1>1. /\ k = 1 /\ commissions[f] # <<>>
      /\ commissions[f][k].pnl = MonthTotal(f)
      /\ commissions[f][k].payable = IsPayable(MonthTotal(f))
  BY BillsFollowTotals DEF PnLInv
<1>2. CASE CalculateCommission
  <2>1. CASE monthly.due = f /\ commissions' # commissions
    <3>1. commissions'[f][1].pnl = MonthTotal(f)
          /\ commissions'[f][1].payable = IsPayable(MonthTotal(f))
      BY <1>2, <2>1, CalculateEffect DEF PnLInv
    <3>2. mode = "failing"
      BY <1>1, <2>1, None \notin Followers DEF PnLInv, DueInv, PnLAssumption
    <3> QED BY <1>1, <3>1, <3>2 DEF BillKept
  <2>2. CASE monthly.due # f
    BY <1>2, <2>2, CalculateEffect DEF PnLInv, BillKept
  <2>3. CASE commissions' = commissions
    BY <2>3 DEF BillKept
  <2> QED BY <2>1, <2>2, <2>3
<1>3. ASSUME NEW g \in Followers, Marked(g, commissions')
      PROVE  BillKept(f, k)
  <2>1. CASE f # g
    BY <1>3, <2>1, MarkedKeeps DEF PnLInv, BillKept
  <2>2. CASE f = g
    BY <1>3, <2>2, MarkedKeeps DEF PnLInv, SameBills, BillKept
  <2> QED BY <2>1, <2>2
<1>4. CASE commissions' = commissions
  BY <1>4 DEF BillKept
<1> QED BY <1>2, <1>3, <1>4, CommissionSteps DEF PnLInv

\* The invariant holds in every reachable state.
THEOREM TablesAndRuns == Spec => [](PnLInv /\ SentWasMailed /\ MailsInv)
<1>1. Init => PnLInv /\ SentWasMailed /\ MailsInv
  BY InitPnL, InitMails
<1>2. PnLInv /\ SentWasMailed /\ MailsInv /\ [Next]_vars => (PnLInv /\ SentWasMailed /\ MailsInv)'
  BY PnLStep, SentMailedStep, MailsStep
<1> QED BY <1>1, <1>2, PTL DEF Spec

\* The P&L service and the report worker keep their types.
THEOREM PnLTypeCorrect == Spec => []TypeOK
<1>1. PnLInv => TypeOK
  BY DEF PnLInv
<1> QED BY <1>1, TablesAndRuns, PTL

\* The daily rows tell the close of their days; no day is rolled up twice unless
\* a query fails (_daily_rollup_completed_today() looks for anybody's row); and
\* without failures and changes of the followers the month is the sum of the
\* closes of all its days (_perform_daily_rollup(), _rollup_monthly_pnl()).
THEOREM MonthIsSumOfDays == Spec => []RollupInv
<1> QED BY RollupsAreRight, TablesAndRuns, PTL

\* Once the month of any follower is rolled up, and nothing fails, whoever traded
\* is billed with it, as later looks into the window skip everybody; and whatever
\* fails there is one entry per follower and month, of a total that was rolled up,
\* at a rate the follower had (_monthly_rollup_completed(),
\* _calculate_monthly_commission()).
THEOREM BilledOnce == Spec => []CommissionInv
<1>1. PnLInv => CommissionInv
  BY TradersAreBilled DEF PnLInv, CommissionInv
<1> QED BY <1>1, TablesAndRuns, PTL

\* What is marked as sent was mailed; a follower gets one mail when nothing fails
\* and runs do not overlap, and else at most all attempts of all runs but the
\* first (_send_commission_email()).
THEOREM MailedWithinBound == Spec => []MailInv
<1>1. PnLInv /\ SentWasMailed /\ MailsInv => MailInv
  BY MailsAreBounded DEF MailInv
<1> QED BY <1>1, TablesAndRuns, PTL

\* The total that was billed stays what it was, however often the month is rolled
\* up; the amount does unless something failed, although the rate is read anew
\* (_calculate_monthly_commission()).
THEOREM BillsStand == Spec => BilledStands
<1> DEFINE Stands == \A f \in Followers : \A k \in DOMAIN commissions[f] : BillKept(f, k)
<1>1. PnLInv /\ [Next]_vars => [Stands]_vars
  BY BillStands
<1>2. Spec => [][Stands]_vars
  <2> HIDE DEF Stands
  <2> QED BY <1>1, TablesAndRuns, PTL DEF Spec
<1> QED BY <1>2 DEF BilledStands, BillKept
=============================================================================
