----------------------------- MODULE PnLService -----------------------------
(***************************************************************************)
(* The P&L service of spreadpilot-core: mark-to-market snapshots while the *)
(* market is open, a daily rollup at 16:30 ET, a monthly rollup and the    *)
(* commission of each follower at 00:10 ET on the first of the next month. *)
(*                                                                         *)
(* One month of Days trading days is modelled.  The tables of PostgreSQL   *)
(* have no unique constraints (models/pnl.py), so each is a sequence of    *)
(* rows per follower.  The loops over active_followers await between two   *)
(* followers; what one of them does for one follower is one step.          *)
(***************************************************************************)
EXTENDS Integers, Sequences, FiniteSets, SequencesExt, Sums

CONSTANTS Followers,     \* the follower ids
          Days,          \* the trading days of the month
          Values,        \* what a follower's open positions may have gained
          Rates,         \* what commission_pct may be when it is read
          MaxSnapshots,  \* bounds the snapshots of a follower
          MaxPolls,      \* bounds the scheduler's looks into one window
          MaxChanges,    \* bounds add_follower() and remove_follower()
          MaxFailures    \* bounds the failing calls and the restarts

None == "none"

ASSUME PnLAssumption ==
    /\ IsFiniteSet(Followers) /\ None \notin Followers
    /\ Days \in Nat \ {0}
    /\ Values \subseteq Int
    /\ Rates \subseteq Nat \ {0}
    /\ MaxSnapshots \in Nat /\ MaxPolls \in Nat
    /\ MaxChanges \in Nat /\ MaxFailures \in Nat

Phases == {"open", "window", "closed", "first", "after"}
Modes == {"steady", "changing", "failing"}

VARIABLES
    mode,         \* what may happen besides the schedule: nothing, changes of
                  \* the followers, or failing calls and restarts
    day, phase,   \* the time: the day, and the part of it
    polls,        \* how often a scheduler looked into the present window
    up,           \* start_monitoring() runs
    active,       \* active_followers
    changes,      \* the calls of add_follower() and remove_follower()
    failures,     \* the calls that failed, and the restarts
    mtm, daily, monthly,  \* the iterations of the three loops
    snapshots,    \* pnl_intraday: the total_pnl of each, by follower and day
    dailyRows,    \* pnl_daily: [day, pnl], by follower
    monthlyRows,  \* pnl_monthly: the total_pnl of each, by follower
    commissions   \* commission_monthly, by follower

timeVars == <<day, phase, polls>>
processVars == <<up, active, changes>>
loopVars == <<mtm, daily, monthly>>
tableVars == <<snapshots, dailyRows, monthlyRows, commissions>>
pnlVars == <<mode, failures, timeVars, processVars, loopVars, tableVars>>

-----------------------------------------------------------------------------
(* An iteration over the set active_followers: those it has seen, and the  *)
(* size of the set when it began.  due is the follower whose month is      *)
(* written and whose commission is not.                                    *)
Idle == [on |-> FALSE, seen |-> {}, size |-> 0, due |-> None, total |-> 0]
Begin == [Idle EXCEPT !.on = TRUE, !.size = Cardinality(active)]

\* Python raises RuntimeError when the set's size has changed since.
Broken(it) == Cardinality(active) # it.size

Ahead(it) == IF Broken(it) THEN {} ELSE active \ it.seen
After(it, f) == [it EXCEPT !.seen = @ \union {f}]

\* A call fails or the process ends, or nothing of the kind happens.
Fails == mode = "failing" /\ failures < MaxFailures /\ failures' = failures + 1
NoneFails == UNCHANGED failures

Today == day

PnlInit ==
    /\ mode \in Modes
    /\ day = 1 /\ phase = "open" /\ polls = 0
    /\ up = TRUE
    /\ active = Followers
    /\ changes = 0 /\ failures = 0
    /\ mtm = Idle /\ daily = Idle /\ monthly = Idle
    /\ snapshots = [f \in Followers |-> [d \in 1..Days |-> <<>>]]
    /\ dailyRows = [f \in Followers |-> <<>>]
    /\ monthlyRows = [f \in Followers |-> <<>>]
    /\ commissions = [f \in Followers |-> <<>>]

-----------------------------------------------------------------------------
(* Mark to market *)

IsMarketOpen == phase = "open"

Snapshots(f) == Total([d \in 1..Days |-> Len(snapshots[f][d])])

\* _mtm_calculation_loop(): a round, every 30 seconds while the market is open.
BeginMtm ==
    /\ up /\ ~mtm.on /\ IsMarketOpen
    /\ \E f \in active : Snapshots(f) < MaxSnapshots
    /\ mtm' = Begin
    /\ UNCHANGED <<mode, failures, timeVars, processVars, daily, monthly, tableVars>>

\* _store_intraday_pnl(): realized P&L is always 0, the rest is what the
\* positions are worth.
StoreIntraday(f, value) ==
    snapshots' = [snapshots EXCEPT ![f][Today] = Append(@, value)]

\* _calculate_follower_mtm(): without positions nothing is stored; an
\* exception is logged.
FollowerMtm(f) ==
    /\ mtm.on /\ f \in Ahead(mtm)
    /\ mtm' = After(mtm, f)
    /\ \/ /\ Snapshots(f) < MaxSnapshots
          /\ \E value \in Values : StoreIntraday(f, value)
       \/ UNCHANGED snapshots
    /\ UNCHANGED <<mode, failures, timeVars, processVars, daily, monthly, dailyRows,
                   monthlyRows, commissions>>

\* _calculate_and_store_mtm() ends: at the end of the set, or by RuntimeError.
EndMtm ==
    /\ mtm.on /\ Ahead(mtm) = {}
    /\ mtm' = Idle
    /\ UNCHANGED <<mode, failures, timeVars, processVars, daily, monthly, tableVars>>

\* get_current_pnl(): the latest snapshot of the day, or zero.
CurrentPnl(f, d) ==
    IF snapshots[f][d] = <<>> THEN 0 ELSE Last(snapshots[f][d])

-----------------------------------------------------------------------------
(* Daily rollup *)

\* Mutant: completed when everybody's row is there.
EveryRowIsThere ==
    \A f \in active : \E k \in DOMAIN dailyRows[f] : dailyRows[f][k].day = Today

\* _daily_rollup_completed_today(): anybody's row of the day.
DailyCompleted ==
    \E f \in Followers : \E k \in DOMAIN dailyRows[f] : dailyRows[f][k].day = Today

\* _daily_rollup_scheduler(): a look into the window.  A query that fails
\* reads as "not completed".
PollDaily ==
    /\ up /\ ~daily.on /\ phase = "window" /\ polls < MaxPolls
    /\ polls' = polls + 1
    /\ \/ ~DailyCompleted /\ NoneFails /\ daily' = Begin
       \/ DailyCompleted /\ NoneFails /\ UNCHANGED daily
       \/ Fails /\ daily' = Begin
    /\ UNCHANGED <<mode, day, phase, processVars, mtm, monthly, tableVars>>

\* Mutant: total_pnl is that of the first snapshot.
DailyRowOfFirst(f) == [day |-> Today, pnl |-> Head(snapshots[f][Today])]

\* _rollup_daily_pnl(): total_pnl is that of the last snapshot.
DailyRow(f) == [day |-> Today, pnl |-> CurrentPnl(f, Today)]

\* One follower of _perform_daily_rollup().  An exception is logged and the
\* next follower is taken up.
RollupDaily(f) ==
    /\ daily.on /\ f \in Ahead(daily)
    /\ daily' = After(daily, f)
    /\ \/ /\ snapshots[f][Today] # <<>>
          /\ dailyRows' = [dailyRows EXCEPT ![f] = Append(@, DailyRow(f))]
          /\ NoneFails \/ Fails
       \/ /\ (snapshots[f][Today] = <<>> /\ NoneFails) \/ Fails
          /\ UNCHANGED dailyRows
    /\ UNCHANGED <<mode, timeVars, processVars, mtm, monthly, snapshots,
                   monthlyRows, commissions>>

EndDaily ==
    /\ daily.on /\ Ahead(daily) = {}
    /\ daily' = Idle
    /\ UNCHANGED <<mode, failures, timeVars, processVars, mtm, monthly, tableVars>>

-----------------------------------------------------------------------------
(* Monthly rollup and commission *)

\* _monthly_rollup_completed(): anybody's row of the month.
MonthlyCompleted == \E f \in Followers : monthlyRows[f] # <<>>

\* _monthly_rollup_scheduler(): a look into the window of five minutes, if there
\* is one at all (Tick).
PollMonthly ==
    /\ up /\ ~monthly.on /\ phase = "first" /\ polls < MaxPolls
    /\ polls' = polls + 1
    /\ \/ ~MonthlyCompleted /\ NoneFails /\ monthly' = Begin
       \/ MonthlyCompleted /\ NoneFails /\ UNCHANGED monthly
       \/ Fails /\ monthly' = Begin
    /\ UNCHANGED <<mode, day, phase, processVars, mtm, daily, tableVars>>

\* Mutant: the last day is left out.
TotalWithoutLast(f) ==
    Total([k \in DOMAIN Front(dailyRows[f]) |-> dailyRows[f][k].pnl])

MonthTotal(f) == Total([k \in DOMAIN dailyRows[f] |-> dailyRows[f][k].pnl])

\* _rollup_monthly_pnl(), up to its commit.  When the commit raises, with or
\* without effect, there is no commission.
RollupMonthly(f) ==
    /\ monthly.on /\ monthly.due = None /\ f \in Ahead(monthly)
    /\ \/ /\ (dailyRows[f] = <<>> /\ NoneFails) \/ Fails
          /\ monthly' = After(monthly, f)
          /\ UNCHANGED monthlyRows
       \/ /\ dailyRows[f] # <<>>
          /\ monthlyRows' = [monthlyRows EXCEPT ![f] = Append(@, MonthTotal(f))]
          /\ \/ /\ NoneFails
                /\ monthly' = [After(monthly, f) EXCEPT !.due = f, !.total = MonthTotal(f)]
             \/ Fails /\ monthly' = After(monthly, f)
    /\ UNCHANGED <<mode, timeVars, processVars, mtm, daily, snapshots, dailyRows,
                   commissions>>

IsPayable(total) == total > 0
Amount(total, rate) == IF IsPayable(total) THEN rate * total ELSE 0
NewCommission(total, rate) ==
    [pnl |-> total, amount |-> Amount(total, rate), payable |-> IsPayable(total),
     paid |-> FALSE, sent |-> FALSE]

\* Mutant: a month without a gain gets no entry.
UpsertIfPayable(rows, total, rate) ==
    IF IsPayable(total) /\ rows = <<>> THEN <<NewCommission(total, rate)>> ELSE rows

\* Mutant: an entry is always inserted.
InsertOnly(rows, total, rate) == Append(rows, NewCommission(total, rate))

\* Mutant: the month's total is added to that of the entry.
UpsertAdds(rows, total, rate) ==
    IF rows = <<>>
    THEN <<NewCommission(total, rate)>>
    ELSE [rows EXCEPT ![1] = [NewCommission(total + rows[1].pnl, rate)
                                EXCEPT !.paid = rows[1].paid, !.sent = rows[1].sent]]

\* The entry of the follower and the month is inserted, or its total, rate and
\* amount are written over, paid or not; paid and sent stay as they are.
Upsert(rows, total, rate) ==
    IF rows = <<>>
    THEN <<NewCommission(total, rate)>>
    ELSE [rows EXCEPT ![1] = [NewCommission(total, rate) EXCEPT !.paid = rows[1].paid,
                                                                !.sent = rows[1].sent]]

\* _calculate_monthly_commission(): the rate is what the follower's document in
\* MongoDB says now.  Without the document, or by an exception, nothing is
\* written and nothing tries again.
CalculateCommission ==
    /\ monthly.on /\ monthly.due # None
    /\ monthly' = [monthly EXCEPT !.due = None, !.total = 0]
    /\ \/ /\ \E rate \in Rates :
               commissions' = [commissions EXCEPT ![monthly.due] =
                                                    Upsert(@, monthly.total, rate)]
          /\ NoneFails \/ Fails
       \/ /\ (mode = "changing" /\ NoneFails) \/ Fails
          /\ UNCHANGED commissions
    /\ UNCHANGED <<mode, timeVars, processVars, mtm, daily, snapshots, dailyRows,
                   monthlyRows>>

EndMonthly ==
    /\ monthly.on /\ monthly.due = None /\ Ahead(monthly) = {}
    /\ monthly' = Idle
    /\ UNCHANGED <<mode, failures, timeVars, processVars, mtm, daily, tableVars>>

\* get_monthly_commission(): the first entry there is.
MonthlyCommission(f) ==
    IF commissions[f] = <<>> THEN NewCommission(0, 0) ELSE commissions[f][1]

-----------------------------------------------------------------------------
(* Followers, restarts, time *)

AddFollower(f) ==
    /\ up /\ mode = "changing" /\ changes < MaxChanges /\ f \notin active
    /\ active' = active \union {f}
    /\ changes' = changes + 1
    /\ UNCHANGED <<mode, failures, timeVars, up, loopVars, tableVars>>

RemoveFollower(f) ==
    /\ up /\ mode = "changing" /\ changes < MaxChanges /\ f \in active
    /\ active' = active \ {f}
    /\ changes' = changes + 1
    /\ UNCHANGED <<mode, failures, timeVars, up, loopVars, tableVars>>

\* The process ends; what it held in memory is gone.
Crash ==
    /\ up /\ Fails
    /\ up' = FALSE /\ active' = {}
    /\ mtm' = Idle /\ daily' = Idle /\ monthly' = Idle
    /\ UNCHANGED <<mode, timeVars, changes, tableVars>>

\* start_monitoring() once Redis answers, and add_follower() for everybody.
StartMonitoring ==
    /\ ~up
    /\ up' = TRUE /\ active' = Followers
    /\ UNCHANGED <<mode, failures, timeVars, changes, loopVars, tableVars>>

\* The daily window of five minutes is looked into every minute.
WindowServed == up => polls > 0

NextPhase ==
    CASE phase = "open" -> <<day, "window">>
      [] phase = "window" -> <<day, "closed">>
      [] phase = "closed" -> IF day < Days THEN <<day + 1, "open">> ELSE <<day, "first">>
      [] phase = "first" -> <<day, "after">>

\* Time passes.  No round of a loop lasts into the next part of the day.  The
\* window of the month is as long as the pause between two looks, which also last
\* themselves: it may pass without one, and nothing has to fail for that.
Tick ==
    /\ phase # "after"
    /\ ~mtm.on /\ ~daily.on /\ ~monthly.on
    /\ phase = "window" => WindowServed
    /\ day' = NextPhase[1] /\ phase' = NextPhase[2]
    /\ polls' = 0
    /\ UNCHANGED <<mode, failures, processVars, loopVars, tableVars>>

LoopStep ==
    \/ BeginMtm \/ EndMtm \/ PollDaily \/ EndDaily
    \/ PollMonthly \/ CalculateCommission \/ EndMonthly
    \/ \E f \in Followers : FollowerMtm(f) \/ RollupDaily(f) \/ RollupMonthly(f)

PnlNext ==
    \/ LoopStep
    \/ \E f \in Followers : AddFollower(f) \/ RemoveFollower(f)
    \/ Crash \/ StartMonitoring \/ Tick
=============================================================================
