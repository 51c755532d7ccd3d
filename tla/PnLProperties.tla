---------------------------- MODULE PnLProperties ----------------------------
(* What the P&L service and the commission mailer promise together.         *)
EXTENDS CommissionMailer

Iterations == [on : BOOLEAN, seen : SUBSET Followers, size : 0..Cardinality(Followers),
               due : Followers \union {None}, total : Int]

DailyRows == [day : 1..Days, pnl : Int]

CommissionRows == [pnl : Int, amount : Nat, payable : BOOLEAN, paid : BOOLEAN,
                   sent : BOOLEAN]

RunStates == [at : {"idle", "next", "open", "send", "commit", "remove"},
              queue : SUBSET Followers, f : Followers \union {None},
              attempt : 0..MaxRetries]

\* The variables have their types.
TypeOK ==
    /\ mode \in Modes /\ day \in 1..Days /\ phase \in Phases /\ polls \in Nat
    /\ up \in BOOLEAN /\ active \subseteq Followers
    /\ changes \in Nat /\ failures \in Nat
    /\ mtm \in Iterations /\ daily \in Iterations /\ monthly \in Iterations
    /\ snapshots \in [Followers -> [1..Days -> Seq(Int)]]
    /\ dailyRows \in [Followers -> Seq(DailyRows)]
    /\ monthlyRows \in [Followers -> Seq(Int)]
    /\ commissions \in [Followers -> Seq(CommissionRows)]
    /\ infoLogged \in BOOLEAN /\ overlap \in BOOLEAN
    /\ run \in [Runs -> RunStates]
    /\ pdf \subseteq Followers
    /\ mails \in [Followers -> Nat]

-----------------------------------------------------------------------------
(* P&L *)

RowsOf(f, d) == {k \in DOMAIN dailyRows[f] : dailyRows[f][k].day = d}

\* A row of pnl_daily tells what get_current_pnl() told at the close of its
\* day: no snapshot is stored after the rollup has read them
\* (_rollup_daily_pnl()).
DailyIsTheClose ==
    \A f \in Followers : \A k \in DOMAIN dailyRows[f] :
        /\ snapshots[f][dailyRows[f][k].day] # <<>>
        /\ dailyRows[f][k].pnl = CurrentPnl(f, dailyRows[f][k].day)

\* As long as no query fails, no day of a follower is rolled up twice, although
\* the table would take it and each window is looked into several times
\* (_daily_rollup_completed_today()).
DayRolledUpOnce ==
    mode # "failing" =>
        \A f \in Followers, d \in 1..Days : Cardinality(RowsOf(f, d)) <= 1

\* What a follower gained by the end of each day, over the month.
Gained(f) == Total([d \in 1..Days |-> CurrentPnl(f, d)])

\* Without failures and changes of the followers, a follower's month adds up the
\* closes of all its days, each once (_rollup_monthly_pnl()).
MonthIsAllDays ==
    mode = "steady" =>
        \A f \in Followers :
            /\ Len(monthlyRows[f]) <= 1
            /\ \A k \in DOMAIN monthlyRows[f] : monthlyRows[f][k] = Gained(f)

\* Without failures and changes the followers are billed together: once the month
\* of any of them is rolled up and the loop has ended, whoever traded has a
\* commission.  The other looks into the window are then skipped
\* (_monthly_rollup_completed()), so nobody could be billed later.  A window that
\* no look falls into bills nobody.
BilledTogether ==
    mode = "steady" /\ ~monthly.on /\ MonthlyCompleted =>
        \A f \in Followers :
            (\E d \in 1..Days : snapshots[f][d] # <<>>) => commissions[f] # <<>>

\* There is one commission per follower and month, whatever fails and however
\* often the month is rolled up; it comes from a total that was rolled up, it is
\* payable when that is positive, and its amount is that total at one rate the
\* follower had (_calculate_monthly_commission()).
OneCommission ==
    \A f \in Followers :
        /\ Len(commissions[f]) <= 1
        /\ \A k \in DOMAIN commissions[f] :
            LET c == commissions[f][k]
            IN  /\ \E m \in DOMAIN monthlyRows[f] : monthlyRows[f][m] = c.pnl
                /\ c.payable <=> c.pnl > 0
                /\ IF c.payable THEN \E rate \in Rates : c.amount = rate * c.pnl
                                ELSE c.amount = 0

\* The total that was billed, and whether it is payable, stay what they were
\* whatever fails: a rollup that runs again writes over the entry
\* (_calculate_monthly_commission()), but no day can be added to the month by
\* then.  Its amount can change, because commission_pct is read anew, a paid one
\* too; but only when a rollup runs again, and that takes a failure.
BilledStands ==
    [][\A f \in Followers : \A k \in DOMAIN commissions[f] :
         /\ commissions'[f][k].pnl = commissions[f][k].pnl
         /\ commissions'[f][k].payable = commissions[f][k].payable
         /\ mode # "failing" => commissions'[f][k].amount = commissions[f][k].amount]_vars

\* "Schedule monthly rollups at 00:10 ET on the 1st of each month"
\* (_monthly_rollup_scheduler()): when nothing fails, the month of whoever traded
\* is rolled up by the end of the window.
RolledUpOnFirst ==
    mode = "steady" /\ phase = "after" =>
        \A f \in Followers :
            (\E d \in 1..Days : snapshots[f][d] # <<>>) => monthlyRows[f] # <<>>

-----------------------------------------------------------------------------
(* Mails *)

\* An entry is marked as sent only when SendGrid has taken a mail for it
\* (_send_commission_email()).
SentWasMailed ==
    \A f \in Followers : \A k \in DOMAIN commissions[f] :
        commissions[f][k].sent => mails[f] > 0

\* A follower gets one mail when nothing fails and runs do not overlap.  Every
\* run that overlaps can add all its attempts, because the file it wants to
\* remove at the end is gone (os.remove() is inside the attempt).
MailsBounded ==
    mode # "failing" =>
        \A f \in Followers :
            mails[f] <= IF overlap
                             THEN 1 + MaxRetries * (Cardinality(Runs) - 1)
                             ELSE 1

-----------------------------------------------------------------------------
(* The invariants of the parts *)

\* What the three loops write: a day is filed once, as it closed, and the month
\* is the sum of its days.
RollupInv == TypeOK /\ DailyIsTheClose /\ DayRolledUpOnce /\ MonthIsAllDays

\* Whoever traded is billed when anybody is, and once.
CommissionInv == BilledTogether /\ OneCommission

\* What is marked as sent was mailed, and how often it can have been.
MailInv == SentWasMailed /\ MailsBounded
=============================================================================
