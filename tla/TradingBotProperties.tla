------------------------- MODULE TradingBotProperties -------------------------
(* What the life of the trading bot's process and the market calendars promise. *)
EXTENDS TradingBot

\* The first opening after t that the calendar Open(_), a set of days, has.
FirstOpening(t, open) ==
  Min({MarketOpen(d) : d \in {e \in open : MarketOpen(e) > t}})

TradingDaysAround(t) == {d \in Day(t) - 9..Day(t) + 9 : Weekday(d) \in MarketDays}

\* While its loop turns, the bot follows the market on market days: it never waits for an
\* opening that is further back than the event loop was late, and it never monitors a closed
\* market but in the last second before the opening and for one wait after the close.
FollowsTheMarket ==
  /\ pc = "waiting" /\ IsMarketOpen(now) => now - MarketOpen(Day(now)) <= MaxLag
  /\ pc = "monitoring" /\ Weekday(Day(now)) \in MarketDays /\ ~IsMarketOpen(now) =>
       \/ MarketOpen(Day(now)) - now \in 0..1
       \/ now - MarketClose(Day(now)) \in 0..CheckInterval + MaxLag

\* The health time of a looping bot is never older than a wait and its lag, by day and by
\* night, so that /health fails at most for the lag at the end of a wait.
HealthStaysFresh == Looping => age <= CheckInterval + MaxLag

\* A bot that answers /health with an error does so until it is shut down or restarted:
\* nothing in run() brings it back, so that it takes the watchdog's restart.
OnlyRestartHeals ==
  [][botStatus = "ERROR" /\ botStatus' # "ERROR" => Signalled \/ pc' = "init"]_botVars

\* A shutdown is not undone by run(), wherever its loop sleeps meanwhile: the bot never
\* reports a market state again once its sessions are closed.
ShutdownStands ==
  [][botStatus = "SHUTDOWN" /\ pc' # "init" => botStatus' \in {"SHUTDOWN", "ERROR"}]_botVars

\* Once the shutdown event is set the main loop ends, whichever wait it is in.
SignalEndsLoop == Signalled ~> ~Looping

\* The wait computed for the opening of the market never passes it, and on market days
\* falls short of it by less than a second.
WaitReachesOpening ==
  ~IsMarketOpen(now) =>
    LET short == FirstOpening(now, TradingDaysAround(now)) - now - 2 * SecondsUntilMarketOpen(now)
    IN  short >= 0 /\ (Weekday(Day(now)) \in MarketDays => short <= 1)

\* On a market day positions are filed under the last day whose market has opened, across
\* midnight and weekends.
DateIsLastOpened ==
  Weekday(Day(now)) \in MarketDays =>
    CurrentTradingDate(now) = Max({d \in TradingDaysAround(now) : MarketOpen(d) <= now})

\* The paper gateway's next opening is the first one after now over weekends and holidays,
\* and an order is refused as outside the hours, or on a weekend or holiday, while and only
\* while its market is closed.
NextOpeningIsFirst ==
  /\ GetNextMarketOpen(now) =
       FirstOpening(now, {d \in Day(now)..Day(now) + 10 :
                            Weekday(d) \in MarketDays /\ d % Days \notin Holidays})
  /\ (ValidateTradingHours(now, now) = "hours") <=>
       /\ Weekday(Day(now)) \in MarketDays /\ Day(now) \notin Holidays
       /\ TimeOfDay(now) \notin OpenTime..CloseTime

\* The main loop: it knows the hours and keeps its health time fresh.
LoopInv == BotTypeOK /\ FollowsTheMarket /\ HealthStaysFresh

\* The calendars of the bot and of the paper gateway tell every half second of two weeks
\* what the days that open say.
CalendarInv == WaitReachesOpening /\ DateIsLastOpened /\ NextOpeningIsFirst

\* The status only moves on: out of an error by a restart, out of a shutdown not at all.
StatusMovesOn == OnlyRestartHeals /\ ShutdownStands
===============================================================================
