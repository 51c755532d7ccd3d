----------------------------- MODULE MarketHours -----------------------------
(***************************************************************************)
(* The market calendars of the repository: utils/time.py of the core       *)
(* library, which the trading bot follows, and market_hours.py of the      *)
(* paper gateway, which knows holidays as well.  An instant is a number of *)
(* half seconds of New York time, since both cut fractions of a second;    *)
(* days are counted from a Monday, and the calendar repeats after Days.    *)
(***************************************************************************)
EXTENDS Integers, FiniteSetsExt

CONSTANTS
  Days,        \* bound: days after which the calendar repeats, whole weeks
  DayLength,   \* half seconds of a day
  OpenTime,    \* MARKET_OPEN_HOUR:MARKET_OPEN_MINUTE, in half seconds
  CloseTime,   \* MARKET_CLOSE_HOUR:MARKET_CLOSE_MINUTE
  Holidays     \* MARKET_HOLIDAYS of the paper gateway, as days

ASSUME MarketHoursAssumption ==
  /\ Days \in Nat \ {0} /\ Days % 7 = 0
  /\ {DayLength, OpenTime, CloseTime} \subseteq Nat
  /\ 0 < OpenTime /\ OpenTime < CloseTime /\ CloseTime < DayLength
  /\ {DayLength % 2, OpenTime % 2, CloseTime % 2} = {0}
  /\ Holidays \subseteq 0..Days-1

MarketDays == 0..4
Weekday(d) == d % 7

Instants == 0..Days * DayLength - 1
Day(t) == t \div DayLength
TimeOfDay(t) == t % DayLength
MarketOpen(d) == d * DayLength + OpenTime
MarketClose(d) == d * DayLength + CloseTime

\* No more than nine days in a row are weekend days and holidays.
ASSUME HolidaysAssumption ==
  \A d \in 0..Days-1 : \E k \in 1..10 : Weekday(d + k) \in MarketDays /\ (d + k) % Days \notin Holidays

-----------------------------------------------------------------------------
(* utils/time.py *)

IsMarketOpen(t) ==
  /\ Weekday(Day(t)) \in MarketDays
  /\ MarketOpen(Day(t)) <= t /\ t < MarketClose(Day(t))

NextDate(d) == d + Min({k \in 1..7 : Weekday(d + k) \in MarketDays})
PreviousDate(d) == d - Min({k \in 1..9 : Weekday(d - k) \in MarketDays})

\* Mutant: the day after a close is taken as a market day.
SecondsUntilTomorrow(t) ==
  LET open == IF t > MarketOpen(Day(t)) THEN MarketOpen(Day(t) + 1) ELSE MarketOpen(Day(t))
  IN  IF IsMarketOpen(t) THEN 0 ELSE (open - t) \div 2

\* Before the opening time the day's own opening counts, of a weekend day as well.
SecondsUntilMarketOpen(t) ==
  LET open == IF t > MarketOpen(Day(t)) THEN MarketOpen(NextDate(Day(t))) ELSE MarketOpen(Day(t))
  IN  IF IsMarketOpen(t) THEN 0 ELSE (open - t) \div 2

\* Mutant: a step of one day leads back to the previous trading day.
YesterdaysDate(t) == IF TimeOfDay(t) < OpenTime THEN Day(t) - 1 ELSE Day(t)

CurrentTradingDate(t) == IF TimeOfDay(t) < OpenTime THEN PreviousDate(Day(t)) ELSE Day(t)

-----------------------------------------------------------------------------
(* simulation/market_hours.py *)

PaperIsMarketOpen(t) ==
  /\ Weekday(Day(t)) \in MarketDays
  /\ Day(t) % Days \notin Holidays
  /\ OpenTime <= TimeOfDay(t) /\ TimeOfDay(t) <= CloseTime

\* Mutant: only the next week is looked at.
NextOpenWithinTheWeek(t) ==
  LET today == MarketOpen(Day(t))
      Opens(k) == PaperIsMarketOpen(today + k * DayLength)
  IN  IF TimeOfDay(t) < OpenTime /\ PaperIsMarketOpen(today) THEN today
      ELSE today + DayLength * (IF \E k \in 1..3 : Opens(k) THEN Min({k \in 1..3 : Opens(k)}) ELSE 3)

GetNextMarketOpen(t) ==
  LET today == MarketOpen(Day(t))
      Opens(k) == PaperIsMarketOpen(today + k * DayLength)
  IN  IF TimeOfDay(t) < OpenTime /\ PaperIsMarketOpen(today) THEN today
      ELSE today + DayLength * (IF \E k \in 1..10 : Opens(k) THEN Min({k \in 1..10 : Opens(k)}) ELSE 10)

\* validate_trading_hours(): the reason is that of a later reading of the clock.
ValidateTradingHours(t, later) ==
  IF PaperIsMarketOpen(t) THEN "valid"
  ELSE IF Weekday(Day(later)) \notin MarketDays THEN "weekend"
  ELSE IF Day(later) % Days \in Holidays THEN "holiday" ELSE "hours"
===============================================================================
