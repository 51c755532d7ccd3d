------------------------------ MODULE TradingBot ------------------------------
(***************************************************************************)
(* The life of the trading bot's process: startup and shutdown of main.py, *)
(* run() of TradingService with its main loop, the status it keeps and the *)
(* answer of /health, against a clock.  The tasks run() starts are modules *)
(* of their own (TradingService); the loop itself touches nothing of them. *)
(* A wait ends at its time or up to MaxLag late, when the event loop is    *)
(* busy.                                                                   *)
(***************************************************************************)
EXTENDS MarketHours

CONSTANTS
  CheckInterval,  \* half seconds between two turns of the main loop (60 s)
  HealthLimit,    \* half seconds after which is_healthy() gives up (60 s)
  MaxLag,         \* bound: half seconds the event loop is late
  MaxRestarts     \* bound: how often the process is started again

ASSUME TradingBotAssumption ==
  /\ {CheckInterval, HealthLimit} \subseteq Nat \ {0}
  /\ {MaxLag, MaxRestarts} \subseteq Nat
  /\ CheckInterval <= OpenTime                         \* a wait does not last from midnight to
  /\ CloseTime + CheckInterval + MaxLag <= DayLength   \* the opening, nor from the close to midnight

VARIABLES
  now,        \* the clock
  pc,         \* run(): "init", "waiting" for the market, "monitoring", "closing" or "ended"
  timer,      \* half seconds left of the wait of the main loop, negative when late
  botStatus,  \* TradingService.status
  age,        \* half seconds since health_check_time, up to AgeLimit
  stopping,   \* main.py: "no", "signalled" (shutdown_event is set) or "closed"
  logLevel,   \* the least log level that is enabled
  generator,  \* settings.signal_generator_enabled
  restarts

\* Ages past this one are all alike.
AgeLimit == Max({HealthLimit, CheckInterval}) + MaxLag + 1

botVars == <<now, pc, timer, botStatus, age, stopping, logLevel, generator, restarts>>

\* TradingService(): the Vault client is configured, or the status is ERROR.
Started ==
  /\ pc = "init" /\ timer = 0 /\ age = 0 /\ stopping = "no"
  /\ botStatus \in {"STARTING", "ERROR"}

BotInit ==
  /\ now \in Instants
  /\ Started
  /\ logLevel \in {"INFO", "WARNING"} /\ generator \in BOOLEAN
  /\ restarts = 0

Looping == pc \in {"waiting", "monitoring"}
Signalled == stopping # "no"

-----------------------------------------------------------------------------
(* run() *)

\* MongoDB, the signal generator (IBKRManager has no attribute ib) and the keyword
\* arguments of the last log call of load_active_followers() end run() with an error.
RunFails ==
  /\ pc = "init"
  /\ pc' = "ended" /\ botStatus' = "ERROR"
  /\ UNCHANGED <<now, timer, age, stopping, logLevel, generator, restarts>>

\* Mutant: the loop starts whatever loading the followers came to.
CanLoopAnyway == ~generator

CanLoop == ~generator /\ logLevel # "INFO" /\ botStatus # "ERROR"

\* Mutant: the loop looks at the event only while it waits for the market.
TurnRegardless ==
  /\ age' = 0
  /\ IF ~IsMarketOpen(now) /\ SecondsUntilMarketOpen(now) > 0
     THEN /\ botStatus' = "WAITING_FOR_MARKET" /\ pc' = "waiting"
          /\ timer' = Min({2 * SecondsUntilMarketOpen(now), CheckInterval})
     ELSE /\ botStatus' = "MONITORING" /\ pc' = "monitoring"
          /\ timer' = CheckInterval

\* Mutant: the wait for the market is not cut to a minute.
WaitsToTheOpen ==
  IF Signalled
  THEN /\ pc' = "closing" /\ UNCHANGED <<botStatus, age, timer>>
  ELSE /\ age' = 0
       /\ IF ~IsMarketOpen(now) /\ SecondsUntilMarketOpen(now) > 0
          THEN /\ botStatus' = "WAITING_FOR_MARKET" /\ pc' = "waiting"
               /\ timer' = 2 * SecondsUntilMarketOpen(now)
          ELSE /\ botStatus' = "MONITORING" /\ pc' = "monitoring"
               /\ timer' = CheckInterval

\* Mutant: every wait of the loop takes the whole interval.
WaitsAMinute ==
  IF Signalled
  THEN /\ pc' = "closing" /\ UNCHANGED <<botStatus, age, timer>>
  ELSE /\ age' = 0 /\ timer' = CheckInterval
       /\ IF ~IsMarketOpen(now) /\ SecondsUntilMarketOpen(now) > 0
          THEN botStatus' = "WAITING_FOR_MARKET" /\ pc' = "waiting"
          ELSE botStatus' = "MONITORING" /\ pc' = "monitoring"

\* A turn of the main loop, up to its next wait.
Turn ==
  IF Signalled
  THEN /\ pc' = "closing" /\ UNCHANGED <<botStatus, age, timer>>
  ELSE /\ age' = 0
       /\ IF ~IsMarketOpen(now) /\ SecondsUntilMarketOpen(now) > 0
          THEN /\ botStatus' = "WAITING_FOR_MARKET" /\ pc' = "waiting"
               /\ timer' = Min({2 * SecondsUntilMarketOpen(now), CheckInterval})
          ELSE /\ botStatus' = "MONITORING" /\ pc' = "monitoring"
               /\ timer' = CheckInterval

StartLoop ==
  /\ pc = "init" /\ CanLoop
  /\ Turn
  /\ UNCHANGED <<now, stopping, logLevel, generator, restarts>>

\* A wait for the market ends with the shutdown event, the other only with its time.
NextTurn ==
  /\ Looping
  /\ timer <= 0 \/ (pc = "waiting" /\ Signalled)
  /\ Turn
  /\ UNCHANGED <<now, stopping, logLevel, generator, restarts>>

\* The background tasks are cancelled and waited for.
LeaveRun ==
  /\ pc = "closing"
  /\ pc' = "ended" /\ botStatus' = "SHUTDOWN"
  /\ UNCHANGED <<now, timer, age, stopping, logLevel, generator, restarts>>

-----------------------------------------------------------------------------
(* main.py *)

\* is_healthy(), which /health answers with 200 or 503
IsHealthy == botStatus # "ERROR" /\ age <= HealthLimit

SignalShutdown ==
  /\ stopping = "no"
  /\ stopping' = "signalled"
  /\ UNCHANGED <<now, pc, timer, botStatus, age, logLevel, generator, restarts>>

\* TradingService.shutdown(): sessions and MongoDB are closed; nobody waits for run().
Shutdown ==
  /\ stopping = "signalled"
  /\ stopping' = "closed" /\ botStatus' = "SHUTDOWN"
  /\ UNCHANGED <<now, pc, timer, age, logLevel, generator, restarts>>

\* The process ends, after a shutdown or a signal, and Docker starts it again.
BotRestart ==
  /\ restarts < MaxRestarts /\ restarts' = restarts + 1
  /\ pc' = "init" /\ timer' = 0 /\ age' = 0 /\ stopping' = "no"
  /\ botStatus' \in {"STARTING", "ERROR"}
  /\ UNCHANGED <<now, logLevel, generator>>

-----------------------------------------------------------------------------
\* Half a second passes; the loop's wait is late by no more than MaxLag.
Tick ==
  /\ Looping => timer > -MaxLag
  /\ now' = (now + 1) % (Days * DayLength)
  /\ age' = Min({age + 1, AgeLimit})
  /\ timer' = IF Looping THEN timer - 1 ELSE timer
  /\ UNCHANGED <<pc, botStatus, stopping, logLevel, generator, restarts>>

BotNext ==
  \/ RunFails \/ StartLoop \/ NextTurn \/ LeaveRun
  \/ SignalShutdown \/ Shutdown \/ BotRestart
  \/ Tick

BotSpec == BotInit /\ [][BotNext]_botVars

\* The clock goes on; run() leaves its startup, since the MongoDB calls have timeouts.
Fairness == WF_botVars(Tick) /\ WF_botVars(RunFails \/ StartLoop) /\ WF_botVars(NextTurn) /\ WF_botVars(LeaveRun)

FairSpec == BotSpec /\ Fairness

-----------------------------------------------------------------------------
BotTypeOK ==
  /\ now \in Instants
  /\ pc \in {"init", "waiting", "monitoring", "closing", "ended"}
  /\ timer \in -MaxLag..CheckInterval
  /\ botStatus \in {"STARTING", "WAITING_FOR_MARKET", "MONITORING", "ERROR", "SHUTDOWN"}
  /\ age \in 0..AgeLimit
  /\ stopping \in {"no", "signalled", "closed"}
  /\ restarts \in 0..MaxRestarts
===============================================================================
