------------------------------ MODULE MCServices ------------------------------
(* Small instances for TLC of parts that share no state and need no symmetry:  *)
(* a behaviour is one of the admin API, of the trading bot's process, of the   *)
(* simulation engine or of the dry-run mode; the others stay as they started.  *)
EXTENDS SimulationProperties, DryRun, AdminApi, TradingBotProperties

CONSTANTS core1, api1, r1, qqq, spy

VARIABLE system   \* "admin", "bot", "simulation" or "dry run"

mcVars == <<system, adminVars, botVars, vars, dryVars>>

Move(s, a, t, p) == [symbol |-> s, action |-> a, quantity |-> 1, type |-> t, limit |-> p]

\* Nothing, market orders, limits on either side of the prices, and a round trip.
MCStrategies ==
  {<<>>, <<Move(qqq, "BUY", "MARKET", 100)>>, <<Move(qqq, "BUY", "LIMIT", 100)>>,
   <<Move(spy, "SELL", "LIMIT", 200)>>, <<Move(spy, "SELL", "LIMIT", 100)>>,
   <<Move(spy, "BUY", "MARKET", 100), Move(qqq, "SELL", "MARKET", 100)>>}

\* One follower of each kind; and since requests and sockets meet in the feed only, all
\* requests and no socket, or one request and all sockets.
AdminStarts ==
  /\ AdminInit
  /\ store[core1] # Absent /\ {id \in ObjectIds : store[id] # Absent} = {api1}
  /\ \/ /\ \A r \in Requests : request[r] = NewRequest
        /\ \A s \in Sockets : socket[s] = "closed"
     \/ /\ \A r \in Requests : request[r] = NewRequest <=> r = r1
        /\ \A s \in Sockets : socket[s] = "new"

\* Parts at rest: one initial state of each.
NoAdmin ==
  /\ AdminInit /\ \A id \in Ids : store[id] = Absent
  /\ \A r \in Requests : request[r] # NewRequest
  /\ \A s \in Sockets : socket[s] = "closed"
NoBot == BotInit /\ now = OpenTime /\ botStatus = "ERROR" /\ logLevel = "INFO" /\ generator
NoSimulation ==
  /\ Init
  /\ data = [i \in 1..Points |-> [symbol |-> qqq, close |-> 100]]
  /\ strategy = [i \in 2..Points |-> <<>>]
NoDryRun == DryInit /\ ~shared

MCInit ==
  \/ system = "admin" /\ AdminStarts /\ NoBot /\ NoSimulation /\ NoDryRun
  \/ system = "bot" /\ NoAdmin /\ BotInit /\ NoSimulation /\ NoDryRun
  \/ system = "simulation" /\ NoAdmin /\ NoBot /\ Init /\ NoDryRun
  \/ system = "dry run" /\ NoAdmin /\ NoBot /\ NoSimulation /\ DryInit

Admin(step) == system = "admin" /\ step /\ UNCHANGED <<system, botVars, vars, dryVars>>
Bot(step) == system = "bot" /\ step /\ UNCHANGED <<system, adminVars, vars, dryVars>>
Simulation(step) ==
  system = "simulation" /\ step /\ UNCHANGED <<system, adminVars, botVars, dryVars>>
Dry(step) == system = "dry run" /\ step /\ UNCHANGED <<system, adminVars, botVars, vars>>

\* Nothing is simulated any more.
Over == system \in {"simulation", "dry run"} /\ UNCHANGED mcVars

MCNext ==
  \/ Admin(AdminNext) \/ Bot(BotNext) \/ Simulation(Next) \/ Dry(DryNext)
  \/ Over

\* The fairness of AdminApi and of TradingBot.
MCSpec ==
  /\ MCInit /\ [][MCNext]_mcVars
  /\ WF_mcVars(Admin(Feed)) /\ \A s \in Sockets : WF_mcVars(Admin(HandlerEnds(s)))
  /\ WF_mcVars(Bot(Tick)) /\ WF_mcVars(Bot(RunFails \/ StartLoop))
  /\ WF_mcVars(Bot(NextTurn)) /\ WF_mcVars(Bot(LeaveRun))
===============================================================================
