-------------------------- MODULE TradingProperties --------------------------
(***************************************************************************)
(* What the trading bot's managers keep, and in which modes.               *)
(***************************************************************************)
EXTENDS TradingService

Ats == {"idle", "next", "connect", "reconnect", "place", "insert", "load", "save", "order",
        "find", "flag", "refresh", "exercise", "mark", "price"}

Docs == [state : {"ABSENT", "NONE", "ASSIGNED", "COMPENSATED"}, long : Nat, short : Nat]
Counts == [Followers -> [Sides -> Nat]]

\* Every variable has its type.
TypeOK ==
    /\ mode \in Modes /\ level \in Levels
    /\ faults \in 0..MaxFaults /\ requests \in 0..MaxRequests
    /\ status \in {"STARTING", "MONITORING", "ERROR"} /\ active \in Seq(Followers)
    /\ stored \in [Followers -> Clients \union {NoClient}]
    /\ owner \in [Clients -> Followers \union {None}]
    /\ session \in Clients \union {NoClient}
    /\ held \in [Keys -> Int] /\ working \in [Keys -> Int] /\ exercising \in [Keys -> Nat]
    /\ cache \in [Clients -> [Keys -> Int]]
    /\ book \in [Followers -> Docs]
    /\ trades \in Counts /\ executed \in Counts /\ succeeded \in Counts
    /\ tv \in [Followers -> Statuses \union {None}]
    /\ \A j \in Jobs : job[j].at \in Ats /\ job[j].client \in Clients \union {NoClient}

\* A job uses, and get_client() returns, only clients made for its follower,
\* although every client is stored, deleted and collected across awaits.
OwnClient ==
    /\ \A j \in Jobs : job[j].client # NoClient => owner[job[j].client] = Follower(j)
    /\ \A f \in Followers : stored[f] # NoClient => owner[stored[f]] = f

\* Unless jobs overlap, no session outlives its client: one that TWS has
\* accepted is stored, or its job is just about to use it.  Otherwise the
\* client id stays in use and no follower can connect.
NoOrphanSession ==
    mode # "overlap" /\ session # NoClient =>
        \/ stored[owner[session]] = session
        \/ \E j \in Jobs : job[j].client = session

\* Unless calls fail, an execution that is not rejected has its trade saved or
\* about to be saved; a signal is answered with success only for a saved trade.
TradesAreSaved ==
    \A f \in Followers, side \in Sides :
       /\ succeeded[f][side] <= trades[f][side]
       /\ mode # "failing" =>
             executed[f][side] = trades[f][side] +
                Cardinality({j \in Jobs : /\ job[j].at = "insert" /\ Follower(j) = f
                                          /\ job[j].side = side})

\* With one job at a time and no failing calls, a document of positions counts
\* the saved trades, until a check replaces its quantities by TWS's.
BookFollowsTrades ==
    mode = "calm" /\ Resting =>
       \A f \in Followers : book[f].state = "NONE" =>
          /\ book[f].long = Qty * trades[f]["LONG"]
          /\ book[f].short = Qty * trades[f]["SHORT"]

\* With one job at a time and a TWS that fills market orders at once, a close
\* that ends with SUCCESS leaves no position.
CloseIsFlat == mode = "calm" => flat \subseteq {Zero}

\* With one job at a time and a prompt TWS, compensating an assignment never
\* leaves more options sold than bought.
NeverNaked == mode = "calm" /\ Resting => Short(held) <= Long(held)

\* A document says COMPENSATED only if options were exercised for the follower.
CompensatedWasExercised ==
    \A f \in Followers : book[f].state = "COMPENSATED" => f \in exercised

\* Unless Redis fails, a position's risk is not hidden by a safe one checked
\* after it: tv:<follower> says SAFE only if the last round found nothing else.
RiskStaysVisible ==
    mode # "failing" =>
       \A f \in Followers : tv[f] = "SAFE" => worst[f] \in {None, "SAFE"}

\* The sessions of the account: each is one follower's and none is forgotten.
SessionInv == TypeOK /\ OwnClient /\ NoOrphanSession

\* MongoDB against what was done: trades are those executed, positions those of
\* the trades, and a compensated assignment was exercised.
BookInv == TradesAreSaved /\ BookFollowsTrades /\ CompensatedWasExercised

\* What the bot's orders leave at TWS: nothing after a close, nothing naked
\* after an assignment.
AccountInv == CloseIsFlat /\ NeverNaked
=============================================================================
