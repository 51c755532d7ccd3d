--------------------------- MODULE TradingService ---------------------------
(***************************************************************************)
(* The managers of the trading bot at work on the account: signals, closes *)
(* on request, position checks and the rounds of the time value monitor.   *)
(*                                                                         *)
(* Two things of the code leave their mark on every job.                   *)
(* AlertManager.create_alert() turns a uuid into an ObjectId, which raises *)
(* before anything is saved or sent: it changes nothing and does not       *)
(* suspend.  And a Position cannot be made without an id, so that only the *)
(* documents that are there already are ever written.                      *)
(***************************************************************************)
EXTENDS IBKRSessions, FiniteSetsExt

CONSTANTS Spreads,     \* how many spreads the account may have at the start,
                       \* one of which may have been assigned
          Midpoints,   \* of the market data, for an option and for the underlying,
          Strikes,     \* all in cents; a midpoint is not positive without a quote
          MaxRequests  \* bounds the jobs of a run

ASSUME TradingAssumption ==
    /\ Spreads \subseteq Nat \ {0}
    /\ Midpoints \subseteq Int /\ Strikes \subseteq Nat
    /\ MaxRequests \in Nat

Sides == {"LONG", "SHORT"}
Qty == 1  \* qty_per_leg of a signal

VARIABLES
    status,    \* the service's
    requests,  \* the jobs so far
    book,      \* the collection positions: today's document of each follower
    trades,    \* the collection trades: how many, by follower and side
    tv,        \* the Redis key tv:<follower>
    \* what happened, for the properties
    executed,  \* executions that ended FILLED or PARTIAL, by follower and side
    succeeded, \* signals that were answered with success, by follower and side
    flat,      \* what each close that ended SUCCESS left at TWS
    exercised, \* the followers for whom options were exercised
    worst      \* the worst status found in the last round for a follower

serviceVars == <<status, active>>
bookVars == <<book, trades, tv>>
historyVars == <<executed, succeeded, flat, exercised, worst>>
vars == <<mode, level, faults, requests, serviceVars, clientVars, twsVars, job, bookVars,
          historyVars>>

Nothing == [f \in Followers |-> [s \in Sides |-> 0]]

Init ==
    /\ mode \in Modes /\ level \in Levels
    /\ faults = 0 /\ requests = 0
    /\ status = "STARTING" /\ active = <<>>
    /\ stored = [f \in Followers |-> NoClient]
    /\ owner = [c \in Clients |-> None]
    /\ cache = [c \in Clients |-> Zero]
    /\ session = NoClient
    /\ \E n \in Spreads, assigned \in {0, 1} : held = [bought |-> n, sold |-> assigned - n]
    /\ working = Zero /\ exercising = Zero
    /\ job = [j \in Jobs |-> Idle]
    /\ \E doc \in {NoDoc, [NoDoc EXCEPT !.state = "NONE"]} : book = [f \in Followers |-> doc]
    /\ trades = Nothing /\ executed = Nothing /\ succeeded = Nothing
    /\ tv = [f \in Followers |-> None] /\ worst = [f \in Followers |-> None]
    /\ flat = {} /\ exercised = {}

-----------------------------------------------------------------------------
(* Start and end of the service *)

\* load_active_followers() awaits each document of the cursor.
LoadFollower(f) ==
    /\ status = "STARTING" /\ ~IsActive(f)
    /\ active' = Append(active, f)
    /\ UNCHANGED <<mode, level, faults, requests, status, clientVars, twsVars, job, bookVars,
                   historyVars>>

\* At INFO its last log call raises, and run() returns; the requests go on.
FinishLoading ==
    /\ status = "STARTING"
    /\ \/ status' = (IF level = "INFO" THEN "ERROR" ELSE "MONITORING") /\ NoneFails
       \/ status' = "ERROR" /\ Fails
    /\ UNCHANGED <<mode, level, requests, active, clientVars, twsVars, job, bookVars,
                   historyVars>>

\* shutdown() and disconnect_all(), or a crash, and the next start.
Restart ==
    /\ Fails
    /\ status' = "STARTING" /\ active' = <<>>
    /\ stored' = [f \in Followers |-> NoClient]
    /\ owner' = [c \in Clients |-> None]
    /\ cache' = [c \in Clients |-> Zero]
    /\ session' = NoClient
    /\ job' = [j \in Jobs |-> Idle]
    /\ UNCHANGED <<mode, level, requests, twsVars, bookVars, historyVars>>

-----------------------------------------------------------------------------
(* Jobs *)

\* A loop over the followers remembers the size of the dictionary.
Begin(j, kind, side, followers, size) ==
    /\ job[j].at = "idle" /\ requests < MaxRequests
    /\ mode = "overlap" \/ Resting
    /\ requests' = requests + 1
    /\ job' = [job EXCEPT ![j] = [Idle EXCEPT !.kind = kind, !.side = side, !.at = "next",
                                              !.todo = followers, !.size = size]]
    /\ UNCHANGED <<mode, level, faults, serviceVars, clientVars, twsVars, bookVars, historyVars>>

\* POST /trade/signal, for a follower or for all; at INFO the endpoint raises.
ProcessSignal(j, side) ==
    /\ level # "INFO"
    /\ \/ \E f \in Followers : IsActive(f) /\ Begin(j, "signal", side, <<f>>, 0)
       \/ active # <<>> /\ Begin(j, "signal", side, active, Len(active))

\* POST /close/{follower_id}; it also takes the requests for /close/all.
ClosePositions(j) ==
    \E f \in Followers : IsActive(f) /\ Begin(j, "close", None, <<f>>, 0)

\* check_positions().  Its periodic caller never gets here: the service has no
\* is_market_open(), so each of its rounds raises before the first follower.
CheckPositions(j) ==
    \E f \in Followers : IsActive(f) /\ Begin(j, "check", None, <<f>>, 0)

\* _check_all_positions(), every minute and one at a time.
CheckAllTimeValues(j) ==
    /\ status = "MONITORING" /\ active # <<>>
    /\ \A i \in Jobs : job[i].kind # "watch"
    /\ Begin(j, "watch", None, active, Len(active))

-----------------------------------------------------------------------------
(* What a job does with its client, up to its next await *)

\* No margin, or the execution begins.
UseForSignal(j, c) ==
    /\ \/ NextFollower(j)
       \/ job' = [job EXCEPT ![j].at = "place", ![j].client = c]
    /\ NoneFails
    /\ UNCHANGED <<working, exercising, flat, exercised, worst>>

\* Mutant: the order has the sign of the position.
PlaceSameOrder(j, c, left) ==
    \E k \in {key \in Keys : left[key] # 0} :
       /\ working' = [working EXCEPT ![k] = @ + left[k]]
       /\ job' = [job EXCEPT ![j].at = "order", ![j].client = c,
                             ![j].left = [left EXCEPT ![k] = 0]]

\* A market order for the opposite of what was read, however long ago.
PlaceMarketOrder(j, c, left) ==
    \E k \in {key \in Keys : left[key] # 0} :
       /\ working' = [working EXCEPT ![k] = @ - left[k]]
       /\ job' = [job EXCEPT ![j].at = "order", ![j].client = c,
                             ![j].left = [left EXCEPT ![k] = 0]]

\* close_all_positions() reads the positions once and then closes each.
CloseNext(j, c, connected, left) ==
    \/ /\ left = Zero
       /\ NextFollower(j)
       /\ flat' = flat \union {held}
       /\ NoneFails
       /\ UNCHANGED working
    \/ /\ left # Zero /\ connected
       /\ PlaceMarketOrder(j, c, left)
       /\ NoneFails
       /\ UNCHANGED flat
    \/ /\ left # Zero
       /\ (~connected /\ NoneFails) \/ Fails
       /\ NextFollower(j)
       /\ UNCHANGED <<working, flat>>

UseForClose(j, c) ==
    /\ CloseNext(j, c, TRUE, held)
    /\ UNCHANGED <<exercising, exercised, worst>>

\* check_assignment(): fewer options sold than bought means an assignment.
AssignmentState(qty) == IF Short(qty) < Long(qty) THEN "ASSIGNED" ELSE "NONE"

UseForCheck(j, c) ==
    /\ job' = [job EXCEPT ![j].at = "find", ![j].client = c,
                          ![j].doc = [state |-> AssignmentState(held),
                                      long |-> Long(held), short |-> Short(held)]]
    /\ NoneFails
    /\ UNCHANGED <<working, exercising, flat, exercised, worst>>

\* Mutant: the result of the exercise is not looked at.
UseForExerciseBlindly(j, c) ==
    /\ \/ /\ exercising' = [k \in Keys |-> exercising[k] + job[j].left[k]]
          /\ exercised' = exercised \union {Follower(j)}
          /\ NoneFails
       \/ Fails /\ UNCHANGED <<exercising, exercised>>
    /\ job' = [job EXCEPT ![j].at = "mark", ![j].client = c, ![j].doc.state = "COMPENSATED"]
    /\ UNCHANGED <<working, flat, worst>>

\* exercise_options().  An error is logged with keywords, which raises.
UseForExercise(j, c) ==
    /\ \/ /\ exercising' = [k \in Keys |-> exercising[k] + job[j].left[k]]
          /\ exercised' = exercised \union {Follower(j)}
          /\ job' = [job EXCEPT ![j].at = "mark", ![j].client = c,
                                ![j].doc.state = "COMPENSATED"]
          /\ NoneFails
       \/ /\ Fails
          /\ NextFollower(j)
          /\ UNCHANGED <<exercising, exercised>>
    /\ UNCHANGED <<working, flat, worst>>

\* _check_follower_positions(): the positions to be priced one after the other.
UseForWatch(j, c) ==
    /\ worst' = [worst EXCEPT ![Follower(j)] = None]
    /\ \/ /\ held # Zero
          /\ job' = [job EXCEPT ![j].at = "price", ![j].client = c, ![j].left = held]
          /\ NoneFails
       \/ /\ held = Zero
          /\ NextFollower(j)
          /\ NoneFails
       \/ NextFollower(j) /\ Fails
    /\ UNCHANGED <<working, exercising, flat, exercised>>

\* A check that has made its document wants to exercise.
Exercises(j) == job[j].kind = "check" /\ job[j].doc # NoDoc

Use(j, c) ==
    \/ job[j].kind = "signal" /\ UseForSignal(j, c)
    \/ job[j].kind = "close" /\ UseForClose(j, c)
    \/ job[j].kind = "check" /\ ~Exercises(j) /\ UseForCheck(j, c)
    \/ Exercises(j) /\ UseForExercise(j, c)
    \/ job[j].kind = "watch" /\ UseForWatch(j, c)

ReadsPositions(j) == job[j].kind = "close" \/ (job[j].kind = "check" /\ ~Exercises(j))

GetClient(j) ==
    LET c == stored[Follower(j)] IN
    \/ /\ c # NoClient /\ session = c
       /\ Use(j, c)
       /\ IF ReadsPositions(j) THEN UpdatePositions(c) ELSE UNCHANGED cache
       /\ UNCHANGED owner
    \/ /\ c # NoClient /\ session # c
       /\ Reconnect(j)
       /\ NoneFails
       /\ UNCHANGED <<owner, cache, working, exercising, flat, exercised, worst>>
    \/ /\ c = NoClient
       /\ \/ NewClient(j, stored) /\ NoneFails
          \/ NextFollower(j) /\ Fails /\ UNCHANGED owner
       /\ UNCHANGED <<cache, working, exercising, flat, exercised, worst>>

\* The next follower of the loop.  A dictionary that has grown ends it.
TakeFollower(j) ==
    /\ job[j].at = "next"
    /\ IF job[j].todo = <<>> \/ job[j].size \notin {0, Len(active)}
       THEN /\ job' = [job EXCEPT ![j] = Idle]
            /\ UNCHANGED <<faults, owner, cache, working, exercising, flat, exercised, worst>>
       ELSE GetClient(j)
    /\ UNCHANGED <<mode, level, requests, serviceVars, stored, session, held, bookVars,
                   executed, succeeded>>

\* connectAsync() of the client at hand has ended.
ConnectEnds(j) ==
    LET c == job[j].client IN
    /\ job[j].at \in {"connect", "reconnect"}
    /\ \/ /\ MayConnect(c)
          /\ session' = c
          /\ UpdatePositions(c)
          /\ IF job[j].at = "connect" THEN Store(j) ELSE UNCHANGED stored
          /\ Use(j, c)
          /\ UNCHANGED owner
       \/ /\ (~MayConnect(c) /\ NoneFails) \/ RefusesToConnect
          /\ IF job[j].at = "connect"
             THEN NextFollower(j) /\ UNCHANGED <<stored, owner>>
             ELSE ReplaceClient(j)
          /\ UNCHANGED <<session, cache, working, exercising, flat, exercised, worst>>
    /\ UNCHANGED <<mode, level, requests, serviceVars, held, bookVars, executed, succeeded>>

-----------------------------------------------------------------------------
(* Signals *)

Count(of, j) == [of EXCEPT ![Follower(j)][job[j].side] = @ + 1]

\* What place_vertical_spread() may end with.  REJECTED does not mean that
\* nothing was bought.
SpreadResults ==
    {r \in [bought : 0..Qty, rejected : BOOLEAN] : r.rejected \/ r.bought > 0}

\* The status of the trade is FILLED or PARTIAL.
Placed(j) ==
    /\ job[j].at = "place"
    /\ \E r \in SpreadResults :
          /\ held' = [held EXCEPT !["bought"] = @ + r.bought, !["sold"] = @ - r.bought]
          /\ IF r.rejected
             THEN NextFollower(j) /\ UNCHANGED executed
             ELSE /\ executed' = Count(executed, j)
                  /\ job' = [job EXCEPT ![j].at = "insert", ![j].client = NoClient]
    /\ UNCHANGED <<mode, level, faults, requests, serviceVars, clientVars, working, exercising,
                   bookVars, succeeded, flat, exercised, worst>>

\* Mutant: a failing insert is logged and forgotten.
SaveTradeOrNot(j) ==
    /\ job[j].at = "insert"
    /\ (trades' = Count(trades, j) /\ NoneFails) \/ (Fails /\ UNCHANGED trades)
    /\ job' = [job EXCEPT ![j].at = "load"]
    /\ UNCHANGED <<mode, level, requests, serviceVars, clientVars, twsVars, book, tv,
                   historyVars>>

SaveTrade(j) ==
    /\ job[j].at = "insert"
    /\ \/ /\ trades' = Count(trades, j)
          /\ job' = [job EXCEPT ![j].at = "load"]
          /\ NoneFails
       \/ /\ Fails
          /\ NextFollower(j)
          /\ UNCHANGED trades
    /\ UNCHANGED <<mode, level, requests, serviceVars, clientVars, twsVars, book, tv,
                   historyVars>>

\* Whatever became of the position, the signal is answered with success.
Processed(j) == NextFollower(j) /\ succeeded' = Count(succeeded, j)

\* Mutant: the quantity is set.
WithTradeOnly(doc, side) ==
    IF side = "LONG" THEN [doc EXCEPT !.long = Qty] ELSE [doc EXCEPT !.short = Qty]

WithTrade(doc, side) ==
    IF side = "LONG" THEN [doc EXCEPT !.long = @ + Qty] ELSE [doc EXCEPT !.short = @ + Qty]

\* update_position() reads the document, and writes all of it after an await.
LoadPosition(j) ==
    LET doc == book[Follower(j)] IN
    /\ job[j].at = "load"
    /\ \/ /\ doc # NoDoc
          /\ job' = [job EXCEPT ![j].at = "save", ![j].doc = WithTrade(doc, job[j].side)]
          /\ NoneFails
          /\ UNCHANGED succeeded
       \/ /\ (doc = NoDoc /\ NoneFails) \/ Fails
          /\ Processed(j)
    /\ UNCHANGED <<mode, level, requests, serviceVars, clientVars, twsVars, bookVars, executed,
                   flat, exercised, worst>>

WriteDoc(j) == book' = [book EXCEPT ![Follower(j)] = job[j].doc]

SavePosition(j) ==
    /\ job[j].at = "save"
    /\ (WriteDoc(j) /\ NoneFails) \/ (Fails /\ UNCHANGED book)
    /\ Processed(j)
    /\ UNCHANGED <<mode, level, requests, serviceVars, clientVars, twsVars, trades, tv,
                   executed, flat, exercised, worst>>

-----------------------------------------------------------------------------
(* Closes and checks *)

\* The next order of a close, a second or two after the last.
OrderDone(j) ==
    /\ job[j].at = "order" /\ Settled
    /\ CloseNext(j, job[j].client, session = job[j].client, job[j].left)
    /\ UNCHANGED <<mode, level, requests, serviceVars, clientVars, held, exercising, bookVars,
                   executed, succeeded, exercised, worst>>

\* Only an assignment is written, and only if its warning, which passes
\* keywords, is not enabled.
FindPosition(j) ==
    /\ job[j].at = "find"
    /\ \/ /\ book[Follower(j)] # NoDoc /\ job[j].doc.state = "ASSIGNED" /\ level = "ERROR"
          /\ job' = [job EXCEPT ![j].at = "flag"]
          /\ NoneFails
       \/ /\ \/ /\ book[Follower(j)] = NoDoc \/ job[j].doc.state = "NONE" \/ level # "ERROR"
                /\ NoneFails
             \/ Fails
          /\ NextFollower(j)
    /\ UNCHANGED <<mode, level, requests, serviceVars, clientVars, twsVars, bookVars,
                   historyVars>>

Missing(doc) == doc.long - doc.short

\* Mutant: the whole position is exercised.
ExerciseAll(missing, qty) == qty

\* The first long position is exercised, as far as options sold are missing.
ExerciseQty(missing, qty) == IF qty < missing THEN qty ELSE missing

ChooseExercise(j, positions) ==
    \/ \E k \in {key \in Keys : positions[key] > 0} :
          job' = [job EXCEPT ![j].at = "exercise",
                             ![j].left[k] = ExerciseQty(Missing(job[j].doc), positions[k])]
    \/ (\A k \in Keys : positions[k] <= 0) /\ NextFollower(j)

\* The assignment is saved; then get_positions(force_update=True).
FlagAssigned(j) ==
    /\ job[j].at = "flag"
    /\ \/ /\ WriteDoc(j) /\ NoneFails
          /\ \/ /\ session = job[j].client
                /\ UpdatePositions(job[j].client)
                /\ ChooseExercise(j, held)
             \/ /\ session # job[j].client
                /\ job' = [job EXCEPT ![j].at = "refresh"]
                /\ UNCHANGED cache
       \/ /\ Fails
          /\ NextFollower(j)
          /\ UNCHANGED <<book, cache>>
    /\ UNCHANGED <<mode, level, requests, serviceVars, stored, owner, session, twsVars, trades,
                   tv, historyVars>>

\* It had to connect again; if it cannot, the cached positions stand.
Refreshed(j) ==
    LET c == job[j].client IN
    /\ job[j].at = "refresh"
    /\ \/ /\ MayConnect(c)
          /\ session' = c
          /\ UpdatePositions(c)
          /\ ChooseExercise(j, held)
          /\ NoneFails
       \/ /\ (~MayConnect(c) /\ NoneFails) \/ RefusesToConnect
          /\ ChooseExercise(j, cache[c])
          /\ UNCHANGED <<session, cache>>
    /\ UNCHANGED <<mode, level, requests, serviceVars, stored, owner, twsVars, bookVars,
                   historyVars>>

\* IBKRManager.exercise_options() asks for the client once more.
Exercise(j) ==
    /\ job[j].at = "exercise"
    /\ GetClient(j)
    /\ UNCHANGED <<mode, level, requests, serviceVars, stored, session, held, bookVars,
                   executed, succeeded>>

MarkCompensated(j) ==
    /\ job[j].at = "mark" /\ Settled
    /\ (WriteDoc(j) /\ NoneFails) \/ (Fails /\ UNCHANGED book)
    /\ NextFollower(j)
    /\ UNCHANGED <<mode, level, requests, serviceVars, clientVars, twsVars, trades, tv,
                   historyVars>>

-----------------------------------------------------------------------------
(* Time values *)

Statuses == {"SAFE", "RISK", "CRITICAL"}
NoPrice == 0

\* get_market_price(): the first positive midpoint of ten, or none at all.
MarketPrices == {p \in Midpoints : p > 0} \union {NoPrice}

IntrinsicValue(strike, right, underlying) ==
    IF right = "C" THEN Max({0, underlying - strike}) ELSE Max({0, strike - underlying})

StatusOf(timeValue) ==
    CASE timeValue <= 10 -> "CRITICAL"
      [] timeValue \in 11..100 -> "RISK"
      [] OTHER -> "SAFE"

\* A check finds nothing out unless both prices are there.
Finding(market, underlying, strike, right) ==
    IF NoPrice \in {market, underlying} THEN None
    ELSE StatusOf(market - IntrinsicValue(strike, right, underlying))

Findings == {Finding(market, underlying, strike, right) :
                market \in MarketPrices, underlying \in MarketPrices,
                strike \in Strikes, right \in {"C", "P"}}

\* Mutant: the round always goes on.
EndsNever(found) == FALSE

\* A status other than SAFE has an alert published, whose Alert() is invalid;
\* the handler logs that with keywords, which ends the follower's round before
\* the next position, and before a critical one is closed.
EndsRound(found) == found # "SAFE"

Worse(before, found) == IF before \in {None, "SAFE"} THEN found ELSE before

CheckTimeValue(j) ==
    LET f == Follower(j) IN
    /\ job[j].at = "price"
    /\ \E k \in {key \in Keys : job[j].left[key] # 0}, found \in Findings :
          LET left == [job[j].left EXCEPT ![k] = 0] IN
          /\ IF found = None  \* no price
             THEN UNCHANGED <<tv, worst>> /\ NoneFails
             ELSE /\ worst' = [worst EXCEPT ![f] = Worse(@, found)]
                  /\ \/ tv' = [tv EXCEPT ![f] = found] /\ NoneFails
                     \/ UNCHANGED tv /\ Fails
          /\ IF left = Zero \/ (found # None /\ EndsRound(found))
             THEN NextFollower(j)
             ELSE job' = [job EXCEPT ![j].left = left]
    /\ UNCHANGED <<mode, level, requests, serviceVars, clientVars, twsVars, book, trades,
                   executed, succeeded, flat, exercised>>

\* The key expires five minutes after it was set.
Expire(f) ==
    /\ tv[f] # None /\ Resting
    /\ tv' = [tv EXCEPT ![f] = None]
    /\ UNCHANGED <<mode, level, faults, requests, serviceVars, clientVars, twsVars, job, book,
                   trades, historyVars>>

-----------------------------------------------------------------------------
BeginJob(j) ==
    \/ \E side \in Sides : ProcessSignal(j, side)
    \/ ClosePositions(j) \/ CheckPositions(j) \/ CheckAllTimeValues(j)

JobStep(j) ==
    \/ TakeFollower(j) \/ ConnectEnds(j)
    \/ Placed(j) \/ SaveTrade(j) \/ LoadPosition(j) \/ SavePosition(j)
    \/ OrderDone(j) \/ FindPosition(j) \/ FlagAssigned(j) \/ Refreshed(j) \/ Exercise(j)
    \/ MarkCompensated(j) \/ CheckTimeValue(j)

Tws == TwsStep /\ UNCHANGED <<requests, status, bookVars, historyVars>>

Next ==
    \/ \E f \in Followers : LoadFollower(f) \/ Expire(f)
    \/ FinishLoading \/ Restart \/ Tws
    \/ \E j \in Jobs : BeginJob(j) \/ JobStep(j)

Spec == Init /\ [][Next]_vars
=============================================================================
