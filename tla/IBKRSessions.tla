---------------------------- MODULE IBKRSessions ----------------------------
(***************************************************************************)
(* The clients of the trading bot and the account they share: IBKRManager, *)
(* the connection of IBKRClient and its position cache.                    *)
(*                                                                         *)
(* get_client() gives every follower's client the same host, port and      *)
(* client id, so all of them ask one TWS for one session: TWS refuses a    *)
(* client id that is in use.  A job is a coroutine that works for one or   *)
(* more followers; it awaits only where the code suspends, and what it     *)
(* does in between is one step.                                            *)
(***************************************************************************)
EXTENDS Integers, Sequences, FiniteSets

CONSTANTS Followers,  \* the follower ids
          Jobs,       \* the coroutines that may be at work at a time
          Clients,    \* as many IBKRClient objects as are ever referenced
          MaxFaults   \* bounds failing calls, lost connections and, unless it
                      \* is calm, assignments

\* The least level that is enabled.  At INFO and at WARNING a log call of that
\* level that passes keywords raises TypeError.
Levels == {"INFO", "WARNING", "ERROR"}

\* calm: one job at a time, nothing fails and TWS is done before the job goes
\* on; overlap: many jobs; failing: one job, calls fail, TWS takes its time.
Modes == {"calm", "overlap", "failing"}

\* The option that was bought with each spread and the one that was sold.
Keys == {"bought", "sold"}

None == "none"
NoClient == 0

\* Clients are enough: one for the session, one for each follower and each job.
ASSUME SessionsAssumption ==
    /\ IsFiniteSet(Followers) /\ IsFiniteSet(Jobs) /\ IsFiniteSet(Clients)
    /\ Cardinality(Clients) > 1 + Cardinality(Followers) + Cardinality(Jobs)
    /\ NoClient \notin Clients /\ None \notin Followers
    /\ MaxFaults \in Nat

VARIABLES
    mode, level,
    faults,      \* how many of those there were
    active,      \* service.active_followers, in the order they were loaded
    stored,      \* ibkr_clients
    owner,       \* the follower each IBKRClient was made for
    cache,       \* _positions_cache of each client
    session,     \* the client whose session TWS has accepted
    held,        \* the option positions of the account
    working,     \* the market orders that TWS has not filled yet
    exercising,  \* the exercises that TWS has not processed yet
    job          \* the coroutines

twsVars == <<held, working, exercising>>
clientVars == <<stored, owner, cache, session>>

Zero == [k \in Keys |-> 0]
Positive(n) == IF n > 0 THEN n ELSE 0
Long(qty) == Positive(qty["bought"]) + Positive(qty["sold"])
Short(qty) == Positive(-qty["bought"]) + Positive(-qty["sold"])

-----------------------------------------------------------------------------
(* Faults, each of which counts. *)
Fails == mode = "failing" /\ faults < MaxFaults /\ faults' = faults + 1
NoneFails == UNCHANGED faults

\* A connection may also be refused or time out.
RefusesToConnect == mode # "calm" /\ faults < MaxFaults /\ faults' = faults + 1

-----------------------------------------------------------------------------
(* Jobs *)

\* A document of the collection positions, and that there is none.
NoDoc == [state |-> "ABSENT", long |-> 0, short |-> 0]

Idle == [kind |-> None, todo |-> <<>>, size |-> 0, at |-> "idle",
         client |-> NoClient, left |-> Zero, side |-> None, doc |-> NoDoc]

Follower(j) == Head(job[j].todo)
Resting == \A j \in Jobs : job[j].at = "idle"

\* The result for this follower is there: the loop takes the next one.
NextFollower(j) ==
    job' = [job EXCEPT ![j] = [Idle EXCEPT !.kind = job[j].kind, !.side = job[j].side,
                                           !.size = job[j].size, !.at = "next",
                                           !.todo = Tail(job[j].todo)]]

-----------------------------------------------------------------------------
(* IBKRManager.get_client() *)

\* At INFO connect() raises in its first log call, before it connects.
Connects == level # "INFO"

\* TWS has one session for the client id that all clients use.
MayConnect(c) == session \in {NoClient, c}

\* update_positions(), which each successful connect() also calls.
UpdatePositions(c) == cache' = [cache EXCEPT ![c] = held]

IsActive(f) == \E i \in DOMAIN active : active[i] = f

\* Numbers for a new client: those of clients that nothing refers to any more.
Unreferenced(clients) ==
    {c \in Clients : /\ c # session
                     /\ \A f \in Followers : clients[f] # c
                     /\ \A j \in Jobs : job[j].client # c}

\* A client is made for an active follower, and connects.  Without a client
\* the job gives up the follower.
NewClient(j, clients) ==
    IF IsActive(Follower(j)) /\ Connects
    THEN LET c == CHOOSE new \in Unreferenced(clients) : TRUE IN
         /\ owner' = [owner EXCEPT ![c] = Follower(j)]
         /\ job' = [job EXCEPT ![j].at = "connect", ![j].client = c]
    ELSE NextFollower(j) /\ UNCHANGED owner

\* ensure_connected() of the stored client: it connects again.
Reconnect(j) ==
    job' = [job EXCEPT ![j].at = "reconnect", ![j].client = stored[Follower(j)]]

\* That failed: what is stored by now is deleted and a new client made.  The
\* deletion raises KeyError when another job has deleted it before.
ReplaceClient(j) ==
    LET f == Follower(j)
        without == [stored EXCEPT ![f] = NoClient]
    IN IF stored[f] = NoClient
       THEN NextFollower(j) /\ UNCHANGED <<stored, owner>>
       ELSE stored' = without /\ NewClient(j, without)

\* Mutant: the clients of all followers are one.
StoreForAll(j) == stored' = [f \in Followers |-> job[j].client]

\* Mutant: the client is returned and not stored.
StoreNothing(j) == UNCHANGED stored

\* A new client is stored over whatever is there by now.
Store(j) == stored' = [stored EXCEPT ![Follower(j)] = job[j].client]

-----------------------------------------------------------------------------
(* TWS *)

\* The connection is lost, or TWS ends it.
LoseSession ==
    /\ mode # "calm" /\ faults < MaxFaults
    /\ session # NoClient
    /\ session' = NoClient
    /\ faults' = faults + 1
    /\ UNCHANGED <<mode, level, active, stored, owner, cache, twsVars, job>>

\* A market order is filled, or cancelled.
Fill(k) ==
    /\ working[k] # 0
    /\ held' = [held EXCEPT ![k] = @ + working[k]]
    /\ working' = [working EXCEPT ![k] = 0]
    /\ UNCHANGED <<mode, level, faults, active, clientVars, exercising, job>>

CancelOrder(k) ==
    /\ working[k] # 0 /\ Fails
    /\ working' = [working EXCEPT ![k] = 0]
    /\ UNCHANGED <<mode, level, active, clientVars, held, exercising, job>>

\* An exercise takes the options it names, and no more than are held.
ProcessExercise(k) ==
    /\ exercising[k] > 0
    /\ held' = [held EXCEPT ![k] = IF @ > exercising[k] THEN @ - exercising[k]
                                   ELSE IF @ > 0 THEN 0 ELSE @]
    /\ exercising' = [exercising EXCEPT ![k] = 0]
    /\ UNCHANGED <<mode, level, faults, active, clientVars, working, job>>

\* The owner of an option that was sold exercises it.
Assign(k) ==
    /\ held[k] < 0
    /\ IF mode = "calm" THEN Resting /\ UNCHANGED faults
                        ELSE faults < MaxFaults /\ faults' = faults + 1
    /\ held' = [held EXCEPT ![k] = @ + 1]
    /\ UNCHANGED <<mode, level, active, clientVars, working, exercising, job>>

\* Whether a job that gives TWS a second or two goes on.
Settled == mode = "failing" \/ (working = Zero /\ exercising = Zero)

TwsStep ==
    \/ LoseSession
    \/ \E k \in Keys : Fill(k) \/ CancelOrder(k) \/ ProcessExercise(k) \/ Assign(k)
=============================================================================
