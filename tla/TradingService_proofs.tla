----------------------- MODULE TradingService_proofs ------------------------
(***************************************************************************)
(* What the managers of the trading bot keep, for any followers, jobs,     *)
(* prices, strikes, number of requests and of faults; and its process: the *)
(* main loop, the status and the market calendars.                         *)
(***************************************************************************)
EXTENDS TradingProperties, TradingBotProperties, FiniteSetTheorems, TLAPS

JobType == [kind : {None, "signal", "close", "check", "watch"}, side : Sides \union {None},
            todo : Seq(Followers), size : Nat, at : Ats, client : Clients \union {NoClient},
            left : [Keys -> Int], doc : Docs]

\* The states of a job, by the kind that gets there.
SignalAts == {"place", "insert", "load", "save"}
CheckAts == {"find", "flag", "refresh", "exercise", "mark"}

\* A job has a follower while it works, and is where its kind leads.
JobOK(r) ==
    /\ r \in JobType
    /\ r.at \notin {"idle", "next"} => r.todo # <<>>
    /\ r.at = "idle" => r = Idle
    /\ r.at \in {"connect", "reconnect", "order"} \union CheckAts => r.client # NoClient
    /\ r.at \in {"next", "insert", "load", "save"} => r.client = NoClient
    /\ r.at \in SignalAts => r.kind = "signal"
    /\ r.at \in CheckAts => r.kind = "check"
    /\ r.at = "order" => r.kind = "close"
    /\ r.at = "price" => r.kind = "watch"
    /\ r.kind = "signal" => r.side \in Sides
    /\ r.kind = "check" => r.left \in [Keys -> Nat]
    /\ r.kind = "check" /\ r.doc.state = "ASSIGNED" => r.doc.short < r.doc.long
    /\ r.at \in {"flag", "refresh", "exercise"} => r.doc.state = "ASSIGNED"
    /\ r.at = "mark" => r.doc.state = "COMPENSATED"

JobInv == job \in [Jobs -> JobType] /\ \A j \in Jobs : JobOK(job[j])

TypeInv ==
    /\ TypeOK /\ JobInv
    /\ worst \in [Followers -> Statuses \union {None}]
    /\ flat \subseteq [Keys -> Int] /\ exercised \subseteq Followers

OneAtATime == \A i, j \in Jobs : i # j => job[i].at = "idle" \/ job[j].at = "idle"

\* Unless jobs overlap there is one at a time, and a session is stored.
SessionStored ==
    mode # "overlap" =>
        /\ OneAtATime
        /\ session # NoClient => stored[owner[session]] = session
        /\ \A j \in Jobs : job[j].client # NoClient =>
              IF job[j].at \in {"connect", "reconnect"} THEN session # job[j].client
              ELSE stored[Follower(j)] = job[j].client
        /\ \A j \in Jobs : job[j].at = "reconnect" => stored[Follower(j)] = job[j].client

\* One job at a time watches, and prices only while nothing is at risk.
WatchInv ==
    /\ \A i, j \in Jobs : job[i].kind = "watch" /\ job[j].kind = "watch" => i = j
    /\ \A j \in Jobs : job[j].at = "price" => worst[Follower(j)] \in {None, "SAFE"}

\* The jobs for a follower that have not saved what they have done.
AtWork(ats, f, side) ==
    {j \in Jobs : job[j].at \in ats /\ Follower(j) = f /\ job[j].side = side}

Answering(f, side) == AtWork({"load", "save"}, f, side)
Inserting(f, side) == AtWork({"insert"}, f, side)

TradesInv ==
    \A f \in Followers, side \in Sides :
       /\ succeeded[f][side] + Cardinality(Answering(f, side)) <= trades[f][side]
       /\ mode # "failing" =>
             executed[f][side] = trades[f][side] + Cardinality(Inserting(f, side))

Quantity(doc, side) == IF side = "LONG" THEN doc.long ELSE doc.short

CalmBook ==
    mode = "calm" =>
       /\ \A f \in Followers, side \in Sides : book[f].state = "NONE" =>
             trades[f][side] = Quantity(book[f], side) + Cardinality(Answering(f, side))
       /\ \A j \in Jobs : job[j].at = "save" =>
             job[j].doc = WithTrade(book[Follower(j)], job[j].side)

DocInv ==
    \A j \in Jobs : job[j].doc.state = "COMPENSATED" => Follower(j) \in exercised

\* With one job at a time and a prompt TWS: what a job has read is still so,
CalmJob(j) ==
    /\ job[j].at \in {"order"} \union CheckAts => session = job[j].client
    /\ job[j].at # "refresh"
    /\ job[j].at \in {"next", "connect", "reconnect"} => job[j].doc = NoDoc
    /\ job[j].at \in {"next", "connect", "reconnect", "find", "flag"} => job[j].left = Zero
    /\ job[j].at = "order" => \A k \in Keys :
          IF job[j].left[k] = 0 THEN held[k] = -working[k]
          ELSE held[k] = job[j].left[k] /\ working[k] = 0
    /\ job[j].at \in {"find", "flag"} =>
          job[j].doc.long = held["bought"] /\ job[j].doc.short = -held["sold"]
    /\ job[j].at = "exercise" =>
          /\ job[j].left["sold"] = 0
          /\ held["bought"] - job[j].left["bought"] + held["sold"] >= 0

\* closes are flat, and the account owes no more options than it has.
CalmHeld ==
    /\ flat \subseteq {Zero}
    /\ held["sold"] <= 0 /\ held["bought"] >= 0
    /\ exercising["sold"] = 0

CalmAccount ==
    mode = "calm" =>
       /\ CalmHeld
       /\ exercising # Zero => \E j \in Jobs : job[j].at = "mark"
       /\ working # Zero => \E j \in Jobs : job[j].at = "order"
       /\ (\A j \in Jobs : job[j].at # "order") =>
             held["bought"] - exercising["bought"] + held["sold"] >= 0
       /\ \A j \in Jobs : CalmJob(j)

TradingInv == /\ TypeInv /\ OwnClient /\ SessionStored /\ WatchInv /\ RiskStaysVisible
              /\ TradesInv /\ CalmBook /\ DocInv /\ CompensatedWasExercised /\ CalmAccount

-----------------------------------------------------------------------------
(* Clients *)

USE SessionsAssumption, TradingAssumption

\* The union of two finite sets is no larger than both.
LEMMA UnionBound ==
  ASSUME NEW S, NEW T, IsFiniteSet(S), IsFiniteSet(T), NEW m \in Nat, NEW n \in Nat,
         Cardinality(S) <= m, Cardinality(T) <= n
  PROVE  IsFiniteSet(S \union T) /\ Cardinality(S \union T) <= m + n
<1>1. /\ Cardinality(S) \in Nat /\ Cardinality(T) \in Nat /\ Cardinality(S \intersect T) \in Nat
      /\ IsFiniteSet(S \union T)
      /\ Cardinality(S \union T) = Cardinality(S) + Cardinality(T) - Cardinality(S \intersect T)
  <2>1. S \intersect T \in SUBSET S
    OBVIOUS
  <2>2. IsFiniteSet(S \intersect T)
    BY <2>1, FS_Subset
  <2>. QED BY <2>2, FS_Union, FS_CardinalityType
<1>. QED BY <1>1

\* There is a client that nothing refers to.
LEMMA AClientIsFree ==
  ASSUME TypeInv, NEW clients \in [Followers -> Clients \union {NoClient}]
  PROVE  Unreferenced(clients) # {}
<1>. DEFINE Stored == {clients[f] : f \in Followers}
            AtWorkOn == {job[j].client : j \in Jobs}
<1>1. IsFiniteSet(Stored) /\ Cardinality(Stored) <= Cardinality(Followers)
  <2>1. clients \in Surjection(Followers, Stored)
    BY DEF Surjection
  <2>. QED BY <2>1, FS_Surjection, IsFiniteSet(Followers)
<1>2. IsFiniteSet(AtWorkOn) /\ Cardinality(AtWorkOn) <= Cardinality(Jobs)
  <2>1. [j \in Jobs |-> job[j].client] \in Surjection(Jobs, AtWorkOn)
    BY DEF Surjection
  <2>. QED BY <2>1, FS_Surjection
<1>3. IsFiniteSet({session}) /\ Cardinality({session}) = 1
  BY FS_Singleton
<1>4. /\ IsFiniteSet({session} \union Stored)
      /\ Cardinality({session} \union Stored) <= 1 + Cardinality(Followers)
  <2>1. 1 \in Nat /\ 1 <= 1 /\ Cardinality(Followers) \in Nat
    BY FS_CardinalityType
  <2>. QED BY <1>1, <1>3, <2>1, UnionBound
<1>5. /\ IsFiniteSet({session} \union Stored \union AtWorkOn)
      /\ Cardinality({session} \union Stored \union AtWorkOn)
           <= 1 + Cardinality(Followers) + Cardinality(Jobs)
  <2>1. 1 + Cardinality(Followers) \in Nat /\ Cardinality(Jobs) \in Nat
    BY FS_CardinalityType
  <2>. QED BY <1>2, <1>4, <2>1, UnionBound
<1>6. SUFFICES ASSUME Unreferenced(clients) = {} PROVE FALSE
  OBVIOUS
<1>7. Clients \subseteq {session} \union Stored \union AtWorkOn
  BY <1>6 DEF Unreferenced
<1>8. Cardinality(Clients) <= Cardinality({session} \union Stored \union AtWorkOn)
  BY <1>5, <1>7, FS_Subset
<1>. QED BY <1>5, <1>8, FS_CardinalityType

-----------------------------------------------------------------------------
(* Jobs *)

\* What a step does to the jobs: to no other than j.
OnlyJob(j) == \A i \in Jobs \ {j} : job'[i] = job[i]

\* j gives up its follower.
GivesUp(j) ==
    /\ OnlyJob(j)
    /\ job'[j].at = "next" /\ job'[j].client = NoClient /\ job'[j].doc = NoDoc
    /\ job'[j].left = Zero /\ job'[j].todo = Tail(job[j].todo)
    /\ job'[j].kind = job[j].kind /\ job'[j].side = job[j].side

\* j goes on for its follower.
GoesOn(j, ats) ==
    /\ OnlyJob(j)
    /\ job'[j].at \in ats /\ job'[j].todo = job[j].todo
    /\ job'[j].kind = job[j].kind /\ job'[j].side = job[j].side

\* A step that gives one job a good record keeps the jobs good.
LEMMA SetJob ==
  ASSUME JobInv, NEW j \in Jobs, NEW r, JobOK(r), job' = [job EXCEPT ![j] = r]
  PROVE  JobInv' /\ job'[j] = r /\ OnlyJob(j)
BY DEF JobInv, JobOK, OnlyJob

\* The follower of a job is one.
LEMMA JobHasFollower ==
  ASSUME JobInv, NEW j \in Jobs, job[j].todo # <<>>
  PROVE  /\ job[j].todo \in Seq(Followers) /\ Tail(job[j].todo) \in Seq(Followers)
         /\ Follower(j) \in Followers
BY DEF JobInv, JobType, Follower

\* A job that waits for something has a follower.
LEMMA WaitsForFollower ==
  ASSUME TypeInv, NEW j \in Jobs, job[j].at \notin {"idle", "next"}
  PROVE  JobInv /\ job[j].todo # <<>> /\ Follower(j) \in Followers /\ JobOK(job[j])
<1>1. JobInv /\ JobOK(job[j])
  BY DEF TypeInv, JobInv
<1>2. job[j].todo # <<>>
  BY <1>1 DEF JobOK
<1>. QED BY <1>1, <1>2, JobHasFollower

\* What is idle is good.
LEMMA IdleOK == JobOK(Idle)
<1>1. Zero \in [Keys -> Nat] /\ Zero \in [Keys -> Int] /\ NoDoc \in Docs
  BY DEF Zero, NoDoc, Docs
<1>2. <<>> \in Seq(Followers) /\ "idle" \in Ats /\ 0 \in Nat
  BY DEF Ats
<1>3. Idle \in JobType
  BY <1>1, <1>2 DEF JobType, Idle
<1>4. Idle.at = "idle" /\ Idle.kind = None
  BY DEF Idle
<1>. QED BY <1>3, <1>4 DEF JobOK, SignalAts, CheckAts, None

\* NextFollower() leaves a job good, and without a client.
LEMMA GivesUpJob ==
  ASSUME JobInv, NEW j \in Jobs, job[j].todo # <<>>, NextFollower(j)
  PROVE  JobInv' /\ GivesUp(j)
<1>. DEFINE r == [Idle EXCEPT !.kind = job[j].kind, !.side = job[j].side,
                              !.size = job[j].size, !.at = "next",
                              !.todo = Tail(job[j].todo)]
<1>1. /\ r.kind = job[j].kind /\ r.side = job[j].side /\ r.size = job[j].size /\ r.at = "next"
      /\ r.todo = Tail(job[j].todo) /\ r.client = NoClient /\ r.left = Zero /\ r.doc = NoDoc
  BY DEF Idle
<1>2. Tail(job[j].todo) \in Seq(Followers) /\ JobOK(job[j]) /\ job[j] \in JobType
  BY JobHasFollower DEF JobInv
<1>3. JobOK(r)
  <2>1. Zero \in [Keys -> Nat] /\ Zero \in [Keys -> Int] /\ NoDoc \in Docs /\ NoDoc.state = "ABSENT"
    BY DEF Zero, NoDoc, Docs
  <2>2. r \in JobType
    <3>1. Idle \in JobType
      BY IdleOK DEF JobOK
    <3>. QED BY <1>2, <3>1 DEF JobType, Ats
  <2>. QED BY <1>1, <1>2, <2>1, <2>2 DEF JobOK, SignalAts, CheckAts
<1>4. job' = [job EXCEPT ![j] = r]
  BY DEF NextFollower
<1>. HIDE DEF r
<1>. QED BY <1>1, <1>3, <1>4, SetJob DEF GivesUp

\* j goes to another await with these values.
Put(j, a, c, l, d) ==
    job' = [job EXCEPT ![j] = [job[j] EXCEPT !.at = a, !.client = c, !.left = l, !.doc = d]]

\* They fit where the job goes.
Fits(j, a, c, l, d) ==
    /\ a \in Ats \ {"idle", "next"} /\ c \in Clients \union {NoClient}
    /\ l \in [Keys -> Int] /\ d \in Docs
    /\ a \in {"connect", "reconnect", "order"} \union CheckAts => c # NoClient
    /\ a \in {"insert", "load", "save"} => c = NoClient
    /\ a \in SignalAts => job[j].kind = "signal"
    /\ a \in CheckAts => job[j].kind = "check"
    /\ a = "order" => job[j].kind = "close"
    /\ a = "price" => job[j].kind = "watch"
    /\ job[j].kind = "check" =>
          /\ l \in [Keys -> Nat]
          /\ d.state = "ASSIGNED" => d.short < d.long
    /\ a \in {"flag", "refresh", "exercise"} => d.state = "ASSIGNED"
    /\ a = "mark" => d.state = "COMPENSATED"

\* It is there.
Went(j, a, c, l, d) ==
    /\ GoesOn(j, {a})
    /\ job'[j].client = c /\ job'[j].left = l /\ job'[j].doc = d

\* When the values fit, the job stays good.
LEMMA PutJob ==
  ASSUME JobInv, NEW j \in Jobs, NEW a, NEW c, NEW l, NEW d,
         job[j].todo # <<>>, Put(j, a, c, l, d), Fits(j, a, c, l, d)
  PROVE  JobInv' /\ Went(j, a, c, l, d)
<1>. DEFINE r == [job[j] EXCEPT !.at = a, !.client = c, !.left = l, !.doc = d]
<1>1. JobOK(job[j]) /\ job[j] \in JobType
  BY DEF JobInv
<1>2. /\ r.at = a /\ r.client = c /\ r.left = l /\ r.doc = d
      /\ r.kind = job[j].kind /\ r.side = job[j].side /\ r.todo = job[j].todo
      /\ r \in JobType
  BY <1>1 DEF JobType, Fits
<1>3. job' = [job EXCEPT ![j] = r]
  BY DEF Put
<1>. HIDE DEF r
<1>4. JobOK(r)
  BY <1>1, <1>2 DEF JobOK, Fits
<1>. QED BY <1>2, <1>3, <1>4, SetJob DEF GoesOn, Went

\* What a job may do next fits what it has.
LEMMA FitsAsBefore ==
  ASSUME JobInv, NEW j \in Jobs
  PROVE  /\ job[j].left \in [Keys -> Int] /\ job[j].doc \in Docs
         /\ job[j].client \in Clients \union {NoClient}
         /\ job[j].kind = "check" =>
               /\ job[j].left \in [Keys -> Nat]
               /\ job[j].doc.state = "ASSIGNED" => job[j].doc.short < job[j].doc.long
BY DEF JobInv, JobOK, JobType

\* Options of a kind are counted.
LEMMA CountsOfOptions ==
  ASSUME NEW qty \in [Keys -> Int]
  PROVE  Long(qty) \in Nat /\ Short(qty) \in Nat
BY DEF Long, Short, Positive, Keys

\* What a job does with its client leaves it waiting for that, or gives the follower up.
UsingAts == {"place", "order", "find", "mark", "price"}
Uses(j, c) == GivesUp(j) \/ (GoesOn(j, UsingAts) /\ job'[j].client = c)

\* A signal uses its client: the job waits for the spread or gives up.
LEMMA UseSignalJob ==
  ASSUME JobInv, NEW j \in Jobs, NEW c \in Clients, job[j].todo # <<>>,
         job[j].kind = "signal", UseForSignal(j, c)
  PROVE  JobInv' /\ Uses(j, c)
<1>1. CASE NextFollower(j)
  BY <1>1, GivesUpJob DEF Uses
<1>2. CASE job' = [job EXCEPT ![j].at = "place", ![j].client = c]
  <2>1. Put(j, "place", c, job[j].left, job[j].doc)
    BY <1>2 DEF JobInv, JobType, Put
  <2>2. Fits(j, "place", c, job[j].left, job[j].doc)
    BY FitsAsBefore DEF Fits, Ats, SignalAts, CheckAts
  <2>. QED BY <2>1, <2>2, PutJob DEF Went, GoesOn, Uses, UsingAts
<1>. QED BY <1>1, <1>2 DEF UseForSignal

\* A close places its next order or gives up.
LEMMA CloseNextJob ==
  ASSUME JobInv, NEW j \in Jobs, NEW c \in Clients, job[j].todo # <<>>,
         job[j].kind = "close", NEW left \in [Keys -> Int], NEW connected \in BOOLEAN,
         CloseNext(j, c, connected, left)
  PROVE  JobInv' /\ Uses(j, c)
<1>1. CASE NextFollower(j)
  BY <1>1, GivesUpJob DEF Uses
<1>2. CASE PlaceMarketOrder(j, c, left)
  <2>1. PICK k \in Keys : job' = [job EXCEPT ![j].at = "order", ![j].client = c,
                                             ![j].left = [left EXCEPT ![k] = 0]]
    BY <1>2 DEF PlaceMarketOrder
  <2>2. PICK l \in [Keys -> Int] : l = [left EXCEPT ![k] = 0]
    <3>1. [left EXCEPT ![k] = 0] \in [Keys -> Int]
      OBVIOUS
    <3>. QED BY <3>1
  <2>3. Put(j, "order", c, l, job[j].doc)
    BY <2>1, <2>2 DEF JobInv, JobType, Put
  <2>4. Fits(j, "order", c, l, job[j].doc)
    BY FitsAsBefore DEF Fits, Ats, SignalAts, CheckAts
  <2>. QED BY <2>3, <2>4, PutJob DEF Went, GoesOn, Uses, UsingAts
<1>. QED BY <1>1, <1>2 DEF CloseNext

\* A check waits for the follower's document, with what it read.
LEMMA UseCheckJob ==
  ASSUME JobInv, held \in [Keys -> Int], NEW j \in Jobs, NEW c \in Clients, job[j].todo # <<>>,
         job[j].kind = "check", UseForCheck(j, c)
  PROVE  /\ JobInv' /\ Uses(j, c)
         /\ job'[j].at = "find" /\ job'[j].left = job[j].left
         /\ job'[j].doc = [state |-> AssignmentState(held), long |-> Long(held),
                           short |-> Short(held)]
<1>1. PICK d \in Docs : d = [state |-> AssignmentState(held), long |-> Long(held),
                            short |-> Short(held)]
  <2>1. /\ AssignmentState(held) \in {"ASSIGNED", "NONE"}
        /\ Long(held) \in Nat /\ Short(held) \in Nat
    BY CountsOfOptions DEF AssignmentState
  <2>2. [state |-> AssignmentState(held), long |-> Long(held), short |-> Short(held)] \in Docs
    BY <2>1 DEF Docs
  <2>. QED BY <2>2
<1>2. Put(j, "find", c, job[j].left, d)
  BY <1>1 DEF JobInv, JobType, Put, UseForCheck
<1>3. d.state = "ASSIGNED" => d.short < d.long
  BY <1>1 DEF AssignmentState
<1>4. Fits(j, "find", c, job[j].left, d)
  BY <1>3, FitsAsBefore DEF Fits, Ats, SignalAts, CheckAts
<1>. QED BY <1>1, <1>2, <1>4, PutJob DEF Went, GoesOn, Uses, UsingAts

\* An exercise waits to be marked, or the job gives up.
LEMMA UseExerciseJob ==
  ASSUME JobInv, NEW j \in Jobs, NEW c \in Clients, job[j].todo # <<>>,
         job[j].kind = "check", UseForExercise(j, c)
  PROVE  JobInv' /\ Uses(j, c)
<1>1. CASE NextFollower(j)
  BY <1>1, GivesUpJob DEF Uses
<1>2. CASE job' = [job EXCEPT ![j].at = "mark", ![j].client = c, ![j].doc.state = "COMPENSATED"]
  <2>1. PICK d \in Docs : d = [job[j].doc EXCEPT !.state = "COMPENSATED"]
    BY FitsAsBefore DEF Docs
  <2>2. Put(j, "mark", c, job[j].left, d)
    BY <1>2, <2>1 DEF JobInv, JobType, Put
  <2>3. Fits(j, "mark", c, job[j].left, d)
    BY <2>1, FitsAsBefore DEF Fits, Ats, SignalAts, CheckAts, Docs
  <2>. QED BY <2>2, <2>3, PutJob DEF Went, GoesOn, Uses, UsingAts
<1>. QED BY <1>1, <1>2 DEF UseForExercise

\* A round waits for prices, or the job gives up.
LEMMA UseWatchJob ==
  ASSUME JobInv, held \in [Keys -> Int], NEW j \in Jobs, NEW c \in Clients, job[j].todo # <<>>,
         job[j].kind = "watch", UseForWatch(j, c)
  PROVE  JobInv' /\ Uses(j, c)
<1>1. CASE NextFollower(j)
  BY <1>1, GivesUpJob DEF Uses
<1>2. CASE job' = [job EXCEPT ![j].at = "price", ![j].client = c, ![j].left = held]
  <2>1. Put(j, "price", c, held, job[j].doc)
    BY <1>2 DEF JobInv, JobType, Put
  <2>2. Fits(j, "price", c, held, job[j].doc)
    BY FitsAsBefore DEF Fits, Ats, SignalAts, CheckAts
  <2>. QED BY <2>1, <2>2, PutJob DEF Went, GoesOn, Uses, UsingAts
<1>. QED BY <1>1, <1>2 DEF UseForWatch

\* Whatever a job does with its client leaves it good.
LEMMA UseJob ==
  ASSUME TypeInv, NEW j \in Jobs, NEW c \in Clients, job[j].todo # <<>>, Use(j, c)
  PROVE  JobInv' /\ Uses(j, c)
<1>. JobInv /\ held \in [Keys -> Int]
  BY DEF TypeInv, TypeOK
<1>1. CASE job[j].kind = "signal" /\ UseForSignal(j, c)
  BY <1>1, UseSignalJob
<1>2. CASE job[j].kind = "close" /\ UseForClose(j, c)
  BY <1>2, CloseNextJob DEF UseForClose
<1>3. CASE job[j].kind = "check" /\ UseForCheck(j, c)
  BY <1>3, UseCheckJob
<1>4. CASE Exercises(j) /\ UseForExercise(j, c)
  BY <1>4, UseExerciseJob DEF Exercises
<1>5. CASE job[j].kind = "watch" /\ UseForWatch(j, c)
  BY <1>5, UseWatchJob
<1>. QED BY <1>1, <1>2, <1>3, <1>4, <1>5 DEF Use

-----------------------------------------------------------------------------
(* Sessions: what a step of a job does to the clients *)

ConnectAts == {"connect", "reconnect"}

\* It lets its client go, if it had one; Refreshed() may have connected it.
LetsGo(j) ==
    /\ UNCHANGED <<stored, owner>>
    /\ \/ UNCHANGED session
       \/ /\ session' = job[j].client /\ job[j].client # NoClient
          /\ job[j].at \notin ConnectAts
    /\ job'[j].client = NoClient /\ job'[j].at \notin ConnectAts

\* It goes on with the client it has, for which Refreshed() may connect again.
KeepsOn(j) ==
    /\ UNCHANGED <<stored, owner>> /\ session' \in {session, job[j].client}
    /\ job[j].client # NoClient /\ job'[j].client = job[j].client
    /\ job'[j].todo = job[j].todo
    /\ job[j].at \notin ConnectAts /\ job'[j].at \notin ConnectAts

\* It uses the stored client, which is connected.
UsesStored(j) ==
    /\ UNCHANGED <<stored, owner, session>> /\ Follower(j) \in Followers
    /\ session # NoClient /\ session = stored[Follower(j)]
    /\ job'[j].client = session /\ job'[j].todo = job[j].todo
    /\ job'[j].at \notin ConnectAts

\* It connects the stored client again.
Reconnects(j) ==
    /\ UNCHANGED <<stored, owner, session>> /\ Follower(j) \in Followers
    /\ stored[Follower(j)] # NoClient /\ session # stored[Follower(j)]
    /\ job'[j].client = stored[Follower(j)] /\ job'[j].todo = job[j].todo
    /\ job'[j].at = "reconnect"

\* Its client has connected, is stored if it is new, and used.
HasConnected(j) ==
    /\ job[j].at \in ConnectAts /\ job[j].client # NoClient
    /\ session' = job[j].client /\ UNCHANGED owner
    /\ stored' = IF job[j].at = "connect" THEN [stored EXCEPT ![Follower(j)] = job[j].client]
                 ELSE stored
    /\ job'[j].client # NoClient => /\ job'[j].client = job[j].client
                                    /\ job'[j].todo = job[j].todo
    /\ job'[j].at \notin ConnectAts

\* It deletes the stored client that failed to connect.
Deletes(j) ==
    /\ job[j].at = "reconnect"
    /\ stored' = [stored EXCEPT ![Follower(j)] = NoClient]

\* It has a new client, for no client or for one that it has deleted.
HasNew(j) ==
    /\ UNCHANGED session /\ Follower(j) \in Followers
    /\ UNCHANGED stored \/ Deletes(j)
    /\ \E c \in Unreferenced(stored') :
          /\ owner' = [owner EXCEPT ![c] = Follower(j)]
          /\ job'[j].client = c
    /\ job'[j].at = "connect" /\ job'[j].todo = job[j].todo

\* It has deleted a client and gives up.
HasNone(j) ==
    /\ Deletes(j) /\ UNCHANGED <<owner, session>>
    /\ job'[j].client = NoClient /\ job'[j].at \notin ConnectAts

SessionStep(j) ==
    \/ LetsGo(j) \/ KeepsOn(j) \/ UsesStored(j) \/ Reconnects(j) \/ HasConnected(j)
    \/ HasNew(j) \/ HasNone(j)

\* A new client is one that nothing refers to.
LEMMA NewClientJob ==
  ASSUME TypeInv, NEW j \in Jobs, job[j].todo # <<>>,
         NEW clients \in [Followers -> Clients \union {NoClient}], NewClient(j, clients)
  PROVE  /\ JobInv'
         /\ \/ GivesUp(j) /\ UNCHANGED owner
            \/ /\ \E c \in Unreferenced(clients) : /\ owner' = [owner EXCEPT ![c] = Follower(j)]
                                                   /\ job'[j].client = c
               /\ GoesOn(j, {"connect"})
               /\ job'[j].left = job[j].left /\ job'[j].doc = job[j].doc
<1>. JobInv
  BY DEF TypeInv
<1>1. CASE NextFollower(j) /\ UNCHANGED owner
  BY <1>1, GivesUpJob
<1>2. CASE IsActive(Follower(j)) /\ Connects
  <2>. DEFINE c == CHOOSE new \in Unreferenced(clients) : TRUE
  <2>1. c \in Unreferenced(clients)
    BY AClientIsFree
  <2>2. /\ owner' = [owner EXCEPT ![c] = Follower(j)]
        /\ job' = [job EXCEPT ![j].at = "connect", ![j].client = c]
    BY <1>2 DEF NewClient
  <2>. HIDE DEF c
  <2>3. c \in Clients /\ c # NoClient
    BY <2>1 DEF Unreferenced
  <2>4. Put(j, "connect", c, job[j].left, job[j].doc)
    BY <2>2 DEF JobInv, JobType, Put
  <2>5. Fits(j, "connect", c, job[j].left, job[j].doc)
    BY <2>3, FitsAsBefore DEF Fits, Ats, SignalAts, CheckAts
  <2>6. JobInv' /\ Went(j, "connect", c, job[j].left, job[j].doc)
    BY <2>4, <2>5, PutJob
  <2>. QED BY <2>1, <2>2, <2>6 DEF Went
<1>. QED BY <1>1, <1>2 DEF NewClient

\* ensure_connected() waits for the client that is stored.
LEMMA ReconnectJob ==
  ASSUME TypeInv, NEW j \in Jobs, job[j].todo # <<>>, stored[Follower(j)] # NoClient, Reconnect(j)
  PROVE  /\ JobInv' /\ GoesOn(j, {"reconnect"}) /\ job'[j].client = stored[Follower(j)]
         /\ job'[j].left = job[j].left /\ job'[j].doc = job[j].doc
<1>. JobInv
  BY DEF TypeInv
<1>1. PICK c \in Clients : c = stored[Follower(j)]
  BY JobHasFollower DEF TypeInv, TypeOK
<1>2. Put(j, "reconnect", c, job[j].left, job[j].doc)
  BY <1>1 DEF JobInv, JobType, Put, Reconnect
<1>3. Fits(j, "reconnect", c, job[j].left, job[j].doc)
  BY FitsAsBefore DEF Fits, Ats, SignalAts, CheckAts
<1>4. JobInv' /\ Went(j, "reconnect", c, job[j].left, job[j].doc)
  BY <1>2, <1>3, PutJob
<1>. QED BY <1>1, <1>4 DEF Went

\* get_client(), in a step that keeps what is stored and the session.
LEMMA GetClientJob ==
  ASSUME TypeInv, NEW j \in Jobs, job[j].todo # <<>>, GetClient(j), UNCHANGED <<stored, session>>
  PROVE  JobInv' /\ OnlyJob(j) /\ SessionStep(j)
<1>. DEFINE c == stored[Follower(j)]
<1>1. c \in Clients \union {NoClient} /\ Follower(j) \in Followers
  BY JobHasFollower DEF TypeInv, TypeOK
<1>2. CASE c # NoClient /\ session = c /\ Use(j, c) /\ UNCHANGED owner
  BY <1>1, <1>2, UseJob
  DEF Uses, GivesUp, GoesOn, UsingAts, ConnectAts, SessionStep, LetsGo, UsesStored
<1>3. CASE c # NoClient /\ session # c /\ Reconnect(j) /\ UNCHANGED owner
  BY <1>1, <1>3, ReconnectJob DEF GoesOn, SessionStep, Reconnects
<1>4. CASE NewClient(j, stored)
  <2>1. stored \in [Followers -> Clients \union {NoClient}]
    BY DEF TypeInv, TypeOK
  <2>2. stored' = stored
    OBVIOUS
  <2>. QED
    BY <1>1, <1>4, <2>1, <2>2, NewClientJob DEF GivesUp, GoesOn, ConnectAts, SessionStep, LetsGo, HasNew, Unreferenced
<1>5. CASE NextFollower(j) /\ UNCHANGED owner
  BY <1>5, GivesUpJob DEF TypeInv, GivesUp, ConnectAts, SessionStep, LetsGo
<1>. QED BY <1>2, <1>3, <1>4, <1>5 DEF GetClient

\* The next follower: a client is asked for, or the loop has ended.
LEMMA TakeFollowerJob ==
  ASSUME TypeInv, NEW j \in Jobs, TakeFollower(j)
  PROVE  JobInv' /\ OnlyJob(j) /\ SessionStep(j)
<1>1. CASE job' = [job EXCEPT ![j] = Idle] /\ UNCHANGED owner
  <2>1. JobInv' /\ OnlyJob(j) /\ job'[j] = Idle
    BY <1>1, IdleOK, SetJob DEF TypeInv
  <2>. QED BY <1>1, <2>1 DEF TakeFollower, SessionStep, LetsGo, Idle, ConnectAts
<1>2. CASE job[j].todo # <<>> /\ GetClient(j)
  BY <1>2, GetClientJob DEF TakeFollower
<1>. QED BY <1>1, <1>2 DEF TakeFollower

\* exercise_options() asks for the client once more.
LEMMA ExerciseJob ==
  ASSUME TypeInv, NEW j \in Jobs, Exercise(j)
  PROVE  JobInv' /\ OnlyJob(j) /\ SessionStep(j)
<1>1. job[j].todo # <<>>
  BY DEF Exercise, TypeInv, JobInv, JobOK
<1>. QED BY <1>1, GetClientJob DEF Exercise

\* A connection is there and used, or another client is made, or none.
LEMMA ConnectEndsJob ==
  ASSUME TypeInv, NEW j \in Jobs, ConnectEnds(j)
  PROVE  JobInv' /\ OnlyJob(j) /\ SessionStep(j)
<1>. DEFINE c == job[j].client
<1>1. /\ JobInv /\ job[j].todo # <<>> /\ c \in Clients /\ c # NoClient
      /\ job[j].at \in ConnectAts /\ Follower(j) \in Followers
  BY WaitsForFollower DEF ConnectEnds, ConnectAts, JobOK, JobType
<1>2. CASE /\ session' = c /\ Use(j, c) /\ UNCHANGED owner
           /\ IF job[j].at = "connect" THEN Store(j) ELSE UNCHANGED stored
  BY <1>1, <1>2, UseJob
  DEF Uses, GivesUp, GoesOn, UsingAts, ConnectAts, SessionStep, HasConnected, Store
<1>3. CASE NextFollower(j) /\ UNCHANGED <<stored, owner, session>>
  BY <1>1, <1>3, GivesUpJob DEF GivesUp, ConnectAts, SessionStep, LetsGo
<1>4. CASE job[j].at = "reconnect" /\ ReplaceClient(j) /\ UNCHANGED session
  <2>. DEFINE without == [stored EXCEPT ![Follower(j)] = NoClient]
  <2>1. without \in [Followers -> Clients \union {NoClient}]
    BY DEF TypeInv, TypeOK
  <2>2. CASE stored' = without /\ NewClient(j, without)
    <3>. HIDE DEF without
    <3>1. CASE GivesUp(j) /\ UNCHANGED owner /\ JobInv'
      BY <1>1, <1>4, <2>2, <3>1 DEF without, GivesUp, SessionStep, HasNone, Deletes, ConnectAts
    <3>2. CASE /\ \E new \in Unreferenced(without) : /\ owner' = [owner EXCEPT ![new] = Follower(j)]
                                                     /\ job'[j].client = new
               /\ GoesOn(j, {"connect"}) /\ JobInv'
      <4>1. Deletes(j)
        BY <1>4, <2>2 DEF Deletes, without
      <4>2. UNCHANGED session /\ stored' = without /\ Follower(j) \in Followers
        BY <1>1, <1>4, <2>2
      <4>. QED BY <3>2, <4>1, <4>2 DEF GoesOn, SessionStep, HasNew
    <3>. QED BY <1>1, <2>1, <2>2, <3>1, <3>2, NewClientJob
  <2>3. CASE NextFollower(j) /\ UNCHANGED <<stored, owner>>
    BY <1>4, <2>3, <1>3
  <2>. QED BY <1>4, <2>2, <2>3 DEF ReplaceClient
<1>. QED BY <1>1, <1>2, <1>3, <1>4 DEF ConnectEnds, ConnectAts

\* A step that gives the follower up, and touches no client.
LEMMA GivesUpSession ==
  ASSUME JobInv, NEW j \in Jobs, job[j].todo # <<>>, NextFollower(j),
         UNCHANGED <<stored, owner, session>>
  PROVE  JobInv' /\ OnlyJob(j) /\ SessionStep(j)
<1>1. JobInv' /\ GivesUp(j)
  BY GivesUpJob
<1>. QED BY <1>1 DEF GivesUp, SessionStep, LetsGo, ConnectAts

\* A step that waits for something else, with the client the job has or with none.
LEMMA PutSession ==
  ASSUME JobInv, NEW j \in Jobs, NEW a, NEW c, NEW l, NEW d,
         job[j].todo # <<>>, Put(j, a, c, l, d), Fits(j, a, c, l, d),
         a \notin ConnectAts, job[j].at \notin ConnectAts, c \in {NoClient, job[j].client},
         UNCHANGED <<stored, owner>>, session' \in {session, job[j].client},
         c = NoClient => UNCHANGED session
  PROVE  JobInv' /\ OnlyJob(j) /\ SessionStep(j)
<1>1. JobInv' /\ Went(j, a, c, l, d)
  BY PutJob
<1>. QED BY <1>1 DEF Went, GoesOn, SessionStep, LetsGo, KeepsOn

\* A spread has been placed.
LEMMA PlacedJob ==
  ASSUME TypeInv, NEW j \in Jobs, Placed(j)
  PROVE  JobInv' /\ OnlyJob(j) /\ SessionStep(j)
<1>1. /\ JobInv /\ job[j].todo # <<>> /\ UNCHANGED <<stored, owner, session>>
      /\ job[j].kind = "signal" /\ job[j].at = "place"
  BY WaitsForFollower DEF Placed, clientVars, JobOK, SignalAts
<1>2. CASE NextFollower(j)
  BY <1>1, <1>2, GivesUpSession
<1>3. CASE job' = [job EXCEPT ![j].at = "insert", ![j].client = NoClient]
  <2>1. Put(j, "insert", NoClient, job[j].left, job[j].doc)
    BY <1>1, <1>3 DEF JobInv, JobType, Put
  <2>2. Fits(j, "insert", NoClient, job[j].left, job[j].doc)
    BY <1>1, FitsAsBefore DEF Fits, Ats, SignalAts, CheckAts
  <2>3. "insert" \notin ConnectAts /\ job[j].at \notin ConnectAts
    BY <1>1 DEF ConnectAts
  <2>. QED BY <1>1, <2>1, <2>2, <2>3, PutSession
<1>. QED BY <1>2, <1>3 DEF Placed

\* A trade has been saved, or could not be.
LEMMA SaveTradeJob ==
  ASSUME TypeInv, NEW j \in Jobs, SaveTrade(j)
  PROVE  JobInv' /\ OnlyJob(j) /\ SessionStep(j)
<1>1. /\ JobInv /\ job[j].todo # <<>> /\ UNCHANGED <<stored, owner, session>>
      /\ job[j].kind = "signal" /\ job[j].at = "insert" /\ job[j].client = NoClient
  BY WaitsForFollower DEF SaveTrade, clientVars, JobOK, SignalAts
<1>2. CASE NextFollower(j)
  BY <1>1, <1>2, GivesUpSession
<1>3. CASE job' = [job EXCEPT ![j].at = "load"]
  <2>1. Put(j, "load", job[j].client, job[j].left, job[j].doc)
    BY <1>1, <1>3 DEF JobInv, JobType, Put
  <2>2. Fits(j, "load", job[j].client, job[j].left, job[j].doc)
    BY <1>1, FitsAsBefore DEF Fits, Ats, SignalAts, CheckAts
  <2>3. "load" \notin ConnectAts /\ job[j].at \notin ConnectAts
    BY <1>1 DEF ConnectAts
  <2>. QED BY <1>1, <2>1, <2>2, <2>3, PutSession
<1>. QED BY <1>2, <1>3 DEF SaveTrade

\* A document with a trade more is a document.
LEMMA WithTradeDoc ==
  ASSUME NEW d \in Docs, NEW side
  PROVE  WithTrade(d, side) \in Docs /\ WithTrade(d, side).state = d.state
BY DEF WithTrade, Docs, Qty

\* A document of positions has been read.
LEMMA LoadPositionJob ==
  ASSUME TypeInv, NEW j \in Jobs, LoadPosition(j)
  PROVE  JobInv' /\ OnlyJob(j) /\ SessionStep(j)
<1>1. /\ JobInv /\ job[j].todo # <<>> /\ UNCHANGED <<stored, owner, session>>
      /\ job[j].kind = "signal" /\ job[j].at = "load" /\ job[j].client = NoClient
      /\ book[Follower(j)] \in Docs
  BY WaitsForFollower DEF LoadPosition, clientVars, JobOK, SignalAts, TypeInv, TypeOK
<1>2. CASE NextFollower(j)
  BY <1>1, <1>2, GivesUpSession
<1>3. CASE job' = [job EXCEPT ![j].at = "save", ![j].doc = WithTrade(book[Follower(j)], job[j].side)]
  <2>1. PICK d \in Docs : d = WithTrade(book[Follower(j)], job[j].side)
    BY <1>1, WithTradeDoc
  <2>2. Put(j, "save", job[j].client, job[j].left, d)
    BY <1>1, <1>3, <2>1 DEF JobInv, JobType, Put
  <2>3. Fits(j, "save", job[j].client, job[j].left, d)
    BY <1>1, FitsAsBefore DEF Fits, Ats, SignalAts, CheckAts
  <2>4. "save" \notin ConnectAts /\ job[j].at \notin ConnectAts
    BY <1>1 DEF ConnectAts
  <2>. QED BY <1>1, <2>2, <2>3, <2>4, PutSession
<1>. QED BY <1>2, <1>3 DEF LoadPosition, Processed

\* A document of positions has been written, for a signal or a check.
LEMMA SavedJob ==
  ASSUME TypeInv, NEW j \in Jobs, SavePosition(j) \/ MarkCompensated(j)
  PROVE  JobInv' /\ OnlyJob(j) /\ SessionStep(j)
<1>1. /\ JobInv /\ job[j].todo # <<>> /\ UNCHANGED <<stored, owner, session>>
      /\ NextFollower(j)
  BY WaitsForFollower DEF SavePosition, MarkCompensated, clientVars, Processed
<1>. QED BY <1>1, GivesUpSession

\* An order of a close is done.
LEMMA OrderDoneJob ==
  ASSUME TypeInv, NEW j \in Jobs, OrderDone(j)
  PROVE  JobInv' /\ OnlyJob(j) /\ SessionStep(j)
<1>1. /\ JobInv /\ job[j].todo # <<>> /\ UNCHANGED <<stored, owner, session>>
      /\ job[j].left \in [Keys -> Int] /\ job[j].client \in Clients /\ job[j].client # NoClient
      /\ job[j].kind = "close" /\ job[j].at = "order"
  BY WaitsForFollower DEF OrderDone, clientVars, JobOK, JobType
<1>2. PICK c \in Clients : c = job[j].client
  BY <1>1
<1>3. PICK b \in BOOLEAN : b = (session = job[j].client)
  OBVIOUS
<1>4. CloseNext(j, c, b, job[j].left)
  BY <1>2, <1>3 DEF OrderDone
<1>5. JobInv' /\ Uses(j, c)
  BY <1>1, <1>4, CloseNextJob
<1>. QED
  BY <1>1, <1>2, <1>5
  DEF Uses, GivesUp, GoesOn, SessionStep, LetsGo, KeepsOn, ConnectAts, UsingAts

\* A check has looked for the document.
LEMMA FindPositionJob ==
  ASSUME TypeInv, NEW j \in Jobs, FindPosition(j)
  PROVE  JobInv' /\ OnlyJob(j) /\ SessionStep(j)
<1>1. /\ JobInv /\ job[j].todo # <<>> /\ UNCHANGED <<stored, owner, session>>
      /\ job[j].kind = "check" /\ job[j].at = "find" /\ job[j].client # NoClient
  BY WaitsForFollower DEF FindPosition, clientVars, JobOK, CheckAts
<1>2. CASE NextFollower(j)
  BY <1>1, <1>2, GivesUpSession
<1>3. CASE job[j].doc.state = "ASSIGNED" /\ job' = [job EXCEPT ![j].at = "flag"]
  <2>1. Put(j, "flag", job[j].client, job[j].left, job[j].doc)
    BY <1>1, <1>3 DEF JobInv, JobType, Put
  <2>2. Fits(j, "flag", job[j].client, job[j].left, job[j].doc)
    BY <1>1, <1>3, FitsAsBefore DEF Fits, Ats, SignalAts, CheckAts
  <2>3. "flag" \notin ConnectAts /\ job[j].at \notin ConnectAts
    BY <1>1 DEF ConnectAts
  <2>. QED BY <1>1, <2>1, <2>2, <2>3, PutSession
<1>. QED BY <1>2, <1>3 DEF FindPosition

\* An exercise is of options bought, and of some.
LEMMA ChooseExerciseJob ==
  ASSUME TypeInv, NEW j \in Jobs, NEW positions \in [Keys -> Int],
         job[j].at \in {"flag", "refresh"}, ChooseExercise(j, positions),
         UNCHANGED <<stored, owner>>, session' \in {session, job[j].client}
  PROVE  JobInv' /\ OnlyJob(j) /\ SessionStep(j)
<1>1. /\ JobInv /\ job[j].todo # <<>> /\ job[j].client # NoClient
      /\ job[j].kind = "check" /\ job[j].doc.state = "ASSIGNED"
  BY WaitsForFollower DEF JobOK, CheckAts
<1>2. CASE NextFollower(j)
  <2>1. JobInv' /\ GivesUp(j)
    BY <1>1, <1>2, GivesUpJob
  <2>. QED BY <1>1, <2>1 DEF GivesUp, SessionStep, LetsGo, ConnectAts
<1>3. ASSUME NEW k \in Keys, positions[k] > 0,
             job' = [job EXCEPT ![j].at = "exercise",
                                ![j].left[k] = ExerciseQty(Missing(job[j].doc), positions[k])]
      PROVE  JobInv' /\ OnlyJob(j) /\ SessionStep(j)
  <2>1. PICK q \in Nat : q = ExerciseQty(Missing(job[j].doc), positions[k])
    <3>1. job[j].doc.short < job[j].doc.long /\ job[j].doc.short \in Nat /\ job[j].doc.long \in Nat
      BY <1>1, FitsAsBefore DEF Docs
    <3>2. ExerciseQty(Missing(job[j].doc), positions[k]) \in Nat
      BY <1>3, <3>1 DEF ExerciseQty, Missing
    <3>. QED BY <3>2
  <2>2. PICK l \in [Keys -> Nat] : l = [job[j].left EXCEPT ![k] = q]
    <3>1. [job[j].left EXCEPT ![k] = q] \in [Keys -> Nat]
      BY <1>1, FitsAsBefore
    <3>. QED BY <3>1
  <2>3. Put(j, "exercise", job[j].client, l, job[j].doc)
    BY <1>1, <1>3, <2>1, <2>2 DEF JobInv, JobType, Put
  <2>4. Fits(j, "exercise", job[j].client, l, job[j].doc)
    <3>1. l \in [Keys -> Int]
      OBVIOUS
    <3>. QED BY <1>1, <3>1, FitsAsBefore DEF Fits, Ats, SignalAts, CheckAts
  <2>5. "exercise" \notin ConnectAts /\ job[j].at \notin ConnectAts
    BY DEF ConnectAts
  <2>. QED BY <1>1, <2>3, <2>4, <2>5, PutSession
<1>. QED BY <1>2, <1>3 DEF ChooseExercise

\* An assignment has been saved.
LEMMA FlagAssignedJob ==
  ASSUME TypeInv, NEW j \in Jobs, FlagAssigned(j)
  PROVE  JobInv' /\ OnlyJob(j) /\ SessionStep(j)
<1>1. /\ JobInv /\ job[j].todo # <<>> /\ UNCHANGED <<stored, owner, session>>
      /\ job[j].kind = "check" /\ job[j].at = "flag" /\ job[j].client # NoClient
      /\ job[j].doc.state = "ASSIGNED" /\ held \in [Keys -> Int]
  BY WaitsForFollower DEF FlagAssigned, JobOK, CheckAts, TypeInv, TypeOK
<1>2. CASE NextFollower(j)
  BY <1>1, <1>2, GivesUpSession
<1>3. CASE ChooseExercise(j, held)
  BY <1>1, <1>3, ChooseExerciseJob
<1>4. CASE job' = [job EXCEPT ![j].at = "refresh"]
  <2>1. Put(j, "refresh", job[j].client, job[j].left, job[j].doc)
    BY <1>1, <1>4 DEF JobInv, JobType, Put
  <2>2. Fits(j, "refresh", job[j].client, job[j].left, job[j].doc)
    BY <1>1, FitsAsBefore DEF Fits, Ats, SignalAts, CheckAts
  <2>3. "refresh" \notin ConnectAts /\ job[j].at \notin ConnectAts
    BY <1>1 DEF ConnectAts
  <2>. QED BY <1>1, <2>1, <2>2, <2>3, PutSession
<1>. QED BY <1>2, <1>3, <1>4 DEF FlagAssigned

\* The client has connected again before an exercise, or could not.
LEMMA RefreshedJob ==
  ASSUME TypeInv, NEW j \in Jobs, Refreshed(j)
  PROVE  JobInv' /\ OnlyJob(j) /\ SessionStep(j)
<1>1. /\ UNCHANGED <<stored, owner>> /\ session' \in {session, job[j].client}
      /\ job[j].at \in {"flag", "refresh"} /\ job[j].client \in Clients
      /\ held \in [Keys -> Int] /\ cache[job[j].client] \in [Keys -> Int]
  <2>1. job[j].client \in Clients
    BY WaitsForFollower DEF Refreshed, JobOK, JobType, CheckAts
  <2>. QED BY <2>1 DEF Refreshed, TypeInv, TypeOK
<1>2. PICK positions \in [Keys -> Int] : ChooseExercise(j, positions)
  BY <1>1 DEF Refreshed
<1>. QED BY <1>1, <1>2, ChooseExerciseJob

\* A position has been priced.
LEMMA CheckTimeValueJob ==
  ASSUME TypeInv, NEW j \in Jobs, CheckTimeValue(j)
  PROVE  JobInv' /\ OnlyJob(j) /\ SessionStep(j)
<1>1. /\ JobInv /\ job[j].todo # <<>> /\ UNCHANGED <<stored, owner, session>>
      /\ job[j].kind = "watch" /\ job[j].at = "price" /\ job[j].left \in [Keys -> Int]
  BY WaitsForFollower, FitsAsBefore DEF CheckTimeValue, clientVars, JobOK
<1>2. CASE NextFollower(j)
  BY <1>1, <1>2, GivesUpSession
<1>3. ASSUME NEW k \in Keys, job' = [job EXCEPT ![j].left = [job[j].left EXCEPT ![k] = 0]]
      PROVE  JobInv' /\ OnlyJob(j) /\ SessionStep(j)
  <2>1. PICK l \in [Keys -> Int] : l = [job[j].left EXCEPT ![k] = 0]
    <3>1. [job[j].left EXCEPT ![k] = 0] \in [Keys -> Int]
      BY <1>1
    <3>. QED BY <3>1
  <2>2. Put(j, "price", job[j].client, l, job[j].doc)
    BY <1>1, <1>3, <2>1 DEF JobInv, JobType, Put
  <2>3. Fits(j, "price", job[j].client, l, job[j].doc)
    BY <1>1, FitsAsBefore DEF Fits, Ats, SignalAts, CheckAts
  <2>4. "price" \notin ConnectAts /\ job[j].at \notin ConnectAts
    BY <1>1 DEF ConnectAts
  <2>. QED BY <1>1, <2>2, <2>3, <2>4, PutSession
<1>. QED BY <1>2, <1>3 DEF CheckTimeValue

\* Every step of a job.
LEMMA JobStepJob ==
  ASSUME TypeInv, NEW j \in Jobs, JobStep(j)
  PROVE  JobInv' /\ OnlyJob(j) /\ SessionStep(j)
BY TakeFollowerJob, ConnectEndsJob, PlacedJob, SaveTradeJob, LoadPositionJob, SavedJob,
  OrderDoneJob, FindPositionJob, FlagAssignedJob, RefreshedJob, ExerciseJob, CheckTimeValueJob
DEF JobStep

-----------------------------------------------------------------------------
(* Types *)

\* The types of everything but the jobs.
DataOK ==
    /\ mode \in Modes /\ level \in Levels
    /\ faults \in 0..MaxFaults /\ requests \in 0..MaxRequests
    /\ status \in {"STARTING", "MONITORING", "ERROR"} /\ active \in Seq(Followers)
    /\ stored \in [Followers -> Clients \union {NoClient}]
    /\ owner \in [Clients -> Followers \union {None}]
    /\ session \in Clients \union {NoClient}
    /\ held \in [Keys -> Int] /\ working \in [Keys -> Int] /\ exercising \in [Keys -> Nat]
    /\ cache \in [Clients -> [Keys -> Int]]
    /\ book \in [Followers -> Docs]
    /\ trades \in Counts /\ executed \in Counts /\ succeeded \in Counts
    /\ tv \in [Followers -> Statuses \union {None}]
    /\ worst \in [Followers -> Statuses \union {None}]
    /\ flat \subseteq [Keys -> Int] /\ exercised \subseteq Followers

\* The types are those of the data and of the jobs,
LEMMA TypeInvSplit == TypeInv <=> DataOK /\ JobInv
<1>1. JobInv => \A j \in Jobs : job[j].at \in Ats /\ job[j].client \in Clients \union {NoClient}
  BY DEF JobInv, JobType
<1>. QED BY <1>1 DEF TypeInv, TypeOK, DataOK

\* after a step as well.
LEMMA TypeInvSplitNext == DataOK' /\ JobInv' => TypeInv'
BY TypeInvSplit, PTL

\* The steps of a job leave the client variables well-typed.
LEMMA SessionTypes ==
  ASSUME TypeInv, NEW j \in Jobs, job[j].at # "idle", SessionStep(j), JobInv'
  PROVE  /\ stored' \in [Followers -> Clients \union {NoClient}]
         /\ session' \in Clients \union {NoClient}
         /\ Follower(j) \in Followers => owner' \in [Clients -> Followers \union {None}]
<1>1. DataOK /\ job[j].client \in Clients \union {NoClient}
  BY TypeInvSplit, FitsAsBefore
<1>2. CASE LetsGo(j) \/ KeepsOn(j) \/ UsesStored(j) \/ Reconnects(j)
  BY <1>1, <1>2 DEF LetsGo, KeepsOn, UsesStored, Reconnects, DataOK
<1>3. CASE HasConnected(j)
  BY <1>1, <1>3 DEF HasConnected, DataOK
<1>4. CASE HasNew(j)
  <2>1. stored' \in [Followers -> Clients \union {NoClient}] /\ session' = session
    BY <1>1, <1>4 DEF HasNew, Deletes, DataOK
  <2>2. PICK c \in Clients : owner' = [owner EXCEPT ![c] = Follower(j)]
    BY <1>4 DEF HasNew, Unreferenced
  <2>. QED BY <1>1, <2>1, <2>2 DEF DataOK
<1>5. CASE HasNone(j)
  BY <1>1, <1>5 DEF HasNone, Deletes, DataOK
<1>. QED BY <1>2, <1>3, <1>4, <1>5 DEF SessionStep

\* So do what a job does with its client to the other variables.
LEMMA UseTypes ==
  ASSUME TypeInv, NEW j \in Jobs, NEW c \in Clients, job[j].todo # <<>>, Use(j, c)
  PROVE  /\ working' \in [Keys -> Int] /\ exercising' \in [Keys -> Nat]
         /\ flat' \subseteq [Keys -> Int] /\ exercised' \subseteq Followers
         /\ worst' \in [Followers -> Statuses \union {None}]
         /\ faults' \in 0..MaxFaults
<1>1. /\ DataOK /\ JobInv /\ Follower(j) \in Followers
      /\ job[j].left \in [Keys -> Int] /\ (job[j].kind = "check" => job[j].left \in [Keys -> Nat])
  BY TypeInvSplit, JobHasFollower, FitsAsBefore
<1>2. CASE job[j].kind = "signal" /\ UseForSignal(j, c)
  BY <1>1, <1>2 DEF UseForSignal, NoneFails, DataOK
<1>3. CASE job[j].kind = "close" /\ UseForClose(j, c)
  BY <1>1, <1>3 DEF UseForClose, CloseNext, PlaceMarketOrder, NoneFails, Fails, DataOK
<1>4. CASE job[j].kind = "check" /\ UseForCheck(j, c)
  BY <1>1, <1>4 DEF UseForCheck, NoneFails, DataOK
<1>5. CASE Exercises(j) /\ UseForExercise(j, c)
  <2>1. [k \in Keys |-> exercising[k] + job[j].left[k]] \in [Keys -> Nat]
    BY <1>1, <1>5 DEF Exercises, DataOK
  <2>. QED BY <1>1, <1>5, <2>1 DEF UseForExercise, NoneFails, Fails, DataOK
<1>6. CASE job[j].kind = "watch" /\ UseForWatch(j, c)
  BY <1>1, <1>6 DEF UseForWatch, NoneFails, Fails, DataOK
<1>. QED BY <1>2, <1>3, <1>4, <1>5, <1>6 DEF Use

\* get_client() too.
LEMMA GetClientTypes ==
  ASSUME TypeInv, NEW j \in Jobs, job[j].todo # <<>>, GetClient(j)
  PROVE  /\ working' \in [Keys -> Int] /\ exercising' \in [Keys -> Nat]
         /\ flat' \subseteq [Keys -> Int] /\ exercised' \subseteq Followers
         /\ worst' \in [Followers -> Statuses \union {None}]
         /\ faults' \in 0..MaxFaults /\ cache' \in [Clients -> [Keys -> Int]]
<1>. DataOK
  BY TypeInvSplit
<1>1. ASSUME NEW c \in Clients, Use(j, c),
             IF ReadsPositions(j) THEN UpdatePositions(c) ELSE UNCHANGED cache
      PROVE  cache' \in [Clients -> [Keys -> Int]]
  BY <1>1 DEF UpdatePositions, DataOK
<1>2. stored[Follower(j)] # NoClient => stored[Follower(j)] \in Clients
  BY TypeInvSplit, JobHasFollower DEF DataOK
<1>3. CASE /\ stored[Follower(j)] # NoClient /\ Use(j, stored[Follower(j)])
           /\ IF ReadsPositions(j) THEN UpdatePositions(stored[Follower(j)]) ELSE UNCHANGED cache
  BY <1>1, <1>2, <1>3, UseTypes
<1>4. CASE /\ UNCHANGED <<cache, working, exercising, flat, exercised, worst>>
           /\ NoneFails \/ Fails
  BY <1>4 DEF NoneFails, Fails, DataOK
<1>. QED BY <1>3, <1>4 DEF GetClient

\* Each step of a job keeps the types.
LEMMA TakeFollowerTypes ==
  ASSUME TypeInv, NEW j \in Jobs, TakeFollower(j) PROVE DataOK'
<1>1. DataOK /\ UNCHANGED <<mode, level, requests, status, active, stored, session, held, book,
                           trades, tv, executed, succeeded>>
  BY TypeInvSplit DEF TakeFollower, serviceVars, bookVars
<1>2. CASE UNCHANGED <<faults, owner, cache, working, exercising, flat, exercised, worst>>
  BY <1>1, <1>2 DEF DataOK
<1>3. CASE job[j].todo # <<>> /\ GetClient(j)
  <2>1. owner' \in [Clients -> Followers \union {None}]
    BY <1>3, TakeFollowerJob, SessionTypes, JobHasFollower, TypeInvSplit DEF TakeFollower
  <2>. QED BY <1>1, <1>3, <2>1, GetClientTypes DEF DataOK
<1>. QED BY <1>2, <1>3 DEF TakeFollower

\* exercise_options() keeps the types.
LEMMA ExerciseTypes ==
  ASSUME TypeInv, NEW j \in Jobs, Exercise(j) PROVE DataOK'
<1>1. DataOK /\ UNCHANGED <<mode, level, requests, status, active, stored, session, held, book,
                           trades, tv, executed, succeeded>>
  BY TypeInvSplit DEF Exercise, serviceVars, bookVars
<1>2. job[j].todo # <<>> /\ Follower(j) \in Followers /\ job[j].at # "idle"
  BY WaitsForFollower DEF Exercise
<1>3. owner' \in [Clients -> Followers \union {None}]
  BY <1>2, ExerciseJob, SessionTypes
<1>. QED BY <1>1, <1>2, <1>3, GetClientTypes DEF DataOK, Exercise

\* So does a connection that ends,
LEMMA ConnectEndsTypes ==
  ASSUME TypeInv, NEW j \in Jobs, ConnectEnds(j) PROVE DataOK'
<1>1. DataOK /\ UNCHANGED <<mode, level, requests, status, active, held, book,
                           trades, tv, executed, succeeded>>
  BY TypeInvSplit DEF ConnectEnds, serviceVars, bookVars
<1>2. /\ job[j].todo # <<>> /\ Follower(j) \in Followers /\ job[j].at # "idle"
      /\ job[j].client \in Clients
  BY WaitsForFollower DEF ConnectEnds, JobOK, JobType
<1>3. /\ stored' \in [Followers -> Clients \union {NoClient}]
      /\ session' \in Clients \union {NoClient}
      /\ owner' \in [Clients -> Followers \union {None}]
  BY <1>2, ConnectEndsJob, SessionTypes
<1>4. CASE UpdatePositions(job[j].client) /\ Use(j, job[j].client)
  <2>1. cache' \in [Clients -> [Keys -> Int]]
    BY <1>1, <1>4 DEF UpdatePositions, DataOK
  <2>. QED BY <1>1, <1>2, <1>3, <1>4, <2>1, UseTypes DEF DataOK
<1>5. CASE /\ NoneFails \/ RefusesToConnect
           /\ UNCHANGED <<cache, working, exercising, flat, exercised, worst>>
  BY <1>1, <1>3, <1>5 DEF NoneFails, RefusesToConnect, DataOK
<1>. QED BY <1>4, <1>5 DEF ConnectEnds

\* a count,
LEMMA CountTypes ==
  ASSUME NEW of \in Counts, NEW j, Follower(j) \in Followers, job[j].side \in Sides
  PROVE  Count(of, j) \in Counts
BY DEF Count, Counts

\* An execution buys the spread or does not.
LEMMA SpreadBought ==
  ASSUME NEW j, Placed(j)
  PROVE  \E bought \in 0..Qty :
            held' = [held EXCEPT !["bought"] = @ + bought, !["sold"] = @ - bought]
<1>1. PICK r \in SpreadResults :
         held' = [held EXCEPT !["bought"] = @ + r.bought, !["sold"] = @ - r.bought]
  BY DEF Placed
<1>2. r.bought \in 0..Qty
  BY DEF SpreadResults
<1>. QED BY <1>1, <1>2

\* each step of a signal,
LEMMA SignalTypes ==
  ASSUME TypeInv, NEW j \in Jobs,
         Placed(j) \/ SaveTrade(j) \/ LoadPosition(j) \/ SavePosition(j)
  PROVE  DataOK'
<1>1. /\ DataOK /\ Follower(j) \in Followers /\ job[j].side \in Sides /\ job[j].doc \in Docs
  BY TypeInvSplit, WaitsForFollower, FitsAsBefore
  DEF Placed, SaveTrade, LoadPosition, SavePosition, JobOK, SignalAts
<1>2. CASE Placed(j)
  <2>1. held' \in [Keys -> Int]
    <3>1. PICK bought \in 0..Qty :
             held' = [held EXCEPT !["bought"] = @ + bought, !["sold"] = @ - bought]
      BY <1>2, SpreadBought
    <3>. QED BY <1>1, <3>1 DEF DataOK, Keys, Qty
  <2>2. executed' \in Counts
    BY <1>1, <1>2, CountTypes DEF Placed, DataOK
  <2>. QED BY <1>1, <1>2, <2>1, <2>2 DEF Placed, DataOK, serviceVars, clientVars, bookVars
<1>3. CASE SaveTrade(j)
  <2>1. trades' \in Counts
    BY <1>1, <1>3, CountTypes DEF SaveTrade, DataOK
  <2>. QED BY <1>1, <1>3, <2>1 DEF SaveTrade, DataOK, serviceVars, clientVars, twsVars, historyVars, Fails, NoneFails
<1>4. CASE LoadPosition(j)
  <2>1. succeeded' \in Counts
    BY <1>1, <1>4, CountTypes DEF LoadPosition, Processed, DataOK
  <2>. QED BY <1>1, <1>4, <2>1 DEF LoadPosition, DataOK, serviceVars, clientVars, twsVars, bookVars, Fails, NoneFails
<1>5. CASE SavePosition(j)
  <2>1. succeeded' \in Counts
    BY <1>1, <1>5, CountTypes DEF SavePosition, Processed, DataOK
  <2>2. book' \in [Followers -> Docs]
    BY <1>1, <1>5 DEF SavePosition, WriteDoc, DataOK
  <2>. QED BY <1>1, <1>5, <2>1, <2>2 DEF SavePosition, DataOK, serviceVars, clientVars, twsVars, Fails, NoneFails
<1>. QED BY <1>2, <1>3, <1>4, <1>5

\* a document that is written,
LEMMA WriteDocTypes ==
  ASSUME DataOK, NEW j, job[j].doc \in Docs, Follower(j) \in Followers,
         (WriteDoc(j) /\ NoneFails) \/ (Fails /\ UNCHANGED book)
  PROVE  book' \in [Followers -> Docs] /\ faults' \in 0..MaxFaults
<1>1. faults' \in 0..MaxFaults
  BY DEF NoneFails, Fails, DataOK
<1>2. book' \in [Followers -> Docs]
  BY DEF WriteDoc, DataOK
<1>. QED BY <1>1, <1>2

\* each step of a close and of a check,
LEMMA CloseAndCheckTypes ==
  ASSUME TypeInv, NEW j \in Jobs,
         OrderDone(j) \/ FindPosition(j) \/ FlagAssigned(j) \/ Refreshed(j) \/ MarkCompensated(j)
  PROVE  DataOK'
<1>1. /\ DataOK /\ Follower(j) \in Followers /\ JobOK(job[j])
      /\ job[j].doc \in Docs /\ job[j].left \in [Keys -> Int]
      /\ job[j].client \in Clients \union {NoClient}
  BY TypeInvSplit, WaitsForFollower, FitsAsBefore
  DEF OrderDone, FindPosition, FlagAssigned, Refreshed, MarkCompensated
<1>2. CASE OrderDone(j)
  <2>1. CloseNext(j, job[j].client, session = job[j].client, job[j].left)
    BY <1>2 DEF OrderDone
  <2>2. faults' \in 0..MaxFaults /\ flat' \subseteq [Keys -> Int]
    BY <1>1, <2>1 DEF CloseNext, NoneFails, Fails, DataOK
  <2>3. working' \in [Keys -> Int]
    BY <1>1, <2>1 DEF CloseNext, PlaceMarketOrder, DataOK
  <2>. QED BY <1>1, <1>2, <2>2, <2>3 DEF OrderDone, DataOK, serviceVars, clientVars, bookVars
<1>3. CASE FindPosition(j)
  BY <1>1, <1>3 DEF FindPosition, DataOK, serviceVars, clientVars, twsVars, bookVars, historyVars,
    Fails, NoneFails
<1>4. CASE FlagAssigned(j)
  <2>1. book' \in [Followers -> Docs] /\ faults' \in 0..MaxFaults
    BY <1>1, <1>4, WriteDocTypes DEF FlagAssigned, DataOK
  <2>2. cache' \in [Clients -> [Keys -> Int]]
    BY <1>1, <1>4 DEF FlagAssigned, UpdatePositions, DataOK
  <2>. QED BY <1>1, <1>4, <2>1, <2>2 DEF FlagAssigned, DataOK, serviceVars, twsVars, historyVars
<1>5. CASE Refreshed(j)
  <2>1. cache' \in [Clients -> [Keys -> Int]] /\ session' \in Clients \union {NoClient}
    <3>1. job[j].client \in Clients
      BY <1>1, <1>5 DEF Refreshed, JobOK, CheckAts
    <3>2. session' \in {session, job[j].client}
      BY <1>5 DEF Refreshed
    <3>3. CASE UpdatePositions(job[j].client)
      BY <1>1, <3>1, <3>2, <3>3 DEF UpdatePositions, DataOK
    <3>4. CASE UNCHANGED cache
      BY <1>1, <3>1, <3>2, <3>4 DEF DataOK
    <3>. QED BY <1>5, <3>3, <3>4 DEF Refreshed
  <2>2. faults' \in 0..MaxFaults
    BY <1>1, <1>5 DEF Refreshed, RefusesToConnect, NoneFails, DataOK
  <2>. QED BY <1>1, <1>5, <2>1, <2>2 DEF Refreshed, DataOK, serviceVars, twsVars, bookVars, historyVars
<1>6. CASE MarkCompensated(j)
  <2>1. book' \in [Followers -> Docs] /\ faults' \in 0..MaxFaults
    BY <1>1, <1>6, WriteDocTypes DEF MarkCompensated, DataOK
  <2>. QED BY <1>1, <1>6, <2>1 DEF MarkCompensated, DataOK, serviceVars, clientVars, twsVars, historyVars
<1>. QED BY <1>2, <1>3, <1>4, <1>5, <1>6

\* A check of the time value finds a status, or no price.
LEMMA FindingsAreStatuses == \A found \in Findings : found \in Statuses \union {None}
BY DEF Findings, Finding, StatusOf, Statuses

\* each step of a round,
LEMMA CheckTimeValueTypes ==
  ASSUME TypeInv, NEW j \in Jobs, CheckTimeValue(j) PROVE DataOK'
<1>1. DataOK /\ Follower(j) \in Followers
  BY TypeInvSplit, WaitsForFollower DEF CheckTimeValue
<1>2. /\ tv' \in [Followers -> Statuses \union {None}]
      /\ worst' \in [Followers -> Statuses \union {None}]
      /\ faults' \in 0..MaxFaults
  <2>1. PICK found \in Statuses \union {None} :
          IF found = None
          THEN UNCHANGED <<tv, worst>> /\ NoneFails
          ELSE /\ worst' = [worst EXCEPT ![Follower(j)] = Worse(@, found)]
               /\ \/ tv' = [tv EXCEPT ![Follower(j)] = found] /\ NoneFails
                  \/ UNCHANGED tv /\ Fails
    BY FindingsAreStatuses DEF CheckTimeValue
  <2>2. \A before \in Statuses \union {None} : Worse(before, found) \in Statuses \union {None}
    BY DEF Worse
  <2>3. worst' \in [Followers -> Statuses \union {None}]
    <3>1. worst \in [Followers -> Statuses \union {None}]
      BY <1>1 DEF DataOK
    <3>2. PICK next \in Statuses \union {None} : next = Worse(worst[Follower(j)], found)
      BY <1>1, <2>2, <3>1
    <3>3. worst' = [worst EXCEPT ![Follower(j)] = next] \/ UNCHANGED worst
      BY <2>1, <3>2
    <3>. QED BY <1>1, <3>1, <3>3
  <2>4. tv' \in [Followers -> Statuses \union {None}]
    BY <1>1, <2>1 DEF DataOK
  <2>5. faults' \in 0..MaxFaults
    BY <1>1, <2>1 DEF NoneFails, Fails, DataOK
  <2>. QED BY <2>3, <2>4, <2>5
<1>. QED BY <1>1, <1>2 DEF CheckTimeValue, DataOK, serviceVars, clientVars, twsVars

\* hence every step of a job.
LEMMA JobStepTypes ==
  ASSUME TypeInv, NEW j \in Jobs, JobStep(j) PROVE TypeInv'
<1>1. DataOK'
  BY TakeFollowerTypes, ConnectEndsTypes, SignalTypes, CloseAndCheckTypes, ExerciseTypes,
    CheckTimeValueTypes DEF JobStep
<1>2. JobInv'
  BY JobStepJob
<1>. QED BY <1>1, <1>2, TypeInvSplitNext

\* What TWS does is no business of the jobs.
LEMMA TwsTypes ==
  ASSUME TypeInv, Tws
  PROVE  TypeInv' /\ UNCHANGED <<mode, job, owner, stored, book, trades, tv, executed, succeeded,
                                 flat, exercised, worst>>
<1>1. DataOK /\ JobInv /\ UNCHANGED <<requests, status, book, trades, tv, executed, succeeded,
                                      flat, exercised, worst>>
  BY TypeInvSplit DEF Tws, bookVars, historyVars
<1>2. UNCHANGED <<mode, level, active, stored, owner, cache, job>>
  BY DEF Tws, TwsStep, LoseSession, Fill, CancelOrder, ProcessExercise, Assign, clientVars
<1>3. faults' \in 0..MaxFaults
  BY <1>1 DEF Tws, TwsStep, LoseSession, Fill, CancelOrder, ProcessExercise, Assign, Fails, DataOK
<1>4. session' \in Clients \union {NoClient}
  BY <1>1 DEF Tws, TwsStep, LoseSession, Fill, CancelOrder, ProcessExercise, Assign, clientVars, DataOK
<1>5. held' \in [Keys -> Int] /\ working' \in [Keys -> Int] /\ exercising' \in [Keys -> Nat]
  <2>1. CASE LoseSession
    BY <1>1, <2>1 DEF LoseSession, twsVars, DataOK
  <2>2. ASSUME NEW k \in Keys, Fill(k)
        PROVE  held' \in [Keys -> Int] /\ working' \in [Keys -> Int] /\ exercising' \in [Keys -> Nat]
    BY <1>1, <2>2 DEF Fill, DataOK
  <2>3. ASSUME NEW k \in Keys, CancelOrder(k)
        PROVE  held' \in [Keys -> Int] /\ working' \in [Keys -> Int] /\ exercising' \in [Keys -> Nat]
    BY <1>1, <2>3 DEF CancelOrder, DataOK
  <2>4. ASSUME NEW k \in Keys, ProcessExercise(k)
        PROVE  held' \in [Keys -> Int] /\ working' \in [Keys -> Int] /\ exercising' \in [Keys -> Nat]
    <3>1. (IF held[k] > exercising[k] THEN held[k] - exercising[k]
           ELSE IF held[k] > 0 THEN 0 ELSE held[k]) \in Int
      BY <1>1 DEF DataOK
    <3>. QED BY <1>1, <2>4, <3>1 DEF ProcessExercise, DataOK
  <2>5. ASSUME NEW k \in Keys, Assign(k)
        PROVE  held' \in [Keys -> Int] /\ working' \in [Keys -> Int] /\ exercising' \in [Keys -> Nat]
    BY <1>1, <2>5 DEF Assign, DataOK
  <2>. QED BY <2>1, <2>2, <2>3, <2>4, <2>5 DEF Tws, TwsStep
<1>6. DataOK'
  BY <1>1, <1>2, <1>3, <1>4, <1>5 DEF DataOK
<1>7. JobInv'
  BY <1>1, <1>2 DEF JobInv
<1>. QED BY <1>1, <1>2, <1>6, <1>7, TypeInvSplitNext

\* A job that begins is the only new one, and has no client yet.
Begins(j) ==
    /\ OnlyJob(j) /\ job[j].at = "idle"
    /\ job'[j].at = "next" /\ job'[j].client = NoClient
    /\ job'[j].doc = NoDoc /\ job'[j].left = Zero
    /\ job'[j].kind # "watch" \/ \A i \in Jobs : job[i].kind # "watch"
    /\ mode # "overlap" => Resting
    /\ UNCHANGED <<mode, level, faults, serviceVars, clientVars, twsVars, bookVars, historyVars>>

\* A job that begins is good.
LEMMA BeginTypes ==
  ASSUME TypeInv, NEW j \in Jobs, BeginJob(j) PROVE TypeInv' /\ Begins(j)
<1>1. DataOK /\ JobInv
  BY TypeInvSplit
<1>2. PICK kind \in {"signal", "close", "check", "watch"}, side \in Sides \union {None},
           followers \in Seq(Followers), size \in Nat :
        /\ Begin(j, kind, side, followers, size)
        /\ kind = "signal" => side \in Sides
        /\ kind # "watch" \/ \A i \in Jobs : job[i].kind # "watch"
  <2>1. \A f \in Followers : <<f>> \in Seq(Followers)
    OBVIOUS
  <2>2. active \in Seq(Followers) /\ Len(active) \in Nat
    BY <1>1 DEF DataOK
  <2>3. CASE \E side \in Sides : ProcessSignal(j, side)
    BY <2>1, <2>2, <2>3 DEF ProcessSignal
  <2>4. CASE \E f \in Followers : Begin(j, "close", None, <<f>>, 0)
    BY <2>1, <2>4
  <2>5. CASE \E f \in Followers : Begin(j, "check", None, <<f>>, 0)
    BY <2>1, <2>5
  <2>6. CASE CheckAllTimeValues(j)
    BY <2>2, <2>6 DEF CheckAllTimeValues
  <2>. QED BY <2>3, <2>4, <2>5, <2>6 DEF BeginJob, ClosePositions, CheckPositions
<1>. DEFINE r == [Idle EXCEPT !.kind = kind, !.side = side, !.at = "next",
                              !.todo = followers, !.size = size]
<1>3. /\ r.kind = kind /\ r.side = side /\ r.at = "next" /\ r.client = NoClient
      /\ r.left = Zero /\ r.doc = NoDoc
  BY DEF Idle
<1>4. JobOK(r)
  <2>1. Zero \in [Keys -> Nat] /\ NoDoc.state = "ABSENT"
    BY DEF Zero, NoDoc
  <2>2. r \in JobType
    <3>1. Idle \in JobType
      BY IdleOK DEF JobOK
    <3>. QED BY <3>1 DEF JobType, Ats
  <2>. QED BY <1>2, <1>3, <2>1, <2>2 DEF JobOK, SignalAts, CheckAts
<1>5. job' = [job EXCEPT ![j] = r]
  BY <1>2 DEF Begin
<1>. HIDE DEF r
<1>6. JobInv' /\ job'[j] = r /\ OnlyJob(j)
  BY <1>1, <1>4, <1>5, SetJob
<1>7. DataOK'
  <2>1. requests' \in 0..MaxRequests
    BY <1>1, <1>2 DEF Begin, DataOK
  <2>. QED BY <1>1, <1>2, <2>1
    DEF Begin, DataOK, serviceVars, clientVars, twsVars, bookVars, historyVars
<1>8. Begins(j)
  BY <1>2, <1>3, <1>6 DEF Begins, Begin
<1>. QED BY <1>6, <1>7, <1>8, TypeInvSplitNext

\* The steps that are no job's.
LEMMA ServiceTypes ==
  ASSUME TypeInv, (\E f \in Followers : LoadFollower(f) \/ Expire(f)) \/ FinishLoading
  PROVE  TypeInv' /\ UNCHANGED <<mode, job, clientVars, twsVars, book, trades, historyVars>>
<1>1. DataOK /\ JobInv
  BY TypeInvSplit
<1>2. UNCHANGED <<mode, job, clientVars, twsVars, book, trades, historyVars>>
  BY DEF LoadFollower, Expire, FinishLoading, bookVars
<1>3. DataOK'
  <2>1. ASSUME NEW f \in Followers, LoadFollower(f) PROVE DataOK'
    BY <1>1, <2>1 DEF LoadFollower, DataOK, clientVars, twsVars, bookVars, historyVars
  <2>2. ASSUME NEW f \in Followers, Expire(f) PROVE DataOK'
    BY <1>1, <2>2 DEF Expire, DataOK, serviceVars, clientVars, twsVars, bookVars, historyVars
  <2>3. CASE FinishLoading
    BY <1>1, <2>3 DEF FinishLoading, Fails, NoneFails, DataOK, clientVars, twsVars, bookVars, historyVars
  <2>. QED BY <2>1, <2>2, <2>3
<1>4. JobInv'
  BY <1>1, <1>2 DEF JobInv
<1>. QED BY <1>2, <1>3, <1>4, TypeInvSplitNext

\* After a restart every job is idle.
LEMMA RestartTypes ==
  ASSUME TypeInv, Restart
  PROVE  /\ TypeInv' /\ \A j \in Jobs : job'[j] = Idle
         /\ mode = "failing"
<1>1. DataOK /\ JobInv
  BY TypeInvSplit
<1>2. job' = [j \in Jobs |-> Idle] /\ mode = "failing"
  BY DEF Restart, Fails
<1>3. JobInv'
  BY <1>2, IdleOK DEF JobInv, JobOK
<1>4. DataOK'
  <2>1. Zero \in [Keys -> Int]
    BY DEF Zero
  <2>. QED BY <1>1, <2>1 DEF Restart, Fails, DataOK, twsVars, bookVars, historyVars
<1>. QED BY <1>2, <1>3, <1>4, TypeInvSplitNext

\* Nothing changes no type.
LEMMA StutterTypes ==
  ASSUME TypeInv, UNCHANGED vars PROVE TypeInv'
<1>1. DataOK /\ JobInv
  BY TypeInvSplit
<1>2. DataOK' /\ JobInv'
  BY <1>1 DEF vars, serviceVars, clientVars, twsVars, bookVars, historyVars, DataOK, JobInv
<1>. QED BY <1>2, TypeInvSplitNext

\* The types at the start.
LEMMA InitTypes == Init => TypeInv
<1>. SUFFICES ASSUME Init PROVE TypeInv
  OBVIOUS
<1>1. Zero \in [Keys -> Int] /\ Zero \in [Keys -> Nat] /\ Nothing \in Counts
  BY DEF Zero, Nothing, Counts
<1>2. held \in [Keys -> Int] /\ book \in [Followers -> Docs]
  BY DEF Init, Keys, NoDoc, Docs
<1>3. DataOK
  BY <1>1, <1>2 DEF Init, DataOK
<1>4. JobInv
  BY IdleOK DEF Init, JobInv, JobOK
<1>. QED BY <1>3, <1>4, TypeInvSplit

-----------------------------------------------------------------------------
(* Sessions: whose clients there are, and which one TWS has accepted *)

\* A step of a job is of one that works, and changes no mode.
LEMMA JobStepWorks ==
  ASSUME NEW j \in Jobs, JobStep(j)
  PROVE  job[j].at # "idle" /\ UNCHANGED mode
BY DEF JobStep, TakeFollower, ConnectEnds, Placed, SaveTrade, LoadPosition, SavePosition,
  OrderDone, FindPosition, FlagAssigned, Refreshed, Exercise, MarkCompensated, CheckTimeValue

\* The followers of the other jobs stay.
LEMMA OtherFollowers ==
  ASSUME NEW j \in Jobs, OnlyJob(j)
  PROVE  /\ \A i \in Jobs \ {j} : job'[i] = job[i] /\ Follower(i)' = Follower(i)
         /\ job'[j].todo = job[j].todo => Follower(j)' = Follower(j)
BY DEF OnlyJob, Follower

\* A step of a job keeps each client with the follower it was made for.
LEMMA JobStepOwnClient ==
  ASSUME TypeInv, OwnClient, NEW j \in Jobs, JobStep(j)
  PROVE  OwnClient'
<1>1. /\ OnlyJob(j) /\ SessionStep(j) /\ job[j].at # "idle"
      /\ \A i \in Jobs \ {j} : job'[i] = job[i] /\ Follower(i)' = Follower(i)
      /\ job'[j].todo = job[j].todo => Follower(j)' = Follower(j)
  BY JobStepJob, JobStepWorks, OtherFollowers
<1>2. CASE LetsGo(j)
  BY <1>1, <1>2 DEF LetsGo, OwnClient
<1>3. CASE KeepsOn(j)
  BY <1>1, <1>3 DEF KeepsOn, OwnClient
<1>4. CASE UsesStored(j)
  BY <1>1, <1>4 DEF UsesStored, OwnClient
<1>5. CASE Reconnects(j)
  BY <1>1, <1>5 DEF Reconnects, OwnClient
<1>6. CASE HasConnected(j)
  <2>1. stored \in [Followers -> Clients \union {NoClient}]
    BY DEF TypeInv, TypeOK
  <2>. QED BY <1>1, <1>6, <2>1 DEF HasConnected, OwnClient
<1>7. CASE HasNew(j)
  <2>1. /\ stored \in [Followers -> Clients \union {NoClient}]
        /\ owner \in [Clients -> Followers \union {None}]
    BY DEF TypeInv, TypeOK
  <2>2. PICK c \in Unreferenced(stored') : /\ owner' = [owner EXCEPT ![c] = Follower(j)]
                                           /\ job'[j].client = c
    BY <1>7 DEF HasNew
  <2>3. /\ c \in Clients /\ \A f \in Followers : stored'[f] # c
        /\ \A i \in Jobs : job[i].client # c
    BY <2>2 DEF Unreferenced
  <2>4. /\ Follower(j)' = Follower(j) /\ Follower(j) \in Followers
        /\ owner'[c] = Follower(j)
        /\ \A x \in Clients \ {c} : owner'[x] = owner[x]
    BY <1>1, <1>7, <2>1, <2>2, <2>3 DEF HasNew
  <2>5. \A f \in Followers : stored'[f] \in {stored[f], NoClient}
    BY <1>7, <2>1 DEF HasNew, Deletes
  <2>6. /\ \A i \in Jobs : job[i].client # NoClient => job[i].client \in Clients \ {c}
        /\ \A f \in Followers : stored'[f] # NoClient => stored'[f] \in Clients \ {c}
    BY <2>1, <2>3, <2>5 DEF TypeInv, TypeOK
  <2>. QED BY <1>1, <2>2, <2>3, <2>4, <2>5, <2>6 DEF OwnClient
<1>8. CASE HasNone(j)
  <2>1. \A f \in Followers : stored'[f] \in {stored[f], NoClient}
    BY <1>8 DEF HasNone, Deletes, TypeInv, TypeOK
  <2>. QED BY <1>1, <1>8, <2>1 DEF HasNone, OwnClient
<1>. QED BY <1>1, <1>2, <1>3, <1>4, <1>5, <1>6, <1>7, <1>8 DEF SessionStep

\* A job that is idle has no client.
LEMMA IdleHasNothing ==
  ASSUME JobInv, NEW j \in Jobs, job[j].at = "idle"
  PROVE  job[j].client = NoClient /\ job[j].kind = None /\ job[j].doc = NoDoc
BY DEF JobInv, JobOK, Idle

\* A step of a job leaves one job at a time, and the session stored.
LEMMA JobStepStored ==
  ASSUME TypeInv, OwnClient, SessionStored, NEW j \in Jobs, JobStep(j)
  PROVE  SessionStored'
<1>1. SUFFICES ASSUME mode # "overlap"
               PROVE  /\ OneAtATime'
                      /\ session' # NoClient => stored'[owner'[session']] = session'
                      /\ \A i \in Jobs : job'[i].client # NoClient =>
                            IF job'[i].at \in ConnectAts THEN session' # job'[i].client
                            ELSE stored'[Follower(i)'] = job'[i].client
                      /\ \A i \in Jobs : job'[i].at = "reconnect" =>
                            stored'[Follower(i)'] = job'[i].client
  BY JobStepWorks DEF SessionStored, ConnectAts
<1>2. /\ JobInv /\ JobInv' /\ OnlyJob(j) /\ SessionStep(j) /\ job[j].at # "idle"
      /\ \A i \in Jobs \ {j} : job'[i] = job[i] /\ Follower(i)' = Follower(i)
      /\ job'[j].todo = job[j].todo => Follower(j)' = Follower(j)
      /\ stored \in [Followers -> Clients \union {NoClient}]
      /\ owner \in [Clients -> Followers \union {None}]
      /\ session \in Clients \union {NoClient}
  BY JobStepJob, JobStepWorks, OtherFollowers DEF TypeInv, TypeOK
<1>3. /\ session # NoClient => stored[owner[session]] = session
      /\ job[j].client # NoClient =>
            /\ owner[job[j].client] = Follower(j)
            /\ IF job[j].at \in ConnectAts THEN session # job[j].client
               ELSE stored[Follower(j)] = job[j].client
      /\ job[j].at = "reconnect" => stored[Follower(j)] = job[j].client
  BY <1>1 DEF SessionStored, OwnClient, ConnectAts
<1>4. \A i \in Jobs \ {j} : job'[i].at = "idle" /\ job'[i].client = NoClient
  BY <1>1, <1>2, IdleHasNothing DEF SessionStored, OneAtATime
<1>5. OneAtATime'
  BY <1>4 DEF OneAtATime
<1>6. SUFFICES /\ session' # NoClient => stored'[owner'[session']] = session'
               /\ job'[j].client # NoClient =>
                     IF job'[j].at \in ConnectAts THEN session' # job'[j].client
                     ELSE stored'[Follower(j)'] = job'[j].client
               /\ job'[j].at = "reconnect" => stored'[Follower(j)'] = job'[j].client
  BY <1>4, <1>5 DEF ConnectAts
<1>7. CASE LetsGo(j)
  BY <1>2, <1>3, <1>7 DEF LetsGo, ConnectAts
<1>8. CASE KeepsOn(j)
  BY <1>2, <1>3, <1>8 DEF KeepsOn, ConnectAts
<1>9. CASE UsesStored(j)
  BY <1>2, <1>3, <1>9 DEF UsesStored, ConnectAts
<1>10. CASE Reconnects(j)
  BY <1>2, <1>3, <1>10 DEF Reconnects, ConnectAts
<1>11. CASE HasConnected(j)
  <2>1. job[j].at = "connect" => Follower(j) \in Followers
    BY WaitsForFollower
  <2>. QED BY <1>2, <1>3, <1>11, <2>1 DEF HasConnected, ConnectAts
<1>12. ASSUME Deletes(j), UNCHANGED session, session # NoClient
       PROVE  stored'[owner[session]] = session
  BY <1>2, <1>3, <1>12 DEF Deletes, ConnectAts
<1>13. CASE HasNew(j)
  <2>1. PICK c \in Unreferenced(stored') : /\ owner' = [owner EXCEPT ![c] = Follower(j)]
                                           /\ job'[j].client = c
    BY <1>13 DEF HasNew
  <2>2. c # session /\ c \in Clients
    BY <2>1 DEF Unreferenced
  <2>3. session # NoClient => owner'[session] = owner[session]
    BY <1>2, <2>1, <2>2
  <2>. QED BY <1>2, <1>3, <1>12, <1>13, <2>1, <2>2, <2>3 DEF HasNew, ConnectAts
<1>14. CASE HasNone(j)
  BY <1>3, <1>12, <1>14 DEF HasNone, ConnectAts
<1>. QED BY <1>2, <1>7, <1>8, <1>9, <1>10, <1>11, <1>13, <1>14 DEF SessionStep

\* The steps that begin a job.
LEMMA BeginSession ==
  ASSUME TypeInv, OwnClient, SessionStored, NEW j \in Jobs, BeginJob(j)
  PROVE  OwnClient' /\ SessionStored'
<1>1. /\ Begins(j) /\ JobInv /\ UNCHANGED <<mode, stored, owner, session>>
      /\ \A i \in Jobs \ {j} : job'[i] = job[i] /\ Follower(i)' = Follower(i)
      /\ job'[j].client = NoClient /\ job'[j].at = "next"
  BY BeginTypes, OtherFollowers DEF Begins, clientVars, TypeInv
<1>2. OwnClient'
  BY <1>1 DEF OwnClient
<1>3. mode # "overlap" => \A i \in Jobs \ {j} : job'[i].at = "idle"
  BY <1>1 DEF Begins, Resting
<1>4. SessionStored'
  BY <1>1, <1>3 DEF SessionStored, OneAtATime
<1>. QED BY <1>2, <1>4

\* The steps of TWS, which may end the session.
LEMMA TwsSession ==
  ASSUME TypeInv, OwnClient, SessionStored, Tws
  PROVE  OwnClient' /\ SessionStored'
<1>1. UNCHANGED <<mode, job, stored, owner>> /\ \A i \in Jobs : Follower(i)' = Follower(i)
  BY TwsTypes DEF Follower
<1>2. session' \in {session, NoClient}
  BY DEF Tws, TwsStep, LoseSession, Fill, CancelOrder, ProcessExercise, Assign, clientVars
<1>3. OwnClient'
  BY <1>1 DEF OwnClient
<1>4. SessionStored'
  <2>1. OneAtATime' <=> OneAtATime
    BY <1>1 DEF OneAtATime
  <2>2. \A i \in Jobs : job[i].client # NoClient => session' # job[i].client \/ session' = session
    BY <1>2
  <2>. QED BY <1>1, <1>2, <2>1, <2>2 DEF SessionStored
<1>. QED BY <1>3, <1>4

\* The service's own steps, and none at all.
LEMMA ServiceSession ==
  ASSUME OwnClient, SessionStored, UNCHANGED <<mode, job, clientVars>>
  PROVE  OwnClient' /\ SessionStored'
<1>1. UNCHANGED <<mode, job, stored, owner, session>> /\ \A i \in Jobs : Follower(i)' = Follower(i)
  BY DEF Follower, clientVars
<1>. QED BY <1>1 DEF OwnClient, SessionStored, OneAtATime

\* A restart forgets every client.
LEMMA RestartSession ==
  ASSUME TypeInv, Restart
  PROVE  OwnClient' /\ SessionStored'
<1>1. /\ \A j \in Jobs : job'[j].client = NoClient /\ job'[j].at = "idle"
      /\ stored' = [f \in Followers |-> NoClient] /\ session' = NoClient
  BY RestartTypes DEF Restart, Idle
<1>. QED BY <1>1 DEF OwnClient, SessionStored, OneAtATime

\* There is no client at the start.
LEMMA InitSession ==
  ASSUME Init
  PROVE  OwnClient /\ SessionStored
BY DEF Init, OwnClient, SessionStored, OneAtATime, Idle

\* While a session is stored or about to be used it is no orphan.
LEMMA StoredIsNoOrphan ==
  ASSUME SessionStored
  PROVE  NoOrphanSession
BY DEF SessionStored, NoOrphanSession

-----------------------------------------------------------------------------
(* What a job is for, and what the time value monitor has found *)

\* A job stays what it is until it is idle.
LEMMA SameJob ==
  ASSUME TypeInv, NEW j \in Jobs, JobStep(j)
  PROVE  job'[j] = Idle \/ (job'[j].kind = job[j].kind /\ job'[j].side = job[j].side)
<1>1. job \in [Jobs -> JobType]
  BY DEF TypeInv, JobInv
<1>2. NextFollower(j) => job'[j].kind = job[j].kind /\ job'[j].side = job[j].side
  BY <1>1 DEF NextFollower, Idle
<1>3. \A c \in Clients : Use(j, c) => job'[j].kind = job[j].kind /\ job'[j].side = job[j].side
  BY <1>1, <1>2 DEF JobType, Use, UseForSignal, UseForClose, CloseNext, PlaceMarketOrder, UseForCheck,
    UseForExercise, UseForWatch
<1>4. \A clients : NewClient(j, clients) => job'[j].kind = job[j].kind /\ job'[j].side = job[j].side
  BY <1>1, <1>2 DEF JobType, NewClient
<1>5. job[j].todo # <<>> /\ GetClient(j) => job'[j].kind = job[j].kind /\ job'[j].side = job[j].side
  <2>1. job[j].todo # <<>> => stored[Follower(j)] \in Clients \union {NoClient}
    BY JobHasFollower DEF TypeInv, TypeOK
  <2>. QED BY <1>1, <1>2, <1>3, <1>4, <2>1 DEF JobType, GetClient, Reconnect
<1>6. CASE TakeFollower(j)
  BY <1>1, <1>5, <1>6 DEF TakeFollower
<1>7. CASE Exercise(j)
  BY <1>5, <1>7, WaitsForFollower DEF Exercise
<1>8. CASE ConnectEnds(j)
  <2>1. job[j].client \in Clients
    BY <1>8, WaitsForFollower DEF ConnectEnds, JobOK, JobType
  <2>. QED BY <1>2, <1>3, <1>4, <1>8, <2>1 DEF ConnectEnds, ReplaceClient
<1>9. CASE Placed(j) \/ SaveTrade(j) \/ LoadPosition(j) \/ SavePosition(j)
  BY <1>1, <1>2, <1>9 DEF JobType, Placed, SaveTrade, LoadPosition, SavePosition, Processed
<1>10. CASE OrderDone(j) \/ FindPosition(j) \/ MarkCompensated(j)
  BY <1>1, <1>2, <1>10 DEF JobType, OrderDone, CloseNext, PlaceMarketOrder, FindPosition, MarkCompensated
<1>11. CASE FlagAssigned(j) \/ Refreshed(j)
  BY <1>1, <1>2, <1>11 DEF JobType, FlagAssigned, Refreshed, ChooseExercise
<1>12. CASE CheckTimeValue(j)
  BY <1>1, <1>2, <1>12 DEF JobType, CheckTimeValue
<1>. QED BY <1>6, <1>7, <1>8, <1>9, <1>10, <1>11, <1>12 DEF JobStep

\* A job's step has nothing to do with prices, starts a follower's round, or prices a position.
Unwatched(j) == UNCHANGED <<worst, tv>> /\ job'[j].at # "price"
StartsRound(j) ==
    /\ job[j].kind = "watch" /\ Follower(j) \in Followers
    /\ worst' = [worst EXCEPT ![Follower(j)] = None] /\ UNCHANGED tv
    /\ job'[j].at = "price" => job'[j].todo = job[j].todo

\* So it is for a job that uses its client.
LEMMA UseWatched ==
  ASSUME TypeInv, NEW j \in Jobs, NEW c \in Clients, job[j].todo # <<>>, Use(j, c), UNCHANGED tv
  PROVE  Unwatched(j) \/ StartsRound(j)
<1>1. /\ Follower(j) \in Followers /\ JobOK(job'[j]) /\ job'[j].kind = job[j].kind
      /\ job'[j].at = "price" => job'[j].todo = job[j].todo
  BY UseJob, JobHasFollower DEF TypeInv, JobInv, Uses, GivesUp, GoesOn
<1>2. CASE job[j].kind = "watch" /\ UseForWatch(j, c)
  <2>1. worst' = [worst EXCEPT ![Follower(j)] = None]
    BY <1>2 DEF UseForWatch
  <2>2. StartsRound(j)
    BY <1>1, <1>2, <2>1 DEF StartsRound
  <2>. QED BY <2>2
<1>3. CASE job[j].kind # "watch" /\ UNCHANGED worst
  <2>1. job'[j].at # "price"
    BY <1>1, <1>3 DEF JobOK
  <2>. QED BY <1>3, <2>1 DEF Unwatched
<1>. QED
  BY <1>2, <1>3 DEF Use, UseForSignal, UseForClose, UseForCheck, UseForExercise, Exercises

\* So it is for every step of a job.
LEMMA JobStepWatched ==
  ASSUME TypeInv, NEW j \in Jobs, JobStep(j)
  PROVE  Unwatched(j) \/ StartsRound(j) \/ CheckTimeValue(j)
<1>1. JobInv' /\ (job'[j] = Idle \/ job'[j].kind = job[j].kind)
  BY SameJob, JobStepJob
<1>2. ASSUME job[j].kind # "watch", UNCHANGED <<worst, tv>> PROVE Unwatched(j)
  BY <1>1, <1>2 DEF Unwatched, JobInv, JobOK, Idle
<1>3. ASSUME job'[j].at # "price", UNCHANGED <<worst, tv>> PROVE Unwatched(j)
  BY <1>3 DEF Unwatched
<1>4. ASSUME job[j].todo # <<>>, GetClient(j), UNCHANGED <<stored, session, tv>>
      PROVE  Unwatched(j) \/ StartsRound(j)
  <2>1. stored[Follower(j)] \in Clients \union {NoClient}
    BY <1>4, JobHasFollower DEF TypeInv, TypeOK
  <2>2. CASE stored[Follower(j)] \in Clients /\ Use(j, stored[Follower(j)])
    BY <1>4, <2>2, UseWatched
  <2>3. CASE stored[Follower(j)] # NoClient /\ Reconnect(j) /\ UNCHANGED worst
    BY <1>3, <1>4, <2>3, ReconnectJob DEF GoesOn
  <2>4. CASE NewClient(j, stored) /\ UNCHANGED worst
    <3>1. job'[j].at # "price"
      BY <1>4, <2>4, NewClientJob DEF TypeInv, TypeOK, GivesUp, GoesOn
    <3>. QED BY <1>3, <1>4, <2>4, <3>1
  <2>5. CASE NextFollower(j) /\ UNCHANGED worst
    BY <1>3, <1>4, <2>5, GivesUpJob DEF TypeInv, GivesUp
  <2>. QED BY <1>4, <2>1, <2>2, <2>3, <2>4, <2>5 DEF GetClient
<1>5. CASE TakeFollower(j)
  <2>1. CASE job' = [job EXCEPT ![j] = Idle] /\ UNCHANGED worst
    BY <1>3, <1>5, <2>1, IdleOK, SetJob DEF TypeInv, TakeFollower, bookVars, Idle
  <2>2. CASE job[j].todo # <<>> /\ GetClient(j)
    BY <1>4, <1>5, <2>2 DEF TakeFollower, bookVars
  <2>. QED BY <1>5, <2>1, <2>2 DEF TakeFollower
<1>6. CASE Exercise(j)
  BY <1>4, <1>6, WaitsForFollower DEF Exercise, bookVars
<1>7. CASE ConnectEnds(j)
  <2>1. job[j].todo # <<>> /\ job[j].client \in Clients /\ UNCHANGED tv
    BY <1>7, WaitsForFollower DEF ConnectEnds, JobOK, JobType, bookVars
  <2>2. CASE Use(j, job[j].client)
    BY <2>1, <2>2, UseWatched
  <2>3. CASE (NextFollower(j) \/ ReplaceClient(j)) /\ UNCHANGED worst
    <3>1. job'[j].at # "price"
      <4>1. CASE NextFollower(j)
        BY <2>1, <4>1, GivesUpJob DEF TypeInv, GivesUp
      <4>2. CASE ReplaceClient(j)
        <5>1. [stored EXCEPT ![Follower(j)] = NoClient] \in [Followers -> Clients \union {NoClient}]
          BY DEF TypeInv, TypeOK
        <5>2. NewClient(j, [stored EXCEPT ![Follower(j)] = NoClient]) => job'[j].at # "price"
          BY <2>1, <5>1, NewClientJob DEF GivesUp, GoesOn
        <5>. QED BY <4>1, <4>2, <5>2 DEF ReplaceClient
      <4>. QED BY <2>3, <4>1, <4>2
    <3>. QED BY <1>3, <2>1, <2>3, <3>1
  <2>. QED BY <1>7, <2>2, <2>3 DEF ConnectEnds
<1>8. CASE Placed(j) \/ SaveTrade(j) \/ LoadPosition(j) \/ SavePosition(j)
  BY <1>2, <1>8, WaitsForFollower DEF Placed, SaveTrade, LoadPosition, SavePosition, bookVars, historyVars,
    JobOK, SignalAts
<1>9. CASE OrderDone(j) \/ FindPosition(j) \/ FlagAssigned(j) \/ Refreshed(j) \/ MarkCompensated(j)
  BY <1>2, <1>9, WaitsForFollower DEF OrderDone, FindPosition, FlagAssigned, Refreshed,
    MarkCompensated, bookVars, historyVars, JobOK, CheckAts
<1>. QED BY <1>5, <1>6, <1>7, <1>8, <1>9 DEF JobStep

\* A status of the last round that is not safe stays visible.
LEMMA JobStepRisk ==
  ASSUME TypeInv, WatchInv, RiskStaysVisible, NEW j \in Jobs, JobStep(j)
  PROVE  WatchInv' /\ RiskStaysVisible'
<1>1. /\ OnlyJob(j) /\ (job'[j] = Idle \/ job'[j].kind = job[j].kind) /\ JobInv /\ UNCHANGED mode
      /\ \A i \in Jobs \ {j} : job'[i] = job[i] /\ Follower(i)' = Follower(i)
      /\ job'[j].todo = job[j].todo => Follower(j)' = Follower(j)
      /\ worst \in [Followers -> Statuses \union {None}] /\ tv \in [Followers -> Statuses \union {None}]
  BY SameJob, JobStepJob, JobStepWorks, OtherFollowers DEF TypeInv, TypeOK
<1>2. \A i1, i2 \in Jobs : job'[i1].kind = "watch" /\ job'[i2].kind = "watch" => i1 = i2
  <2>1. \A i \in Jobs : job'[i].kind = "watch" => job[i].kind = "watch"
    BY <1>1 DEF Idle, None
  <2>. QED BY <2>1 DEF WatchInv
<1>3. \A i \in Jobs \ {j} : job[i].at = "price" => job[j].kind # "watch"
  BY DEF WatchInv, TypeInv, JobInv, JobOK
<1>4. SUFFICES /\ \A i \in Jobs : job'[i].at = "price" => worst'[Follower(i)'] \in {None, "SAFE"}
               /\ RiskStaysVisible'
  BY <1>2 DEF WatchInv
<1>5. CASE Unwatched(j)
  BY <1>1, <1>5 DEF Unwatched, WatchInv, RiskStaysVisible
<1>6. CASE StartsRound(j)
  <2>1. \A f \in Followers : worst'[f] \in {worst[f], None} /\ worst'[Follower(j)] = None
    BY <1>1, <1>6 DEF StartsRound
  <2>. QED BY <1>1, <1>3, <1>6, <2>1 DEF StartsRound, RiskStaysVisible
<1>7. CASE CheckTimeValue(j)
  <2>1. /\ job[j].at = "price" /\ job[j].kind = "watch" /\ Follower(j) \in Followers
        /\ worst[Follower(j)] \in {None, "SAFE"} /\ job[j].todo # <<>>
    BY <1>7, WaitsForFollower DEF CheckTimeValue, JobOK, WatchInv
  <2>2. PICK found \in Statuses \union {None} :
          /\ IF found = None
             THEN UNCHANGED <<tv, worst>>
             ELSE /\ worst' = [worst EXCEPT ![Follower(j)] = Worse(@, found)]
                  /\ tv' = [tv EXCEPT ![Follower(j)] = found] \/ (UNCHANGED tv /\ mode = "failing")
          /\ found \notin {None, "SAFE"} => NextFollower(j)
    BY <1>7, FindingsAreStatuses DEF CheckTimeValue, EndsRound, Fails
  <2>3. job'[j].at = "price" => found \in {None, "SAFE"}
    BY <2>1, <2>2, <1>1, GivesUpJob DEF GivesUp
  <2>4. job'[j].todo = job[j].todo \/ job'[j].at # "price"
    BY <1>7, <1>1, <2>1, GivesUpJob DEF CheckTimeValue, GivesUp, JobInv, JobType
  <2>5. found # None => worst'[Follower(j)] = found
    BY <1>1, <2>1, <2>2 DEF Worse
  <2>6. \A f \in Followers \ {Follower(j)} : worst'[f] = worst[f] /\ tv'[f] = tv[f]
    BY <1>1, <2>1, <2>2
  <2>7. mode = "failing" \/ (found = None /\ UNCHANGED <<tv, worst>>) \/ tv'[Follower(j)] = found
    BY <1>1, <2>1, <2>2
  <2>8. RiskStaysVisible'
    BY <1>1, <2>1, <2>5, <2>6, <2>7 DEF RiskStaysVisible, None
  <2>9. \A i \in Jobs : job'[i].at = "price" => worst'[Follower(i)'] \in {None, "SAFE"}
    BY <1>1, <1>3, <2>1, <2>2, <2>3, <2>4, <2>5
  <2>. QED BY <2>8, <2>9
<1>. QED BY <1>5, <1>6, <1>7, JobStepWatched

\* Other steps find nothing, and begin one round at a time.
LEMMA BeginRisk ==
  ASSUME TypeInv, WatchInv, RiskStaysVisible, NEW j \in Jobs, BeginJob(j)
  PROVE  WatchInv' /\ RiskStaysVisible'
<1>1. /\ UNCHANGED <<mode, worst, tv>> /\ job'[j].at = "next"
      /\ \A i \in Jobs \ {j} : job'[i] = job[i] /\ Follower(i)' = Follower(i)
      /\ job'[j].kind # "watch" \/ \A i \in Jobs : job[i].kind # "watch"
  BY BeginTypes, OtherFollowers DEF Begins, bookVars, historyVars
<1>2. RiskStaysVisible'
  BY <1>1 DEF RiskStaysVisible
<1>3. WatchInv'
  BY <1>1 DEF WatchInv
<1>. QED BY <1>2, <1>3

\* Nothing is found where only a key expires.
LEMMA SameRisk ==
  ASSUME WatchInv, RiskStaysVisible, UNCHANGED <<mode, job, worst>>,
         \A f \in Followers : tv'[f] \in {tv[f], None}
  PROVE  WatchInv' /\ RiskStaysVisible'
<1>1. RiskStaysVisible'
  BY DEF RiskStaysVisible, None
<1>2. \A i \in Jobs : Follower(i)' = Follower(i)
  BY DEF Follower
<1>3. WatchInv'
  BY <1>2 DEF WatchInv
<1>. QED BY <1>1, <1>3

\* A restart needs a mode in which calls fail.
LEMMA RestartRisk ==
  ASSUME TypeInv, RiskStaysVisible, Restart
  PROVE  WatchInv' /\ RiskStaysVisible'
<1>1. /\ \A j \in Jobs : job'[j].at = "idle" /\ job'[j].kind = None
      /\ mode = "failing" /\ UNCHANGED mode
  BY RestartTypes DEF Idle, Restart
<1>. QED BY <1>1 DEF WatchInv, RiskStaysVisible, None

\* Nothing has been found at the start.
LEMMA InitRisk ==
  ASSUME Init
  PROVE  WatchInv /\ RiskStaysVisible
<1>1. /\ \A j \in Jobs : job[j].at = "idle" /\ job[j].kind = None
      /\ \A f \in Followers : tv[f] = None
  BY DEF Init, Idle
<1>. QED BY <1>1 DEF WatchInv, RiskStaysVisible, None

-----------------------------------------------------------------------------
(* The documents of positions *)

\* What a step of a job does to its document and to the followers' documents.
DocsStep(j) ==
    /\ exercised \subseteq exercised'
    /\ UNCHANGED book \/ (WriteDoc(j) /\ Follower(j) \in Followers)
    /\ \/ job'[j].doc.state # "COMPENSATED"
       \/ job'[j].doc = job[j].doc /\ job'[j].todo = job[j].todo
       \/ job'[j].todo = job[j].todo /\ Follower(j) \in exercised'
       \/ /\ job'[j].doc.state = book[Follower(j)].state /\ Follower(j) \in Followers
          /\ UNCHANGED book /\ job'[j].todo = job[j].todo

\* A job that gives its follower up has no document.
LEMMA GivesUpDocs ==
  ASSUME JobInv, NEW j \in Jobs, NextFollower(j), exercised \subseteq exercised',
         UNCHANGED book \/ (WriteDoc(j) /\ Follower(j) \in Followers)
  PROVE  DocsStep(j)
<1>1. job'[j].doc = NoDoc
  BY DEF NextFollower, Idle, JobInv
<1>. QED BY <1>1 DEF DocsStep, NoDoc

\* One that keeps its document and its follower has nothing new.
LEMMA KeepsDocs ==
  ASSUME NEW j \in Jobs, job'[j].doc = job[j].doc, job'[j].todo = job[j].todo,
         exercised \subseteq exercised',
         UNCHANGED book \/ (WriteDoc(j) /\ Follower(j) \in Followers)
  PROVE  DocsStep(j)
BY DEF DocsStep

\* So it is with what a job does with its client,
LEMMA UseDocs ==
  ASSUME TypeInv, NEW j \in Jobs, NEW c \in Clients, job[j].todo # <<>>, Use(j, c), UNCHANGED book
  PROVE  DocsStep(j)
<1>1. JobInv /\ job \in [Jobs -> JobType] /\ held \in [Keys -> Int]
  BY DEF TypeInv, TypeOK, JobInv
<1>2. CASE UseForSignal(j, c)
  <2>1. (job'[j].doc = job[j].doc /\ job'[j].todo = job[j].todo) \/ NextFollower(j)
    BY <1>1, <1>2 DEF UseForSignal, JobType
  <2>. QED BY <1>1, <1>2, <2>1, GivesUpDocs, KeepsDocs DEF UseForSignal
<1>3. CASE UseForClose(j, c)
  <2>1. (job'[j].doc = job[j].doc /\ job'[j].todo = job[j].todo) \/ NextFollower(j)
    BY <1>1, <1>3 DEF UseForClose, CloseNext, PlaceMarketOrder, JobType
  <2>. QED BY <1>1, <1>3, <2>1, GivesUpDocs, KeepsDocs DEF UseForClose
<1>4. CASE job[j].kind = "check" /\ UseForCheck(j, c)
  <2>1. job'[j].doc.state \in {"ASSIGNED", "NONE"}
    BY <1>1, <1>4, UseCheckJob DEF AssignmentState
  <2>. QED BY <1>4, <2>1 DEF UseForCheck, DocsStep
<1>5. CASE UseForExercise(j, c)
  <2>1. CASE NextFollower(j)
    BY <1>1, <1>5, <2>1, GivesUpDocs DEF UseForExercise
  <2>2. CASE /\ exercised' = exercised \union {Follower(j)}
             /\ job' = [job EXCEPT ![j].at = "mark", ![j].client = c,
                                   ![j].doc.state = "COMPENSATED"]
    <3>1. job'[j].todo = job[j].todo
      BY <1>1, <2>2 DEF JobType
    <3>. QED BY <2>2, <3>1 DEF DocsStep
  <2>. QED BY <1>5, <2>1, <2>2 DEF UseForExercise
<1>6. CASE UseForWatch(j, c)
  <2>1. (job'[j].doc = job[j].doc /\ job'[j].todo = job[j].todo) \/ NextFollower(j)
    BY <1>1, <1>6 DEF UseForWatch, JobType
  <2>. QED BY <1>1, <1>6, <2>1, GivesUpDocs, KeepsDocs DEF UseForWatch
<1>. QED BY <1>2, <1>3, <1>4, <1>5, <1>6 DEF Use

\* A job that gets a client has no document yet, or goes on with it.
LEMMA NewClientDocs ==
  ASSUME TypeInv, NEW j \in Jobs, job[j].todo # <<>>, UNCHANGED <<book, exercised>>,
         NEW clients \in [Followers -> Clients \union {NoClient}], NewClient(j, clients)
  PROVE  DocsStep(j)
<1>1. job'[j].doc = NoDoc \/ (job'[j].doc = job[j].doc /\ job'[j].todo = job[j].todo)
  BY NewClientJob DEF GivesUp, GoesOn
<1>. QED BY <1>1 DEF DocsStep, NoDoc

\* with get_client(),
LEMMA GetClientDocs ==
  ASSUME TypeInv, NEW j \in Jobs, job[j].todo # <<>>, GetClient(j), UNCHANGED book
  PROVE  DocsStep(j)
<1>1. JobInv /\ stored[Follower(j)] \in Clients \union {NoClient}
      /\ stored \in [Followers -> Clients \union {NoClient}]
  BY JobHasFollower DEF TypeInv, TypeOK
<1>2. CASE stored[Follower(j)] \in Clients /\ Use(j, stored[Follower(j)])
  BY <1>2, UseDocs
<1>3. CASE stored[Follower(j)] # NoClient /\ Reconnect(j) /\ UNCHANGED exercised
  BY <1>3, ReconnectJob, KeepsDocs DEF GoesOn
<1>4. CASE NewClient(j, stored) /\ UNCHANGED exercised
  BY <1>1, <1>4, NewClientDocs
<1>5. CASE NextFollower(j) /\ UNCHANGED exercised
  BY <1>1, <1>5, GivesUpDocs
<1>. QED BY <1>1, <1>2, <1>3, <1>4, <1>5 DEF GetClient

\* and with every step of a job.
LEMMA JobStepDocs ==
  ASSUME TypeInv, NEW j \in Jobs, JobStep(j)
  PROVE  DocsStep(j)
<1>1. JobInv /\ job \in [Jobs -> JobType]
  BY DEF TypeInv, JobInv
<1>2. CASE TakeFollower(j)
  <2>1. CASE job' = [job EXCEPT ![j] = Idle] /\ UNCHANGED exercised
    <3>1. job'[j].doc = NoDoc
      BY <1>1, <2>1 DEF Idle
    <3>. QED BY <1>2, <2>1, <3>1 DEF DocsStep, NoDoc, TakeFollower, bookVars
  <2>2. CASE job[j].todo # <<>> /\ GetClient(j)
    BY <1>2, <2>2, GetClientDocs DEF TakeFollower, bookVars
  <2>. QED BY <1>2, <2>1, <2>2 DEF TakeFollower
<1>3. CASE Exercise(j)
  BY <1>3, WaitsForFollower, GetClientDocs DEF Exercise, bookVars
<1>4. CASE ConnectEnds(j)
  <2>1. job[j].todo # <<>> /\ job[j].client \in Clients /\ UNCHANGED book
    BY <1>4, WaitsForFollower DEF ConnectEnds, JobOK, JobType, bookVars
  <2>2. CASE Use(j, job[j].client)
    BY <2>1, <2>2, UseDocs
  <2>3. CASE NextFollower(j) /\ UNCHANGED exercised
    BY <1>1, <2>1, <2>3, GivesUpDocs
  <2>4. CASE ReplaceClient(j) /\ UNCHANGED exercised
    <3>1. [stored EXCEPT ![Follower(j)] = NoClient] \in [Followers -> Clients \union {NoClient}]
      BY DEF TypeInv, TypeOK
    <3>2. NewClient(j, [stored EXCEPT ![Follower(j)] = NoClient]) => DocsStep(j)
      BY <2>1, <2>4, <3>1, NewClientDocs
    <3>. QED BY <2>3, <2>4, <3>2 DEF ReplaceClient
  <2>. QED BY <1>4, <2>2, <2>3, <2>4 DEF ConnectEnds
<1>5. CASE Placed(j) \/ SaveTrade(j) \/ FindPosition(j) \/ CheckTimeValue(j)
  <2>1. (job'[j].doc = job[j].doc /\ job'[j].todo = job[j].todo) \/ NextFollower(j)
    BY <1>1, <1>5 DEF Placed, SaveTrade, FindPosition, CheckTimeValue, JobType
  <2>2. UNCHANGED <<book, exercised>>
    BY <1>5 DEF Placed, SaveTrade, FindPosition, CheckTimeValue, bookVars, historyVars
  <2>. QED BY <1>1, <2>1, <2>2, GivesUpDocs, KeepsDocs
<1>6. CASE LoadPosition(j)
  <2>1. Follower(j) \in Followers /\ book[Follower(j)] \in Docs /\ UNCHANGED <<book, exercised>>
    BY <1>6, WaitsForFollower DEF LoadPosition, TypeInv, TypeOK, bookVars
  <2>2. CASE NextFollower(j)
    BY <1>1, <2>1, <2>2, GivesUpDocs
  <2>3. CASE job' = [job EXCEPT ![j].at = "save", ![j].doc = WithTrade(book[Follower(j)], job[j].side)]
    <3>1. job'[j].doc.state = book[Follower(j)].state /\ job'[j].todo = job[j].todo
      BY <1>1, <2>1, <2>3, WithTradeDoc DEF JobType
    <3>. QED BY <2>1, <3>1 DEF DocsStep
  <2>. QED BY <1>6, <2>2, <2>3 DEF LoadPosition, Processed
<1>7. CASE SavePosition(j) \/ MarkCompensated(j)
  BY <1>1, <1>7, WaitsForFollower, GivesUpDocs DEF SavePosition, MarkCompensated, Processed, historyVars
<1>8. CASE OrderDone(j)
  <2>1. (job'[j].doc = job[j].doc /\ job'[j].todo = job[j].todo) \/ NextFollower(j)
    BY <1>1, <1>8 DEF OrderDone, CloseNext, PlaceMarketOrder, JobType
  <2>. QED BY <1>1, <1>8, <2>1, GivesUpDocs, KeepsDocs DEF OrderDone, bookVars
<1>9. CASE FlagAssigned(j) \/ Refreshed(j)
  <2>1. (job'[j].doc = job[j].doc /\ job'[j].todo = job[j].todo) \/ NextFollower(j)
    BY <1>1, <1>9 DEF FlagAssigned, Refreshed, ChooseExercise, JobType
  <2>2. UNCHANGED book \/ (WriteDoc(j) /\ Follower(j) \in Followers)
    BY <1>9, WaitsForFollower DEF FlagAssigned, Refreshed, bookVars
  <2>. QED BY <1>1, <1>9, <2>1, <2>2, GivesUpDocs, KeepsDocs DEF FlagAssigned, Refreshed, historyVars
<1>. QED BY <1>2, <1>3, <1>4, <1>5, <1>6, <1>7, <1>8, <1>9 DEF JobStep

\* A step of a job writes, and remembers, COMPENSATED only after an exercise.
LEMMA JobStepCompensated ==
  ASSUME TypeInv, DocInv, CompensatedWasExercised, NEW j \in Jobs, JobStep(j)
  PROVE  DocInv' /\ CompensatedWasExercised'
<1>1. /\ DocsStep(j) /\ \A i \in Jobs \ {j} : job'[i] = job[i] /\ Follower(i)' = Follower(i)
      /\ job'[j].todo = job[j].todo => Follower(j)' = Follower(j)
      /\ book \in [Followers -> Docs]
  BY JobStepDocs, JobStepJob, OtherFollowers DEF TypeInv, TypeOK
<1>2. CompensatedWasExercised'
  <2>1. CASE UNCHANGED book
    BY <1>1, <2>1 DEF CompensatedWasExercised, DocsStep
  <2>2. CASE WriteDoc(j) /\ Follower(j) \in Followers
    BY <1>1, <2>2 DEF CompensatedWasExercised, DocInv, DocsStep, WriteDoc
  <2>. QED BY <1>1, <2>1, <2>2 DEF DocsStep
<1>3. DocInv'
  BY <1>1 DEF DocInv, CompensatedWasExercised, DocsStep
<1>. QED BY <1>2, <1>3

\* The other steps write no document.
LEMMA BeginCompensated ==
  ASSUME TypeInv, DocInv, CompensatedWasExercised, NEW j \in Jobs, BeginJob(j)
  PROVE  DocInv' /\ CompensatedWasExercised'
<1>1. /\ UNCHANGED <<book, exercised>> /\ job'[j].doc.state # "COMPENSATED"
      /\ \A i \in Jobs \ {j} : job'[i] = job[i] /\ Follower(i)' = Follower(i)
  BY BeginTypes, OtherFollowers DEF Begins, bookVars, historyVars, NoDoc
<1>. QED BY <1>1 DEF DocInv, CompensatedWasExercised

\* A step that leaves documents and exercises alone keeps both.
LEMMA SameCompensated ==
  ASSUME DocInv, CompensatedWasExercised, UNCHANGED <<job, book, exercised>>
  PROVE  DocInv' /\ CompensatedWasExercised'
<1>1. \A i \in Jobs : Follower(i)' = Follower(i)
  BY DEF Follower
<1>. QED BY <1>1 DEF DocInv, CompensatedWasExercised

\* A restart forgets the jobs' documents and no exercise.
LEMMA RestartCompensated ==
  ASSUME TypeInv, CompensatedWasExercised, Restart
  PROVE  DocInv' /\ CompensatedWasExercised'
<1>1. (\A j \in Jobs : job'[j].doc.state = "ABSENT") /\ UNCHANGED <<book, exercised>>
  BY RestartTypes DEF Idle, NoDoc, Restart, bookVars, historyVars
<1>. QED BY <1>1 DEF DocInv, CompensatedWasExercised

\* No document says COMPENSATED at the start.
LEMMA InitCompensated ==
  ASSUME Init
  PROVE  DocInv /\ CompensatedWasExercised
<1>1. /\ \A j \in Jobs : job[j].doc.state = "ABSENT"
      /\ \A f \in Followers : book[f].state \in {"ABSENT", "NONE"}
  BY DEF Init, Idle, NoDoc
<1>. QED BY <1>1 DEF DocInv, CompensatedWasExercised

-----------------------------------------------------------------------------
(* The trades *)

SaveAts == {"insert", "load", "save"}

\* A job is among those that wait at ats for a follower's side.
IsAt(ats, j, f, side) == job[j].at \in ats /\ Follower(j) = f /\ job[j].side = side

\* A step of one job changes the number of those by one, or not.
LEMMA AtWorkStep ==
  ASSUME NEW j \in Jobs, OnlyJob(j), NEW ats, NEW f, NEW side
  PROVE  /\ Cardinality(AtWork(ats, f, side)) \in Nat
         /\ Cardinality(AtWork(ats, f, side))' \in Nat
         /\ (IsAt(ats, j, f, side) <=> IsAt(ats, j, f, side)') =>
               Cardinality(AtWork(ats, f, side))' = Cardinality(AtWork(ats, f, side))
         /\ ~IsAt(ats, j, f, side) /\ IsAt(ats, j, f, side)' =>
               Cardinality(AtWork(ats, f, side))' = Cardinality(AtWork(ats, f, side)) + 1
         /\ IsAt(ats, j, f, side) /\ ~IsAt(ats, j, f, side)' =>
               Cardinality(AtWork(ats, f, side))' = Cardinality(AtWork(ats, f, side)) - 1
<1>. DEFINE A == AtWork(ats, f, side)
<1>1. /\ \A i \in Jobs : i \in A <=> IsAt(ats, i, f, side)
      /\ \A i \in Jobs : i \in A' <=> IsAt(ats, i, f, side)'
      /\ A \subseteq Jobs /\ A' \subseteq Jobs
  BY DEF AtWork, IsAt
<1>2. \A i \in Jobs \ {j} : i \in A' <=> i \in A
  BY <1>1, OtherFollowers DEF IsAt
<1>. HIDE DEF A
<1>3. IsFiniteSet(A) /\ IsFiniteSet(A')
  BY <1>1, FS_Subset
<1>4. CASE IsAt(ats, j, f, side) <=> IsAt(ats, j, f, side)'
  <2>1. A' = A
    BY <1>1, <1>2, <1>4
  <2>. QED BY <1>3, <1>4, <2>1, FS_CardinalityType DEF A
<1>5. CASE ~IsAt(ats, j, f, side) /\ IsAt(ats, j, f, side)'
  <2>1. A' = A \union {j} /\ j \notin A
    BY <1>1, <1>2, <1>5
  <2>. QED BY <1>3, <1>5, <2>1, FS_AddElement, FS_CardinalityType DEF A
<1>6. CASE IsAt(ats, j, f, side) /\ ~IsAt(ats, j, f, side)'
  <2>1. A' = A \ {j} /\ j \in A
    BY <1>1, <1>2, <1>6
  <2>. QED BY <1>3, <1>6, <2>1, FS_RemoveElement, FS_CardinalityType DEF A
<1>. QED BY <1>4, <1>5, <1>6

\* Counting adds one for the follower and the side of the job.
LEMMA CountAddsOne ==
  ASSUME NEW of \in Counts, NEW j, NEW f \in Followers, NEW side \in Sides
  PROVE  /\ of[f][side] \in Nat
         /\ Count(of, j)[f][side] = IF f = Follower(j) /\ side = job[j].side
                                    THEN of[f][side] + 1 ELSE of[f][side]
BY DEF Count, Counts

SameSignal(j) == job'[j].todo = job[j].todo /\ job'[j].side = job[j].side

\* What a step of a job does to the trades.
Untraded(j) ==
    /\ UNCHANGED <<executed, trades, succeeded>>
    /\ job[j].at \notin SaveAts /\ job'[j].at \notin SaveAts
Executes(j) ==
    /\ job[j].at = "place" /\ job'[j].at = "insert" /\ SameSignal(j)
    /\ executed' = Count(executed, j) /\ UNCHANGED <<trades, succeeded, book>>
Trades(j) ==
    /\ job[j].at = "insert" /\ job'[j].at = "load" /\ SameSignal(j)
    /\ trades' = Count(trades, j) /\ UNCHANGED <<executed, succeeded, book>>
TradesNot(j) ==
    /\ job[j].at = "insert" /\ job'[j].at = "next" /\ mode = "failing"
    /\ UNCHANGED <<executed, trades, succeeded>>
Loads(j) ==
    /\ job[j].at = "load" /\ job'[j].at = "save" /\ SameSignal(j)
    /\ job'[j].doc = WithTrade(book[Follower(j)], job[j].side)
    /\ UNCHANGED <<executed, trades, succeeded, book>>
LoadsNot(j) ==
    /\ job[j].at = "load" /\ job'[j].at = "next"
    /\ mode = "failing" \/ book[Follower(j)] = NoDoc
    /\ succeeded' = Count(succeeded, j) /\ UNCHANGED <<executed, trades, book>>
Saves(j) ==
    /\ job[j].at = "save" /\ job'[j].at = "next"
    /\ mode = "failing" \/ WriteDoc(j)
    /\ succeeded' = Count(succeeded, j) /\ UNCHANGED <<executed, trades>>
TradesStep(j) ==
    \/ Untraded(j) \/ Executes(j) \/ Trades(j) \/ TradesNot(j) \/ Loads(j) \/ LoadsNot(j)
    \/ Saves(j)

\* A job that asks for its client waits for no trade to be saved.
LEMMA ClientStepAts ==
  ASSUME TypeInv, NEW j \in Jobs, TakeFollower(j) \/ ConnectEnds(j) \/ Exercise(j)
  PROVE  job[j].at \notin SaveAts /\ job'[j].at \notin SaveAts
<1>1. job[j].at \notin SaveAts
  BY DEF TakeFollower, ConnectEnds, Exercise, SaveAts
<1>2. NextFollower(j) => job'[j].at \notin SaveAts
  BY DEF NextFollower, Idle, SaveAts, TypeInv, JobInv
<1>3. ASSUME job[j].todo # <<>>, NEW c \in Clients, Use(j, c) PROVE job'[j].at \notin SaveAts
  BY <1>3, UseJob DEF Uses, GivesUp, GoesOn, UsingAts, SaveAts
<1>4. ASSUME job[j].todo # <<>>, NEW clients \in [Followers -> Clients \union {NoClient}],
             NewClient(j, clients)
      PROVE  job'[j].at \notin SaveAts
  BY <1>4, NewClientJob DEF GivesUp, GoesOn, SaveAts
<1>5. ASSUME job[j].todo # <<>>, GetClient(j) PROVE job'[j].at \notin SaveAts
  <2>1. stored[Follower(j)] \in Clients \union {NoClient}
        /\ stored \in [Followers -> Clients \union {NoClient}]
    BY <1>5, JobHasFollower DEF TypeInv, TypeOK
  <2>2. Reconnect(j) => job'[j].at \notin SaveAts
    BY DEF Reconnect, SaveAts, TypeInv, JobInv, JobType
  <2>. QED BY <1>2, <1>3, <1>4, <1>5, <2>1, <2>2 DEF GetClient
<1>6. CASE TakeFollower(j)
  <2>1. job' = [job EXCEPT ![j] = Idle] => job'[j].at \notin SaveAts
    BY DEF Idle, SaveAts, TypeInv, JobInv
  <2>. QED BY <1>1, <1>5, <1>6, <2>1 DEF TakeFollower
<1>7. CASE Exercise(j)
  BY <1>1, <1>5, <1>7, WaitsForFollower DEF Exercise
<1>8. CASE ConnectEnds(j)
  <2>1. job[j].todo # <<>> /\ job[j].client \in Clients
    BY <1>8, WaitsForFollower DEF ConnectEnds, JobOK, JobType
  <2>2. [stored EXCEPT ![Follower(j)] = NoClient] \in [Followers -> Clients \union {NoClient}]
    BY DEF TypeInv, TypeOK
  <2>3. ReplaceClient(j) => job'[j].at \notin SaveAts
    BY <1>2, <1>4, <2>1, <2>2 DEF ReplaceClient
  <2>. QED BY <1>1, <1>2, <1>3, <1>8, <2>1, <2>3 DEF ConnectEnds
<1>. QED BY <1>6, <1>7, <1>8

\* Every step of a job is one of these.
LEMMA JobStepTrades ==
  ASSUME TypeInv, NEW j \in Jobs, JobStep(j)
  PROVE  TradesStep(j)
<1>1. JobInv /\ JobInv' /\ job \in [Jobs -> JobType] /\ (NextFollower(j) => job'[j].at = "next")
      /\ (job'[j] = Idle \/ job'[j].kind = job[j].kind)
  BY JobStepJob, SameJob DEF TypeInv, JobInv, NextFollower, Idle
<1>2. CASE TakeFollower(j) \/ ConnectEnds(j) \/ Exercise(j)
  <2>1. UNCHANGED <<executed, trades, succeeded>>
    BY <1>2 DEF TakeFollower, ConnectEnds, Exercise, bookVars
  <2>. QED BY <1>2, <2>1, ClientStepAts DEF TradesStep, Untraded
<1>3. CASE Placed(j)
  <2>1. CASE NextFollower(j) /\ UNCHANGED executed
    BY <1>1, <1>3, <2>1 DEF Placed, bookVars, TradesStep, Untraded, SaveAts
  <2>2. CASE executed' = Count(executed, j) /\ job' = [job EXCEPT ![j].at = "insert", ![j].client = NoClient]
    <3>1. job'[j].at = "insert" /\ SameSignal(j)
      BY <1>1, <2>2 DEF SameSignal, JobType
    <3>. QED BY <1>3, <2>2, <3>1 DEF Placed, bookVars, TradesStep, Executes
  <2>. QED BY <1>3, <2>1, <2>2 DEF Placed
<1>4. CASE SaveTrade(j)
  <2>1. CASE trades' = Count(trades, j) /\ job' = [job EXCEPT ![j].at = "load"]
    <3>1. job'[j].at = "load" /\ SameSignal(j)
      BY <1>1, <2>1 DEF SameSignal, JobType
    <3>. QED BY <1>4, <2>1, <3>1 DEF SaveTrade, historyVars, TradesStep, Trades
  <2>2. CASE Fails /\ NextFollower(j) /\ UNCHANGED trades
    BY <1>1, <1>4, <2>2 DEF SaveTrade, historyVars, TradesStep, TradesNot, Fails
  <2>. QED BY <1>4, <2>1, <2>2 DEF SaveTrade
<1>5. CASE LoadPosition(j)
  <2>1. CASE /\ job' = [job EXCEPT ![j].at = "save", ![j].doc = WithTrade(book[Follower(j)], job[j].side)]
             /\ UNCHANGED succeeded
    <3>1. /\ job'[j].at = "save" /\ SameSignal(j)
          /\ job'[j].doc = WithTrade(book[Follower(j)], job[j].side)
      BY <1>1, <2>1 DEF SameSignal, JobType
    <3>. QED BY <1>5, <2>1, <3>1 DEF LoadPosition, bookVars, TradesStep, Loads
  <2>2. CASE Processed(j) /\ (mode = "failing" \/ book[Follower(j)] = NoDoc)
    BY <1>1, <1>5, <2>2 DEF LoadPosition, bookVars, Processed, TradesStep, LoadsNot
  <2>. QED BY <1>5, <2>1, <2>2 DEF LoadPosition, Fails
<1>6. CASE SavePosition(j)
  BY <1>1, <1>6 DEF SavePosition, Fails, Processed, TradesStep, Saves
<1>7. ASSUME job[j].kind # "signal", UNCHANGED <<executed, trades, succeeded>> PROVE TradesStep(j)
  <2>1. JobOK(job[j]) /\ JobOK(job'[j]) /\ (job'[j].kind # "signal")
    BY <1>1, <1>7 DEF JobInv, Idle, None
  <2>2. job[j].at \notin SaveAts /\ job'[j].at \notin SaveAts
    BY <1>7, <2>1 DEF JobOK, SaveAts, SignalAts
  <2>. QED BY <1>7, <2>2 DEF TradesStep, Untraded
<1>8. CASE OrderDone(j) \/ FindPosition(j) \/ FlagAssigned(j) \/ Refreshed(j) \/ MarkCompensated(j)
           \/ CheckTimeValue(j)
  <2>1. job[j].kind # "signal"
    BY <1>8, WaitsForFollower DEF OrderDone, FindPosition, FlagAssigned, Refreshed, MarkCompensated,
      CheckTimeValue, JobOK, CheckAts
  <2>. QED BY <1>7, <1>8, <2>1 DEF OrderDone, FindPosition, FlagAssigned, Refreshed, MarkCompensated,
      CheckTimeValue, bookVars, historyVars
<1>. QED BY <1>2, <1>3, <1>4, <1>5, <1>6, <1>8 DEF JobStep

\* A step of a job saves each trade that was executed before it is answered.
LEMMA JobStepTradesInv ==
  ASSUME TypeInv, TradesInv, NEW j \in Jobs, JobStep(j)
  PROVE  TradesInv'
<1>. SUFFICES ASSUME NEW f \in Followers, NEW side \in Sides
              PROVE  /\ succeeded'[f][side] + Cardinality(Answering(f, side))' <= trades'[f][side]
                     /\ mode # "failing" =>
                           executed'[f][side] = trades'[f][side] + Cardinality(Inserting(f, side))'
  BY JobStepWorks DEF TradesInv
<1>. DEFINE A == Cardinality(AtWork({"load", "save"}, f, side))
            I == Cardinality(AtWork({"insert"}, f, side))
<1>1. /\ OnlyJob(j) /\ TradesStep(j)
      /\ trades \in Counts /\ executed \in Counts /\ succeeded \in Counts
      /\ job'[j].todo = job[j].todo => Follower(j)' = Follower(j)
  BY JobStepJob, JobStepTrades, OtherFollowers DEF TypeInv, TypeOK
<1>2. /\ succeeded[f][side] + A <= trades[f][side]
      /\ mode # "failing" => executed[f][side] = trades[f][side] + I
  BY DEF TradesInv, Answering, Inserting
<1>3. /\ A \in Nat /\ A' \in Nat
      /\ (IsAt({"load", "save"}, j, f, side) <=> IsAt({"load", "save"}, j, f, side)') => A' = A
      /\ ~IsAt({"load", "save"}, j, f, side) /\ IsAt({"load", "save"}, j, f, side)' => A' = A + 1
      /\ IsAt({"load", "save"}, j, f, side) /\ ~IsAt({"load", "save"}, j, f, side)' => A' = A - 1
  BY <1>1, AtWorkStep
<1>4. /\ I \in Nat /\ I' \in Nat
      /\ (IsAt({"insert"}, j, f, side) <=> IsAt({"insert"}, j, f, side)') => I' = I
      /\ ~IsAt({"insert"}, j, f, side) /\ IsAt({"insert"}, j, f, side)' => I' = I + 1
      /\ IsAt({"insert"}, j, f, side) /\ ~IsAt({"insert"}, j, f, side)' => I' = I - 1
  BY <1>1, AtWorkStep
<1>5. SUFFICES /\ succeeded'[f][side] + A' <= trades'[f][side]
               /\ mode # "failing" => executed'[f][side] = trades'[f][side] + I'
  BY DEF Answering, Inserting
<1>. HIDE DEF A, I
<1>6. /\ \A of \in {trades, executed, succeeded} :
           Count(of, j)[f][side] = IF f = Follower(j) /\ side = job[j].side
                                   THEN of[f][side] + 1 ELSE of[f][side]
      /\ trades[f][side] \in Nat /\ executed[f][side] \in Nat /\ succeeded[f][side] \in Nat
  BY <1>1, CountAddsOne
<1>7. CASE Untraded(j)
  BY <1>2, <1>3, <1>4, <1>7 DEF Untraded, IsAt, SaveAts
<1>8. CASE Executes(j)
  BY <1>1, <1>2, <1>3, <1>4, <1>6, <1>8 DEF Executes, SameSignal, IsAt
<1>9. CASE Trades(j)
  BY <1>1, <1>2, <1>3, <1>4, <1>6, <1>9 DEF Trades, SameSignal, IsAt
<1>10. CASE TradesNot(j)
  BY <1>2, <1>3, <1>4, <1>10 DEF TradesNot, IsAt
<1>11. CASE Loads(j)
  BY <1>1, <1>2, <1>3, <1>4, <1>11 DEF Loads, SameSignal, IsAt
<1>12. CASE LoadsNot(j)
  BY <1>2, <1>3, <1>4, <1>6, <1>12 DEF LoadsNot, IsAt
<1>13. CASE Saves(j)
  BY <1>2, <1>3, <1>4, <1>6, <1>13 DEF Saves, IsAt
<1>. QED BY <1>1, <1>7, <1>8, <1>9, <1>10, <1>11, <1>12, <1>13 DEF TradesStep

\* What a document of positions says of a side.
LEMMA WithTradeQuantity ==
  ASSUME NEW doc \in Docs, NEW side \in Sides, NEW of \in Sides
  PROVE  /\ Quantity(WithTrade(doc, of), side) =
               IF side = of THEN Quantity(doc, side) + 1 ELSE Quantity(doc, side)
         /\ Quantity(doc, side) \in Nat
BY DEF WithTrade, Quantity, Docs, Sides, Qty

\* When a step of a job writes a document.
BookStep(j) ==
    \/ UNCHANGED book
    \/ WriteDoc(j) /\ job[j].at = "save"
    \/ WriteDoc(j) /\ Untraded(j) /\ job[j].doc.state # "NONE"

\* That is when each of its steps writes one.
LEMMA JobStepBook ==
  ASSUME TypeInv, NEW j \in Jobs, JobStep(j)
  PROVE  BookStep(j)
<1>1. CASE TakeFollower(j) \/ ConnectEnds(j) \/ Exercise(j)
  BY <1>1 DEF TakeFollower, ConnectEnds, Exercise, bookVars, BookStep
<1>2. CASE Placed(j) \/ SaveTrade(j) \/ LoadPosition(j) \/ SavePosition(j)
  BY <1>2 DEF Placed, SaveTrade, LoadPosition, SavePosition, bookVars, BookStep
<1>3. CASE OrderDone(j) \/ FindPosition(j) \/ Refreshed(j) \/ CheckTimeValue(j)
  BY <1>3 DEF OrderDone, FindPosition, Refreshed, CheckTimeValue, bookVars, BookStep
<1>4. CASE FlagAssigned(j) \/ MarkCompensated(j)
  <2>1. job[j].doc.state # "NONE" /\ job[j].at \in {"flag", "mark"}
    BY <1>4, WaitsForFollower DEF FlagAssigned, MarkCompensated, JobOK
  <2>2. Untraded(j)
    BY <2>1, JobStepTrades DEF TradesStep, Executes, Trades, TradesNot, Loads, LoadsNot, Saves
  <2>. QED BY <1>4, <2>1, <2>2 DEF FlagAssigned, MarkCompensated, BookStep
<1>. QED BY <1>1, <1>2, <1>3, <1>4 DEF JobStep

\* While all is calm a step of a job keeps each document with the saved trades.
LEMMA JobStepCalmBook ==
  ASSUME TypeInv, SessionStored, CalmBook, NEW j \in Jobs, JobStep(j)
  PROVE  CalmBook'
<1>1. SUFFICES ASSUME mode = "calm"
               PROVE  /\ \A f \in Followers, side \in Sides : book'[f].state = "NONE" =>
                           trades'[f][side] = Quantity(book'[f], side)
                                              + Cardinality(Answering(f, side))'
                      /\ \A i \in Jobs : job'[i].at = "save" =>
                           job'[i].doc = WithTrade(book'[Follower(i)'], job'[i].side)
  BY JobStepWorks DEF CalmBook, Quantity
<1>2. /\ OnlyJob(j) /\ TradesStep(j) /\ BookStep(j) /\ JobInv
      /\ trades \in Counts /\ book \in [Followers -> Docs]
      /\ job'[j].todo = job[j].todo => Follower(j)' = Follower(j)
      /\ \A i \in Jobs \ {j} : job'[i] = job[i] /\ job[i].at = "idle"
  BY <1>1, JobStepJob, JobStepTrades, JobStepBook, JobStepWorks, OtherFollowers
  DEF TypeInv, TypeOK, SessionStored, OneAtATime
<1>3. job[j].at \in SaveAts => Follower(j) \in Followers /\ job[j].side \in Sides
  BY WaitsForFollower DEF SaveAts, JobOK, SignalAts
<1>4. \A i \in Jobs : job'[i].at = "save" =>
         job'[i].doc = WithTrade(book'[Follower(i)'], job'[i].side)
  <2>1. \A i \in Jobs \ {j} : job'[i].at # "save"
    BY <1>2
  <2>2. ASSUME job'[j].at = "save" PROVE Loads(j)
    BY <1>2, <2>2 DEF TradesStep, Untraded, Executes, Trades, TradesNot, LoadsNot, Saves, SaveAts
  <2>. QED BY <1>2, <2>1, <2>2 DEF Loads, SameSignal
<1>5. ASSUME NEW f \in Followers, NEW side \in Sides, book'[f].state = "NONE"
      PROVE  trades'[f][side] = Quantity(book'[f], side) + Cardinality(Answering(f, side))'
  <2>. DEFINE A == Cardinality(AtWork({"load", "save"}, f, side))
  <2>1. /\ A \in Nat /\ A' \in Nat
        /\ (IsAt({"load", "save"}, j, f, side) <=> IsAt({"load", "save"}, j, f, side)') => A' = A
        /\ ~IsAt({"load", "save"}, j, f, side) /\ IsAt({"load", "save"}, j, f, side)' => A' = A + 1
        /\ IsAt({"load", "save"}, j, f, side) /\ ~IsAt({"load", "save"}, j, f, side)' => A' = A - 1
    BY <1>2, AtWorkStep
  <2>2. book[f].state = "NONE" => trades[f][side] = Quantity(book[f], side) + A
    BY <1>1 DEF CalmBook, Answering
  <2>3. /\ Count(trades, j)[f][side] = IF f = Follower(j) /\ side = job[j].side
                                       THEN trades[f][side] + 1 ELSE trades[f][side]
        /\ trades[f][side] \in Nat /\ Quantity(book[f], side) \in Nat
    BY <1>2, CountAddsOne, WithTradeQuantity
  <2>4. SUFFICES trades'[f][side] = Quantity(book'[f], side) + A'
    BY DEF Answering
  <2>. HIDE DEF A
  <2>5. CASE Untraded(j)
    <3>1. A' = A /\ trades' = trades
      BY <2>1, <2>5 DEF Untraded, IsAt, SaveAts
    <3>2. book'[f] = book[f]
      <4>1. ASSUME WriteDoc(j), job[j].doc.state # "NONE" PROVE book'[f] = book[f]
        BY <1>2, <1>5, <4>1 DEF WriteDoc
      <4>. QED BY <1>2, <2>5, <4>1 DEF BookStep, Untraded, SaveAts
    <3>. QED BY <1>5, <2>2, <3>1, <3>2
  <2>6. CASE Executes(j)
    BY <1>2, <1>5, <2>1, <2>2, <2>6 DEF Executes, IsAt
  <2>7. CASE Trades(j)
    BY <1>2, <1>5, <2>1, <2>2, <2>3, <2>7 DEF Trades, SameSignal, IsAt
  <2>8. CASE TradesNot(j)
    BY <1>1, <2>8 DEF TradesNot
  <2>9. CASE Loads(j)
    BY <1>2, <1>5, <2>1, <2>2, <2>9 DEF Loads, SameSignal, IsAt
  <2>10. CASE LoadsNot(j)
    <3>1. f # Follower(j) /\ book'[f] = book[f] /\ trades' = trades
      BY <1>1, <1>5, <2>10 DEF LoadsNot, NoDoc
    <3>2. A' = A
      BY <2>1, <2>10, <3>1 DEF LoadsNot, IsAt
    <3>. QED BY <1>5, <2>2, <3>1, <3>2
  <2>11. CASE Saves(j)
    <3>1. /\ book' = [book EXCEPT ![Follower(j)] = WithTrade(book[Follower(j)], job[j].side)]
          /\ Follower(j) \in Followers /\ job[j].side \in Sides
      BY <1>1, <1>3, <2>11 DEF Saves, WriteDoc, CalmBook, SaveAts
    <3>2. trades' = trades /\ job[j].at = "save" /\ job'[j].at = "next"
      BY <2>11 DEF Saves
    <3>3. CASE f = Follower(j)
      <4>1. book'[f] = WithTrade(book[f], job[j].side) /\ book[f].state = "NONE"
        BY <1>2, <1>5, <3>1, <3>3, WithTradeDoc
      <4>2. Quantity(book'[f], side) = IF side = job[j].side THEN Quantity(book[f], side) + 1
                                       ELSE Quantity(book[f], side)
        BY <1>2, <3>1, <4>1, WithTradeQuantity
      <4>3. A' = IF side = job[j].side THEN A - 1 ELSE A
        BY <2>1, <3>2, <3>3 DEF IsAt
      <4>. QED BY <2>1, <2>2, <2>3, <3>2, <4>1, <4>2, <4>3
    <3>4. CASE f # Follower(j)
      <4>1. book'[f] = book[f]
        BY <1>2, <3>1, <3>4
      <4>2. A' = A
        BY <2>1, <3>2, <3>4 DEF IsAt
      <4>. QED BY <1>5, <2>2, <3>2, <4>1, <4>2
    <3>. QED BY <3>3, <3>4
  <2>. QED BY <1>2, <2>5, <2>6, <2>7, <2>8, <2>9, <2>10, <2>11 DEF TradesStep
<1>. QED BY <1>4, <1>5

\* The other steps leave the trades, the documents, and who waits to save them.
LEMMA SameAtWork ==
  ASSUME NEW j \in Jobs, OnlyJob(j), NEW ats, job[j].at \notin ats, job'[j].at \notin ats,
         NEW f, NEW side
  PROVE  AtWork(ats, f, side)' = AtWork(ats, f, side)
BY OtherFollowers DEF AtWork

\* A job that begins has nothing to save.
LEMMA BeginBook ==
  ASSUME TypeInv, TradesInv, CalmBook, NEW j \in Jobs, BeginJob(j)
  PROVE  TradesInv' /\ CalmBook'
<1>1. /\ OnlyJob(j) /\ UNCHANGED <<mode, book, trades, executed, succeeded>>
      /\ job[j].at = "idle" /\ job'[j].at = "next"
      /\ \A i \in Jobs \ {j} : job'[i] = job[i] /\ Follower(i)' = Follower(i)
  BY BeginTypes, OtherFollowers DEF Begins, bookVars, historyVars
<1>2. \A f, side : /\ Answering(f, side)' = Answering(f, side)
                   /\ Inserting(f, side)' = Inserting(f, side)
  BY <1>1, SameAtWork DEF Answering, Inserting
<1>3. TradesInv'
  BY <1>1, <1>2 DEF TradesInv
<1>4. CalmBook'
  BY <1>1, <1>2 DEF CalmBook, Quantity
<1>. QED BY <1>3, <1>4

\* Where trades, documents and jobs stay, so does the book.
LEMMA SameBook ==
  ASSUME TradesInv, CalmBook, UNCHANGED <<mode, job, book, trades, executed, succeeded>>
  PROVE  TradesInv' /\ CalmBook'
<1>1. \A i \in Jobs : Follower(i)' = Follower(i)
  BY DEF Follower
<1>2. \A f, side : /\ Answering(f, side)' = Answering(f, side)
                   /\ Inserting(f, side)' = Inserting(f, side)
  BY <1>1 DEF Answering, Inserting, AtWork
<1>3. TradesInv'
  BY <1>2 DEF TradesInv
<1>4. CalmBook'
  BY <1>1, <1>2 DEF CalmBook, Quantity
<1>. QED BY <1>3, <1>4

\* A restart saves nothing, and answers nothing.
LEMMA RestartBook ==
  ASSUME TypeInv, TradesInv, Restart
  PROVE  TradesInv' /\ CalmBook'
<1>1. /\ \A j \in Jobs : job'[j].at = "idle"
      /\ UNCHANGED <<mode, trades, succeeded>> /\ mode = "failing"
  BY RestartTypes DEF Restart, bookVars, historyVars, Idle
<1>2. CalmBook'
  BY <1>1 DEF CalmBook
<1>3. ASSUME NEW f \in Followers, NEW side \in Sides
      PROVE  succeeded[f][side] + Cardinality(Answering(f, side))' <= trades[f][side]
  <2>1. Answering(f, side)' = {}
    BY <1>1 DEF Answering, AtWork
  <2>2. IsFiniteSet(Answering(f, side))
    BY FS_Subset DEF Answering, AtWork
  <2>3. /\ succeeded[f][side] + Cardinality(Answering(f, side)) <= trades[f][side]
        /\ Cardinality(Answering(f, side)) \in Nat
        /\ succeeded[f][side] \in Nat /\ trades[f][side] \in Nat
    BY <2>2, FS_CardinalityType DEF TradesInv, TypeInv, TypeOK, Counts
  <2>. QED BY <2>1, <2>3, FS_EmptySet
<1>4. TradesInv'
  BY <1>1, <1>3 DEF TradesInv
<1>. QED BY <1>2, <1>4

\* Nothing has been traded at the start.
LEMMA InitBook ==
  ASSUME Init
  PROVE  TradesInv /\ CalmBook
<1>1. \A j \in Jobs : job[j].at = "idle"
  BY DEF Init, Idle
<1>2. \A f, side : Cardinality(Answering(f, side)) = 0 /\ Cardinality(Inserting(f, side)) = 0
  <2>1. \A f, side : Answering(f, side) = {} /\ Inserting(f, side) = {}
    BY <1>1 DEF Answering, Inserting, AtWork
  <2>. QED BY <2>1, FS_EmptySet
<1>3. \A f \in Followers, side \in Sides :
         /\ succeeded[f][side] = 0 /\ trades[f][side] = 0 /\ executed[f][side] = 0
         /\ Quantity(book[f], side) = 0
  BY DEF Init, Nothing, Quantity, NoDoc
<1>4. TradesInv
  BY <1>2, <1>3 DEF TradesInv
<1>5. CalmBook
  BY <1>1, <1>2, <1>3 DEF CalmBook
<1>. QED BY <1>4, <1>5

\* What the invariants of the book come to.
LEMMA TradesSaved ==
  ASSUME TypeInv, TradesInv
  PROVE  TradesAreSaved
<1>. SUFFICES ASSUME NEW f \in Followers, NEW side \in Sides
              PROVE  /\ succeeded[f][side] <= trades[f][side]
                     /\ mode # "failing" => executed[f][side] = trades[f][side] +
                           Cardinality({j \in Jobs : /\ job[j].at = "insert" /\ Follower(j) = f
                                                     /\ job[j].side = side})
  BY DEF TradesAreSaved
<1>1. Inserting(f, side) = {j \in Jobs : /\ job[j].at = "insert" /\ Follower(j) = f
                                         /\ job[j].side = side}
  BY DEF Inserting, AtWork
<1>2. Cardinality(Answering(f, side)) \in Nat
  BY FS_Subset, FS_CardinalityType DEF Answering, AtWork
<1>3. succeeded[f][side] \in Nat /\ trades[f][side] \in Nat
  BY DEF TypeInv, TypeOK, Counts
<1>4. /\ succeeded[f][side] + Cardinality(Answering(f, side)) <= trades[f][side]
      /\ mode # "failing" =>
            executed[f][side] = trades[f][side] + Cardinality(Inserting(f, side))
  BY DEF TradesInv
<1>5. succeeded[f][side] <= trades[f][side]
  BY <1>2, <1>3, <1>4
<1>. QED BY <1>1, <1>4, <1>5

\* While all is calm the documents at rest count the trades.
LEMMA BookFollows ==
  ASSUME TypeInv, CalmBook
  PROVE  BookFollowsTrades
<1>. SUFFICES ASSUME mode = "calm", Resting, NEW f \in Followers, book[f].state = "NONE"
              PROVE  book[f].long = Qty * trades[f]["LONG"] /\ book[f].short = Qty * trades[f]["SHORT"]
  BY DEF BookFollowsTrades
<1>1. \A side \in Sides : Cardinality(Answering(f, side)) = 0
  <2>1. \A side \in Sides : Answering(f, side) = {}
    BY DEF Answering, AtWork, Resting
  <2>. QED BY <2>1, FS_EmptySet
<1>2. book[f] \in Docs /\ \A side \in Sides : trades[f][side] \in Nat
  BY DEF TypeInv, TypeOK, Counts
<1>3. "LONG" \in Sides /\ "SHORT" \in Sides
  BY DEF Sides
<1>. QED BY <1>1, <1>2, <1>3 DEF CalmBook, Quantity, Docs, Qty

-----------------------------------------------------------------------------
(* The account, while all is calm *)

\* Nothing waits at TWS, and the account owes no more than it has.
CalmQuiet ==
    /\ CalmHeld /\ working = Zero /\ exercising = Zero
    /\ held["bought"] + held["sold"] >= 0

\* The same as CalmAccount when only j is at work.
CalmAt(j) ==
    /\ CalmHeld /\ CalmJob(j)
    /\ exercising # Zero => job[j].at = "mark"
    /\ working # Zero => job[j].at = "order"
    /\ job[j].at # "order" => held["bought"] - exercising["bought"] + held["sold"] >= 0

\* Nothing is nothing of each option.
LEMMA ZeroIsZero ==
  ASSUME NEW qty \in [Keys -> Int]
  PROVE  /\ qty = Zero <=> qty["bought"] = 0 /\ qty["sold"] = 0
         /\ \A k \in Keys : Zero[k] = 0
BY DEF Zero, Keys

\* Only a close and an exercise leave something waiting at TWS.
LEMMA CalmIsQuiet ==
  ASSUME TypeInv, NEW j \in Jobs, CalmAt(j), job[j].at \notin {"order", "mark"}
  PROVE  CalmQuiet
<1>1. working = Zero /\ exercising = Zero
  BY DEF CalmAt
<1>2. exercising["bought"] = 0 /\ held \in [Keys -> Int]
  BY <1>1 DEF TypeInv, TypeOK, Zero, Keys
<1>3. held["bought"] \in Int /\ held["sold"] \in Int
  BY <1>2 DEF Keys
<1>. QED BY <1>1, <1>2, <1>3 DEF CalmAt, CalmQuiet

\* In a quiet account it is enough that the job is calm,
LEMMA QuietIsCalm ==
  ASSUME held \in [Keys -> Int], NEW j \in Jobs, CalmQuiet, CalmJob(j)
  PROVE  CalmAt(j)
<1>1. exercising["bought"] = 0
  BY DEF CalmQuiet, Zero, Keys
<1>2. held["bought"] \in Int /\ held["sold"] \in Int
  BY DEF Keys
<1>. QED BY <1>1, <1>2 DEF CalmAt, CalmQuiet

\* after a step as well.
LEMMA QuietIsCalmNext ==
  ASSUME NEW j \in Jobs
  PROVE  (held \in [Keys -> Int])' /\ CalmQuiet' /\ CalmJob(j)' => CalmAt(j)'
<1>1. held \in [Keys -> Int] /\ CalmQuiet /\ CalmJob(j) => CalmAt(j)
  BY QuietIsCalm
<1>. QED BY <1>1, PTL

\* The states in which a job has read nothing of the account.
AwayAts == {"idle", "place", "insert", "load", "save", "mark", "price"}

\* A job is calm when it gives its follower up or is away.
LEMMA GivesUpCalm ==
  ASSUME NEW j \in Jobs, GivesUp(j), CalmQuiet', (held \in [Keys -> Int])'
  PROVE  CalmAt(j)'
<1>1. CalmJob(j)'
  BY DEF GivesUp, CalmJob, CheckAts
<1>. QED BY <1>1, QuietIsCalmNext

\* A job that is away has read nothing.
LEMMA AwayCalm ==
  ASSUME NEW j \in Jobs, job'[j].at \in AwayAts \ {"mark"}, CalmQuiet', (held \in [Keys -> Int])'
  PROVE  CalmAt(j)'
<1>1. CalmJob(j)'
  BY DEF AwayAts, CalmJob, CheckAts
<1>. QED BY <1>1, QuietIsCalmNext

\* It is when it connects.
LEMMA ConnectCalm ==
  ASSUME NEW j \in Jobs, job'[j].at \in ConnectAts, job'[j].doc = NoDoc, job'[j].left = Zero,
         CalmQuiet', (held \in [Keys -> Int])'
  PROVE  CalmAt(j)'
<1>1. CalmJob(j)'
  BY DEF ConnectAts, CalmJob, CheckAts
<1>. QED BY <1>1, QuietIsCalmNext

\* A close that reads what is held stays with it, and ends with nothing.
LEMMA CloseNextCalm ==
  ASSUME TypeInv, mode = "calm", CalmHeld, working = Zero, exercising = Zero,
         NEW j \in Jobs, NEW c \in Clients, job[j].todo # <<>>,
         job[j].kind = "close", CloseNext(j, c, TRUE, held), session' = c,
         UNCHANGED <<held, exercising>>
  PROVE  CalmAt(j)'
<1>1. JobInv /\ held \in [Keys -> Int] /\ job \in [Jobs -> JobType]
  BY DEF TypeInv, TypeOK, JobInv
<1>2. CASE NextFollower(j) /\ held = Zero /\ flat' = flat \union {held} /\ UNCHANGED working
  <2>1. held["bought"] = 0 /\ held["sold"] = 0
    BY <1>2 DEF Zero, Keys
  <2>2. CalmQuiet'
    BY <1>2, <2>1 DEF CalmQuiet, CalmHeld
  <2>. QED BY <1>1, <1>2, <2>2, GivesUpJob, GivesUpCalm
<1>3. CASE PlaceMarketOrder(j, c, held) /\ UNCHANGED flat
  <2>1. PICK k \in Keys : /\ held[k] # 0
                          /\ working' = [working EXCEPT ![k] = @ - held[k]]
                          /\ job' = [job EXCEPT ![j].at = "order", ![j].client = c,
                                                ![j].left = [held EXCEPT ![k] = 0]]
    BY <1>3 DEF PlaceMarketOrder
  <2>2. /\ job'[j].at = "order" /\ job'[j].client = c /\ job'[j].left = [held EXCEPT ![k] = 0]
    BY <1>1, <2>1 DEF JobType
  <2>3. \A key \in Keys : working[key] = 0
    BY DEF Zero
  <2>4. working \in [Keys -> Int]
    BY DEF TypeInv, TypeOK
  <2>5. \A key \in Keys : IF job'[j].left[key] = 0 THEN held[key] = -working'[key]
                          ELSE held[key] = job'[j].left[key] /\ working'[key] = 0
    <3>1. \A key \in Keys : /\ held[key] \in Int
                            /\ job'[j].left[key] = IF key = k THEN 0 ELSE held[key]
                            /\ working'[key] = IF key = k THEN -held[key] ELSE 0
      BY <1>1, <2>1, <2>2, <2>3, <2>4
    <3>. QED BY <3>1
  <2>6. CalmJob(j)'
    BY <2>2, <2>5 DEF CalmJob, CheckAts
  <2>7. exercising' = Zero /\ CalmHeld'
    BY <1>3 DEF CalmHeld
  <2>. QED BY <2>2, <2>6, <2>7 DEF CalmAt
<1>. QED BY <1>2, <1>3 DEF CloseNext, Fails

\* A job that has read nothing yet uses its connected client.
LEMMA UseCalm ==
  ASSUME TypeInv, mode = "calm", CalmQuiet, NEW j \in Jobs, NEW c \in Clients,
         job[j].todo # <<>>, job[j].doc = NoDoc, job[j].left = Zero,
         Use(j, c), session' = c, UNCHANGED held
  PROVE  CalmAt(j)'
<1>1. JobInv /\ held \in [Keys -> Int] /\ job \in [Jobs -> JobType] /\ (held \in [Keys -> Int])'
  BY DEF TypeInv, TypeOK, JobInv
<1>2. ASSUME UNCHANGED <<working, exercising, flat>> PROVE CalmQuiet'
  BY <1>2 DEF CalmQuiet, CalmHeld
<1>3. CASE UseForSignal(j, c)
  <2>1. CASE NextFollower(j)
    BY <1>1, <1>2, <1>3, <2>1, GivesUpJob, GivesUpCalm DEF UseForSignal
  <2>2. CASE job' = [job EXCEPT ![j].at = "place", ![j].client = c]
    <3>1. job'[j].at = "place"
      BY <1>1, <2>2 DEF JobType
    <3>. QED BY <1>1, <1>2, <1>3, <3>1, AwayCalm DEF UseForSignal, AwayAts
  <2>. QED BY <1>3, <2>1, <2>2 DEF UseForSignal
<1>4. CASE job[j].kind = "close" /\ UseForClose(j, c)
  BY <1>4, CloseNextCalm DEF UseForClose, CalmQuiet
<1>5. CASE job[j].kind = "check" /\ UseForCheck(j, c)
  <2>1. /\ job'[j].at = "find" /\ job'[j].left = Zero /\ job'[j].client = c
        /\ job'[j].doc.long = Long(held) /\ job'[j].doc.short = Short(held)
    <3>1. job'[j].at = "find" /\ job'[j].left = job[j].left
          /\ job'[j].doc = [state |-> AssignmentState(held), long |-> Long(held), short |-> Short(held)]
      BY <1>1, <1>5, UseCheckJob
    <3>2. job'[j].client = c
      BY <1>1, <1>5 DEF UseForCheck, JobType
    <3>. QED BY <3>1, <3>2
  <2>2. Long(held) = held["bought"] /\ Short(held) = -held["sold"]
    <3>1. held["bought"] \in Int /\ held["sold"] \in Int
      BY <1>1 DEF Keys
    <3>. QED BY <3>1 DEF CalmQuiet, CalmHeld, Long, Short, Positive
  <2>3. CalmJob(j)'
    BY <2>1, <2>2 DEF CalmJob, CheckAts
  <2>. QED BY <1>1, <1>2, <1>5, <2>3, QuietIsCalmNext DEF UseForCheck
<1>6. CASE job[j].kind = "watch" /\ UseForWatch(j, c)
  <2>1. CASE NextFollower(j)
    BY <1>1, <1>2, <1>6, <2>1, GivesUpJob, GivesUpCalm DEF UseForWatch
  <2>2. CASE job' = [job EXCEPT ![j].at = "price", ![j].client = c, ![j].left = held]
    <3>1. job'[j].at = "price"
      BY <1>1, <2>2 DEF JobType
    <3>. QED BY <1>1, <1>2, <1>6, <3>1, AwayCalm DEF UseForWatch, AwayAts
  <2>. QED BY <1>6, <2>1, <2>2 DEF UseForWatch
<1>. QED BY <1>3, <1>4, <1>5, <1>6 DEF Use, Exercises

\* A new client connects for a job that has read nothing.
LEMMA NewClientCalm ==
  ASSUME TypeInv, NEW j \in Jobs, CalmQuiet', (held \in [Keys -> Int])', job[j].todo # <<>>,
         job[j].doc = NoDoc, job[j].left = Zero,
         NEW clients \in [Followers -> Clients \union {NoClient}], NewClient(j, clients)
  PROVE  CalmAt(j)'
<1>1. GivesUp(j) \/ /\ job'[j].at \in ConnectAts
                    /\ job'[j].doc = NoDoc /\ job'[j].left = Zero
  BY NewClientJob DEF GoesOn, ConnectAts
<1>. QED BY <1>1, GivesUpCalm, ConnectCalm

\* What the account is stays, when nothing of it changes.
LEMMA SameQuiet ==
  ASSUME TypeInv, CalmQuiet, UNCHANGED <<held, working, exercising, flat>>
  PROVE  CalmQuiet' /\ (held \in [Keys -> Int])'
BY DEF CalmQuiet, CalmHeld, TypeInv, TypeOK

\* get_client(), for a job that has read nothing.
LEMMA GetClientCalm ==
  ASSUME TypeInv, mode = "calm", CalmQuiet, NEW j \in Jobs, job[j].todo # <<>>,
         job[j].doc = NoDoc, job[j].left = Zero, GetClient(j), UNCHANGED <<held, session>>
  PROVE  CalmAt(j)'
<1>1. JobInv /\ stored[Follower(j)] \in Clients \union {NoClient}
      /\ stored \in [Followers -> Clients \union {NoClient}]
  BY JobHasFollower DEF TypeInv, TypeOK
<1>2. CASE /\ stored[Follower(j)] \in Clients /\ session = stored[Follower(j)]
           /\ Use(j, stored[Follower(j)])
  <2>1. PICK c \in Clients : Use(j, c) /\ session' = c
    BY <1>2
  <2>. QED BY <2>1, UseCalm
<1>3. ASSUME UNCHANGED <<working, exercising, flat>>
      PROVE  CalmQuiet' /\ (held \in [Keys -> Int])'
  BY <1>3, SameQuiet
<1>4. CASE stored[Follower(j)] # NoClient /\ Reconnect(j) /\ UNCHANGED <<working, exercising, flat>>
  <2>1. job'[j].at \in ConnectAts /\ job'[j].doc = NoDoc /\ job'[j].left = Zero
    BY <1>4, ReconnectJob DEF GoesOn, ConnectAts
  <2>. QED BY <1>3, <1>4, <2>1, ConnectCalm
<1>5. CASE NewClient(j, stored) /\ UNCHANGED <<working, exercising, flat>>
  BY <1>1, <1>3, <1>5, NewClientCalm
<1>. QED BY <1>1, <1>2, <1>4, <1>5 DEF GetClient, Fails

\* The next follower, while all is calm.
LEMMA TakeFollowerCalm ==
  ASSUME TypeInv, mode = "calm", NEW j \in Jobs, CalmAt(j), TakeFollower(j)
  PROVE  CalmAt(j)'
<1>1. /\ CalmQuiet /\ job[j].doc = NoDoc /\ job[j].left = Zero /\ UNCHANGED <<held, session>>
  BY CalmIsQuiet DEF TakeFollower, CalmAt, CalmJob
<1>2. CASE job' = [job EXCEPT ![j] = Idle] /\ UNCHANGED <<working, exercising, flat>>
  <2>1. job'[j].at = "idle"
    BY <1>2 DEF Idle, TypeInv, JobInv
  <2>. QED BY <1>1, <1>2, <2>1, SameQuiet, AwayCalm DEF AwayAts
<1>3. CASE job[j].todo # <<>> /\ GetClient(j)
  BY <1>1, <1>3, GetClientCalm
<1>. QED BY <1>2, <1>3 DEF TakeFollower

\* A connection ends, while all is calm.
LEMMA ConnectEndsCalm ==
  ASSUME TypeInv, mode = "calm", NEW j \in Jobs, CalmAt(j), ConnectEnds(j)
  PROVE  CalmAt(j)'
<1>1. /\ CalmQuiet /\ job[j].doc = NoDoc /\ job[j].left = Zero /\ UNCHANGED held
      /\ JobInv /\ job[j].todo # <<>> /\ job[j].client \in Clients
  BY CalmIsQuiet, WaitsForFollower DEF ConnectEnds, CalmAt, CalmJob, JobOK, JobType
<1>2. CASE session' = job[j].client /\ Use(j, job[j].client)
  <2>1. PICK c \in Clients : Use(j, c) /\ session' = c
    BY <1>1, <1>2
  <2>. QED BY <1>1, <2>1, UseCalm
<1>3. CASE (NextFollower(j) \/ ReplaceClient(j)) /\ UNCHANGED <<working, exercising, flat>>
  <2>1. CalmQuiet' /\ (held \in [Keys -> Int])'
    BY <1>1, <1>3, SameQuiet
  <2>2. [stored EXCEPT ![Follower(j)] = NoClient] \in [Followers -> Clients \union {NoClient}]
    BY DEF TypeInv, TypeOK
  <2>3. NewClient(j, [stored EXCEPT ![Follower(j)] = NoClient]) => CalmAt(j)'
    BY <1>1, <2>1, <2>2, NewClientCalm
  <2>4. NextFollower(j) => CalmAt(j)'
    BY <1>1, <2>1, GivesUpJob, GivesUpCalm
  <2>. QED BY <1>3, <2>3, <2>4 DEF ReplaceClient
<1>. QED BY <1>2, <1>3 DEF ConnectEnds

\* A spread buys as many options as it sells.
LEMMA SignalCalm ==
  ASSUME TypeInv, mode = "calm", NEW j \in Jobs, CalmAt(j),
         Placed(j) \/ SaveTrade(j) \/ LoadPosition(j) \/ SavePosition(j)
  PROVE  CalmAt(j)'
<1>1. /\ CalmQuiet /\ JobInv /\ job[j].todo # <<>> /\ held \in [Keys -> Int]
      /\ job \in [Jobs -> JobType]
  BY CalmIsQuiet, WaitsForFollower
  DEF Placed, SaveTrade, LoadPosition, SavePosition, TypeInv, TypeOK, JobInv
<1>2. job'[j].at \in {"insert", "load", "save"} \/ NextFollower(j)
  BY <1>1 DEF Placed, SaveTrade, LoadPosition, SavePosition, Processed, JobType
<1>3. CalmQuiet' /\ (held \in [Keys -> Int])'
  <2>1. CASE Placed(j)
    <3>1. PICK bought \in 0..Qty :
             held' = [held EXCEPT !["bought"] = @ + bought, !["sold"] = @ - bought]
      BY <2>1, SpreadBought
    <3>2. held["bought"] \in Int /\ held["sold"] \in Int
      BY <1>1 DEF Keys
    <3>3. held'["bought"] = held["bought"] + bought /\ held'["sold"] = held["sold"] - bought
          /\ held' \in [Keys -> Int]
      BY <1>1, <3>1, <3>2 DEF Keys, Qty
    <3>4. UNCHANGED <<working, exercising, flat>>
      BY <2>1 DEF Placed
    <3>. QED BY <1>1, <3>2, <3>3, <3>4 DEF CalmQuiet, CalmHeld, Qty
  <2>2. CASE SaveTrade(j) \/ LoadPosition(j) \/ SavePosition(j)
    BY <1>1, <2>2, SameQuiet DEF SaveTrade, LoadPosition, SavePosition, twsVars, historyVars
  <2>. QED BY <2>1, <2>2
<1>4. CASE job'[j].at \in {"insert", "load", "save"}
  BY <1>3, <1>4, AwayCalm DEF AwayAts
<1>5. CASE NextFollower(j)
  BY <1>1, <1>3, <1>5, GivesUpJob, GivesUpCalm
<1>. QED BY <1>2, <1>4, <1>5

\* When TWS is done with the orders of a close, what is left is what is held.
LEMMA OrderDoneCalm ==
  ASSUME TypeInv, mode = "calm", NEW j \in Jobs, CalmAt(j), OrderDone(j)
  PROVE  CalmAt(j)'
<1>1. /\ JobInv /\ job[j].todo # <<>> /\ job[j].kind = "close" /\ job[j].at = "order"
      /\ job[j].client \in Clients /\ job[j].left \in [Keys -> Int] /\ held \in [Keys -> Int]
      /\ session = job[j].client
  BY WaitsForFollower DEF OrderDone, JobOK, JobType, TypeInv, TypeOK, CalmAt, CalmJob
<1>2. working = Zero /\ exercising = Zero /\ UNCHANGED <<held, exercising, session>>
  BY DEF OrderDone, Settled, clientVars
<1>3. \A k \in Keys : job[j].left[k] = held[k]
  <2>1. \A k \in Keys : working[k] = 0 /\ held[k] \in Int
    BY <1>1, <1>2 DEF Zero
  <2>2. \A k \in Keys : IF job[j].left[k] = 0 THEN held[k] = -working[k]
                        ELSE held[k] = job[j].left[k] /\ working[k] = 0
    BY <1>1 DEF CalmAt, CalmJob
  <2>. QED BY <2>1, <2>2
<1>4. job[j].left = held
  BY <1>1, <1>3
<1>5. PICK c \in Clients : c = job[j].client
  BY <1>1
<1>6. CloseNext(j, c, TRUE, held) /\ session' = c
  BY <1>1, <1>2, <1>4, <1>5 DEF OrderDone
<1>. QED BY <1>1, <1>2, <1>6, CloseNextCalm DEF CalmAt

\* What a check has read is still so when its document is there.
LEMMA FindPositionCalm ==
  ASSUME TypeInv, mode = "calm", NEW j \in Jobs, CalmAt(j), FindPosition(j)
  PROVE  CalmAt(j)'
<1>1. /\ CalmQuiet /\ JobInv /\ job[j].todo # <<>> /\ job \in [Jobs -> JobType]
  BY CalmIsQuiet, WaitsForFollower DEF FindPosition, TypeInv, JobInv
<1>2. UNCHANGED <<held, working, exercising, flat, session>>
  BY DEF FindPosition, twsVars, clientVars, historyVars
<1>3. CalmQuiet' /\ (held \in [Keys -> Int])'
  BY <1>1, <1>2, SameQuiet
<1>4. CASE NextFollower(j)
  BY <1>1, <1>3, <1>4, GivesUpJob, GivesUpCalm
<1>5. CASE job' = [job EXCEPT ![j].at = "flag"]
  <2>1. /\ job'[j].at = "flag" /\ job'[j].client = job[j].client
        /\ job'[j].left = job[j].left /\ job'[j].doc = job[j].doc
    BY <1>1, <1>5 DEF JobType
  <2>2. CalmJob(j)'
    BY <1>2, <2>1 DEF FindPosition, CalmAt, CalmJob, CheckAts
  <2>. QED BY <1>3, <2>2, QuietIsCalmNext
<1>. QED BY <1>4, <1>5 DEF FindPosition

\* The exercise chosen leaves at least as many options bought as sold.
LEMMA FlagAssignedCalm ==
  ASSUME TypeInv, mode = "calm", NEW j \in Jobs, CalmAt(j), FlagAssigned(j)
  PROVE  CalmAt(j)'
<1>1. /\ CalmQuiet /\ JobInv /\ job[j].todo # <<>> /\ job \in [Jobs -> JobType]
      /\ held \in [Keys -> Int] /\ session = job[j].client /\ job[j].left = Zero
      /\ job[j].doc.long = held["bought"] /\ job[j].doc.short = -held["sold"]
      /\ job[j].doc.short < job[j].doc.long
  <2>1. job[j].at = "flag" /\ JobOK(job[j]) /\ CalmJob(j)
    BY WaitsForFollower DEF FlagAssigned, CalmAt
  <2>2. job[j].kind = "check" /\ job[j].doc.state = "ASSIGNED"
    BY <2>1 DEF JobOK, CheckAts
  <2>3. job[j].doc.short < job[j].doc.long
    BY <2>1, <2>2 DEF JobOK
  <2>. QED BY <2>1, <2>3, CalmIsQuiet, WaitsForFollower DEF CalmJob, CheckAts, TypeInv, TypeOK, JobInv
<1>2. UNCHANGED <<held, working, exercising, flat, session>>
  BY DEF FlagAssigned, twsVars, historyVars
<1>3. CalmQuiet' /\ (held \in [Keys -> Int])'
  BY <1>1, <1>2, SameQuiet
<1>4. CASE NextFollower(j)
  BY <1>1, <1>3, <1>4, GivesUpJob, GivesUpCalm
<1>5. ASSUME NEW k \in Keys, held[k] > 0,
             job' = [job EXCEPT ![j].at = "exercise",
                                ![j].left[k] = ExerciseQty(Missing(job[j].doc), held[k])]
      PROVE  CalmAt(j)'
  <2>1. held["bought"] \in Int /\ held["sold"] \in Int /\ held["sold"] <= 0
    BY <1>1 DEF Keys, CalmQuiet, CalmHeld
  <2>2. k = "bought"
    BY <1>5, <2>1 DEF Keys
  <2>3. /\ job'[j].at = "exercise" /\ job'[j].client = job[j].client
        /\ job'[j].left = [Zero EXCEPT !["bought"] =
                             ExerciseQty(Missing(job[j].doc), held["bought"])]
    BY <1>1, <1>5, <2>2 DEF JobType
  <2>4. /\ job'[j].left["sold"] = 0
        /\ job'[j].left["bought"] = ExerciseQty(Missing(job[j].doc), held["bought"])
    BY <2>3 DEF Zero, Keys
  <2>5. held["bought"] - job'[j].left["bought"] + held["sold"] >= 0
    BY <1>1, <2>1, <2>4 DEF ExerciseQty, Missing
  <2>6. CalmJob(j)'
    BY <1>1, <1>2, <2>3, <2>4, <2>5 DEF CalmJob, CheckAts
  <2>. QED BY <1>3, <2>6, QuietIsCalmNext
<1>. QED BY <1>1, <1>4, <1>5 DEF FlagAssigned, ChooseExercise

\* Options are exercised with the client that is stored and connected.
LEMMA ExerciseCalm ==
  ASSUME TypeInv, SessionStored, mode = "calm", NEW j \in Jobs, CalmAt(j), Exercise(j)
  PROVE  CalmAt(j)'
<1>1. /\ CalmQuiet /\ job[j].todo # <<>> /\ job[j].at = "exercise" /\ Follower(j) \in Followers
      /\ job[j].client # NoClient /\ job[j].kind = "check" /\ job[j].doc.state = "ASSIGNED"
      /\ job[j].left \in [Keys -> Nat] /\ session = job[j].client /\ CalmJob(j)
      /\ job \in [Jobs -> JobType] /\ held \in [Keys -> Int]
  <2>1. job[j].at = "exercise" /\ JobOK(job[j]) /\ CalmJob(j)
    BY WaitsForFollower DEF Exercise, CalmAt
  <2>2. job[j].client # NoClient /\ job[j].kind = "check" /\ session = job[j].client
    BY <2>1 DEF JobOK, CheckAts, CalmJob
  <2>3. job[j].left \in [Keys -> Nat] /\ job[j].doc.state = "ASSIGNED"
    BY <2>1, <2>2 DEF JobOK
  <2>. QED BY <2>1, <2>2, <2>3, CalmIsQuiet, WaitsForFollower DEF TypeInv, TypeOK, JobInv
<1>2. stored[Follower(j)] = job[j].client /\ Exercises(j)
  <2>1. stored[Follower(j)] = job[j].client
    BY <1>1 DEF SessionStored
  <2>2. job[j].doc # NoDoc
    BY <1>1 DEF NoDoc
  <2>. QED BY <1>1, <2>1, <2>2 DEF Exercises
<1>3. UseForExercise(j, job[j].client) /\ UNCHANGED <<held, session>>
  BY <1>1, <1>2 DEF Exercise, GetClient, Use, Exercises
<1>4. /\ exercising' = [k \in Keys |-> exercising[k] + job[j].left[k]]
      /\ job' = [job EXCEPT ![j].at = "mark", ![j].client = job[j].client,
                            ![j].doc.state = "COMPENSATED"]
      /\ UNCHANGED <<working, flat>>
  BY <1>3 DEF UseForExercise, Fails
<1>5. job'[j].at = "mark" /\ job'[j].client = job[j].client
  BY <1>1, <1>4 DEF JobType
<1>6. exercising'["sold"] = 0 /\ exercising'["bought"] = job[j].left["bought"]
  <2>1. job[j].left["sold"] = 0 /\ job[j].left["bought"] \in Nat
    BY <1>1 DEF CalmJob, Keys
  <2>2. exercising["sold"] = 0 /\ exercising["bought"] = 0
    BY <1>1 DEF CalmQuiet, Zero, Keys
  <2>. QED BY <1>4, <2>1, <2>2 DEF Keys
<1>7. CalmJob(j)'
  BY <1>1, <1>3, <1>5 DEF CalmJob, CheckAts
<1>8. CalmHeld' /\ working' = Zero
  BY <1>1, <1>3, <1>4, <1>6 DEF CalmQuiet, CalmHeld
<1>9. held'["bought"] - exercising'["bought"] + held'["sold"] >= 0
  BY <1>1, <1>3, <1>6 DEF CalmJob
<1>. QED BY <1>5, <1>7, <1>8, <1>9 DEF CalmAt

\* A compensation is marked once TWS has processed the exercise.
LEMMA MarkCompensatedCalm ==
  ASSUME TypeInv, mode = "calm", NEW j \in Jobs, CalmAt(j), MarkCompensated(j)
  PROVE  CalmAt(j)'
<1>1. /\ JobInv /\ job[j].todo # <<>> /\ working = Zero /\ exercising = Zero
      /\ NextFollower(j) /\ UNCHANGED <<held, working, exercising, flat>>
      /\ job[j].at = "mark"
  BY WaitsForFollower DEF MarkCompensated, Settled, twsVars, historyVars
<1>2. CalmQuiet
  <2>1. exercising["bought"] = 0 /\ held["bought"] \in Int /\ held["sold"] \in Int
    BY <1>1 DEF Zero, Keys, TypeInv, TypeOK
  <2>. QED BY <1>1, <2>1 DEF CalmAt, CalmQuiet
<1>. QED BY <1>1, <1>2, SameQuiet, GivesUpJob, GivesUpCalm

\* Prices do not touch the account.
LEMMA CheckTimeValueCalm ==
  ASSUME TypeInv, mode = "calm", NEW j \in Jobs, CalmAt(j), CheckTimeValue(j)
  PROVE  CalmAt(j)'
<1>1. /\ CalmQuiet /\ JobInv /\ job[j].todo # <<>> /\ job \in [Jobs -> JobType]
      /\ UNCHANGED <<held, working, exercising, flat>> /\ job[j].at = "price"
  BY CalmIsQuiet, WaitsForFollower DEF CheckTimeValue, twsVars, TypeInv, JobInv
<1>2. job'[j].at = "price" \/ NextFollower(j)
  BY <1>1 DEF CheckTimeValue, JobType
<1>3. CalmQuiet' /\ (held \in [Keys -> Int])'
  BY <1>1, SameQuiet
<1>4. CASE job'[j].at = "price"
  BY <1>3, <1>4, AwayCalm DEF AwayAts
<1>5. CASE NextFollower(j)
  BY <1>1, <1>3, <1>5, GivesUpJob, GivesUpCalm
<1>. QED BY <1>2, <1>4, <1>5

\* A step of a job while all is calm.
LEMMA JobStepCalm ==
  ASSUME TypeInv, SessionStored, CalmAccount, NEW j \in Jobs, JobStep(j)
  PROVE  CalmAccount'
<1>1. SUFFICES ASSUME mode = "calm", mode' = "calm" PROVE CalmAccount'
  BY JobStepWorks DEF CalmAccount
<1>2. \A i \in Jobs \ {j} : job'[i] = job[i] /\ job[i].at = "idle"
  BY <1>1, JobStepJob, JobStepWorks DEF OnlyJob, SessionStored, OneAtATime
<1>3. CalmAt(j)
  BY <1>1, <1>2 DEF CalmAccount, CalmAt
<1>4. ~Refreshed(j)
  BY <1>3 DEF Refreshed, CalmAt, CalmJob
<1>5. CalmAt(j)'
  BY <1>1, <1>3, <1>4, TakeFollowerCalm, ConnectEndsCalm, SignalCalm, OrderDoneCalm,
    FindPositionCalm, FlagAssignedCalm, ExerciseCalm, MarkCompensatedCalm, CheckTimeValueCalm
  DEF JobStep
<1>6. \A i \in Jobs \ {j} : CalmJob(i)'
  BY <1>2 DEF CalmJob, CheckAts
<1>. QED BY <1>5, <1>6 DEF CalmAccount, CalmAt

\* A job begins only when the others rest.
LEMMA BeginCalm ==
  ASSUME TypeInv, CalmAccount, NEW j \in Jobs, BeginJob(j)
  PROVE  CalmAccount'
<1>1. SUFFICES ASSUME mode = "calm", mode' = "calm" PROVE CalmAccount'
  BY BeginTypes DEF CalmAccount, Begins
<1>2. /\ \A i \in Jobs \ {j} : job'[i] = job[i] /\ job[i].at = "idle"
      /\ job[j].at = "idle" /\ job'[j].at = "next" /\ job'[j].doc = NoDoc /\ job'[j].left = Zero
      /\ UNCHANGED <<held, working, exercising, flat, session>>
  BY <1>1, BeginTypes DEF Begins, OnlyJob, Resting, clientVars, twsVars, historyVars
<1>3. \A i \in Jobs : CalmJob(i)'
  BY <1>2 DEF CalmJob, CheckAts
<1>4. working = Zero /\ exercising = Zero /\ CalmHeld
      /\ held["bought"] - exercising["bought"] + held["sold"] >= 0
  BY <1>1, <1>2 DEF CalmAccount
<1>. QED BY <1>2, <1>3, <1>4 DEF CalmAccount, CalmHeld

\* TWS fills what a close has ordered, takes what was exercised, and assigns
\* options only while no job is at work.
LEMMA TwsCalm ==
  ASSUME TypeInv, SessionStored, CalmAccount, Tws
  PROVE  CalmAccount'
<1>1. SUFFICES ASSUME mode = "calm", mode' = "calm" PROVE CalmAccount'
  BY TwsTypes DEF CalmAccount
<1>2. /\ UNCHANGED <<job, flat>> /\ \A i, j \in Jobs : i # j => job[i].at = "idle" \/ job[j].at = "idle"
      /\ \A k \in Keys : held[k] \in Int /\ working[k] \in Int /\ exercising[k] \in Nat
      /\ held \in [Keys -> Int] /\ working \in [Keys -> Int] /\ exercising \in [Keys -> Nat]
  BY <1>1, TwsTypes DEF SessionStored, OneAtATime, TypeInv, TypeOK
<1>3. /\ CalmHeld /\ \A j \in Jobs : CalmJob(j)
      /\ exercising # Zero => \E j \in Jobs : job[j].at = "mark"
      /\ working # Zero => \E j \in Jobs : job[j].at = "order"
      /\ (\A j \in Jobs : job[j].at # "order") =>
            held["bought"] - exercising["bought"] + held["sold"] >= 0
  BY <1>1 DEF CalmAccount
<1>4. ASSUME NEW k \in Keys, Fill(k) PROVE CalmAccount'
  <2>1. UNCHANGED <<session, exercising>> /\ working[k] # 0
    BY <1>4 DEF Fill, clientVars
  <2>2. PICK j \in Jobs : job[j].at = "order"
    BY <1>3, <2>1 DEF Zero
  <2>3. /\ \A i \in Jobs \ {j} : job[i].at = "idle"
        /\ \A key \in Keys : IF job[j].left[key] = 0 THEN held[key] = -working[key]
                             ELSE held[key] = job[j].left[key] /\ working[key] = 0
    BY <1>2, <1>3, <2>2 DEF CalmJob
  <2>4. job[j].left[k] = 0 /\ held[k] + working[k] = 0
    BY <1>2, <2>1, <2>3
  <2>5. \A key \in Keys : /\ held'[key] = IF key = k THEN 0 ELSE held[key]
                          /\ working'[key] = IF key = k THEN 0 ELSE working[key]
    BY <1>2, <1>4, <2>4 DEF Fill
  <2>6. CalmHeld'
    BY <1>2, <1>3, <2>1, <2>5 DEF CalmHeld, Keys
  <2>7. \A key \in Keys : IF job[j].left[key] = 0 THEN held'[key] = -working'[key]
                          ELSE held'[key] = job[j].left[key] /\ working'[key] = 0
    BY <2>3, <2>4, <2>5
  <2>8. CalmJob(j)
    BY <1>3
  <2>9. CalmJob(j)'
    BY <1>2, <2>1, <2>2, <2>7, <2>8 DEF CalmJob, CheckAts
  <2>10. \A i \in Jobs \ {j} : CalmJob(i)'
    BY <1>2, <2>3 DEF CalmJob, CheckAts
  <2>11. exercising = Zero
    BY <1>3, <2>2, <2>3
  <2>. QED BY <1>2, <2>1, <2>2, <2>6, <2>9, <2>10, <2>11 DEF CalmAccount
<1>5. ASSUME NEW k \in Keys, ProcessExercise(k) PROVE CalmAccount'
  <2>1. UNCHANGED <<session, working>> /\ exercising[k] > 0
    BY <1>5 DEF ProcessExercise, clientVars
  <2>2. PICK j \in Jobs : job[j].at = "mark"
    BY <1>2, <1>3, <2>1 DEF Zero
  <2>3. \A i \in Jobs \ {j} : job[i].at = "idle"
    BY <1>2, <2>2
  <2>4. k = "bought" /\ held["sold"] <= 0 /\ held["bought"] >= exercising["bought"]
        /\ held["bought"] - exercising["bought"] + held["sold"] >= 0
    <3>1. k = "bought"
      BY <1>3, <2>1 DEF CalmHeld, Keys
    <3>2. held["bought"] - exercising["bought"] + held["sold"] >= 0
      BY <1>3, <2>2, <2>3
    <3>3. held["bought"] \in Int /\ held["sold"] \in Int /\ exercising["bought"] \in Nat
      BY <1>2 DEF Keys
    <3>. QED BY <1>3, <3>1, <3>2, <3>3 DEF CalmHeld
  <2>5. /\ held'["bought"] = held["bought"] - exercising["bought"] /\ held'["sold"] = held["sold"]
        /\ exercising'["bought"] = 0 /\ exercising'["sold"] = 0
    <3>1. held["bought"] \in Int /\ exercising["bought"] \in Nat
      BY <1>2 DEF Keys
    <3>2. held["bought"] - exercising["bought"] =
             IF held["bought"] > exercising["bought"] THEN held["bought"] - exercising["bought"]
             ELSE IF held["bought"] > 0 THEN 0 ELSE held["bought"]
      BY <2>4, <3>1
    <3>3. /\ held' = [held EXCEPT !["bought"] =
                        IF held["bought"] > exercising["bought"]
                        THEN held["bought"] - exercising["bought"]
                        ELSE IF held["bought"] > 0 THEN 0 ELSE held["bought"]]
          /\ exercising' = [exercising EXCEPT !["bought"] = 0]
      BY <1>5, <2>4 DEF ProcessExercise
    <3>. QED BY <1>2, <1>3, <3>2, <3>3 DEF Keys, CalmHeld
  <2>6. held["bought"] \in Int /\ held["sold"] \in Int /\ exercising["bought"] \in Nat
    BY <1>2 DEF Keys
  <2>7. CalmHeld' /\ held'["bought"] - exercising'["bought"] + held'["sold"] >= 0
    BY <1>2, <1>3, <2>4, <2>5, <2>6 DEF CalmHeld
  <2>8. \A i \in Jobs : CalmJob(i)'
    BY <1>2, <1>3, <2>1, <2>2, <2>3 DEF CalmJob, CheckAts
  <2>9. working = Zero
    BY <1>3, <2>2, <2>3
  <2>. QED BY <1>2, <2>1, <2>2, <2>7, <2>8, <2>9 DEF CalmAccount
<1>6. ASSUME NEW k \in Keys, Assign(k) PROVE CalmAccount'
  <2>1. /\ UNCHANGED <<session, working, exercising>> /\ held[k] < 0 /\ Resting
        /\ held' = [held EXCEPT ![k] = @ + 1]
    BY <1>1, <1>6 DEF Assign, clientVars
  <2>2. /\ k = "sold" /\ held'["sold"] = held["sold"] + 1 /\ held'["bought"] = held["bought"]
        /\ held["bought"] \in Int /\ held["sold"] \in Int /\ exercising["bought"] \in Nat
    BY <1>2, <1>3, <2>1 DEF CalmHeld, Keys
  <2>3. held["bought"] - exercising["bought"] + held["sold"] >= 0
    BY <1>3, <2>1 DEF Resting
  <2>4. CalmHeld' /\ held'["bought"] - exercising'["bought"] + held'["sold"] >= 0
    BY <1>2, <1>3, <2>1, <2>2, <2>3 DEF CalmHeld
  <2>5. \A i \in Jobs : CalmJob(i)'
    BY <1>2, <2>1 DEF CalmJob, CheckAts, Resting
  <2>. QED BY <1>2, <1>3, <2>1, <2>4, <2>5 DEF CalmAccount
<1>. QED BY <1>1, <1>4, <1>5, <1>6 DEF Tws, TwsStep, LoseSession, CancelOrder, Fails

\* Where the account, the session and the jobs stay, all stays calm.
LEMMA SameCalm ==
  ASSUME CalmAccount, UNCHANGED <<mode, job, session, held, working, exercising, flat>>
  PROVE  CalmAccount'
<1>1. CalmHeld' <=> CalmHeld
  BY DEF CalmHeld
<1>2. \A j \in Jobs : CalmJob(j)' <=> CalmJob(j)
  BY DEF CalmJob
<1>. QED BY <1>1, <1>2 DEF CalmAccount

\* At the start the account has spreads, one of them assigned at most.
LEMMA InitCalm ==
  ASSUME Init
  PROVE  CalmAccount
<1>1. PICK n \in Spreads, assigned \in {0, 1} : held = [bought |-> n, sold |-> assigned - n]
  BY DEF Init
<1>2. /\ held["bought"] >= 0 /\ held["sold"] <= 0 /\ held["bought"] + held["sold"] >= 0
      /\ held["bought"] \in Int /\ held["sold"] \in Int
  BY <1>1
<1>3. working = Zero /\ exercising = Zero /\ flat = {} /\ exercising["bought"] = 0 /\ exercising["sold"] = 0
  BY DEF Init, Zero, Keys
<1>4. \A j \in Jobs : job[j].at = "idle"
  BY DEF Init, Idle
<1>5. \A j \in Jobs : CalmJob(j)
  BY <1>4 DEF CalmJob, CheckAts
<1>. QED BY <1>2, <1>3, <1>5 DEF CalmAccount, CalmHeld

\* What the account comes to.
LEMMA CalmIsFlat ==
  ASSUME TypeInv, CalmAccount
  PROVE  CloseIsFlat /\ NeverNaked
<1>1. CloseIsFlat
  BY DEF CalmAccount, CalmHeld, CloseIsFlat
<1>2. ASSUME mode = "calm", Resting PROVE Short(held) <= Long(held)
  <2>1. exercising = Zero /\ held["sold"] <= 0 /\ held["bought"] >= 0
        /\ held["bought"] - exercising["bought"] + held["sold"] >= 0
    BY <1>2 DEF CalmAccount, CalmHeld, Resting
  <2>2. held["bought"] \in Int /\ held["sold"] \in Int /\ exercising["bought"] = 0
    BY <2>1 DEF Zero, Keys, TypeInv, TypeOK
  <2>. QED BY <2>1, <2>2 DEF Long, Short, Positive
<1>. QED BY <1>1, <1>2 DEF NeverNaked

-----------------------------------------------------------------------------
(* All of it *)

\* The invariant at the start,
LEMMA InitTrading == Init => TradingInv
BY InitTypes, InitSession, InitRisk, InitCompensated, InitBook, InitCalm DEF TradingInv

\* after a step of a job,
LEMMA JobStepTrading ==
  ASSUME TradingInv, NEW j \in Jobs, JobStep(j) PROVE TradingInv'
<1>1. TypeInv' /\ OwnClient' /\ SessionStored'
  BY JobStepTypes, JobStepOwnClient, JobStepStored DEF TradingInv
<1>2. WatchInv' /\ RiskStaysVisible' /\ DocInv' /\ CompensatedWasExercised'
  BY JobStepRisk, JobStepCompensated DEF TradingInv
<1>3. TradesInv' /\ CalmBook' /\ CalmAccount'
  BY JobStepTradesInv, JobStepCalmBook, JobStepCalm DEF TradingInv
<1>. QED BY <1>1, <1>2, <1>3 DEF TradingInv

\* after a job has begun,
LEMMA BeginTrading ==
  ASSUME TradingInv, NEW j \in Jobs, BeginJob(j) PROVE TradingInv'
<1>1. TypeInv' /\ OwnClient' /\ SessionStored'
  BY BeginTypes, BeginSession DEF TradingInv
<1>2. WatchInv' /\ RiskStaysVisible' /\ DocInv' /\ CompensatedWasExercised'
  BY BeginRisk, BeginCompensated DEF TradingInv
<1>3. TradesInv' /\ CalmBook' /\ CalmAccount'
  BY BeginBook, BeginCalm DEF TradingInv
<1>. QED BY <1>1, <1>2, <1>3 DEF TradingInv

\* after a step of TWS,
LEMMA TwsTrading ==
  ASSUME TradingInv, Tws PROVE TradingInv'
<1>1. TypeInv' /\ UNCHANGED <<mode, job, book, trades, tv, executed, succeeded, exercised, worst>>
  BY TwsTypes DEF TradingInv
<1>2. OwnClient' /\ SessionStored' /\ CalmAccount'
  BY TwsSession, TwsCalm DEF TradingInv
<1>3. WatchInv' /\ RiskStaysVisible' /\ DocInv' /\ CompensatedWasExercised'
  BY <1>1, SameRisk, SameCompensated DEF TradingInv
<1>4. TradesInv' /\ CalmBook'
  BY <1>1, SameBook DEF TradingInv
<1>. QED BY <1>1, <1>2, <1>3, <1>4 DEF TradingInv

\* A step that touches only the service, or lets a key of Redis expire.
LEMMA QuietTrading ==
  ASSUME TradingInv, TypeInv', UNCHANGED <<mode, job, clientVars, twsVars, book, trades, historyVars>>,
         \A f \in Followers : tv'[f] \in {tv[f], None}
  PROVE  TradingInv'
<1>1. OwnClient' /\ SessionStored'
  BY ServiceSession DEF TradingInv
<1>2. WatchInv' /\ RiskStaysVisible' /\ DocInv' /\ CompensatedWasExercised'
  BY SameRisk, SameCompensated DEF TradingInv, historyVars
<1>3. TradesInv' /\ CalmBook'
  BY SameBook DEF TradingInv, historyVars
<1>4. CalmAccount'
  BY SameCalm DEF TradingInv, clientVars, twsVars, historyVars
<1>. QED BY <1>1, <1>2, <1>3, <1>4 DEF TradingInv

\* after a step of the service,
LEMMA ServiceTrading ==
  ASSUME TradingInv, (\E f \in Followers : LoadFollower(f) \/ Expire(f)) \/ FinishLoading
  PROVE  TradingInv'
<1>1. /\ TypeInv' /\ UNCHANGED <<mode, job, clientVars, twsVars, book, trades, historyVars>>
  BY ServiceTypes DEF TradingInv
<1>2. \A f \in Followers : tv'[f] \in {tv[f], None}
  <2>1. tv \in [Followers -> Statuses \union {None}]
    BY DEF TradingInv, TypeInv, TypeOK
  <2>. QED BY <2>1 DEF LoadFollower, Expire, FinishLoading, bookVars
<1>. QED BY <1>1, <1>2, QuietTrading

\* after a restart,
LEMMA RestartTrading ==
  ASSUME TradingInv, Restart PROVE TradingInv'
<1>1. TypeInv' /\ OwnClient' /\ SessionStored' /\ WatchInv' /\ RiskStaysVisible' /\ DocInv'
      /\ CompensatedWasExercised' /\ TradesInv' /\ CalmBook'
  BY RestartTypes, RestartSession, RestartRisk, RestartCompensated, RestartBook DEF TradingInv
<1>2. mode' = "failing"
  BY DEF Restart, Fails
<1>3. CalmAccount'
  BY <1>2 DEF CalmAccount
<1>. QED BY <1>1, <1>3 DEF TradingInv

\* and after nothing.
LEMMA StutterTrading ==
  ASSUME TradingInv, UNCHANGED vars PROVE TradingInv'
<1>1. TypeInv' /\ UNCHANGED <<mode, job, clientVars, twsVars, book, trades, historyVars, tv>>
  BY StutterTypes DEF TradingInv, vars, bookVars
<1>. QED BY <1>1, QuietTrading

\* TradingInv is an inductive invariant of the managers.
THEOREM TradingInvariant == Spec => []TradingInv
<1>1. TradingInv /\ [Next]_vars => TradingInv'
  <2>. SUFFICES ASSUME TradingInv, [Next]_vars PROVE TradingInv'
    OBVIOUS
  <2>1. ASSUME NEW j \in Jobs, JobStep(j) PROVE TradingInv'
    BY <2>1, JobStepTrading
  <2>2. ASSUME NEW j \in Jobs, BeginJob(j) PROVE TradingInv'
    BY <2>2, BeginTrading
  <2>3. CASE Tws
    BY <2>3, TwsTrading
  <2>4. CASE (\E f \in Followers : LoadFollower(f) \/ Expire(f)) \/ FinishLoading
    BY <2>4, ServiceTrading
  <2>5. CASE Restart
    BY <2>5, RestartTrading
  <2>6. CASE UNCHANGED vars
    BY <2>6, StutterTrading
  <2>. QED BY <2>1, <2>2, <2>3, <2>4, <2>5, <2>6 DEF Next
<1>. QED BY InitTrading, <1>1, PTL DEF Spec

\* A job uses only clients made for its follower, and unless jobs overlap the
\* session that TWS has accepted is never an orphan: IBKRManager's get_client().
THEOREM SessionsKept == Spec => []SessionInv
<1>1. TradingInv => SessionInv
  BY StoredIsNoOrphan DEF TradingInv, TypeInv, SessionInv
<1>. QED BY TradingInvariant, <1>1, PTL

\* Trades are those executed, positions those of the trades, and a document that
\* says COMPENSATED is of a follower for whom options were exercised.
THEOREM BookKept == Spec => []BookInv
<1>1. TradingInv => BookInv
  BY TradesSaved, BookFollows DEF TradingInv, BookInv
<1>. QED BY TradingInvariant, <1>1, PTL

\* With one job at a time and a prompt TWS, a close that ends with SUCCESS leaves
\* no position, and no compensation leaves more options sold than bought.
THEOREM AccountKept == Spec => []AccountInv
<1>1. TradingInv => AccountInv
  BY CalmIsFlat DEF TradingInv, AccountInv
<1>. QED BY TradingInvariant, <1>1, PTL

\* Unless Redis fails, tv:<follower> says SAFE only if the last round of the time
\* value monitor found nothing else.
THEOREM RiskVisible == Spec => []RiskStaysVisible
<1>1. TradingInv => RiskStaysVisible
  BY DEF TradingInv
<1>. QED BY TradingInvariant, <1>1, PTL

HIDE SessionsAssumption
HIDE TradingAssumption

-----------------------------------------------------------------------------
(* The clock. *)

\* A multiple of a positive number is not between zero and it.
LEMMA Multiple ==
  \A q \in Int, n \in Nat \ {0} : /\ q * n \in Int
                                  /\ q >= 1 => q * n >= n
                                  /\ q <= -1 => q * n <= -n
  OBVIOUS

\* Products of days.
LEMMA Distribute ==
  \A a, b, n \in Int : (a - b) * n = a * n - b * n /\ (a + b) * n = a * n + b * n
  OBVIOUS

\* An instant is a day and a time of day, in one way.
LEMMA Clock ==
  ASSUME NEW t \in Int
  PROVE  /\ Day(t) \in Int /\ TimeOfDay(t) \in 0..DayLength-1
         /\ t = Day(t) * DayLength + TimeOfDay(t)
BY MarketHoursAssumption DEF Day, TimeOfDay, MarketHoursAssumption

\* Two days cannot share an instant.
LEMMA SameDay ==
  ASSUME NEW a \in Int, NEW b \in Int, NEW n \in Nat \ {0}, NEW x \in 0..n-1, NEW y \in 0..n-1,
         a * n + x = b * n + y
  PROVE  a = b /\ x = y
<1>. DEFINE c == a - b
<1>1. c \in Int /\ c * n = a * n - b * n
  BY Distribute
<1>2. a * n \in Int /\ b * n \in Int
  BY Multiple
<1>3. c * n = y - x
  <2>. HIDE DEF c
  <2>. QED BY <1>1, <1>2
<1>4. c * n < n /\ c * n > -n
  <2>. HIDE DEF c
  <2>. QED BY <1>3
<1>5. ~(c >= 1) /\ ~(c <= -1)
  <2>. HIDE DEF c
  <2>. QED BY <1>1, <1>4, Multiple
<1>6. a = b
  BY <1>1, <1>5
<1>. QED BY <1>2, <1>6

\* The day and the time of day of an instant given by both.
LEMMA ClockUnique ==
  ASSUME NEW d \in Int, NEW x \in 0..DayLength-1
  PROVE  Day(d * DayLength + x) = d /\ TimeOfDay(d * DayLength + x) = x
<1>. DEFINE t == d * DayLength + x
<1>1. DayLength \in Nat \ {0}
  BY MarketHoursAssumption DEF MarketHoursAssumption
<1>2. t \in Int
  BY <1>1, Multiple
<1>3. /\ Day(t) \in Int /\ TimeOfDay(t) \in 0..DayLength-1
      /\ t = Day(t) * DayLength + TimeOfDay(t)
  BY <1>2, Clock
<1>. HIDE DEF t
<1>4. d * DayLength + x = Day(t) * DayLength + TimeOfDay(t)
  BY <1>3 DEF t
<1>5. /\ Day(t) \in Int /\ DayLength \in Nat \ {0}
      /\ TimeOfDay(t) \in 0..DayLength-1 /\ x \in 0..DayLength-1
  BY <1>1, <1>3
<1>6. d = Day(t) /\ x = TimeOfDay(t)
  BY <1>4, <1>5, SameDay
<1>. QED BY <1>6 DEF t

\* Openings and closes against the time of day.
LEMMA OpensAt ==
  ASSUME NEW t \in Int
  PROVE  /\ MarketOpen(Day(t)) - t = OpenTime - TimeOfDay(t)
         /\ t - MarketOpen(Day(t)) = TimeOfDay(t) - OpenTime
         /\ t - MarketClose(Day(t)) = TimeOfDay(t) - CloseTime
         /\ MarketOpen(Day(t)) \in Int /\ MarketClose(Day(t)) \in Int
         /\ t > MarketOpen(Day(t)) <=> TimeOfDay(t) > OpenTime
         /\ IsMarketOpen(t) <=> /\ Weekday(Day(t)) \in MarketDays
                                /\ OpenTime <= TimeOfDay(t) /\ TimeOfDay(t) < CloseTime
<1>. DEFINE m == Day(t) * DayLength
            x == TimeOfDay(t)
<1>1. /\ DayLength \in Nat \ {0} /\ OpenTime \in Nat /\ CloseTime \in Nat
      /\ x \in 0..DayLength-1 /\ Day(t) \in Int /\ t = m + x
  BY MarketHoursAssumption, Clock DEF MarketHoursAssumption
<1>2. m \in Int
  BY <1>1, Multiple
<1>3. MarketOpen(Day(t)) = m + OpenTime /\ MarketClose(Day(t)) = m + CloseTime
  BY DEF MarketOpen, MarketClose
<1>. HIDE DEF m, x
<1>4. /\ MarketOpen(Day(t)) - t = OpenTime - x
      /\ t - MarketOpen(Day(t)) = x - OpenTime
      /\ t - MarketClose(Day(t)) = x - CloseTime
      /\ MarketOpen(Day(t)) \in Int /\ MarketClose(Day(t)) \in Int
      /\ t > MarketOpen(Day(t)) <=> x > OpenTime
      /\ MarketOpen(Day(t)) <= t <=> OpenTime <= x
      /\ t < MarketClose(Day(t)) <=> x < CloseTime
  BY <1>1, <1>2, <1>3
<1>. QED BY <1>4 DEF IsMarketOpen, x

\* The least of a set of integers.
LEMMA MinIs ==
  ASSUME NEW S \in SUBSET Int, NEW m \in S, \A y \in S : m <= y
  PROVE  Min(S) = m
<1>. DEFINE n == Min(S)
<1>1. n \in S /\ \A y \in S : n <= y
  BY DEF Min
<1>2. n <= m /\ m <= n /\ n \in Int /\ m \in Int
  BY <1>1
<1>. HIDE DEF n
<1>3. n = m
  BY <1>2
<1>. QED BY <1>3 DEF n

\* The greatest of a set of integers.
LEMMA MaxIs ==
  ASSUME NEW S \in SUBSET Int, NEW m \in S, \A y \in S : m >= y
  PROVE  Max(S) = m
<1>. DEFINE n == Max(S)
<1>1. n \in S /\ \A y \in S : n >= y
  BY DEF Max
<1>2. n >= m /\ m >= n /\ n \in Int /\ m \in Int
  BY <1>1
<1>. HIDE DEF n
<1>3. n = m
  BY <1>2
<1>. QED BY <1>3 DEF n

\* The lesser of two integers.
LEMMA MinOfTwo ==
  \A a, b \in Int : Min({a, b}) \in {a, b} /\ Min({a, b}) <= a /\ Min({a, b}) <= b
<1>. SUFFICES ASSUME NEW a \in Int, NEW b \in Int
              PROVE  Min({a, b}) \in {a, b} /\ Min({a, b}) <= a /\ Min({a, b}) <= b
  OBVIOUS
<1>1. CASE a <= b
  <2>1. Min({a, b}) = a
    BY <1>1, MinIs
  <2>. QED BY <1>1, <2>1
<1>2. CASE b <= a
  <2>1. Min({a, b}) = b
    BY <1>2, MinIs
  <2>. QED BY <1>2, <2>1
<1>. QED BY <1>1, <1>2

\* From any day the next market day is at most three days away.
LEMMA NextDateIs ==
  ASSUME NEW d \in Int
  PROVE  /\ NextDate(d) \in d+1..d+3 /\ Weekday(NextDate(d)) \in MarketDays
         /\ \A e \in Int : d < e /\ e < NextDate(d) => Weekday(e) \notin MarketDays
<1>. DEFINE S == {k \in 1..7 : Weekday(d + k) \in MarketDays}
<1>1. CASE 1 \in S
  <2>1. Min(S) = 1
    BY <1>1, MinIs
  <2>. QED BY <1>1, <2>1 DEF NextDate
<1>2. CASE 1 \notin S /\ 2 \in S
  <2>1. \A y \in S : 2 <= y
    BY <1>2
  <2>2. Min(S) = 2
    <3>. HIDE DEF S
    <3>1. S \in SUBSET Int
      BY DEF S
    <3>. QED BY <1>2, <2>1, <3>1, MinIs
  <2>. QED BY <1>2, <2>2 DEF NextDate
<1>3. CASE 1 \notin S /\ 2 \notin S
  <2>1. 3 \in S
    BY <1>3 DEF Weekday, MarketDays
  <2>2. \A y \in S : 3 <= y
    BY <1>3
  <2>3. Min(S) = 3
    BY <2>1, <2>2, MinIs
  <2>. QED BY <1>3, <2>1, <2>3 DEF NextDate
<1>. QED BY <1>1, <1>2, <1>3

\* And back.
LEMMA PreviousDateIs ==
  ASSUME NEW d \in Int
  PROVE  /\ PreviousDate(d) \in d-3..d-1 /\ Weekday(PreviousDate(d)) \in MarketDays
         /\ \A e \in Int : e < d /\ PreviousDate(d) < e => Weekday(e) \notin MarketDays
<1>. DEFINE S == {k \in 1..9 : Weekday(d - k) \in MarketDays}
<1>1. CASE 1 \in S
  <2>1. Min(S) = 1
    BY <1>1, MinIs
  <2>. QED BY <1>1, <2>1 DEF PreviousDate
<1>2. CASE 1 \notin S /\ 2 \in S
  <2>1. \A y \in S : 2 <= y
    BY <1>2
  <2>2. Min(S) = 2
    <3>. HIDE DEF S
    <3>1. S \in SUBSET Int
      BY DEF S
    <3>. QED BY <1>2, <2>1, <3>1, MinIs
  <2>. QED BY <1>2, <2>2 DEF PreviousDate
<1>3. CASE 1 \notin S /\ 2 \notin S
  <2>1. 3 \in S
    BY <1>3 DEF Weekday, MarketDays
  <2>2. \A y \in S : 3 <= y
    BY <1>3
  <2>3. Min(S) = 3
    BY <2>1, <2>2, MinIs
  <2>. QED BY <1>3, <2>1, <2>3 DEF PreviousDate
<1>. QED BY <1>1, <1>2, <1>3

\* Days are as far apart as their numbers.
LEMMA DaysApart ==
  \A a, b \in Int, n \in Nat \ {0} : /\ a * n \in Int /\ b * n \in Int
                                     /\ a < b => a * n + n <= b * n
                                     /\ a <= b => a * n <= b * n
<1>. SUFFICES ASSUME NEW a \in Int, NEW b \in Int, NEW n \in Nat \ {0}
              PROVE  /\ a * n \in Int /\ b * n \in Int
                     /\ a < b => a * n + n <= b * n
                     /\ a <= b => a * n <= b * n
  OBVIOUS
<1>. DEFINE c == b - a
<1>1. c \in Int /\ c * n = b * n - a * n
  BY Distribute
<1>2. a * n \in Int /\ b * n \in Int
  BY Multiple
<1>3. c >= 1 => c * n >= n
  <2>. HIDE DEF c
  <2>. QED BY <1>1, Multiple
<1>4. a < b => a * n + n <= b * n
  <2>. SUFFICES ASSUME a < b PROVE a * n + n <= b * n
    OBVIOUS
  <2>1. c >= 1
    OBVIOUS
  <2>2. b * n - a * n >= n
    <3>. HIDE DEF c
    <3>. QED BY <1>1, <1>3, <2>1
  <2>. QED BY <1>2, <2>2
<1>. QED BY <1>2, <1>4

\* Half a second later it is the same day, or midnight.
LEMMA HalfSecond ==
  ASSUME NEW t \in Instants, NEW u, u = (t + 1) % (Days * DayLength)
  PROVE  /\ t \in Int /\ u \in Instants /\ u \in Int
         /\ TimeOfDay(t) + 1 < DayLength =>
              Day(u) = Day(t) /\ TimeOfDay(u) = TimeOfDay(t) + 1
         /\ TimeOfDay(t) + 1 >= DayLength => TimeOfDay(u) = 0
<1>. DEFINE P == Days * DayLength
            d == Day(t)
            x == TimeOfDay(t)
<1>1. /\ Days \in Nat \ {0} /\ DayLength \in Nat \ {0} /\ Days \in Int
  BY MarketHoursAssumption DEF MarketHoursAssumption
<1>2. P \in Int /\ P >= DayLength
  BY <1>1, Multiple
<1>3. t \in 0..P-1 /\ t \in Int
  BY <1>2 DEF Instants
<1>4. d \in Int /\ x \in 0..DayLength-1 /\ t = d * DayLength + x
  BY <1>3, Clock
<1>5. u \in 0..P-1 /\ (t + 1 < P => u = t + 1) /\ (t + 1 = P => u = 0)
  <2>1. u = (t + 1) % P
    OBVIOUS
  <2>. HIDE DEF P
  <2>2. P \in Nat \ {0}
    BY <1>1, <1>2
  <2>3. u \in 0..P-1
    BY <1>3, <2>1, <2>2
  <2>4. t + 1 < P => u = t + 1
    BY <1>3, <2>1, <2>2
  <2>5. t + 1 = P => u = 0
    BY <1>3, <2>1, <2>2
  <2>. QED BY <2>3, <2>4, <2>5
<1>6. u \in Instants /\ u \in Int
  BY <1>2, <1>5 DEF Instants
<1>7. ASSUME x + 1 < DayLength PROVE Day(u) = d /\ TimeOfDay(u) = x + 1
  <2>1. x + 1 \in 0..DayLength-1 /\ 0 \in 0..DayLength-1
    BY <1>1, <1>4, <1>7
  <2>2. d * DayLength \in Int
    BY <1>1, <1>4, Multiple
  <2>3. t + 1 = d * DayLength + (x + 1)
    <3>. HIDE DEF x, d
    <3>. QED BY <1>4, <2>2
  <2>4. t + 1 # P
    <3>1. ASSUME t + 1 = P PROVE FALSE
      <4>1. d * DayLength + (x + 1) = Days * DayLength + 0
        BY <1>2, <2>3, <3>1
      <4>2. x + 1 = 0
        <5>. DEFINE y == x + 1
                    z == 0
        <5>1. /\ d \in Int /\ Days \in Int /\ DayLength \in Nat \ {0}
              /\ y \in 0..DayLength-1 /\ z \in 0..DayLength-1
          BY <1>1, <1>4, <2>1
        <5>2. d * DayLength + y = Days * DayLength + z
          BY <4>1
        <5>. HIDE DEF y, z, d
        <5>3. y = z
          BY <5>1, <5>2, SameDay
        <5>. QED BY <5>3 DEF y, z
      <4>. QED BY <1>4, <4>2
    <3>. QED BY <3>1
  <2>5. u = t + 1
    <3>. HIDE DEF P
    <3>. QED BY <1>2, <1>3, <1>5, <2>4
  <2>. HIDE DEF x, d
  <2>6. u = d * DayLength + (x + 1)
    BY <2>3, <2>5
  <2>. QED BY <1>4, <2>1, <2>6, ClockUnique
<1>8. ASSUME x + 1 >= DayLength PROVE TimeOfDay(u) = 0
  <2>1. 0 \in 0..DayLength-1 /\ d + 1 \in Int /\ 0 \in Int /\ d * DayLength \in Int
    BY <1>1, <1>4, Multiple
  <2>2. (d + 1) * DayLength = d * DayLength + DayLength
    BY <1>1, <1>4
  <2>3. t + 1 = (d + 1) * DayLength + 0
    <3>. HIDE DEF x, d
    <3>. QED BY <1>1, <1>4, <1>8, <2>1, <2>2
  <2>4. CASE t + 1 < P
    <3>1. u = (d + 1) * DayLength + 0
      BY <1>5, <2>3, <2>4
    <3>. QED BY <2>1, <3>1, ClockUnique
  <2>5. CASE t + 1 = P
    <3>1. u = 0 * DayLength + 0
      BY <1>1, <1>5, <2>5
    <3>. QED BY <2>1, <3>1, ClockUnique
  <2>6. t + 1 < P \/ t + 1 = P
    <3>. HIDE DEF P
    <3>. QED BY <1>2, <1>3
  <2>. QED BY <2>4, <2>5, <2>6
<1>. QED BY <1>3, <1>6, <1>7, <1>8

\* What is left until the market opens: the next market day's opening, but for less than
\* a second; before the opening time the day's own.
LEMMA UntilOpening ==
  ASSUME NEW t \in Int, ~IsMarketOpen(t)
  PROVE  /\ SecondsUntilMarketOpen(t) \in Int
         /\ TimeOfDay(t) <= OpenTime =>
              MarketOpen(Day(t)) - t - 2 * SecondsUntilMarketOpen(t) \in 0..1
         /\ TimeOfDay(t) > OpenTime =>
              MarketOpen(NextDate(Day(t))) - t - 2 * SecondsUntilMarketOpen(t) \in 0..1
<1>. DEFINE o == IF t > MarketOpen(Day(t)) THEN MarketOpen(NextDate(Day(t))) ELSE MarketOpen(Day(t))
            s == SecondsUntilMarketOpen(t)
<1>1. s = (o - t) \div 2
  BY DEF SecondsUntilMarketOpen
<1>2. Day(t) \in Int /\ DayLength \in Nat \ {0} /\ OpenTime \in Nat
  BY Clock, MarketHoursAssumption DEF MarketHoursAssumption
<1>3. NextDate(Day(t)) \in Int
  BY <1>2, NextDateIs
<1>4. MarketOpen(NextDate(Day(t))) \in Int /\ MarketOpen(Day(t)) \in Int
  BY <1>2, <1>3, Multiple DEF MarketOpen
<1>5. o \in Int
  BY <1>4
<1>6. s \in Int /\ o - t - 2 * s \in 0..1
  <2>. HIDE DEF o, s
  <2>. QED BY <1>1, <1>5
<1>7. t > MarketOpen(Day(t)) <=> TimeOfDay(t) > OpenTime
  BY OpensAt
<1>8. TimeOfDay(t) \in Int
  BY Clock, <1>2
<1>. QED BY <1>2, <1>6, <1>7, <1>8

-----------------------------------------------------------------------------
(* The main loop. *)

\* A wait for the market ends at the opening or before, but for the lag.
WaitEndsInTime ==
  pc = "waiting" =>
    /\ TimeOfDay(now) <= OpenTime => timer <= OpenTime - TimeOfDay(now)
    /\ IsMarketOpen(now) => timer <= OpenTime - TimeOfDay(now)

\* The wait of a monitoring bot began at the opening at the earliest and before the close.
MonitorsTheDay ==
  pc = "monitoring" =>
    /\ OpenTime - 1 <= TimeOfDay(now)
    /\ TimeOfDay(now) < CloseTime + CheckInterval - timer

\* Nothing but a shutdown leads on from an error or closes the loop.
StatusIsKnown ==
  /\ Looping /\ botStatus = "ERROR" => Signalled
  /\ pc = "closing" \/ botStatus = "SHUTDOWN" => Signalled

BotIInv ==
  /\ BotTypeOK
  /\ Looping => age <= CheckInterval - timer
  /\ WaitEndsInTime /\ MonitorsTheDay /\ StatusIsKnown

\* The constants of the process.
LEMMA BotConstants ==
  /\ CheckInterval \in Nat \ {0} /\ HealthLimit \in Nat \ {0} /\ MaxLag \in Nat /\ MaxRestarts \in Nat
  /\ OpenTime \in Nat \ {0} /\ CloseTime \in Nat /\ DayLength \in Nat \ {0}
  /\ OpenTime < CloseTime /\ CloseTime < DayLength
  /\ CheckInterval <= OpenTime /\ CloseTime + CheckInterval + MaxLag <= DayLength
  BY MarketHoursAssumption, TradingBotAssumption DEF MarketHoursAssumption, TradingBotAssumption

\* An instant is an integer with a time of day.
LEMMA InstantIs ==
  \A t \in Instants : t \in Int /\ TimeOfDay(t) \in 0..DayLength-1
<1>. SUFFICES ASSUME NEW t \in Instants PROVE t \in Int /\ TimeOfDay(t) \in 0..DayLength-1
  OBVIOUS
<1>1. Days \in Int /\ DayLength \in Nat \ {0}
  BY MarketHoursAssumption DEF MarketHoursAssumption
<1>2. Days * DayLength \in Int
  BY <1>1, Multiple
<1>3. t \in Int
  BY <1>2 DEF Instants
<1>. QED BY <1>3, Clock

\* Ages past the limit are all alike, and the limit is past every wait.
LEMMA AgeLimitIs ==
  AgeLimit \in Nat \ {0} /\ CheckInterval + MaxLag < AgeLimit
<1>. DEFINE m == Max({HealthLimit, CheckInterval})
<1>1. HealthLimit \in Nat /\ CheckInterval \in Nat /\ MaxLag \in Nat
  BY BotConstants
<1>2. m \in {HealthLimit, CheckInterval} /\ CheckInterval <= m
  <2>1. CASE HealthLimit >= CheckInterval
    <3>1. m = HealthLimit
      BY <1>1, <2>1, MaxIs
    <3>. QED BY <2>1, <3>1
  <2>2. CASE CheckInterval >= HealthLimit
    <3>1. m = CheckInterval
      BY <1>1, <2>2, MaxIs
    <3>. QED BY <1>1, <2>2, <3>1
  <2>. QED BY <1>1, <2>1, <2>2
<1>. HIDE DEF m
<1>3. AgeLimit = m + MaxLag + 1
  BY DEF AgeLimit, m
<1>. QED BY <1>1, <1>2, <1>3

\* A turn of the loop begins a wait that is as long as it may be.
LEMMA TurnStep ==
  ASSUME BotIInv, Turn, UNCHANGED <<now, stopping, logLevel, generator, restarts>>
  PROVE  BotIInv'
<1>. DEFINE x == TimeOfDay(now)
            s == SecondsUntilMarketOpen(now)
<1>1. now \in Int /\ x \in 0..DayLength-1
  BY InstantIs DEF BotIInv, BotTypeOK
<1>2. CASE Signalled
  <2>1. /\ pc' = "closing" /\ UNCHANGED <<botStatus, age, timer>> /\ Signalled'
    BY <1>2 DEF Turn, Signalled
  <2>. QED BY <2>1 DEF BotIInv, BotTypeOK, WaitEndsInTime, MonitorsTheDay, StatusIsKnown, Looping
<1>3. CASE ~Signalled /\ ~IsMarketOpen(now) /\ s > 0
  <2>1. /\ age' = 0 /\ botStatus' = "WAITING_FOR_MARKET" /\ pc' = "waiting"
        /\ timer' = Min({2 * s, CheckInterval})
    BY <1>3 DEF Turn
  <2>2. s \in Int /\ (x <= OpenTime => MarketOpen(Day(now)) - now - 2 * s \in 0..1)
    BY <1>1, <1>3, UntilOpening
  <2>3. MarketOpen(Day(now)) - now = OpenTime - x
    BY <1>1, OpensAt
  <2>. HIDE DEF x, s
  <2>. DEFINE w == 2 * s
  <2>0. w \in Int /\ CheckInterval \in Int /\ timer' = Min({w, CheckInterval})
    BY <2>1, <2>2, BotConstants
  <2>4. timer' \in {2 * s, CheckInterval} /\ timer' <= 2 * s /\ timer' <= CheckInterval
    <3>. HIDE DEF w
    <3>1. timer' \in {w, CheckInterval} /\ timer' <= w /\ timer' <= CheckInterval
      BY <2>0, MinOfTwo
    <3>. QED BY <3>1 DEF w
  <2>5. timer' \in 1..CheckInterval /\ (x <= OpenTime => timer' <= OpenTime - x)
    BY <1>1, <1>3, <2>2, <2>3, <2>4, BotConstants
  <2>6. BotTypeOK'
    BY <2>1, <2>5, BotConstants, AgeLimitIs DEF BotIInv, BotTypeOK
  <2>7. age' <= CheckInterval - timer'
    BY <2>1, <2>5, BotConstants
  <2>8. WaitEndsInTime'
    BY <1>3, <2>5 DEF WaitEndsInTime, x
  <2>. QED BY <2>1, <2>6, <2>7, <2>8 DEF BotIInv, MonitorsTheDay, StatusIsKnown
<1>4. CASE ~Signalled /\ ~(~IsMarketOpen(now) /\ s > 0)
  <2>1. /\ age' = 0 /\ botStatus' = "MONITORING" /\ pc' = "monitoring" /\ timer' = CheckInterval
    BY <1>4 DEF Turn
  <2>2. OpenTime - 1 <= x /\ x < CloseTime
    <3>1. CASE IsMarketOpen(now)
      <4>1. OpenTime <= x /\ x < CloseTime
        BY <1>1, <3>1, OpensAt
      <4>. QED BY <1>1, <4>1, BotConstants
    <3>2. CASE ~IsMarketOpen(now) /\ ~(s > 0)
      <4>1. s \in Int /\ (x <= OpenTime => MarketOpen(Day(now)) - now - 2 * s \in 0..1)
        BY <1>1, <3>2, UntilOpening
      <4>2. x > OpenTime => MarketOpen(NextDate(Day(now))) - now - 2 * s \in 0..1
        BY <1>1, <3>2, UntilOpening
      <4>3. MarketOpen(Day(now)) - now = OpenTime - x /\ MarketOpen(Day(now)) \in Int
        BY <1>1, OpensAt
      <4>4. Day(now) \in Int /\ NextDate(Day(now)) \in Int /\ Day(now) + 1 <= NextDate(Day(now))
        <5>1. Day(now) \in Int
          BY <1>1, Clock
        <5>. QED BY <5>1, NextDateIs
      <4>5. MarketOpen(Day(now)) + DayLength <= MarketOpen(NextDate(Day(now)))
            /\ MarketOpen(NextDate(Day(now))) \in Int
        <5>1. /\ Day(now) * DayLength + DayLength <= NextDate(Day(now)) * DayLength
              /\ Day(now) * DayLength \in Int /\ NextDate(Day(now)) * DayLength \in Int
          BY <4>4, BotConstants, DaysApart
        <5>. QED BY <5>1, BotConstants DEF MarketOpen
      <4>. HIDE DEF x, s
      <4>. QED BY <1>1, <3>2, <4>1, <4>2, <4>3, <4>5, BotConstants
    <3>. QED BY <1>4, <3>1, <3>2
  <2>. HIDE DEF x, s
  <2>3. BotTypeOK'
    BY <2>1, BotConstants, AgeLimitIs DEF BotIInv, BotTypeOK
  <2>4. age' <= CheckInterval - timer'
    BY <2>1, BotConstants
  <2>5. MonitorsTheDay'
    <3>1. OpenTime - 1 <= x /\ x < CloseTime + CheckInterval - timer'
      BY <1>1, <2>1, <2>2, BotConstants
    <3>. QED BY <3>1 DEF MonitorsTheDay, x
  <2>. QED BY <2>1, <2>3, <2>4, <2>5 DEF BotIInv, WaitEndsInTime, StatusIsKnown
<1>. QED BY <1>2, <1>3, <1>4

\* Half a second.
LEMMA TickStep ==
  ASSUME BotIInv, Tick
  PROVE  BotIInv'
<1>. DEFINE x == TimeOfDay(now)
            y == TimeOfDay(now')
<1>1. now \in Instants /\ now' = (now + 1) % (Days * DayLength)
  BY DEF BotIInv, BotTypeOK, Tick
<1>2. /\ now \in Int /\ now' \in Instants /\ now' \in Int
      /\ x + 1 < DayLength => Day(now') = Day(now) /\ y = x + 1
      /\ x + 1 >= DayLength => y = 0
  BY <1>1, HalfSecond
<1>3. x \in 0..DayLength-1 /\ y \in 0..DayLength-1
  BY <1>1, <1>2, InstantIs
<1>4. /\ age' = Min({age + 1, AgeLimit}) /\ UNCHANGED <<pc, botStatus, stopping, restarts>>
      /\ Looping => timer > -MaxLag /\ timer' = timer - 1
      /\ ~Looping => timer' = timer
  BY DEF Tick
<1>5. /\ timer \in -MaxLag..CheckInterval /\ age \in 0..AgeLimit
      /\ Looping => age <= CheckInterval - timer
  BY DEF BotIInv, BotTypeOK
<1>6. age' \in 0..AgeLimit /\ age' <= age + 1
  <2>1. age + 1 \in Int /\ AgeLimit \in Int
    BY <1>5, AgeLimitIs
  <2>2. age' \in {age + 1, AgeLimit} /\ age' <= age + 1 /\ age' <= AgeLimit
    BY <1>4, <2>1, MinOfTwo
  <2>. QED BY <1>5, <2>2, AgeLimitIs
<1>7. timer' \in -MaxLag..CheckInterval
  BY <1>4, <1>5, BotConstants
<1>8. BotTypeOK'
  BY <1>2, <1>4, <1>6, <1>7 DEF BotIInv, BotTypeOK
<1>9. Looping' => age' <= CheckInterval - timer'
  BY <1>4, <1>5, <1>6, BotConstants, AgeLimitIs DEF Looping
<1>10. StatusIsKnown'
  BY <1>4 DEF BotIInv, StatusIsKnown, Looping, Signalled
<1>11. WaitEndsInTime'
  <2>. SUFFICES ASSUME pc' = "waiting" PROVE WaitEndsInTime'
    BY DEF WaitEndsInTime
  <2>1. timer' = timer - 1 /\ pc = "waiting"
    BY <1>4 DEF Looping
  <2>2. /\ x <= OpenTime => timer <= OpenTime - x
        /\ IsMarketOpen(now) => timer <= OpenTime - x
    BY <2>1 DEF BotIInv, WaitEndsInTime
  <2>3. /\ IsMarketOpen(now) <=> /\ Weekday(Day(now)) \in MarketDays
                                 /\ OpenTime <= x /\ x < CloseTime
        /\ IsMarketOpen(now') <=> /\ Weekday(Day(now')) \in MarketDays
                                  /\ OpenTime <= y /\ y < CloseTime
    BY <1>2, OpensAt
  <2>. HIDE DEF x, y
  <2>4. y <= OpenTime => timer' <= OpenTime - y
    BY <1>2, <1>3, <1>5, <2>1, <2>2, BotConstants
  <2>5. ASSUME IsMarketOpen(now'), y > OpenTime PROVE timer' <= OpenTime - y
    <3>1. y = x + 1 /\ Day(now') = Day(now)
      BY <1>2, <1>3, <2>5, BotConstants
    <3>2. IsMarketOpen(now)
      BY <1>3, <2>3, <2>5, <3>1, BotConstants
    <3>. QED BY <1>3, <1>5, <2>1, <2>2, <3>1, <3>2, BotConstants
  <2>6. IsMarketOpen(now') => timer' <= OpenTime - y
    BY <1>3, <2>4, <2>5, BotConstants
  <2>. QED BY <2>4, <2>6 DEF WaitEndsInTime, y
<1>12. MonitorsTheDay'
  <2>. SUFFICES ASSUME pc' = "monitoring" PROVE MonitorsTheDay'
    BY DEF MonitorsTheDay
  <2>1. timer' = timer - 1 /\ timer > -MaxLag /\ pc = "monitoring"
    BY <1>4 DEF Looping
  <2>2. OpenTime - 1 <= x /\ x < CloseTime + CheckInterval - timer
    BY <2>1 DEF BotIInv, MonitorsTheDay
  <2>. HIDE DEF x, y
  <2>3. OpenTime - 1 <= y /\ y < CloseTime + CheckInterval - timer'
    BY <1>2, <1>3, <1>5, <2>1, <2>2, BotConstants
  <2>. QED BY <2>3 DEF MonitorsTheDay, y
<1>. QED BY <1>8, <1>9, <1>10, <1>11, <1>12 DEF BotIInv

\* Every step keeps it.
LEMMA BotStep == BotIInv /\ [BotNext]_botVars => BotIInv'
<1>. SUFFICES ASSUME BotIInv, [BotNext]_botVars PROVE BotIInv'
  OBVIOUS
<1>. USE DEF StatusIsKnown, Looping, Signalled
<1>1. CASE RunFails
  BY <1>1 DEF RunFails, BotIInv, BotTypeOK, WaitEndsInTime, MonitorsTheDay
<1>2. CASE StartLoop
  <2>1. Turn /\ UNCHANGED <<now, stopping, logLevel, generator, restarts>>
    BY <1>2 DEF StartLoop
  <2>. QED BY <2>1, TurnStep
<1>3. CASE NextTurn
  <2>1. Turn /\ UNCHANGED <<now, stopping, logLevel, generator, restarts>>
    BY <1>3 DEF NextTurn
  <2>. QED BY <2>1, TurnStep
<1>4. CASE LeaveRun
  BY <1>4 DEF LeaveRun, BotIInv, BotTypeOK, WaitEndsInTime, MonitorsTheDay
<1>5. CASE SignalShutdown
  BY <1>5 DEF SignalShutdown, BotIInv, BotTypeOK, WaitEndsInTime, MonitorsTheDay
<1>6. CASE Shutdown
  BY <1>6 DEF Shutdown, BotIInv, BotTypeOK, WaitEndsInTime, MonitorsTheDay
<1>7. CASE BotRestart
  BY <1>7, BotConstants, AgeLimitIs DEF BotRestart, BotIInv, BotTypeOK, WaitEndsInTime, MonitorsTheDay
<1>8. CASE Tick
  BY <1>8, TickStep
<1>9. CASE UNCHANGED botVars
  BY <1>9 DEF botVars, BotIInv, BotTypeOK, WaitEndsInTime, MonitorsTheDay
<1>. QED BY <1>1, <1>2, <1>3, <1>4, <1>5, <1>6, <1>7, <1>8, <1>9 DEF BotNext

\* It holds of every behaviour.
LEMMA BotInvariance == BotSpec => []BotIInv
<1>1. BotInit => BotIInv
  BY BotConstants, AgeLimitIs
  DEF BotInit, Started, BotIInv, BotTypeOK, WaitEndsInTime, MonitorsTheDay, StatusIsKnown, Looping
<1>. QED BY <1>1, BotStep, PTL DEF BotSpec

\* The main loop, from any half second on and for any hours, waits, lags and restarts: it
\* follows the market, and its health time is never older than a wait and its lag.
THEOREM LoopFollowsMarket == BotSpec => []LoopInv
<1>1. BotIInv => LoopInv
  <2>. SUFFICES ASSUME BotIInv PROVE LoopInv
    OBVIOUS
  <2>. DEFINE x == TimeOfDay(now)
  <2>1. now \in Int /\ x \in 0..DayLength-1 /\ timer \in -MaxLag..CheckInterval /\ age \in 0..AgeLimit
    BY InstantIs DEF BotIInv, BotTypeOK
  <2>2. /\ MarketOpen(Day(now)) - now = OpenTime - x
        /\ now - MarketOpen(Day(now)) = x - OpenTime
        /\ now - MarketClose(Day(now)) = x - CloseTime
        /\ IsMarketOpen(now) <=> /\ Weekday(Day(now)) \in MarketDays
                                 /\ OpenTime <= x /\ x < CloseTime
    BY <2>1, OpensAt
  <2>3. HealthStaysFresh
    <3>. HIDE DEF x
    <3>. QED BY <2>1, BotConstants, AgeLimitIs DEF BotIInv, HealthStaysFresh
  <2>4. pc = "waiting" /\ IsMarketOpen(now) => now - MarketOpen(Day(now)) <= MaxLag
    <3>1. pc = "waiting" /\ IsMarketOpen(now) => timer <= OpenTime - x
      BY DEF BotIInv, WaitEndsInTime
    <3>. HIDE DEF x
    <3>. QED BY <2>1, <2>2, <3>1, BotConstants
  <2>5. pc = "monitoring" /\ Weekday(Day(now)) \in MarketDays /\ ~IsMarketOpen(now) =>
          \/ MarketOpen(Day(now)) - now \in 0..1
          \/ now - MarketClose(Day(now)) \in 0..CheckInterval + MaxLag
    <3>1. pc = "monitoring" => OpenTime - 1 <= x /\ x < CloseTime + CheckInterval - timer
      BY DEF BotIInv, MonitorsTheDay
    <3>. HIDE DEF x
    <3>. QED BY <2>1, <2>2, <3>1, BotConstants
  <2>. QED BY <2>3, <2>4, <2>5 DEF LoopInv, FollowsTheMarket, BotIInv
<1>. QED BY <1>1, BotInvariance, PTL

\* Nothing in run() brings a bot back from an error or from a shutdown.
THEOREM StatusStands == BotSpec => StatusMovesOn
<1>. DEFINE E == botStatus = "ERROR" /\ botStatus' # "ERROR" => Signalled \/ pc' = "init"
            S == botStatus = "SHUTDOWN" /\ pc' # "init" => botStatus' \in {"SHUTDOWN", "ERROR"}
<1>1. BotIInv /\ [BotNext]_botVars => [E]_botVars
  BY DEF BotIInv, StatusIsKnown, BotNext, RunFails, StartLoop, NextTurn, LeaveRun, SignalShutdown, Shutdown,
         BotRestart, Tick, Turn, Signalled, Looping, CanLoop, botVars
<1>2. BotIInv /\ [BotNext]_botVars => [S]_botVars
  BY DEF BotIInv, StatusIsKnown, BotNext, RunFails, StartLoop, NextTurn, LeaveRun, SignalShutdown, Shutdown,
         BotRestart, Tick, Turn, Signalled, Looping, CanLoop, botVars
<1>3. BotSpec => [][E]_botVars
  <2>. HIDE DEF E
  <2>. QED BY <1>1, BotInvariance, PTL DEF BotSpec
<1>4. BotSpec => [][S]_botVars
  <2>. HIDE DEF S
  <2>. QED BY <1>2, BotInvariance, PTL DEF BotSpec
<1>5. BotSpec => OnlyRestartHeals
  BY <1>3 DEF OnlyRestartHeals
<1>6. BotSpec => ShutdownStands
  BY <1>4 DEF ShutdownStands
<1>. QED BY <1>5, <1>6 DEF StatusMovesOn

-----------------------------------------------------------------------------
(* The calendars. *)

\* The first opening is that of the first day whose opening is ahead.
LEMMA FirstOpeningIs ==
  ASSUME NEW t \in Int, NEW open \in SUBSET Int, NEW d \in open, MarketOpen(d) > t,
         \A e \in open : MarketOpen(e) > t => d <= e
  PROVE  FirstOpening(t, open) = MarketOpen(d)
<1>. DEFINE S == {MarketOpen(e) : e \in {f \in open : MarketOpen(f) > t}}
            m == MarketOpen(d)
<1>1. \A e \in Int : MarketOpen(e) \in Int /\ (d <= e => m <= MarketOpen(e))
  <2>. SUFFICES ASSUME NEW e \in Int PROVE MarketOpen(e) \in Int /\ (d <= e => m <= MarketOpen(e))
    OBVIOUS
  <2>1. d \in Int
    OBVIOUS
  <2>2. /\ d * DayLength \in Int /\ e * DayLength \in Int
        /\ d <= e => d * DayLength <= e * DayLength
    BY <2>1, BotConstants, DaysApart
  <2>. QED BY <2>2, BotConstants DEF MarketOpen
<1>2. S \in SUBSET Int /\ m \in S
  BY <1>1
<1>3. \A y \in S : m <= y
  BY <1>1
<1>4. Min(S) = m
  <2>. HIDE DEF S, m
  <2>. QED BY <1>2, <1>3, MinIs
<1>. QED BY <1>4 DEF FirstOpening

\* Openings of other days, and their order.
LEMMA OpeningsApart ==
  ASSUME NEW d \in Int, NEW e \in Int
  PROVE  /\ MarketOpen(d) \in Int /\ MarketOpen(e) \in Int
         /\ d < e => MarketOpen(d) + DayLength <= MarketOpen(e)
<1>1. /\ d * DayLength \in Int /\ e * DayLength \in Int
      /\ d < e => d * DayLength + DayLength <= e * DayLength
  BY BotConstants, DaysApart
<1>. QED BY <1>1, BotConstants DEF MarketOpen

\* At t the days that have opened are those before today, and today from its opening on.
LEMMA OpenedBy ==
  ASSUME NEW t \in Int, NEW e \in Int
  PROVE  /\ MarketOpen(e) \in Int /\ Day(t) \in Int /\ TimeOfDay(t) \in 0..DayLength-1
         /\ MarketOpen(e) <= t <=> e < Day(t) \/ (e = Day(t) /\ OpenTime <= TimeOfDay(t))
<1>. DEFINE d == Day(t)
            x == TimeOfDay(t)
<1>1. d \in Int /\ x \in 0..DayLength-1
  BY Clock, BotConstants
<1>2. t - MarketOpen(d) = x - OpenTime /\ MarketOpen(d) \in Int
  BY OpensAt
<1>3. /\ MarketOpen(e) \in Int
      /\ d < e => MarketOpen(d) + DayLength <= MarketOpen(e)
      /\ e < d => MarketOpen(e) + DayLength <= MarketOpen(d)
  BY <1>1, OpeningsApart
<1>. HIDE DEF d, x
<1>4. MarketOpen(e) <= t <=> e < d \/ (e = d /\ OpenTime <= x)
  BY <1>1, <1>2, <1>3, BotConstants
<1>. QED BY <1>1, <1>3, <1>4 DEF d, x

\* The wait for the opening.
LEMMA WaitReaches ==
  ASSUME NEW t \in Int, ~IsMarketOpen(t)
  PROVE  LET short == FirstOpening(t, TradingDaysAround(t)) - t - 2 * SecondsUntilMarketOpen(t)
         IN  short >= 0 /\ (Weekday(Day(t)) \in MarketDays => short <= 1)
<1>. DEFINE d == Day(t)
            n == NextDate(Day(t))
            x == TimeOfDay(t)
            s == SecondsUntilMarketOpen(t)
            A == TradingDaysAround(t)
<1>1. d \in Int /\ x \in 0..DayLength-1
  BY Clock, BotConstants
<1>2. /\ n \in d+1..d+3 /\ Weekday(n) \in MarketDays
      /\ \A e \in Int : d < e /\ e < n => Weekday(e) \notin MarketDays
  BY <1>1, NextDateIs
<1>3. /\ s \in Int
      /\ x <= OpenTime => MarketOpen(d) - t - 2 * s \in 0..1
      /\ x > OpenTime => MarketOpen(n) - t - 2 * s \in 0..1
  BY UntilOpening
<1>4. n \in Int /\ MarketOpen(n) \in Int /\ MarketOpen(d) \in Int
      /\ MarketOpen(d) + DayLength <= MarketOpen(n)
  <2>1. n \in Int /\ d < n
    BY <1>1, <1>2
  <2>. QED BY <1>1, <2>1, OpeningsApart
<1>5. A \in SUBSET Int /\ n \in A /\ (Weekday(d) \in MarketDays => d \in A)
      /\ \A e \in A : Weekday(e) \in MarketDays
  BY <1>1, <1>2 DEF TradingDaysAround
<1>6. \A e \in Int : MarketOpen(e) \in Int /\ (MarketOpen(e) > t <=> d < e \/ (e = d /\ x < OpenTime))
  <2>. SUFFICES ASSUME NEW e \in Int
                PROVE  MarketOpen(e) \in Int /\ (MarketOpen(e) > t <=> d < e \/ (e = d /\ x < OpenTime))
    OBVIOUS
  <2>1. MarketOpen(e) \in Int /\ (MarketOpen(e) <= t <=> e < d \/ (e = d /\ OpenTime <= x))
    BY OpenedBy
  <2>. HIDE DEF d, x
  <2>. QED BY <1>1, <2>1, BotConstants
<1>. DEFINE F == FirstOpening(t, A)
<1>7. CASE Weekday(d) \in MarketDays /\ x < OpenTime
  <2>1. MarketOpen(d) > t /\ \A e \in A : MarketOpen(e) > t => d <= e
    <3>. HIDE DEF d, x, n, A
    <3>. QED BY <1>1, <1>5, <1>6, <1>7
  <2>2. F = MarketOpen(d)
    <3>. HIDE DEF d, A
    <3>. QED BY <1>5, <1>7, <2>1, FirstOpeningIs
  <2>3. F - t - 2 * s \in 0..1
    BY <1>1, <1>3, <1>7, <2>2, BotConstants
  <2>. QED BY <2>3
<1>8. CASE ~(Weekday(d) \in MarketDays /\ x < OpenTime)
  <2>1. MarketOpen(n) > t /\ \A e \in A : MarketOpen(e) > t => n <= e
    <3>. HIDE DEF d, x, n, A
    <3>. QED BY <1>1, <1>2, <1>5, <1>6, <1>8
  <2>2. F = MarketOpen(n)
    <3>. HIDE DEF n, A
    <3>. QED BY <1>5, <2>1, FirstOpeningIs
  <2>3. Weekday(d) \in MarketDays => x > OpenTime
    <3>1. IsMarketOpen(t) <=> Weekday(d) \in MarketDays /\ OpenTime <= x /\ x < CloseTime
      BY OpensAt
    <3>. HIDE DEF d, x
    <3>. QED BY <1>1, <1>8, <3>1, BotConstants
  <2>. HIDE DEF F, n, d, s, x
  <2>4. x <= OpenTime => F - t - 2 * s >= 0
    BY <1>3, <1>4, <2>2, BotConstants
  <2>5. x > OpenTime => F - t - 2 * s \in 0..1
    BY <1>3, <2>2
  <2>6. F - t - 2 * s >= 0
    BY <1>1, <2>4, <2>5, BotConstants
  <2>. QED BY <1>1, <2>3, <2>5, <2>6 DEF F, d, s
<1>. QED BY <1>7, <1>8

\* The day positions are filed under.
LEMMA LastOpened ==
  ASSUME NEW t \in Int, Weekday(Day(t)) \in MarketDays
  PROVE  CurrentTradingDate(t) = Max({d \in TradingDaysAround(t) : MarketOpen(d) <= t})
<1>. DEFINE d == Day(t)
            p == PreviousDate(Day(t))
            x == TimeOfDay(t)
            A == TradingDaysAround(t)
            S == {e \in A : MarketOpen(e) <= t}
<1>1. d \in Int /\ x \in 0..DayLength-1
  BY Clock, BotConstants
<1>2. /\ p \in d-3..d-1 /\ Weekday(p) \in MarketDays
      /\ \A e \in Int : e < d /\ p < e => Weekday(e) \notin MarketDays
  BY <1>1, PreviousDateIs
<1>3. A \in SUBSET Int /\ p \in A /\ d \in A /\ \A e \in A : Weekday(e) \in MarketDays
  BY <1>1, <1>2 DEF TradingDaysAround
<1>4. \A e \in Int : MarketOpen(e) <= t <=> e < d \/ (e = d /\ OpenTime <= x)
  BY OpenedBy
<1>5. CASE x < OpenTime
  <2>1. p \in S /\ \A e \in S : p >= e
    <3>. HIDE DEF d, x, p, A
    <3>. QED BY <1>1, <1>2, <1>3, <1>4, <1>5, BotConstants
  <2>2. Max(S) = p
    <3>1. S \in SUBSET Int
      BY <1>3
    <3>. HIDE DEF S, p
    <3>. QED BY <2>1, <3>1, MaxIs
  <2>. QED BY <1>5, <2>2 DEF CurrentTradingDate
<1>6. CASE OpenTime <= x
  <2>1. d \in S /\ \A e \in S : d >= e
    <3>. HIDE DEF d, x, p, A
    <3>. QED BY <1>1, <1>3, <1>4, <1>6
  <2>2. Max(S) = d
    <3>1. S \in SUBSET Int
      BY <1>3
    <3>. HIDE DEF S, d
    <3>. QED BY <2>1, <3>1, MaxIs
  <2>3. ~(x < OpenTime)
    <3>. HIDE DEF x
    <3>. QED BY <1>1, <1>6, BotConstants
  <2>. QED BY <2>2, <2>3 DEF CurrentTradingDate
<1>7. x < OpenTime \/ OpenTime <= x
  <2>. HIDE DEF x
  <2>. QED BY <1>1, BotConstants
<1>. QED BY <1>5, <1>6, <1>7

\* A day the paper gateway opens on.
TradingDay(d) == Weekday(d) \in MarketDays /\ d % Days \notin Holidays

\* The day of an instant is one of the calendar.
LEMMA DayOfInstant ==
  ASSUME NEW t \in Instants
  PROVE  Day(t) \in 0..Days-1
<1>. DEFINE d == Day(t)
            x == TimeOfDay(t)
            P == Days * DayLength
            Z == 0 * DayLength
<1>1. Days \in Int /\ DayLength \in Nat \ {0} /\ 0 \in Int
  BY MarketHoursAssumption DEF MarketHoursAssumption
<1>2. t \in Int /\ x \in 0..DayLength-1
  BY InstantIs
<1>3. P \in Int /\ t \in 0..P-1
  BY <1>1, Multiple DEF Instants
<1>4. d \in Int /\ t = d * DayLength + x
  BY <1>2, Clock
<1>5. d * DayLength \in Int /\ (Days <= d => P <= d * DayLength)
  BY <1>1, <1>4, DaysApart
<1>6. d < 0 => d * DayLength + DayLength <= Z
  BY <1>1, <1>4, DaysApart
<1>7. Z = 0
  BY <1>1
<1>. HIDE DEF d, x, P, Z
<1>8. ~(Days <= d) /\ ~(d < 0)
  BY <1>1, <1>2, <1>3, <1>4, <1>5, <1>6, <1>7
<1>9. d \in 0..Days-1
  BY <1>1, <1>4, <1>8
<1>. QED BY <1>9 DEF d

\* The opening time is in the hours, so that a day's opening is open when the day trades.
LEMMA OpensOn ==
  ASSUME NEW d \in Int, NEW k \in Int
  PROVE  /\ MarketOpen(d) + k * DayLength = MarketOpen(d + k)
         /\ MarketOpen(d) + DayLength * k = MarketOpen(d + k)
         /\ PaperIsMarketOpen(MarketOpen(d) + k * DayLength) <=> TradingDay(d + k)
         /\ PaperIsMarketOpen(MarketOpen(d)) <=> TradingDay(d)
<1>1. OpenTime \in 0..DayLength-1 /\ OpenTime <= CloseTime /\ DayLength \in Int
  BY BotConstants
<1>2. (d + k) * DayLength = d * DayLength + k * DayLength /\ DayLength * k = k * DayLength
  BY <1>1, Distribute
<1>3. d * DayLength \in Int /\ k * DayLength \in Int
  BY BotConstants, Multiple
<1>4. MarketOpen(d) + k * DayLength = MarketOpen(d + k)
  <2>. DEFINE a == d * DayLength
              b == k * DayLength
              c == (d + k) * DayLength
  <2>1. a \in Int /\ b \in Int /\ c = a + b
    BY <1>2, <1>3
  <2>2. MarketOpen(d) = a + OpenTime /\ MarketOpen(d + k) = c + OpenTime
    BY DEF MarketOpen
  <2>. HIDE DEF a, b, c
  <2>3. MarketOpen(d) + b = MarketOpen(d + k)
    BY <2>1, <2>2, BotConstants
  <2>. QED BY <2>3 DEF b
<1>5. \A e \in Int : PaperIsMarketOpen(MarketOpen(e)) <=> TradingDay(e)
  <2>. SUFFICES ASSUME NEW e \in Int PROVE PaperIsMarketOpen(MarketOpen(e)) <=> TradingDay(e)
    OBVIOUS
  <2>1. Day(MarketOpen(e)) = e /\ TimeOfDay(MarketOpen(e)) = OpenTime
    BY <1>1, ClockUnique DEF MarketOpen
  <2>. QED BY <1>1, <2>1 DEF PaperIsMarketOpen, TradingDay
<1>6. d + k \in Int
  OBVIOUS
<1>7. PaperIsMarketOpen(MarketOpen(d + k)) <=> TradingDay(d + k)
  BY <1>5, <1>6
<1>. QED BY <1>2, <1>4, <1>5, <1>7

\* A number from one to ten in a set is a least one.
LEMMA LeastOfTen ==
  ASSUME NEW S \in SUBSET (1..10), S # {}
  PROVE  Min(S) \in S /\ \A k \in S : Min(S) <= k
<1>1. \E m \in S : \A k \in S : m <= k
  <2>. SUFFICES ASSUME ~\E m \in S : \A k \in S : m <= k PROVE FALSE
    OBVIOUS
  <2>1. 1 \notin S
    OBVIOUS
  <2>2. 2 \notin S
    BY <2>1
  <2>3. 3 \notin S
    BY <2>1, <2>2
  <2>4. 4 \notin S
    BY <2>1, <2>2, <2>3
  <2>5. 5 \notin S
    BY <2>1, <2>2, <2>3, <2>4
  <2>6. 6 \notin S
    BY <2>1, <2>2, <2>3, <2>4, <2>5
  <2>7. 7 \notin S
    BY <2>1, <2>2, <2>3, <2>4, <2>5, <2>6
  <2>8. 8 \notin S
    BY <2>1, <2>2, <2>3, <2>4, <2>5, <2>6, <2>7
  <2>9. 9 \notin S
    BY <2>1, <2>2, <2>3, <2>4, <2>5, <2>6, <2>7, <2>8
  <2>10. S \subseteq {10}
    BY <2>1, <2>2, <2>3, <2>4, <2>5, <2>6, <2>7, <2>8, <2>9
  <2>11. S = {10}
    BY <2>10
  <2>. QED BY <2>11
<1>. QED BY <1>1 DEF Min

\* The paper gateway's next opening.
LEMMA NextOpening ==
  ASSUME NEW t \in Instants
  PROVE  GetNextMarketOpen(t) =
           FirstOpening(t, {d \in Day(t)..Day(t) + 10 : Weekday(d) \in MarketDays /\ d % Days \notin Holidays})
<1>. DEFINE d == Day(t)
            x == TimeOfDay(t)
            A == {e \in d..d + 10 : Weekday(e) \in MarketDays /\ e % Days \notin Holidays}
            S == {k \in 1..10 : PaperIsMarketOpen(MarketOpen(d) + k * DayLength)}
            m == Min(S)
<1>1. d \in 0..Days-1 /\ d \in Int /\ t \in Int /\ x \in 0..DayLength-1
  <2>1. d \in 0..Days-1
    BY DayOfInstant
  <2>2. t \in Int
    BY InstantIs
  <2>. QED BY <2>1, <2>2, Clock
<1>2. \A k \in 1..10 : k \in S <=> TradingDay(d + k)
  <2>. SUFFICES ASSUME NEW k \in 1..10 PROVE k \in S <=> TradingDay(d + k)
    OBVIOUS
  <2>1. k \in Int
    OBVIOUS
  <2>2. PaperIsMarketOpen(MarketOpen(d) + k * DayLength) <=> TradingDay(d + k)
    <3>. HIDE DEF d
    <3>. QED BY <1>1, <2>1, OpensOn
  <2>. QED BY <2>2
<1>3. PaperIsMarketOpen(MarketOpen(d)) <=> TradingDay(d)
  <2>1. 0 \in Int
    OBVIOUS
  <2>. QED BY <1>1, <2>1, OpensOn
<1>4. m \in S /\ \A k \in S : m <= k
  <2>1. \E k \in 1..10 : TradingDay(d + k)
    BY <1>1, HolidaysAssumption DEF HolidaysAssumption, TradingDay
  <2>2. S # {} /\ S \in SUBSET (1..10)
    BY <1>2, <2>1
  <2>. HIDE DEF S
  <2>. QED BY <2>2, LeastOfTen
<1>5. \A e \in Int : e \in A <=> d <= e /\ e <= d + 10 /\ TradingDay(e)
  BY <1>1 DEF TradingDay
<1>6. A \in SUBSET Int
  BY <1>1
<1>7. \A e \in Int : MarketOpen(e) \in Int /\ (MarketOpen(e) > t <=> d < e \/ (e = d /\ x < OpenTime))
  <2>. SUFFICES ASSUME NEW e \in Int
                PROVE  MarketOpen(e) \in Int /\ (MarketOpen(e) > t <=> d < e \/ (e = d /\ x < OpenTime))
    OBVIOUS
  <2>1. MarketOpen(e) \in Int /\ (MarketOpen(e) <= t <=> e < d \/ (e = d /\ OpenTime <= x))
    BY <1>1, OpenedBy
  <2>. HIDE DEF d, x
  <2>. QED BY <1>1, <2>1, BotConstants
<1>8. GetNextMarketOpen(t) =
        IF x < OpenTime /\ PaperIsMarketOpen(MarketOpen(d)) THEN MarketOpen(d)
        ELSE MarketOpen(d) + DayLength * (IF \E k \in 1..10 : k \in S THEN m ELSE 10)
  BY DEF GetNextMarketOpen
<1>9. CASE x < OpenTime /\ TradingDay(d)
  <2>1. GetNextMarketOpen(t) = MarketOpen(d)
    BY <1>3, <1>8, <1>9
  <2>. HIDE DEF d, x, A
  <2>2. d \in A /\ MarketOpen(d) > t /\ \A e \in A : MarketOpen(e) > t => d <= e
    BY <1>1, <1>5, <1>6, <1>7, <1>9
  <2>3. FirstOpening(t, A) = MarketOpen(d)
    BY <1>1, <1>6, <2>2, FirstOpeningIs
  <2>. QED BY <2>1, <2>3 DEF A, d
<1>10. CASE ~(x < OpenTime /\ TradingDay(d))
  <2>1. GetNextMarketOpen(t) = MarketOpen(d) + DayLength * m
    <3>. HIDE DEF S, m
    <3>1. m \in 1..10
      BY <1>4 DEF S
    <3>. QED BY <1>3, <1>4, <1>8, <1>10, <3>1
  <2>2. m \in 1..10 /\ m \in Int /\ TradingDay(d + m) /\ \A k \in 1..10 : k < m => ~TradingDay(d + k)
    <3>1. m \in 1..10
      BY <1>4
    <3>. HIDE DEF S, m, d
    <3>2. \A k \in 1..10 : k < m => k \notin S
      BY <1>4, <3>1
    <3>. QED BY <1>2, <1>4, <3>1, <3>2
  <2>3. GetNextMarketOpen(t) = MarketOpen(d + m)
    <3>. HIDE DEF m, d
    <3>. QED BY <1>1, <2>1, <2>2, OpensOn
  <2>. HIDE DEF d, x, A, m
  <2>. DEFINE n == d + m
  <2>4. n \in Int /\ n \in A /\ MarketOpen(n) > t
    BY <1>1, <1>5, <1>7, <2>2
  <2>5. \A e \in A : MarketOpen(e) > t => n <= e
    <3>. SUFFICES ASSUME NEW e \in A, MarketOpen(e) > t, ~(n <= e) PROVE FALSE
      BY <1>6
    <3>1. e \in Int /\ d <= e /\ TradingDay(e)
      BY <1>5, <1>6
    <3>2. d < e
      BY <1>1, <1>7, <1>10, <3>1
    <3>. DEFINE k == e - d
    <3>3. k \in 1..10 /\ k < m /\ d + k = e
      BY <1>1, <2>2, <3>1, <3>2
    <3>. QED BY <2>2, <3>1, <3>3
  <2>. HIDE DEF n
  <2>6. FirstOpening(t, A) = MarketOpen(n)
    BY <1>1, <1>6, <2>4, <2>5, FirstOpeningIs
  <2>. QED BY <2>3, <2>6 DEF A, d, n
<1>. QED BY <1>9, <1>10

\* The calendars of the bot and of the paper gateway tell of every half second what the days
\* that open say, for any hours, weeks and holidays.
THEOREM CalendarsAreRight == BotSpec => []CalendarInv
<1>1. BotIInv => CalendarInv
  <2>. SUFFICES ASSUME BotIInv PROVE CalendarInv
    OBVIOUS
  <2>1. now \in Instants /\ now \in Int /\ Day(now) \in 0..Days-1
    BY InstantIs, DayOfInstant DEF BotIInv, BotTypeOK
  <2>2. WaitReachesOpening
    BY <2>1, WaitReaches DEF WaitReachesOpening
  <2>3. DateIsLastOpened
    BY <2>1, LastOpened DEF DateIsLastOpened
  <2>4. NextOpeningIsFirst
    <3>1. Day(now) % Days = Day(now)
      <4>1. Days \in Nat \ {0}
        BY MarketHoursAssumption DEF MarketHoursAssumption
      <4>. QED BY <2>1, <4>1
    <3>2. TimeOfDay(now) \notin OpenTime..CloseTime <=>
            ~(OpenTime <= TimeOfDay(now) /\ TimeOfDay(now) <= CloseTime)
      BY <2>1, Clock, BotConstants
    <3>3. (ValidateTradingHours(now, now) = "hours") <=>
            /\ Weekday(Day(now)) \in MarketDays /\ Day(now) \notin Holidays
            /\ TimeOfDay(now) \notin OpenTime..CloseTime
      BY <3>1, <3>2 DEF ValidateTradingHours, PaperIsMarketOpen
    <3>. QED BY <2>1, <3>3, NextOpening DEF NextOpeningIsFirst
  <2>. QED BY <2>2, <2>3, <2>4 DEF CalendarInv
<1>. QED BY <1>1, BotInvariance, PTL

=============================================================================
