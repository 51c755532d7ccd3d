------------------------------- MODULE AdminApi -------------------------------
(***************************************************************************)
(* The admin API's process: the requests of AdminFollowers, the WebSockets *)
(* of the dashboards and the periodic task that counts the followers and   *)
(* broadcasts the counts to every stored connection, one await after the   *)
(* other.  A dashboard that connects again is another socket.              *)
(***************************************************************************)
EXTENDS AdminFollowers, Sequences

CONSTANT Sockets

ASSUME SocketsAssumption == IsFiniteSet(Sockets)

VARIABLES
  socket,      \* "new", "accepting", "open", "gone" (the client left) or "closed" (its handler ended)
  connections, \* ConnectionManager.active_connections, in the order of the dict
  feed         \* periodic_follower_update_task()

adminVars == <<storeVars, socket, connections, feed>>

SocketStates == {"new", "accepting", "open", "gone", "closed"}

\* size: of the dict when the iteration began; writes: to the store since the first count
FeedSteps == {"sleeping", "countAll", "countActive", "sending"}
Resting == [at |-> "sleeping", total |-> 0, inactive |-> 0, next |-> 1, size |-> 0, writes |-> 0]

AdminInit ==
  /\ InitStore
  /\ socket \in [Sockets -> {"new", "closed"}] /\ connections = <<>>
  /\ feed = Resting

-----------------------------------------------------------------------------
(* websocket_endpoint() *)

\* accept() is awaited before the connection is stored.
ValidToken(s) ==
  /\ socket[s] = "new"
  /\ socket' = [socket EXCEPT ![s] = "accepting"]
  /\ UNCHANGED <<storeVars, connections, feed>>

\* The token is refused, or the client has left before it is accepted.
Refused(s) ==
  /\ socket[s] \in {"new", "accepting"}
  /\ socket' = [socket EXCEPT ![s] = "closed"]
  /\ UNCHANGED <<storeVars, connections, feed>>

Accepted(s) ==
  /\ socket[s] = "accepting"
  /\ socket' = [socket EXCEPT ![s] = "open"]
  /\ connections' = Append(connections, s)
  /\ UNCHANGED <<storeVars, feed>>

Leaves(s) ==
  /\ socket[s] = "open"
  /\ socket' = [socket EXCEPT ![s] = "gone"]
  /\ UNCHANGED <<storeVars, connections, feed>>

\* The first except clause takes the WebSocketDisconnect too: disconnect() is not called.
HandlerEnds(s) ==
  /\ socket[s] = "gone"
  /\ socket' = [socket EXCEPT ![s] = "closed"]
  /\ UNCHANGED <<storeVars, connections, feed>>

-----------------------------------------------------------------------------
(* periodic_follower_update_task() *)

\* follower_update_interval is over.
WakeUp ==
  /\ feed.at = "sleeping"
  /\ feed' = [feed EXCEPT !.at = "countAll"]
  /\ UNCHANGED <<storeVars, socket, connections>>

\* Mutant: only followers the API can read are counted.
CountReadable ==
  /\ feed.at = "countAll"
  /\ feed' = [Resting EXCEPT !.at = "countActive", !.total = Cardinality(Present \cap ObjectIds)]
  /\ UNCHANGED <<storeVars, socket, connections>>

CountAll ==
  /\ feed.at = "countAll"
  /\ feed' = [Resting EXCEPT !.at = "countActive", !.total = Cardinality(Present)]
  /\ UNCHANGED <<storeVars, socket, connections>>

\* Mutant: the iteration misses the first connection.
CountAndSkipOne ==
  /\ feed.at = "countActive"
  /\ feed' = [Resting EXCEPT !.at = "sending", !.inactive = feed.total - Cardinality(Active),
                              !.size = Len(connections), !.next = IF connections = <<>> THEN 1 ELSE 2]
  /\ UNCHANGED <<storeVars, socket, connections>>

CountActive ==
  /\ feed.at = "countActive"
  /\ feed' = [Resting EXCEPT !.at = "sending", !.inactive = feed.total - Cardinality(Active),
                              !.size = Len(connections)]
  /\ UNCHANGED <<storeVars, socket, connections>>

\* An exception ends the round and is logged; the task sleeps again.
RoundRaises == feed' = Resting

\* A count raises, as may any call of MongoDB.
CountRaises ==
  /\ feed.at \in {"countAll", "countActive"}
  /\ failures < MaxFailures /\ failures' = failures + 1
  /\ RoundRaises
  /\ UNCHANGED <<store, operations, alerts, request, socket, connections>>

\* The iteration over the dict is at its end, or raises as the dict has grown.
IterationEnds ==
  /\ feed.at = "sending"
  /\ \/ feed.size = Len(connections) /\ feed.next > feed.size /\ feed' = Resting
     \/ feed.size # Len(connections) /\ RoundRaises
  /\ UNCHANGED <<storeVars, socket, connections>>

\* send_text() raises for a closed socket; for one whose client has just left it may.
SendUpdate ==
  /\ feed.at = "sending" /\ feed.size = Len(connections) /\ feed.next <= feed.size
  /\ LET s == connections[feed.next]
     IN  \/ socket[s] # "closed" /\ feed' = [feed EXCEPT !.next = @ + 1]
         \/ socket[s] # "open" /\ RoundRaises
  /\ UNCHANGED <<storeVars, socket, connections>>

-----------------------------------------------------------------------------
\* A request takes a step; writes to the store are counted for the feed's properties.
ServeRequest(r) ==
  /\ Serve(r)
  /\ feed' = IF store' # store /\ feed.at = "countActive"
             THEN [feed EXCEPT !.writes = @ + 1] ELSE feed
  /\ UNCHANGED <<socket, connections>>

\* The process ends, which cancels the task, and is started again.
AdminRestart ==
  /\ failures < MaxFailures /\ failures' = failures + 1
  /\ DropRequests
  /\ socket' = [s \in Sockets |-> IF socket[s] = "new" THEN "new" ELSE "closed"]
  /\ connections' = <<>> /\ feed' = Resting
  /\ UNCHANGED <<store, operations, alerts>>

Feed == WakeUp \/ CountAll \/ CountActive \/ SendUpdate \/ IterationEnds

AdminNext ==
  \/ \E r \in Requests : ServeRequest(r)
  \/ \E s \in Sockets : ValidToken(s) \/ Refused(s) \/ Accepted(s) \/ Leaves(s) \/ HandlerEnds(s)
  \/ Feed \/ CountRaises
  \/ AdminRestart

AdminSpec == AdminInit /\ [][AdminNext]_adminVars

\* The event loop runs what is ready: the task, and the end of a handler whose client left.
AdminFairness == WF_adminVars(Feed) /\ \A s \in Sockets : WF_adminVars(HandlerEnds(s))

AdminFairSpec == AdminSpec /\ AdminFairness

-----------------------------------------------------------------------------
AdminTypeOK ==
  /\ store \in [Ids -> Followers \cup {Absent, Removed}]
  /\ {operations, alerts} \subseteq 0..Cardinality(Requests)
  /\ request \in [Requests -> [at: Stages, ids: SUBSET Ids, change: Updates, clean: BOOLEAN]]
  /\ failures \in 0..MaxFailures
  /\ socket \in [Sockets -> SocketStates]
  /\ \E n \in 0..Cardinality(Sockets) : connections \in [1..n -> Sockets]
  /\ feed.at \in FeedSteps /\ {feed.total, feed.inactive} \subseteq -Cardinality(Ids)..Cardinality(Ids)
  /\ feed.size \in 0..Len(connections) /\ feed.next \in 1..feed.size + 1

\* A follower gets an email that another one has only by an update, or when someone wrote
\* between the two calls of its creation: a creation that is not overtaken never doubles one.
DuplicateOnlyByRace ==
  [][\A r \in Requests : request[r].at = "insert" /\ store' # store /\ request'[r].at = "answered" =>
       \/ ~request[r].clean
       \/ \A id \in Present : store[id].email # request[r].change.email]_adminVars

\* A deleted follower stays deleted, though an update of it is under way that found it.
RemovedStays == [][\A id \in Ids : store[id] = Removed => store'[id] = Removed]_adminVars

\* Every manual close is announced by its alert or is about to be, unless a call raised or
\* the process ended in between; and there is no alert without an operation.
OperationsAreAnnounced ==
  operations - alerts - Cardinality({r \in Requests : request[r].at = "alert"}) \in
    0..failures * Cardinality(Requests)

\* The number is that of the followers that are not active, but for so many writes.
Near(number, writes) ==
  number - Cardinality({id \in Present : store[id].status # "active"}) \in -writes..writes

\* The number of inactive followers that is broadcast is the right one at the time of the
\* second count, but for one follower per write between the two counts.
InactiveIsRight ==
  [][feed.at = "countActive" /\ feed'.at = "sending" => Near(feed'.inactive, feed.writes)]_adminVars

\* The update is being sent to s.
Sending(s) ==
  /\ feed.at = "sending" /\ feed.next <= feed.size /\ feed.size = Len(connections)
  /\ connections[feed.next] = s

\* Nobody that is stored before s has left.
UndisturbedAt(s) ==
  /\ socket[s] = "open"
  /\ \E i \in 1..Len(connections) :
       connections[i] = s /\ \A j \in 1..i : socket[connections[j]] = "open"

\* A dashboard is updated again and again as long as no one that connected before it has left,
\* whatever connects or leaves after it, and whatever error a count ended with.
UpdatedUnlessBlocked ==
  \A s \in Sockets : <>[]UndisturbedAt(s) => []<>Sending(s)

\* The manual closes against their alerts, however requests end.
OperationsInv == AdminTypeOK /\ OperationsAreAnnounced

\* Requests that overlap do no more to followers, and to the counts that are broadcast, than
\* the write that came between two calls explains.
OverlapIsExplained == DuplicateOnlyByRace /\ RemovedStays /\ InactiveIsRight
===============================================================================
