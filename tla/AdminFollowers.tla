---------------------------- MODULE AdminFollowers ----------------------------
(***************************************************************************)
(* The REST calls of the admin API that write: create, update and delete a *)
(* follower, and the manual close.  Every call of MongoDB is a step of its *)
(* own, and each may raise.  Followers the API created have an ObjectId    *)
(* and a status; documents of the other services have a string id and     *)
(* neither name nor status, so that the API cannot read them as followers. *)
(* MongoDB is the one the tests hand in: see README, Conventions.          *)
(***************************************************************************)
EXTENDS Integers, FiniteSets

CONSTANTS
  StringIds, ObjectIds, \* ids of the followers
  Emails,
  Requests,             \* requests served
  Absent, Removed,      \* of an id: not there yet, deleted
  Keep,                 \* a field an update leaves alone
  MaxFailures           \* bound: calls that raise, and crashes

ASSUME AdminAssumption ==
  /\ StringIds \cap ObjectIds = {}
  /\ IsFiniteSet(StringIds \cup ObjectIds) /\ IsFiniteSet(Requests)
  /\ Absent # Removed /\ {Absent, Removed} \cap [email: Emails, status: STRING] = {}
  /\ Keep \notin Emails
  /\ MaxFailures \in Nat

VARIABLES
  store,      \* collection followers
  operations, \* number of documents in manual_operations, all of them PENDING
  alerts,     \* number of MANUAL_CLOSE_REQUESTED documents in alerts
  request,    \* where each request is, and what it asks for
  failures

storeVars == <<store, operations, alerts, request, failures>>

Ids == StringIds \cup ObjectIds
Statuses == {"active", "inactive"}
Followers == [email: Emails, status: Statuses \cup {"none"}]
Updates == [email: Emails \cup {Keep}, status: Statuses \cup {Keep}]

Stages == {"new", "byEmail", "insert", "find", "update", "delete",
           "lookUp", "operation", "alert", "answered"}

Present == {id \in Ids : store[id] \notin {Absent, Removed}}
Active == {id \in Present : store[id].status = "active"}

NoChange == [email |-> Keep, status |-> Keep]
NewRequest == [at |-> "new", ids |-> {}, change |-> NoChange, clean |-> TRUE]
Answered == [NewRequest EXCEPT !.at = "answered"]
UnderWay == {r \in Requests : request[r].at \notin {"new", "answered"}}

\* The followers there are already, and how many requests there will be.
InitStore ==
  /\ store \in [Ids -> Followers \cup {Absent}]
  /\ \A id \in Present : store[id].status = "none" <=> id \in StringIds
  /\ operations = 0 /\ alerts = 0
  /\ request \in [Requests -> {NewRequest, Answered}]
  /\ failures = 0

-----------------------------------------------------------------------------
\* ids and change are the arguments; clean: nobody else wrote between the calls of a creation.
Receive(r, stage, ids, change) ==
  /\ request[r].at = "new"
  /\ request' = [request EXCEPT ![r] = [at |-> stage, ids |-> ids, change |-> change, clean |-> TRUE]]
  /\ UNCHANGED <<store, operations, alerts, failures>>

MoveTo(r, stage) ==
  request' = [request EXCEPT ![r] = IF stage = "answered" THEN Answered ELSE [@ EXCEPT !.at = stage]]

\* The last call of r took effect on the store and the request is answered.
Write(r, id, doc) ==
  /\ store' = [store EXCEPT ![id] = doc]
  /\ request' = [q \in Requests |->
                   IF q = r THEN Answered ELSE [request[q] EXCEPT !.clean = @ /\ request[q].at # "insert"]]

\* POST /followers
CreateFollower(r) ==
  \E e \in Emails, s \in Statuses : Receive(r, "byEmail", {}, [email |-> e, status |-> s])

\* Mutant: a follower the API cannot read does not stand in the way.
FindAmongActive(r) ==
  /\ request[r].at = "byEmail"
  /\ MoveTo(r, IF \E id \in Active : store[id].email = request[r].change.email
               THEN "answered" ELSE "insert")
  /\ UNCHANGED <<store, operations, alerts, failures>>

\* 400 if there is one, 500 if it cannot be read as a FollowerResponse
FindByEmail(r) ==
  /\ request[r].at = "byEmail"
  /\ MoveTo(r, IF \E id \in Present : store[id].email = request[r].change.email
               THEN "answered" ELSE "insert")
  /\ UNCHANGED <<store, operations, alerts, failures>>

\* The document read again after the insertion only makes the answer.
InsertFollower(r) ==
  /\ request[r].at = "insert"
  /\ \E id \in ObjectIds : store[id] = Absent /\ Write(r, id, request[r].change)
  /\ UNCHANGED <<operations, alerts, failures>>

\* PUT /followers/{id}; an update of nothing writes nothing
UpdateFollower(r) ==
  \E id \in Ids, change \in Updates \ {NoChange} : Receive(r, "find", {id}, change)

\* DELETE /followers/{id}
DeleteFollower(r) ==
  \E id \in Ids : Receive(r, "find", {id}, NoChange)

\* ObjectId() raises for a string id, which get_follower() takes as not found.
FindFollower(r) ==
  /\ request[r].at = "find"
  /\ MoveTo(r, IF request[r].ids \cap ObjectIds \cap Present = {} THEN "answered"
               ELSE IF request[r].change = NoChange THEN "delete" ELSE "update")
  /\ UNCHANGED <<store, operations, alerts, failures>>

Updated(doc, change) ==
  [f \in {"email", "status"} |-> IF change[f] = Keep THEN doc[f] ELSE change[f]]

\* Mutant: update_one() with upsert.
UpsertOne(r) ==
  /\ request[r].at = "update"
  /\ \E id \in request[r].ids :
       IF id \in Present THEN Write(r, id, Updated(store[id], request[r].change))
       ELSE \E e \in Emails : Write(r, id, Updated([email |-> e, status |-> "none"], request[r].change))
  /\ UNCHANGED <<operations, alerts, failures>>

\* update_one() finds nothing when the follower was deleted meanwhile.
UpdateOne(r) ==
  /\ request[r].at = "update"
  /\ \E id \in request[r].ids :
       IF id \in Present THEN Write(r, id, Updated(store[id], request[r].change))
       ELSE MoveTo(r, "answered") /\ UNCHANGED store
  /\ UNCHANGED <<operations, alerts, failures>>

DeleteOne(r) ==
  /\ request[r].at = "delete"
  /\ \E id \in request[r].ids : Write(r, id, Removed)
  /\ UNCHANGED <<operations, alerts, failures>>

-----------------------------------------------------------------------------
\* POST /manual-close with the right PIN
ManualClose(r) ==
  \E id \in Ids : Receive(r, "lookUp", {id}, NoChange)

\* The id is looked up as a string: 404 for every follower the API created.
LookUpFollower(r) ==
  /\ request[r].at = "lookUp"
  /\ MoveTo(r, IF request[r].ids \cap StringIds \cap Present = {} THEN "answered" ELSE "operation")
  /\ UNCHANGED <<store, operations, alerts, failures>>

\* Mutant: no alert.
InsertSilently(r) ==
  /\ request[r].at = "operation"
  /\ operations' = operations + 1
  /\ MoveTo(r, "answered")
  /\ UNCHANGED <<store, alerts, failures>>

InsertOperation(r) ==
  /\ request[r].at = "operation"
  /\ operations' = operations + 1
  /\ MoveTo(r, "alert")
  /\ UNCHANGED <<store, alerts, failures>>

\* The positions counted after the alert only make the answer.
InsertAlert(r) ==
  /\ request[r].at = "alert"
  /\ alerts' = alerts + 1
  /\ MoveTo(r, "answered")
  /\ UNCHANGED <<store, operations, failures>>

-----------------------------------------------------------------------------
\* A call of MongoDB raises, an insertion perhaps after it was done: 500, or 404 where
\* get_follower() takes the error as not found.
CallRaises(r) ==
  /\ r \in UnderWay
  /\ failures < MaxFailures /\ failures' = failures + 1
  /\ MoveTo(r, "answered")
  /\ \/ UNCHANGED operations
     \/ request[r].at = "operation" /\ operations' = operations + 1
  /\ UNCHANGED <<store, alerts>>

Serve(r) ==
  \/ CreateFollower(r) \/ FindByEmail(r) \/ InsertFollower(r)
  \/ UpdateFollower(r) \/ DeleteFollower(r) \/ FindFollower(r) \/ UpdateOne(r) \/ DeleteOne(r)
  \/ ManualClose(r) \/ LookUpFollower(r) \/ InsertOperation(r) \/ InsertAlert(r)
  \/ CallRaises(r)

\* The requests under way end with the process.
DropRequests ==
  request' = [r \in Requests |-> IF r \in UnderWay THEN Answered ELSE request[r]]
===============================================================================
