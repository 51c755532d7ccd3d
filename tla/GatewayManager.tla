--------------------------- MODULE GatewayManager ---------------------------
(***************************************************************************)
(* spreadpilot_core/ibkr/gateway_manager.py: one asyncio process that runs *)
(* one IBGateway container per enabled follower.                           *)
(*                                                                         *)
(* The tasks of the process are start(), reload_followers(),               *)
(* stop_follower_gateway(), stop(), get_client() and the monitor loop.  A  *)
(* step is the code a task runs between two awaits that really suspend     *)
(* (Docker calls and a Vault read that succeeds are synchronous).  The     *)
(* environment edits the followers collection, ends containers and drops   *)
(* TWS connections.                                                        *)
(***************************************************************************)
EXTENDS Naturals, FiniteSets

CONSTANTS
  Followers,         \* documents of the followers collection
  Ports,             \* port_range_start .. port_range_end
  ClientIds,         \* client_id_range_start .. client_id_range_end
  Boot,              \* the task running start()
  Reloads,           \* tasks that call reload_followers()
  Stops,             \* tasks that call stop_follower_gateway() or stop()
  Callers,           \* tasks that call get_client()
  None,              \* Python's None
  MaxStarts,         \* bound: containers ever run
  VaultTries,        \* max_tries of _get_ibkr_credentials_from_vault
  ConnectTries,      \* max_tries of _connect_ib_client
  CallsDuringStart,  \* may the other methods be called before start() ends?
  MongoWrites        \* do writes to gateway_mappings reach MongoDB?

Instances == 1..MaxStarts   \* GatewayInstance objects; also their containers
Jobs == {Boot} \cup Reloads \cup Stops

ASSUME GatewayAssumption ==
  /\ Ports \subseteq Nat
  /\ MaxStarts \in Nat /\ VaultTries \in Nat \ {0} /\ ConnectTries \in Nat \ {0}
  /\ None \notin Nat /\ None \notin Followers /\ None \notin ClientIds
  /\ Boot \notin Reloads /\ Boot \notin Stops /\ Reloads \cap Stops = {}
  /\ CallsDuringStart \in BOOLEAN /\ MongoWrites \in BOOLEAN

VARIABLES
  enabled,    \* followers the query {enabled, ACTIVE} returns (and that parse)
  gateways,   \* self.gateways
  usedPorts,  \* self.used_ports
  usedIds,    \* self.used_client_ids
  inst,       \* the GatewayInstance objects, tracked or not
  box,        \* Docker: the container that has the follower's container name
  alive,      \* Docker: the containers that are running
  mapping,    \* the gateway_mappings collection
  job,        \* the tasks in Jobs
  monitor,    \* the _monitor_gateways task
  caller,     \* the tasks in Callers
  shutdown    \* self._shutdown

vars == <<enabled, gateways, usedPorts, usedIds, inst, box, alive, mapping,
          job, monitor, caller, shutdown>>

(***************************************************************************)
(* inst[i].to and inst[i].up are the instance's ib_client: None, or an IB  *)
(* object last connected to the container "to" that is now connected (up)  *)
(* or not.                                                                 *)
(***************************************************************************)
Status == {"unused", "STARTING", "RUNNING", "STOPPED", "FAILED"}
InstanceType ==
  [follower : Followers \cup {None}, port : Ports \cup {None},
   id : ClientIds \cup {None}, status : Status, failures : 0..2,
   to : Instances \cup {None}, up : BOOLEAN]
NewInstance(f, p, c, status) ==
  [follower |-> f, port |-> p, id |-> c, status |-> status, failures |-> 0,
   to |-> None, up |-> FALSE]
Unused == NewInstance(None, None, None, "unused")

JobType ==
  [pc : {"idle", "scan", "vault", "store", "halt", "unmap"},
   todo : SUBSET Followers, active : SUBSET Followers,
   f : Followers \cup {None}, port : Ports \cup {None},
   id : ClientIds \cup {None}, tries : 0..VaultTries,
   g : Instances \cup {None}]
JobAt(pc, todo, active, f, g) ==
  [pc |-> pc, todo |-> todo, active |-> active, f |-> f,
   port |-> None, id |-> None, tries |-> 0, g |-> g]
Idle == JobAt("idle", {}, {}, None, None)

ConnectPc == {"idle", "connect", "backoff"}
MonitorType ==
  [pc : ConnectPc \cup {"off", "check", "pause"}, todo : SUBSET Instances,
   g : Instances \cup {None}, why : {"none", "startup", "lost", "reconnect"},
   tries : 0..ConnectTries]
MonitorAt(pc, todo) == [pc |-> pc, todo |-> todo, g |-> None, why |-> "none", tries |-> 0]

CallerType ==
  [pc : ConnectPc, g : Instances \cup {None}, tries : 0..ConnectTries,
   f : Followers \cup {None}, to : Instances \cup {None}]
Call(pc, g, tries, f, to) == [pc |-> pc, g |-> g, tries |-> tries, f |-> f, to |-> to]
NoCall == Call("idle", None, 0, None, None)

Tracked == {f \in Followers : gateways[f] # None}
TrackedInstances == {gateways[f] : f \in Tracked}
Booted == job[Boot].pc = "idle" /\ monitor.pc # "off"
Callable == ~shutdown /\ (Booted \/ CallsDuringStart)

Init ==
  /\ enabled \in SUBSET Followers
  /\ gateways = [f \in Followers |-> None]
  /\ usedPorts = {}
  /\ usedIds = {}
  /\ inst = [i \in Instances |-> Unused]
  /\ box = [f \in Followers |-> None]
  /\ alive = {}
  /\ mapping = [f \in Followers |-> None]
  /\ job = [j \in Jobs |->
              IF j = Boot THEN JobAt("scan", enabled, {}, None, None) ELSE Idle]
  /\ monitor = MonitorAt("off", {})
  /\ caller = [c \in Callers |-> NoCall]
  /\ shutdown = FALSE

-----------------------------------------------------------------------------
(* Containers and connections *)

\* The instances once the connections to the containers ks are lost.
Sever(ks) ==
  [i \in Instances |->
     IF inst[i].to \in ks THEN [inst[i] EXCEPT !.up = FALSE] ELSE inst[i]]

\* TWS refuses a second connection with a client id it is serving.
IdBusy(k, id) == \E i \in Instances : inst[i].up /\ inst[i].to = k /\ inst[i].id = id

\* connectAsync reaches whatever container is published on the instance's port.
Reached(g) == {k \in alive : inst[k].port = inst[g].port /\ ~IdBusy(k, inst[g].id)}

\* ib_client.disconnect() at the start of every try of _connect_ib_client.
Disconnected(g) == [inst EXCEPT ![g].up = FALSE]

-----------------------------------------------------------------------------
(* _start_gateway, called for one follower of the query's result *)

\* docker run and the registration of the new gateway; "live" and "ins" are the
\* running containers and the instances once an old container is removed.
RunContainer(j, f, p, c, live, ins) ==
  \E i \in Instances :
    /\ ins[i].status = "unused"
    /\ \A k \in Instances : ins[k].status = "unused" => i <= k
    /\ \A k \in live : ins[k].port # p
    /\ inst' = [ins EXCEPT ![i] = NewInstance(f, p, c, "STARTING")]
    /\ box' = [box EXCEPT ![f] = i]
    /\ alive' = live \cup {i}
    /\ gateways' = [gateways EXCEPT ![f] = i]
    /\ job' = [job EXCEPT ![j] = JobAt("store", job[j].todo \ {f}, job[j].active \cup {f}, f, i)]

Scanned(j, f) ==
  JobAt("scan", job[j].todo \ {f}, job[j].active \cup {f}, None, None)

\* reload_followers skips a follower that has a gateway; start() never looks.
AlreadyRunning(j, f) ==
  /\ job[j].pc = "scan" /\ f \in job[j].todo
  /\ j # Boot /\ f \in Tracked
  /\ job' = [job EXCEPT ![j] = Scanned(j, f)]
  /\ UNCHANGED <<enabled, gateways, usedPorts, usedIds, inst, box, alive,
                 mapping, monitor, caller, shutdown>>

NeedsStart(j, f) ==
  job[j].pc = "scan" /\ f \in job[j].todo /\ (j = Boot \/ f \notin Tracked)

\* Mutant: the first port of the range, used or not.
FirstPort(p) == p \in Ports /\ \A q \in Ports : p <= q

FreePort(p) == p \in Ports \ usedPorts /\ \A q \in Ports \ usedPorts : p <= q

\* _allocate_port raises: nothing was allocated.
NoPort(j, f) ==
  /\ NeedsStart(j, f)
  /\ Ports \subseteq usedPorts
  /\ job' = [job EXCEPT ![j] = Scanned(j, f)]
  /\ UNCHANGED <<enabled, gateways, usedPorts, usedIds, inst, box, alive,
                 mapping, monitor, caller, shutdown>>

\* _allocate_client_id raises outside the try block: the port stays allocated.
NoClientId(j, f) ==
  /\ NeedsStart(j, f)
  /\ ClientIds \subseteq usedIds
  /\ \E p \in Ports : FreePort(p) /\ usedPorts' = usedPorts \cup {p}
  /\ job' = [job EXCEPT ![j] = Scanned(j, f)]
  /\ UNCHANGED <<enabled, gateways, usedIds, inst, box, alive, mapping,
                 monitor, caller, shutdown>>

\* The old container is removed, Vault answers at once and the container runs.
StartAtOnce(j, f) ==
  /\ NeedsStart(j, f)
  /\ \E p \in Ports, c \in ClientIds \ usedIds :
       /\ FreePort(p)
       /\ RunContainer(j, f, p, c, alive \ {box[f]}, Sever({box[f]} \ {None}))
       /\ usedPorts' = usedPorts \cup {p}
       /\ usedIds' = usedIds \cup {c}
  /\ UNCHANGED <<enabled, mapping, monitor, caller, shutdown>>

\* The old container is removed and the Vault read fails: the task sleeps before
\* the next try, or publishes an alert before it gives up.
StartWaitsForVault(j, f) ==
  /\ NeedsStart(j, f)
  /\ \E p \in Ports, c \in ClientIds \ usedIds :
       /\ FreePort(p)
       /\ usedPorts' = usedPorts \cup {p}
       /\ usedIds' = usedIds \cup {c}
       /\ job' = [job EXCEPT ![j] = [@ EXCEPT !.pc = "vault", !.f = f, !.port = p,
                                              !.id = c, !.tries = 1]]
  /\ box' = [box EXCEPT ![f] = None]
  /\ alive' = alive \ {box[f]}
  /\ inst' = Sever({box[f]} \ {None})
  /\ UNCHANGED <<enabled, gateways, mapping, monitor, caller, shutdown>>

\* Docker raises before any await: port and client id are given back.
StartFailsAtOnce(j, f) ==
  /\ NeedsStart(j, f)
  /\ ~(Ports \subseteq usedPorts) /\ ~(ClientIds \subseteq usedIds)
  /\ \/ /\ box' = [box EXCEPT ![f] = None]
        /\ alive' = alive \ {box[f]}
        /\ inst' = Sever({box[f]} \ {None})
     \/ UNCHANGED <<inst, box, alive>>
  /\ job' = [job EXCEPT ![j] = Scanned(j, f)]
  /\ UNCHANGED <<enabled, gateways, usedPorts, usedIds, mapping, monitor,
                 caller, shutdown>>

\* A later try of the Vault read fails as well.
VaultRetry(j) ==
  /\ job[j].pc = "vault" /\ job[j].tries < VaultTries
  /\ job' = [job EXCEPT ![j].tries = @ + 1]
  /\ UNCHANGED <<enabled, gateways, usedPorts, usedIds, inst, box, alive,
                 mapping, monitor, caller, shutdown>>

\* A later try succeeds; docker run needs the container name to be free.
VaultAnswers(j) ==
  /\ job[j].pc = "vault" /\ job[j].tries < VaultTries
  /\ box[job[j].f] = None
  /\ RunContainer(j, job[j].f, job[j].port, job[j].id, alive, inst)
  /\ UNCHANGED <<enabled, usedPorts, usedIds, mapping, monitor, caller, shutdown>>

\* Mutant: the client id is not given back.
StartGivesUpPortOnly(j) ==
  /\ job[j].pc = "vault"
  /\ usedPorts' = usedPorts \ {job[j].port}
  /\ job' = [job EXCEPT ![j] = Scanned(j, job[j].f)]
  /\ UNCHANGED <<enabled, gateways, usedIds, inst, box, alive, mapping, monitor,
                 caller, shutdown>>

\* No credentials, the last try failed, or docker run raised.
StartGivesUp(j) ==
  /\ job[j].pc = "vault"
  /\ usedPorts' = usedPorts \ {job[j].port}
  /\ usedIds' = usedIds \ {job[j].id}
  /\ job' = [job EXCEPT ![j] = Scanned(j, job[j].f)]
  /\ UNCHANGED <<enabled, gateways, inst, box, alive, mapping, monitor, caller,
                 shutdown>>

\* _store_gateway_mapping upserts the document; an error is swallowed.
StoreMapping(j) ==
  /\ job[j].pc = "store"
  /\ mapping' = IF MongoWrites THEN [mapping EXCEPT ![job[j].f] = job[j].g] ELSE mapping
  /\ job' = [job EXCEPT ![j] = [@ EXCEPT !.pc = "scan", !.f = None, !.g = None]]
  /\ UNCHANGED <<enabled, gateways, usedPorts, usedIds, inst, box, alive,
                 monitor, caller, shutdown>>

-----------------------------------------------------------------------------
(* _stop_gateway, and the loops that call it *)

\* Mutant: the gateway stays tracked.
StopGatewayKeepsIt(f) ==
  LET i == gateways[f] IN
  /\ box' = IF box[f] = i THEN [box EXCEPT ![f] = None] ELSE box
  /\ alive' = alive \ {i}
  /\ inst' = [Sever(alive \ alive') EXCEPT ![i].up = FALSE]
  /\ usedPorts' = usedPorts \ {inst[i].port}
  /\ usedIds' = usedIds \ {inst[i].id}
  /\ UNCHANGED gateways

\* Everything _stop_gateway does before it awaits: disconnect, stop and remove the
\* container (which may fail half way), free the port and the id, forget the gateway.
StopGateway(f) ==
  LET i == gateways[f] IN
  /\ \E left \in {"nothing", "stopped container", "running container"} :
       /\ box' = IF left = "nothing" /\ box[f] = i THEN [box EXCEPT ![f] = None] ELSE box
       /\ alive' = IF left = "running container" THEN alive ELSE alive \ {i}
       /\ inst' = [Sever(alive \ alive') EXCEPT ![i].up = FALSE]
  /\ usedPorts' = usedPorts \ {inst[i].port}
  /\ usedIds' = usedIds \ {inst[i].id}
  /\ gateways' = [gateways EXCEPT ![f] = None]

\* Stop the followers in "todo" one after the other; one without a gateway is passed over.
StopNext(j, todo) ==
  \/ /\ todo \cap Tracked = {}
     /\ job' = [job EXCEPT ![j] = Idle]
     /\ UNCHANGED <<gateways, usedPorts, usedIds, inst, box, alive>>
  \/ \E f \in todo \cap Tracked :
       /\ StopGateway(f)
       /\ job' = [job EXCEPT ![j] = JobAt("unmap", todo \ {f}, {}, f, None)]

\* Mutants: the document is left behind; the task waits until MongoDB takes the delete.
KeepMapping(j) ==
  /\ job[j].pc = "unmap"
  /\ StopNext(j, job[j].todo)
  /\ UNCHANGED <<enabled, mapping, monitor, caller, shutdown>>

InsistOnRemoval(j) ==
  /\ job[j].pc = "unmap" /\ MongoWrites
  /\ mapping' = [mapping EXCEPT ![job[j].f] = None]
  /\ StopNext(j, job[j].todo)
  /\ UNCHANGED <<enabled, monitor, caller, shutdown>>

\* _remove_gateway_mapping deletes by follower id; an error is swallowed.
RemoveMapping(j) ==
  /\ job[j].pc = "unmap"
  /\ mapping' = IF MongoWrites THEN [mapping EXCEPT ![job[j].f] = None] ELSE mapping
  /\ StopNext(j, job[j].todo)
  /\ UNCHANGED <<enabled, monitor, caller, shutdown>>

\* reload_followers: the query; the loop over its result is made of the steps above.
ReloadBegins(j) ==
  /\ j \in Reloads /\ job[j] = Idle /\ Callable
  /\ job' = [job EXCEPT ![j] = JobAt("scan", enabled, {}, None, None)]
  /\ UNCHANGED <<enabled, gateways, usedPorts, usedIds, inst, box, alive,
                 mapping, monitor, caller, shutdown>>

\* reload_followers: stop every gateway whose follower the query did not return.
ReloadPrunes(j) ==
  /\ j \in Reloads /\ job[j].pc = "scan" /\ job[j].todo = {}
  /\ StopNext(j, Tracked \ job[j].active)
  /\ UNCHANGED <<enabled, mapping, monitor, caller, shutdown>>

\* start() has loaded the followers and creates the monitor task.
StartEnds ==
  /\ job[Boot].pc = "scan" /\ job[Boot].todo = {}
  /\ job' = [job EXCEPT ![Boot] = Idle]
  /\ monitor' = IF shutdown THEN monitor ELSE MonitorAt("idle", {})
  /\ UNCHANGED <<enabled, gateways, usedPorts, usedIds, inst, box, alive,
                 mapping, caller, shutdown>>

StopFollower(j, f) ==
  /\ j \in Stops /\ job[j] = Idle /\ Callable
  /\ f \in Tracked
  /\ StopNext(j, {f})
  /\ UNCHANGED <<enabled, mapping, monitor, caller, shutdown>>

\* stop(): raise the flag, cancel the monitor and wait for it.
Stop(j) ==
  /\ j \in Stops /\ job[j] = Idle /\ Callable
  /\ shutdown' = TRUE
  /\ monitor' = MonitorAt("off", {})
  /\ job' = [job EXCEPT ![j].pc = "halt"]
  /\ UNCHANGED <<enabled, gateways, usedPorts, usedIds, inst, box, alive,
                 mapping, caller>>

StopAll(j) ==
  /\ job[j].pc = "halt"
  /\ StopNext(j, Tracked)
  /\ UNCHANGED <<enabled, mapping, monitor, caller, shutdown>>

-----------------------------------------------------------------------------
(* get_client *)

GetClient(c, f) ==
  /\ caller[c].pc = "idle" /\ Callable
  /\ f \in Tracked
  /\ LET g == gateways[f] IN
     /\ inst[g].status = "RUNNING"
     /\ \/ /\ inst[g].up
           /\ caller' = [caller EXCEPT ![c] = Call("idle", None, 0, f, inst[g].to)]
        \/ /\ ~inst[g].up
           /\ caller' = [caller EXCEPT ![c] = Call("connect", g, 1, f, None)]
  /\ UNCHANGED <<enabled, gateways, usedPorts, usedIds, inst, box, alive,
                 mapping, job, monitor, shutdown>>

CallerConnects(c) ==
  /\ caller[c].pc = "connect"
  /\ \E k \in Reached(caller[c].g) :
       /\ inst' = [inst EXCEPT ![caller[c].g] = [@ EXCEPT !.to = k, !.up = TRUE]]
       /\ caller' = [caller EXCEPT ![c] = Call("idle", None, 0, caller[c].f, k)]
  /\ UNCHANGED <<enabled, gateways, usedPorts, usedIds, box, alive, mapping,
                 job, monitor, shutdown>>

CallerFails(c) ==
  /\ caller[c].pc = "connect"
  /\ caller' = [caller EXCEPT ![c] =
                  IF caller[c].tries < ConnectTries THEN [@ EXCEPT !.pc = "backoff"] ELSE NoCall]
  /\ UNCHANGED <<enabled, gateways, usedPorts, usedIds, inst, box, alive,
                 mapping, job, monitor, shutdown>>

CallerRetries(c) ==
  /\ caller[c].pc = "backoff"
  /\ inst' = Disconnected(caller[c].g)
  /\ caller' = [caller EXCEPT ![c] = [@ EXCEPT !.pc = "connect", !.tries = caller[c].tries + 1]]
  /\ UNCHANGED <<enabled, gateways, usedPorts, usedIds, box, alive, mapping,
                 job, monitor, shutdown>>

-----------------------------------------------------------------------------
(* _monitor_gateways and _check_gateway_health *)

MonitorCycle ==
  /\ monitor.pc = "idle" /\ Tracked # {}
  /\ monitor' = MonitorAt("check", TrackedInstances)
  /\ UNCHANGED <<enabled, gateways, usedPorts, usedIds, inst, box, alive,
                 mapping, job, caller, shutdown>>

NextCheck(todo) == MonitorAt(IF todo = {} THEN "idle" ELSE "check", todo)
Connecting(pc, i, why) ==
  [pc |-> pc, todo |-> monitor.todo \ {i}, g |-> i, why |-> why, tries |-> 1]

ContainerRuns(i) == i \in alive

\* The container exited, or Docker does not know it any more.
CheckFindsStopped(i) ==
  /\ monitor.pc = "check" /\ i \in monitor.todo
  /\ ~ContainerRuns(i)
  /\ inst' = [inst EXCEPT ![i].status = "STOPPED"]
  /\ monitor' = NextCheck(monitor.todo \ {i})
  /\ UNCHANGED <<enabled, gateways, usedPorts, usedIds, box, alive, mapping,
                 job, caller, shutdown>>

\* Mutant: a FAILED gateway is connected to as if it was starting.
CheckConnectsFailed(i) ==
  /\ monitor.pc = "check" /\ i \in monitor.todo
  /\ ContainerRuns(i)
  /\ inst[i].status \in {"STARTING", "FAILED"}
  /\ monitor' = Connecting("connect", i, "startup")
  /\ inst' = Disconnected(i)
  /\ UNCHANGED <<enabled, gateways, usedPorts, usedIds, box, alive, mapping,
                 job, caller, shutdown>>

\* A STARTING gateway, and a RUNNING one without a client, are connected to.
CheckConnects(i) ==
  /\ monitor.pc = "check" /\ i \in monitor.todo
  /\ ContainerRuns(i)
  /\ \/ /\ inst[i].status = "STARTING"
        /\ monitor' = Connecting("connect", i, "startup")
     \/ /\ inst[i].status = "RUNNING" /\ inst[i].to = None
        /\ monitor' = Connecting("connect", i, "lost")
  /\ inst' = Disconnected(i)
  /\ UNCHANGED <<enabled, gateways, usedPorts, usedIds, box, alive, mapping,
                 job, caller, shutdown>>

\* Mutant: the count of a dead client never passes one.
CheckNeverCounts(i) ==
  /\ monitor.pc = "check" /\ i \in monitor.todo
  /\ ContainerRuns(i)
  /\ inst[i].status = "RUNNING" /\ inst[i].to # None
  /\ inst' = [inst EXCEPT ![i].failures = IF inst[i].up THEN 0 ELSE 1]
  /\ monitor' = NextCheck(monitor.todo \ {i})
  /\ UNCHANGED <<enabled, gateways, usedPorts, usedIds, box, alive, mapping,
                 job, caller, shutdown>>

\* A RUNNING gateway: a live client clears the count, a dead one adds to it, and the
\* second failure drops the client before _reconnect sleeps.
CheckCounts(i) ==
  /\ monitor.pc = "check" /\ i \in monitor.todo
  /\ ContainerRuns(i)
  /\ inst[i].status = "RUNNING" /\ inst[i].to # None
  /\ \/ /\ inst[i].up
        /\ inst' = [inst EXCEPT ![i].failures = 0]
        /\ monitor' = NextCheck(monitor.todo \ {i})
     \/ /\ ~inst[i].up /\ inst[i].failures = 0
        /\ inst' = [inst EXCEPT ![i].failures = 1]
        /\ monitor' = NextCheck(monitor.todo \ {i})
     \/ /\ ~inst[i].up /\ inst[i].failures > 0
        /\ inst' = [inst EXCEPT ![i] = [@ EXCEPT !.failures = 2, !.to = None]]
        /\ monitor' = Connecting("pause", i, "reconnect")
  /\ UNCHANGED <<enabled, gateways, usedPorts, usedIds, box, alive, mapping,
                 job, caller, shutdown>>

\* Nothing is done for a FAILED or STOPPED gateway whose container runs.
CheckSkips(i) ==
  /\ monitor.pc = "check" /\ i \in monitor.todo
  /\ ContainerRuns(i) /\ inst[i].status \in {"FAILED", "STOPPED"}
  /\ monitor' = NextCheck(monitor.todo \ {i})
  /\ UNCHANGED <<enabled, gateways, usedPorts, usedIds, inst, box, alive,
                 mapping, job, caller, shutdown>>

\* The sleep of _reconnect, or of the backoff, is over.
MonitorRetries ==
  /\ monitor.pc \in {"pause", "backoff"}
  /\ inst' = Disconnected(monitor.g)
  /\ monitor' = [monitor EXCEPT !.pc = "connect",
                                !.tries = IF monitor.pc = "backoff" THEN @ + 1 ELSE @]
  /\ UNCHANGED <<enabled, gateways, usedPorts, usedIds, box, alive, mapping,
                 job, caller, shutdown>>

MonitorConnects ==
  /\ monitor.pc = "connect"
  /\ \E k \in Reached(monitor.g) :
       \/ /\ monitor.why = "startup"
          /\ inst' = [inst EXCEPT ![monitor.g] =
                        [@ EXCEPT !.to = k, !.up = TRUE, !.status = "RUNNING"]]
       \/ /\ monitor.why # "startup"
          /\ inst' = [inst EXCEPT ![monitor.g] =
                        [@ EXCEPT !.to = k, !.up = TRUE, !.failures = 0]]
  /\ monitor' = NextCheck(monitor.todo)
  /\ UNCHANGED <<enabled, gateways, usedPorts, usedIds, box, alive, mapping,
                 job, caller, shutdown>>

\* A try failed; after the last one a STARTING gateway fails if max_startup_time is over
\* and a lost connection fails the gateway.
MonitorConnectFails ==
  /\ monitor.pc = "connect"
  /\ \/ /\ monitor.tries < ConnectTries
        /\ monitor' = [monitor EXCEPT !.pc = "backoff"]
        /\ UNCHANGED inst
     \/ /\ monitor.tries = ConnectTries
        /\ monitor' = NextCheck(monitor.todo)
        /\ \/ /\ monitor.why \in {"startup", "reconnect"}
              /\ inst' = [inst EXCEPT ![monitor.g].status = "FAILED"]
           \/ /\ monitor.why \in {"startup", "lost"}
              /\ UNCHANGED inst
  /\ UNCHANGED <<enabled, gateways, usedPorts, usedIds, box, alive, mapping,
                 job, caller, shutdown>>

-----------------------------------------------------------------------------
(* The environment *)

EditFollower(f) ==
  /\ enabled' = IF f \in enabled THEN enabled \ {f} ELSE enabled \cup {f}
  /\ UNCHANGED <<gateways, usedPorts, usedIds, inst, box, alive, mapping, job,
                 monitor, caller, shutdown>>

\* A container exits, and may be removed by hand.
ContainerEnds(i) ==
  /\ i \in alive
  /\ alive' = alive \ {i}
  /\ inst' = Sever({i})
  /\ \E f \in Followers : box[f] = i /\ box' \in {box, [box EXCEPT ![f] = None]}
  /\ UNCHANGED <<enabled, gateways, usedPorts, usedIds, mapping, job, monitor,
                 caller, shutdown>>

ConnectionDrops(i) ==
  /\ inst[i].up
  /\ inst' = Disconnected(i)
  /\ UNCHANGED <<enabled, gateways, usedPorts, usedIds, box, alive, mapping,
                 job, monitor, caller, shutdown>>

-----------------------------------------------------------------------------
JobStep(j) ==
  \/ \E f \in Followers : \/ AlreadyRunning(j, f) \/ NoPort(j, f) \/ NoClientId(j, f)
                          \/ StartAtOnce(j, f) \/ StartWaitsForVault(j, f)
                          \/ StartFailsAtOnce(j, f)
  \/ VaultRetry(j) \/ VaultAnswers(j) \/ StartGivesUp(j) \/ StoreMapping(j)
  \/ ReloadPrunes(j) \/ RemoveMapping(j) \/ StopAll(j)
  \/ j = Boot /\ StartEnds

JobCall(j) == ReloadBegins(j) \/ Stop(j) \/ \E f \in Followers : StopFollower(j, f)

CallerStep(c) == CallerConnects(c) \/ CallerFails(c) \/ CallerRetries(c)

MonitorStep ==
  \/ MonitorCycle \/ MonitorRetries \/ MonitorConnects \/ MonitorConnectFails
  \/ \E i \in Instances : \/ CheckFindsStopped(i) \/ CheckConnects(i)
                          \/ CheckCounts(i) \/ CheckSkips(i)

Environment ==
  \/ \E f \in Followers : EditFollower(f)
  \/ \E i \in Instances : ContainerEnds(i) \/ ConnectionDrops(i)

Next ==
  \/ \E j \in Jobs : JobStep(j) \/ JobCall(j)
  \/ \E c \in Callers : CallerStep(c) \/ \E f \in Followers : GetClient(c, f)
  \/ MonitorStep
  \/ Environment

Spec == Init /\ [][Next]_vars

\* asyncio runs every ready task, and every await of a running task ends.
Fairness ==
  /\ \A j \in Jobs : WF_vars(JobStep(j))
  /\ \A c \in Callers : WF_vars(CallerStep(c))
  /\ WF_vars(MonitorStep)

FairSpec == Spec /\ Fairness
=============================================================================
