---------------------- MODULE GatewayManagerProperties ----------------------
(***************************************************************************)
(* What the gateway manager promises, and what its documentation says of   *)
(* it (docs/gateway-manager.md).                                           *)
(***************************************************************************)
EXTENDS GatewayManager

TypeOK ==
  /\ enabled \subseteq Followers
  /\ gateways \in [Followers -> Instances \cup {None}]
  /\ usedPorts \subseteq Ports
  /\ usedIds \subseteq ClientIds
  /\ inst \in [Instances -> InstanceType]
  /\ box \in [Followers -> Instances \cup {None}]
  /\ alive \subseteq Instances
  /\ mapping \in [Followers -> Instances \cup {None}]
  /\ job \in [Jobs -> JobType]
  /\ monitor \in MonitorType
  /\ caller \in [Callers -> CallerType]
  /\ shutdown \in BOOLEAN

\* The starts in flight: each holds the port and the client id it allocated.
InFlight == {j \in Jobs : job[j].pc = "vault"}

\* Two gateways, or a gateway and a start still waiting for Vault, never hold the same
\* port or client id, however tasks interleave, and what is held is marked as used.
ExclusiveLeases ==
  /\ \A f \in Tracked : inst[gateways[f]].port \in usedPorts /\ inst[gateways[f]].id \in usedIds
  /\ \A j \in InFlight : job[j].port \in usedPorts /\ job[j].id \in usedIds
  /\ \A f, g \in Tracked :
       f # g => inst[gateways[f]].port # inst[gateways[g]].port /\ inst[gateways[f]].id # inst[gateways[g]].id
  /\ \A i, j \in InFlight : i # j => job[i].port # job[j].port /\ job[i].id # job[j].id
  /\ \A f \in Tracked, j \in InFlight :
       inst[gateways[f]].port # job[j].port /\ inst[gateways[f]].id # job[j].id

\* The connected client of a gateway in use talks to that gateway's own container: a port
\* given to another container while a client still dials it never mixes two accounts here.
ClientReachesOwnContainer ==
  \A f \in Tracked : inst[gateways[f]].up =>
    inst[gateways[f]].to = gateways[f] /\ gateways[f] \in alive

\* A task that awaits knows what it works on and has tries left if it is to retry.
AwaitInv ==
  /\ \A j \in Jobs :
       /\ job[j].pc \in {"vault", "store", "unmap"} => job[j].f \in Followers
       /\ job[j].pc = "vault" => job[j].port \in Ports /\ job[j].id \in ClientIds
  /\ monitor.pc \in {"connect", "backoff", "pause"} => monitor.g \in Instances
  /\ monitor.pc = "backoff" => monitor.tries < ConnectTries
  /\ \A c \in Callers :
       /\ caller[c].pc # "idle" => caller[c].g \in Instances
       /\ caller[c].pc = "backoff" => caller[c].tries < ConnectTries

\* An instance that was run keeps its follower and port, Docker publishes a port for one
\* running container only, that of a gateway in use for its own container, and a connected
\* client talks to the running container on its instance's port.
ContainerInv ==
  /\ \A f \in Tracked : inst[gateways[f]].status # "unused" /\ inst[gateways[f]].follower = f
  /\ \A i \in alive :
       inst[i].status # "unused" /\ inst[i].follower \in Followers /\ box[inst[i].follower] = i
  /\ \A i, k \in alive : inst[i].port = inst[k].port => i = k
  /\ \A f \in Tracked, k \in alive : inst[k].port = inst[gateways[f]].port => k = gateways[f]
  /\ \A i \in Instances :
       inst[i].up => inst[i].to \in alive /\ inst[inst[i].to].port = inst[i].port

\* The inductive invariant behind ExclusiveLeases and ClientReachesOwnContainer.
GatewayInv == AwaitInv /\ ContainerInv /\ ExclusiveLeases

\* Every port and client id marked as used belongs to a gateway or to a start in flight:
\* no failed start and no stop loses one.
NothingLeaked ==
  /\ usedPorts = {inst[gateways[f]].port : f \in Tracked} \cup {job[j].port : j \in InFlight}
  /\ usedIds = {inst[gateways[f]].id : f \in Tracked} \cup {job[j].id : j \in InFlight}

\* STOPPED and FAILED are final: no health check, reconnection or late answer of a
\* connection attempt puts a gateway back into service.
NoRevival ==
  [][\A i \in Instances :
       /\ inst[i].status = "STOPPED" => inst'[i].status = "STOPPED"
       /\ inst[i].status = "FAILED" => inst'[i].status \in {"FAILED", "STOPPED"}]_vars

\* The connection of a RUNNING gateway in use does not stay lost unnoticed: it comes back,
\* or the gateway leaves RUNNING or is stopped.
LostClientNoticed ==
  \A i \in Instances :
    (i \in TrackedInstances /\ inst[i].status = "RUNNING" /\ ~inst[i].up)
      ~> (i \notin TrackedInstances \/ inst[i].status # "RUNNING" \/ inst[i].up)

\* Every reload, stop and start ends, whatever Vault, Docker and MongoDB answer.
JobsEnd == \A j \in Jobs : job[j].pc # "idle" ~> job[j].pc = "idle"

=============================================================================
