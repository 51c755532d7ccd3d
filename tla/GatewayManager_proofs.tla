----------------------- MODULE GatewayManager_proofs ------------------------
(***************************************************************************)
(* What the gateway manager keeps, for any followers, ports, ids, tasks    *)
(* and starts: types, exclusive ports and client ids, own containers,      *)
(* statuses that are final; and, when its calls do not overlap, that       *)
(* nothing allocated is lost; and the mappings beside calls that overlap.  *)
(***************************************************************************)
EXTENDS GatewayMappings, FiniteSetTheorems, TLAPS

USE GatewayAssumption

\* None is told apart from every instance.
LEMMA NoneIsNoInstance == None \notin Instances
BY DEF Instances

\* Losing connections changes nothing of an instance but "up".
LEMMA SeverKeeps ==
  ASSUME inst \in [Instances -> InstanceType], NEW ks
  PROVE  /\ Sever(ks) \in [Instances -> InstanceType]
         /\ \A i \in Instances :
              /\ Sever(ks)[i].follower = inst[i].follower
              /\ Sever(ks)[i].port = inst[i].port
              /\ Sever(ks)[i].id = inst[i].id
              /\ Sever(ks)[i].status = inst[i].status
              /\ Sever(ks)[i].to = inst[i].to
              /\ Sever(ks)[i].up = (inst[i].up /\ inst[i].to \notin ks)
  BY DEF Sever, InstanceType

\* So does a client's disconnect().
LEMMA DropType ==
  ASSUME NEW ins \in [Instances -> InstanceType], NEW i \in Instances
  PROVE  [ins EXCEPT ![i].up = FALSE] \in [Instances -> InstanceType]
  BY DEF InstanceType

\* A client's disconnect() changes nothing of an instance but "up".
LEMMA DropKeeps ==
  ASSUME NEW ins \in [Instances -> InstanceType], NEW i \in Instances, NEW new,
         new = [ins EXCEPT ![i].up = FALSE], NEW k \in Instances
  PROVE  /\ new[k].follower = ins[k].follower
         /\ new[k].port = ins[k].port
         /\ new[k].id = ins[k].id
         /\ new[k].status = ins[k].status
         /\ new[k].to = ins[k].to
         /\ new[k].up => ins[k].up
<1>1. CASE k # i
  <2>1. new[k] = ins[k] BY <1>1
  <2> QED BY <2>1
<1>2. CASE k = i
  <2>1. new[k] = [ins[k] EXCEPT !.up = FALSE] BY <1>2
  <2>2. ins[k] \in InstanceType OBVIOUS
  <2> QED BY <2>1, <2>2 DEF InstanceType
<1> QED BY <1>1, <1>2

\* What disconnecting a gateway and losing the connections to its container leave.
Same(new, old) ==
  /\ new.follower = old.follower
  /\ new.port = old.port
  /\ new.id = old.id
  /\ new.status = old.status
  /\ new.to = old.to

\* Neither do the two together, as when a container is removed.
LEMMA SeverDropKeeps ==
  ASSUME inst \in [Instances -> InstanceType], NEW ks, NEW i \in Instances, NEW k \in Instances
  PROVE  /\ Same([Sever(ks) EXCEPT ![i].up = FALSE][k], inst[k])
         /\ [Sever(ks) EXCEPT ![i].up = FALSE][k].up => inst[k].up /\ inst[k].to \notin ks
<1> PICK new : new = [Sever(ks) EXCEPT ![i].up = FALSE] OBVIOUS
<1>1. Sever(ks) \in [Instances -> InstanceType] BY SeverKeeps
<1>2. Same(new[k], Sever(ks)[k]) /\ (new[k].up => Sever(ks)[k].up) BY <1>1, DropKeeps DEF Same
<1>3. /\ Same(Sever(ks)[k], inst[k])
      /\ Sever(ks)[k].up = (inst[k].up /\ inst[k].to \notin ks)
  BY SeverKeeps DEF Same
<1> QED BY <1>2, <1>3 DEF Same

\* The records of a job, a caller and the monitor that the actions write.
LEMMA RecordTypes ==
  /\ \A f \in Followers, p \in Ports, c \in ClientIds, st \in Status :
       NewInstance(f, p, c, st) \in InstanceType
  /\ Unused \in InstanceType
  /\ \A pc \in {"idle", "scan", "vault", "store", "halt", "unmap"},
        todo, active \in SUBSET Followers,
        f \in Followers \cup {None}, g \in Instances \cup {None} :
       JobAt(pc, todo, active, f, g) \in JobType
  /\ Idle \in JobType
  /\ \A pc \in ConnectPc \cup {"off", "check", "pause"}, todo \in SUBSET Instances :
       MonitorAt(pc, todo) \in MonitorType
  /\ \A pc \in ConnectPc, g \in Instances \cup {None}, n \in 0..ConnectTries,
        f \in Followers \cup {None}, to \in Instances \cup {None} :
       Call(pc, g, n, f, to) \in CallerType
  /\ NoCall \in CallerType
<1>1. \A f \in Followers, p \in Ports, c \in ClientIds, st \in Status :
       NewInstance(f, p, c, st) \in InstanceType
  BY DEF NewInstance, InstanceType
<1>2. Unused \in InstanceType BY DEF Unused, NewInstance, InstanceType, Status
<1>3. \A pc \in {"idle", "scan", "vault", "store", "halt", "unmap"},
        todo, active \in SUBSET Followers,
        f \in Followers \cup {None}, g \in Instances \cup {None} :
       JobAt(pc, todo, active, f, g) \in JobType
  BY DEF JobAt, JobType
<1>4. Idle \in JobType BY <1>3 DEF Idle
<1>5. \A pc \in ConnectPc \cup {"off", "check", "pause"}, todo \in SUBSET Instances :
       MonitorAt(pc, todo) \in MonitorType
  BY DEF MonitorAt, MonitorType
<1>6. \A pc \in ConnectPc, g \in Instances \cup {None}, n \in 0..ConnectTries,
        f \in Followers \cup {None}, to \in Instances \cup {None} :
       Call(pc, g, n, f, to) \in CallerType
  BY DEF Call, CallerType
<1>7. NoCall \in CallerType BY <1>6 DEF NoCall, ConnectPc
<1> QED BY <1>1, <1>2, <1>3, <1>4, <1>5, <1>6, <1>7

\* What an EXCEPT of one field does to an instance, a job and a caller.
LEMMA Updates ==
  /\ \A r \in JobType, f \in Followers, p \in Ports, c \in ClientIds :
       [r EXCEPT !.pc = "vault", !.f = f, !.port = p, !.id = c, !.tries = 1] \in JobType
  /\ \A r \in JobType : [r EXCEPT !.pc = "scan", !.f = None, !.g = None] \in JobType
  /\ \A f \in Followers \cup {None}, to \in Instances \cup {None} :
       Call("idle", None, 0, f, to) \in CallerType
  /\ \A g \in Instances, f \in Followers : Call("connect", g, 1, f, None) \in CallerType
  /\ \A ins \in [Instances -> InstanceType], g, k \in Instances :
       [ins EXCEPT ![g] = [@ EXCEPT !.to = k, !.up = TRUE]] \in [Instances -> InstanceType]
  /\ \A r \in CallerType : r.tries < ConnectTries =>
       [r EXCEPT !.pc = "connect", !.tries = r.tries + 1] \in CallerType
  /\ \A r \in InstanceType, k \in Instances :
       /\ [r EXCEPT !.to = k, !.up = TRUE, !.status = "RUNNING"] \in InstanceType
       /\ [r EXCEPT !.to = k, !.up = TRUE, !.failures = 0] \in InstanceType
       /\ [r EXCEPT !.failures = 2, !.to = None] \in InstanceType
<1>1. ASSUME NEW r \in JobType, NEW f \in Followers, NEW p \in Ports, NEW c \in ClientIds
      PROVE  [r EXCEPT !.pc = "vault", !.f = f, !.port = p, !.id = c, !.tries = 1] \in JobType
  <2>1. 1 \in 0..VaultTries OBVIOUS
  <2>2. [r EXCEPT !.pc = "vault", !.f = f, !.port = p] \in JobType BY DEF JobType
  <2>3. ASSUME NEW s \in JobType PROVE [s EXCEPT !.id = c, !.tries = 1] \in JobType
    BY <2>1 DEF JobType
  <2> QED BY <2>2, <2>3
<1>2. ASSUME NEW r \in JobType
      PROVE  [r EXCEPT !.pc = "scan", !.f = None, !.g = None] \in JobType
  BY DEF JobType
<1>3. ASSUME NEW f \in Followers \cup {None}, NEW to \in Instances \cup {None}
      PROVE  Call("idle", None, 0, f, to) \in CallerType
  BY DEF Call, CallerType, ConnectPc
<1>4. ASSUME NEW g \in Instances, NEW f \in Followers
      PROVE  Call("connect", g, 1, f, None) \in CallerType
  BY DEF Call, CallerType, ConnectPc
<1>5. ASSUME NEW ins \in [Instances -> InstanceType], NEW g \in Instances, NEW k \in Instances
      PROVE  [ins EXCEPT ![g] = [@ EXCEPT !.to = k, !.up = TRUE]] \in [Instances -> InstanceType]
  <2>1. [ins[g] EXCEPT !.to = k, !.up = TRUE] \in InstanceType BY DEF InstanceType
  <2> QED BY <2>1
<1>6. ASSUME NEW r \in CallerType, r.tries < ConnectTries
      PROVE  [r EXCEPT !.pc = "connect", !.tries = r.tries + 1] \in CallerType
  <2>1. r.tries \in 0..ConnectTries BY DEF CallerType
  <2>2. r.tries + 1 \in 0..ConnectTries BY <1>6, <2>1
  <2> QED BY <2>2 DEF CallerType, ConnectPc
<1>7. ASSUME NEW r \in InstanceType, NEW k \in Instances
      PROVE  /\ [r EXCEPT !.to = k, !.up = TRUE, !.status = "RUNNING"] \in InstanceType
             /\ [r EXCEPT !.to = k, !.up = TRUE, !.failures = 0] \in InstanceType
             /\ [r EXCEPT !.failures = 2, !.to = None] \in InstanceType
  <2>1. [r EXCEPT !.to = k, !.up = TRUE] \in InstanceType BY DEF InstanceType
  <2>2. ASSUME NEW s \in InstanceType
        PROVE  /\ [s EXCEPT !.status = "RUNNING"] \in InstanceType
               /\ [s EXCEPT !.failures = 0] \in InstanceType
    BY DEF InstanceType, Status
  <2>3. [r EXCEPT !.failures = 2] \in InstanceType BY DEF InstanceType
  <2>4. ASSUME NEW s \in InstanceType PROVE [s EXCEPT !.to = None] \in InstanceType
    BY DEF InstanceType
  <2>5. [[r EXCEPT !.to = k, !.up = TRUE] EXCEPT !.status = "RUNNING"] \in InstanceType
    BY <2>1, <2>2
  <2>6. [[r EXCEPT !.to = k, !.up = TRUE] EXCEPT !.failures = 0] \in InstanceType
    BY <2>1, <2>2
  <2>7. [[r EXCEPT !.failures = 2] EXCEPT !.to = None] \in InstanceType BY <2>3, <2>4
  <2> QED BY <2>5, <2>6, <2>7
<1> QED BY <1>1, <1>2, <1>3, <1>4, <1>5, <1>6, <1>7

\* The manager starts well typed.
LEMMA TypeInit == Init => TypeOK
<1> SUFFICES ASSUME Init PROVE TypeOK OBVIOUS
<1>1. job \in [Jobs -> JobType]
  <2>1. JobAt("scan", enabled, {}, None, None) \in JobType BY RecordTypes DEF Init
  <2> QED BY <2>1, RecordTypes DEF Init
<1>2. monitor \in MonitorType BY RecordTypes DEF Init
<1>3. inst \in [Instances -> InstanceType] /\ caller \in [Callers -> CallerType]
  BY RecordTypes DEF Init
<1> QED BY <1>1, <1>2, <1>3 DEF Init, TypeOK

\* A follower done with leaves a well typed job.
LEMMA TypeScanned ==
  ASSUME TypeOK, NEW j \in Jobs, NEW f \in Followers
  PROVE  Scanned(j, f) \in JobType
<1>1. job[j].todo \in SUBSET Followers /\ job[j].active \in SUBSET Followers BY DEF TypeOK, JobType
<1> QED BY <1>1, RecordTypes DEF Scanned

\* What docker run leaves: a new instance, tracked, with a container of its own.
LEMMA RunSteps ==
  ASSUME TypeOK, NEW j \in Jobs, NEW f \in Followers, NEW p \in Ports, NEW c \in ClientIds,
         NEW live \in SUBSET Instances, NEW ins \in [Instances -> InstanceType],
         RunContainer(j, f, p, c, live, ins)
  PROVE  /\ inst' \in [Instances -> InstanceType]
         /\ box' \in [Followers -> Instances \cup {None}]
         /\ alive' \subseteq Instances
         /\ gateways' \in [Followers -> Instances \cup {None}]
         /\ job' \in [Jobs -> JobType]
         /\ \E i \in Instances :
              /\ ins[i].status = "unused"
              /\ \A k \in live : ins[k].port # p
              /\ inst'[i] = NewInstance(f, p, c, "STARTING")
              /\ \A k \in Instances \ {i} : inst'[k] = ins[k]
              /\ box' = [box EXCEPT ![f] = i]
              /\ alive' = live \cup {i}
              /\ gateways' = [gateways EXCEPT ![f] = i]
              /\ job'[j].pc = "store" /\ job'[j].f = f
              /\ \A k \in Jobs \ {j} : job'[k] = job[k]
<1>1. PICK i \in Instances :
        /\ ins[i].status = "unused"
        /\ \A k \in live : ins[k].port # p
        /\ inst' = [ins EXCEPT ![i] = NewInstance(f, p, c, "STARTING")]
        /\ box' = [box EXCEPT ![f] = i]
        /\ alive' = live \cup {i}
        /\ gateways' = [gateways EXCEPT ![f] = i]
        /\ job' = [job EXCEPT ![j] = JobAt("store", job[j].todo \ {f}, job[j].active \cup {f}, f, i)]
  BY DEF RunContainer
<1>2. NewInstance(f, p, c, "STARTING") \in InstanceType BY RecordTypes DEF Status
<1>3. job[j].todo \in SUBSET Followers /\ job[j].active \in SUBSET Followers BY DEF TypeOK, JobType
<1>4. JobAt("store", job[j].todo \ {f}, job[j].active \cup {f}, f, i) \in JobType
  BY <1>3, RecordTypes
<1>5. job'[j].pc = "store" /\ job'[j].f = f BY <1>1 DEF TypeOK, JobAt
<1> QED BY <1>1, <1>2, <1>4, <1>5 DEF TypeOK

\* Stopping a gateway keeps the types.
LEMMA StopTypes ==
  ASSUME TypeOK, NEW f \in Tracked, StopGateway(f)
  PROVE  /\ inst' \in [Instances -> InstanceType]
         /\ box' \in [Followers -> Instances \cup {None}]
         /\ alive' \subseteq Instances
         /\ gateways' \in [Followers -> Instances \cup {None}]
         /\ usedPorts' \subseteq Ports
         /\ usedIds' \subseteq ClientIds
<1> DEFINE i == gateways[f]
<1>1. i \in Instances /\ f \in Followers BY DEF Tracked, TypeOK
<1>2. PICK left \in {"nothing", "stopped container", "running container"} :
       /\ box' = IF left = "nothing" /\ box[f] = i THEN [box EXCEPT ![f] = None] ELSE box
       /\ alive' = IF left = "running container" THEN alive ELSE alive \ {i}
       /\ inst' = [Sever(alive \ alive') EXCEPT ![i].up = FALSE]
  BY DEF StopGateway
<1>3. Sever(alive \ alive') \in [Instances -> InstanceType] BY SeverKeeps DEF TypeOK
<1>4. inst' \in [Instances -> InstanceType] BY <1>1, <1>2, <1>3, DropType
<1>5. box' \in [Followers -> Instances \cup {None}] BY <1>1, <1>2 DEF TypeOK
<1>6. alive' \subseteq Instances BY <1>2 DEF TypeOK
<1> QED BY <1>4, <1>5, <1>6 DEF TypeOK, StopGateway

\* So does stopping the next one of a reload.
LEMMA StopNextTypes ==
  ASSUME TypeOK, NEW j \in Jobs, NEW todo \in SUBSET Followers, StopNext(j, todo)
  PROVE  /\ inst' \in [Instances -> InstanceType]
         /\ box' \in [Followers -> Instances \cup {None}]
         /\ alive' \subseteq Instances
         /\ gateways' \in [Followers -> Instances \cup {None}]
         /\ usedPorts' \subseteq Ports
         /\ usedIds' \subseteq ClientIds
         /\ job' \in [Jobs -> JobType]
<1>1. CASE /\ job' = [job EXCEPT ![j] = Idle]
           /\ UNCHANGED <<gateways, usedPorts, usedIds, inst, box, alive>>
  BY <1>1, RecordTypes DEF TypeOK
<1>2. CASE \E f \in todo \cap Tracked :
             StopGateway(f) /\ job' = [job EXCEPT ![j] = JobAt("unmap", todo \ {f}, {}, f, None)]
  <2>1. PICK f \in todo \cap Tracked :
          StopGateway(f) /\ job' = [job EXCEPT ![j] = JobAt("unmap", todo \ {f}, {}, f, None)]
    BY <1>2
  <2>2. JobAt("unmap", todo \ {f}, {}, f, None) \in JobType BY RecordTypes
  <2>3. QED BY <2>1, <2>2, StopTypes DEF TypeOK
<1>3. QED BY <1>1, <1>2 DEF StopNext

-----------------------------------------------------------------------------
\* Every step of a start, a reload or a stop keeps the types.
LEMMA TypeJobStep ==
  ASSUME TypeOK, GatewayInv, NEW j \in Jobs, JobStep(j)
  PROVE  TypeOK'
<1> USE DEF TypeOK
<1>1. ASSUME NEW f \in Followers, AlreadyRunning(j, f) PROVE TypeOK'
  BY <1>1, TypeScanned DEF AlreadyRunning
<1>2. ASSUME NEW f \in Followers, NoPort(j, f) PROVE TypeOK'
  BY <1>2, TypeScanned DEF NoPort
<1>3. ASSUME NEW f \in Followers, NoClientId(j, f) PROVE TypeOK'
  BY <1>3, TypeScanned DEF NoClientId
<1>4. ASSUME NEW f \in Followers, StartAtOnce(j, f) PROVE TypeOK'
  <2>1. PICK p \in Ports, c \in ClientIds :
          /\ RunContainer(j, f, p, c, alive \ {box[f]}, Sever({box[f]} \ {None}))
          /\ usedPorts' = usedPorts \cup {p}
          /\ usedIds' = usedIds \cup {c}
    BY <1>4 DEF StartAtOnce
  <2>2. Sever({box[f]} \ {None}) \in [Instances -> InstanceType] BY SeverKeeps
  <2>3. alive \ {box[f]} \in SUBSET Instances OBVIOUS
  <2>4. /\ inst' \in [Instances -> InstanceType]
        /\ box' \in [Followers -> Instances \cup {None}]
        /\ alive' \subseteq Instances
        /\ gateways' \in [Followers -> Instances \cup {None}]
        /\ job' \in [Jobs -> JobType]
    BY <2>1, <2>2, <2>3, RunSteps
  <2> QED BY <1>4, <2>1, <2>4 DEF StartAtOnce
<1>5. ASSUME NEW f \in Followers, StartWaitsForVault(j, f) PROVE TypeOK'
  <2>1. PICK p \in Ports, c \in ClientIds :
          /\ usedPorts' = usedPorts \cup {p}
          /\ usedIds' = usedIds \cup {c}
          /\ job' = [job EXCEPT ![j] = [@ EXCEPT !.pc = "vault", !.f = f, !.port = p,
                                                 !.id = c, !.tries = 1]]
    BY <1>5 DEF StartWaitsForVault
  <2>3. [job[j] EXCEPT !.pc = "vault", !.f = f, !.port = p, !.id = c, !.tries = 1] \in JobType
    BY Updates
  <2>4. inst' \in [Instances -> InstanceType] BY <1>5, SeverKeeps DEF StartWaitsForVault
  <2> QED BY <1>5, <2>1, <2>3, <2>4 DEF StartWaitsForVault
<1>6. ASSUME NEW f \in Followers, StartFailsAtOnce(j, f) PROVE TypeOK'
  <2>1. inst' \in [Instances -> InstanceType] BY <1>6, SeverKeeps DEF StartFailsAtOnce
  <2> QED BY <1>6, <2>1, TypeScanned DEF StartFailsAtOnce
<1>7. CASE VaultRetry(j)
  <2>1. job[j].tries + 1 \in 0..VaultTries BY <1>7 DEF VaultRetry, JobType
  <2>2. [job[j] EXCEPT !.tries = job[j].tries + 1] \in JobType BY <2>1 DEF JobType
  <2> QED BY <1>7, <2>2 DEF VaultRetry
<1>8. CASE VaultAnswers(j)
  <2>1. job[j].f \in Followers /\ job[j].port \in Ports /\ job[j].id \in ClientIds
    BY <1>8 DEF VaultAnswers, GatewayInv, AwaitInv
  <2>2. RunContainer(j, job[j].f, job[j].port, job[j].id, alive, inst)
    BY <1>8 DEF VaultAnswers
  <2>3. /\ inst' \in [Instances -> InstanceType]
        /\ box' \in [Followers -> Instances \cup {None}]
        /\ alive' \subseteq Instances
        /\ gateways' \in [Followers -> Instances \cup {None}]
        /\ job' \in [Jobs -> JobType]
    BY <2>1, <2>2, RunSteps
  <2> QED BY <1>8, <2>3 DEF VaultAnswers
<1>9. CASE StartGivesUp(j)
  <2>1. job[j].f \in Followers BY <1>9 DEF StartGivesUp, GatewayInv, AwaitInv
  <2> QED BY <1>9, <2>1, TypeScanned DEF StartGivesUp
<1>10. CASE StoreMapping(j)
  <2>1. job[j].f \in Followers BY <1>10 DEF StoreMapping, GatewayInv, AwaitInv
  <2>2. [job[j] EXCEPT !.pc = "scan", !.f = None, !.g = None] \in JobType BY Updates
  <2>3. job[j].g \in Instances \cup {None} BY DEF JobType
  <2> QED BY <1>10, <2>1, <2>2, <2>3 DEF StoreMapping
<1>11. CASE ReloadPrunes(j)
  <2>1. Tracked \ job[j].active \in SUBSET Followers BY DEF Tracked
  <2> QED BY <1>11, <2>1, StopNextTypes DEF ReloadPrunes
<1>12. CASE RemoveMapping(j)
  <2>1. job[j].todo \in SUBSET Followers BY DEF JobType
  <2>2. mapping' \in [Followers -> Instances \cup {None}] BY <1>12 DEF RemoveMapping
  <2> QED BY <1>12, <2>1, <2>2, StopNextTypes DEF RemoveMapping
<1>13. CASE StopAll(j)
  <2>1. Tracked \in SUBSET Followers BY DEF Tracked
  <2> QED BY <1>13, <2>1, StopNextTypes DEF StopAll
<1>14. CASE j = Boot /\ StartEnds
  <2>1. monitor' \in MonitorType BY <1>14, RecordTypes DEF StartEnds, ConnectPc
  <2> QED BY <1>14, <2>1, RecordTypes DEF StartEnds, Jobs
<1> QED BY <1>1, <1>2, <1>3, <1>4, <1>5, <1>6, <1>7, <1>8, <1>9, <1>10, <1>11, <1>12, <1>13,
           <1>14 DEF JobStep

\* So does every call that begins one.
LEMMA TypeJobCall ==
  ASSUME TypeOK, NEW j \in Jobs, JobCall(j)
  PROVE  TypeOK'
<1> USE DEF TypeOK
<1>1. CASE ReloadBegins(j)
  <2>1. JobAt("scan", enabled, {}, None, None) \in JobType BY RecordTypes
  <2> QED BY <1>1, <2>1 DEF ReloadBegins
<1>2. CASE Stop(j)
  <2>1. [job[j] EXCEPT !.pc = "halt"] \in JobType BY DEF JobType
  <2>2. MonitorAt("off", {}) \in MonitorType BY RecordTypes
  <2> QED BY <1>2, <2>1, <2>2 DEF Stop
<1>3. ASSUME NEW f \in Followers, StopFollower(j, f) PROVE TypeOK'
  <2>1. {f} \in SUBSET Followers OBVIOUS
  <2> QED BY <1>3, <2>1, StopNextTypes DEF StopFollower
<1> QED BY <1>1, <1>2, <1>3 DEF JobCall

\* So does every step of get_client().
LEMMA TypeCaller ==
  ASSUME TypeOK, GatewayInv, NEW c \in Callers,
         CallerStep(c) \/ \E f \in Followers : GetClient(c, f)
  PROVE  TypeOK'
<1> USE DEF TypeOK
<1>1. ASSUME NEW f \in Followers, GetClient(c, f) PROVE TypeOK'
  <2>1. gateways[f] \in Instances BY <1>1 DEF GetClient, Tracked
  <2>2. Call("idle", None, 0, f, inst[gateways[f]].to) \in CallerType
    <3>1. inst[gateways[f]].to \in Instances \cup {None} BY <2>1 DEF InstanceType
    <3> QED BY <3>1, Updates
  <2>3. Call("connect", gateways[f], 1, f, None) \in CallerType
    BY <2>1, Updates
  <2> QED BY <1>1, <2>2, <2>3 DEF GetClient
<1>2. CASE CallerConnects(c)
  <2>1. PICK k \in Reached(caller[c].g) :
          /\ inst' = [inst EXCEPT ![caller[c].g] = [@ EXCEPT !.to = k, !.up = TRUE]]
          /\ caller' = [caller EXCEPT ![c] = Call("idle", None, 0, caller[c].f, k)]
    BY <1>2 DEF CallerConnects
  <2>2. k \in Instances BY DEF Reached
  <2>3. inst' \in [Instances -> InstanceType]
    <3>1. caller[c].g \in Instances BY <1>2 DEF CallerConnects, GatewayInv, AwaitInv
    <3> QED BY <2>1, <2>2, <3>1, Updates
  <2>4. caller[c].f \in Followers \cup {None} BY DEF CallerType
  <2>5. Call("idle", None, 0, caller[c].f, k) \in CallerType
    BY <2>2, <2>4, Updates
  <2> QED BY <1>2, <2>1, <2>3, <2>5 DEF CallerConnects
<1>3. CASE CallerFails(c)
  <2>1. [caller[c] EXCEPT !.pc = "backoff"] \in CallerType BY DEF CallerType, ConnectPc
  <2> QED BY <1>3, <2>1, RecordTypes DEF CallerFails
<1>4. CASE CallerRetries(c)
  <2>1. inst' \in [Instances -> InstanceType]
    BY <1>4, DropType DEF CallerRetries, Disconnected, GatewayInv, AwaitInv
  <2>2. caller[c].tries \in 0..ConnectTries /\ caller[c].tries < ConnectTries
    BY <1>4 DEF CallerRetries, GatewayInv, AwaitInv, CallerType
  <2>4. [caller[c] EXCEPT !.pc = "connect", !.tries = caller[c].tries + 1] \in CallerType
    BY <2>2, Updates
  <2>5. caller' = [caller EXCEPT ![c] = [caller[c] EXCEPT !.pc = "connect", !.tries = caller[c].tries + 1]]
    BY <1>4 DEF CallerRetries
  <2> QED BY <1>4, <2>1, <2>4, <2>5 DEF CallerRetries
<1> QED BY <1>1, <1>2, <1>3, <1>4 DEF CallerStep

\* The monitor's record after each of its steps.
LEMMA MonitorTypes ==
  /\ \A todo \in SUBSET Instances : NextCheck(todo) \in MonitorType
  /\ \A i \in Instances, pc \in {"connect", "pause"}, why \in {"startup", "lost", "reconnect"} :
       monitor \in MonitorType => Connecting(pc, i, why) \in MonitorType
<1>1. ASSUME NEW todo \in SUBSET Instances PROVE NextCheck(todo) \in MonitorType
  BY RecordTypes DEF NextCheck, ConnectPc
<1>2. ASSUME NEW i \in Instances, NEW pc \in {"connect", "pause"},
             NEW why \in {"startup", "lost", "reconnect"}, monitor \in MonitorType
      PROVE  Connecting(pc, i, why) \in MonitorType
  BY <1>2 DEF Connecting, MonitorType, ConnectPc
<1> QED BY <1>1, <1>2

\* Every step of the monitor keeps the types.
LEMMA TypeMonitor ==
  ASSUME TypeOK, GatewayInv, MonitorStep
  PROVE  TypeOK'
<1> USE DEF TypeOK
<1>0. monitor.todo \in SUBSET Instances BY DEF MonitorType
<1>1. CASE MonitorCycle
  <2>1. TrackedInstances \in SUBSET Instances BY DEF TrackedInstances, Tracked
  <2> QED BY <1>1, <2>1, RecordTypes DEF MonitorCycle, ConnectPc
<1>2. CASE MonitorRetries
  <2>1. monitor.g \in Instances BY <1>2 DEF MonitorRetries, GatewayInv, AwaitInv
  <2>2. inst' \in [Instances -> InstanceType] BY <1>2, <2>1, DropType DEF MonitorRetries, Disconnected
  <2>3. monitor' \in MonitorType
    <3>1. monitor.tries \in 0..ConnectTries BY DEF MonitorType
    <3>2. CASE monitor.pc = "pause"
      BY <1>2, <3>1, <3>2 DEF MonitorRetries, MonitorType, ConnectPc
    <3>3. CASE monitor.pc = "backoff"
      <4>0. monitor.tries < ConnectTries BY <3>3 DEF GatewayInv, AwaitInv
      <4>1. monitor.tries + 1 \in 0..ConnectTries BY <3>1, <4>0
      <4> QED BY <1>2, <3>3, <4>1 DEF MonitorRetries, MonitorType, ConnectPc
    <3> QED BY <1>2, <3>2, <3>3 DEF MonitorRetries
  <2> QED BY <1>2, <2>2, <2>3 DEF MonitorRetries
<1>3. CASE MonitorConnects
  <2>1. monitor.g \in Instances BY <1>3 DEF MonitorConnects, GatewayInv, AwaitInv
  <2>2. PICK k \in Reached(monitor.g) :
          \/ inst' = [inst EXCEPT ![monitor.g] = [@ EXCEPT !.to = k, !.up = TRUE, !.status = "RUNNING"]]
          \/ inst' = [inst EXCEPT ![monitor.g] = [@ EXCEPT !.to = k, !.up = TRUE, !.failures = 0]]
    BY <1>3 DEF MonitorConnects
  <2>3. k \in Instances BY DEF Reached
  <2>4. inst[monitor.g] \in InstanceType BY <2>1
  <2>5. /\ [inst[monitor.g] EXCEPT !.to = k, !.up = TRUE, !.status = "RUNNING"] \in InstanceType
        /\ [inst[monitor.g] EXCEPT !.to = k, !.up = TRUE, !.failures = 0] \in InstanceType
    BY <2>3, <2>4, Updates
  <2>6. inst' \in [Instances -> InstanceType] BY <2>1, <2>2, <2>5
  <2> QED BY <1>0, <1>3, <2>6, MonitorTypes DEF MonitorConnects
<1>4. CASE MonitorConnectFails
  <2>1. monitor.g \in Instances BY <1>4 DEF MonitorConnectFails, GatewayInv, AwaitInv
  <2>2. [monitor EXCEPT !.pc = "backoff"] \in MonitorType BY DEF MonitorType, ConnectPc
  <2>3. [inst EXCEPT ![monitor.g].status = "FAILED"] \in [Instances -> InstanceType]
    BY <2>1 DEF InstanceType, Status
  <2> QED BY <1>0, <1>4, <2>2, <2>3, MonitorTypes DEF MonitorConnectFails
<1>5. ASSUME NEW i \in Instances, CheckFindsStopped(i) PROVE TypeOK'
  <2>1. [inst EXCEPT ![i].status = "STOPPED"] \in [Instances -> InstanceType]
    BY DEF InstanceType, Status
  <2> QED BY <1>0, <1>5, <2>1, MonitorTypes DEF CheckFindsStopped
<1>6. ASSUME NEW i \in Instances, CheckConnects(i) PROVE TypeOK'
  <2>1. inst' \in [Instances -> InstanceType] BY <1>6, DropType DEF CheckConnects, Disconnected
  <2> QED BY <1>6, <2>1, MonitorTypes DEF CheckConnects
<1>7. ASSUME NEW i \in Instances, CheckCounts(i) PROVE TypeOK'
  <2>1. \A n \in 0..2 : [inst EXCEPT ![i].failures = n] \in [Instances -> InstanceType]
    BY DEF InstanceType
  <2>2. [inst[i] EXCEPT !.failures = 2, !.to = None] \in InstanceType BY Updates
  <2>3. inst' \in [Instances -> InstanceType] BY <1>7, <2>1, <2>2 DEF CheckCounts
  <2>4. monitor' \in MonitorType BY <1>0, <1>7, MonitorTypes DEF CheckCounts
  <2> QED BY <1>7, <2>3, <2>4 DEF CheckCounts
<1>8. ASSUME NEW i \in Instances, CheckSkips(i) PROVE TypeOK'
  BY <1>0, <1>8, MonitorTypes DEF CheckSkips
<1> QED BY <1>1, <1>2, <1>3, <1>4, <1>5, <1>6, <1>7, <1>8 DEF MonitorStep

\* So does what Docker, TWS and the followers collection do.
LEMMA TypeEnvironment ==
  ASSUME TypeOK, Environment
  PROVE  TypeOK'
<1> USE DEF TypeOK
<1>1. ASSUME NEW f \in Followers, EditFollower(f) PROVE TypeOK'
  BY <1>1 DEF EditFollower
<1>2. ASSUME NEW i \in Instances, ContainerEnds(i) PROVE TypeOK'
  <2>1. inst' \in [Instances -> InstanceType] BY <1>2, SeverKeeps DEF ContainerEnds
  <2>2. box' \in [Followers -> Instances \cup {None}] BY <1>2 DEF ContainerEnds
  <2> QED BY <1>2, <2>1, <2>2 DEF ContainerEnds
<1>3. ASSUME NEW i \in Instances, ConnectionDrops(i) PROVE TypeOK'
  <2>1. inst' \in [Instances -> InstanceType] BY <1>3, DropType DEF ConnectionDrops, Disconnected
  <2> QED BY <1>3, <2>1 DEF ConnectionDrops
<1> QED BY <1>1, <1>2, <1>3 DEF Environment

\* Every step keeps the types.
LEMMA TypeStep ==
  ASSUME TypeOK, GatewayInv, [Next]_vars
  PROVE  TypeOK'
<1>1. CASE UNCHANGED vars BY <1>1 DEF TypeOK, vars
<1>2. CASE Next
  BY <1>2, TypeJobStep, TypeJobCall, TypeCaller, TypeMonitor, TypeEnvironment DEF Next
<1> QED BY <1>1, <1>2

-----------------------------------------------------------------------------
(* The containers and the leases *)

\* A step that starts no container and allocates nothing: gateways, containers,
\* connections and starts in flight are those of before, or fewer.
LEMMA Shrink ==
  ASSUME TypeOK, TypeOK', ContainerInv, ExclusiveLeases,
         \A f \in Followers : gateways'[f] # None => gateways'[f] = gateways[f],
         alive' \subseteq alive,
         \A i \in alive' : box'[inst[i].follower] = box[inst[i].follower],
         \A i \in Instances : /\ inst'[i].follower = inst[i].follower
                              /\ inst'[i].port = inst[i].port
                              /\ inst'[i].id = inst[i].id
                              /\ inst[i].status # "unused" => inst'[i].status # "unused",
         \A i \in Instances : inst'[i].up =>
            inst'[i].to \in alive' /\ inst[inst'[i].to].port = inst[i].port,
         \A j \in Jobs : job'[j].pc = "vault" =>
            job[j].pc = "vault" /\ job'[j].port = job[j].port /\ job'[j].id = job[j].id,
         \A f \in Tracked' : inst[gateways[f]].port \in usedPorts' /\ inst[gateways[f]].id \in usedIds',
         \A j \in InFlight' : job[j].port \in usedPorts' /\ job[j].id \in usedIds'
  PROVE  ContainerInv' /\ ExclusiveLeases'
<1>1. \A f \in Tracked' : f \in Tracked /\ gateways'[f] = gateways[f] /\ gateways[f] \in Instances
  BY DEF Tracked, TypeOK
<1>2. \A j \in InFlight' : j \in InFlight /\ job'[j].port = job[j].port /\ job'[j].id = job[j].id
  BY DEF InFlight
<1>3. \A i \in alive' : i \in alive /\ i \in Instances BY DEF TypeOK
<1>4. \A i \in Instances : inst'[i].up =>
         inst'[i].to \in Instances /\ inst'[inst'[i].to].port = inst'[i].port
  BY <1>3
<1>5. ContainerInv' BY <1>1, <1>3, <1>4 DEF ContainerInv
<1>6. ExclusiveLeases' BY <1>1, <1>2 DEF ExclusiveLeases
<1> QED BY <1>5, <1>6

\* A container is run for a follower that has none running, on a port and with a client id
\* that no other gateway and no other start in flight holds.
LEMMA Grow ==
  ASSUME TypeOK, TypeOK', ContainerInv, ExclusiveLeases,
         NEW j \in Jobs, NEW f \in Followers, NEW p \in Ports, NEW c \in ClientIds,
         NEW live \in SUBSET alive, NEW ks, live \cap ks = {}, ks \cup live = alive \cup ks,
         RunContainer(j, f, p, c, live, Sever(ks)),
         \A i \in live : inst[i].follower # f,
         usedPorts \subseteq usedPorts', usedIds \subseteq usedIds',
         p \in usedPorts', c \in usedIds',
         \A g \in Tracked : g # f => inst[gateways[g]].port # p /\ inst[gateways[g]].id # c,
         \A k \in InFlight : k # j => job[k].port # p /\ job[k].id # c
  PROVE  ContainerInv' /\ ExclusiveLeases'
<1> DEFINE ins == Sever(ks)
<1>1. /\ ins \in [Instances -> InstanceType]
      /\ \A i \in Instances :
              /\ ins[i].follower = inst[i].follower
              /\ ins[i].port = inst[i].port
              /\ ins[i].id = inst[i].id
              /\ ins[i].status = inst[i].status
              /\ ins[i].to = inst[i].to
              /\ ins[i].up = (inst[i].up /\ inst[i].to \notin ks)
  BY SeverKeeps DEF TypeOK
<1>2. PICK i \in Instances :
              /\ ins[i].status = "unused"
              /\ \A k \in live : ins[k].port # p
              /\ inst'[i] = NewInstance(f, p, c, "STARTING")
              /\ \A k \in Instances \ {i} : inst'[k] = ins[k]
              /\ box' = [box EXCEPT ![f] = i]
              /\ alive' = live \cup {i}
              /\ gateways' = [gateways EXCEPT ![f] = i]
              /\ job'[j].pc = "store" /\ job'[j].f = f
              /\ \A k \in Jobs \ {j} : job'[k] = job[k]
  <2>1. live \in SUBSET Instances BY DEF TypeOK
  <2>2. RunContainer(j, f, p, c, live, ins) OBVIOUS
  <2> HIDE DEF ins
  <2> QED BY <1>1, <2>1, <2>2, RunSteps
<1> HIDE DEF ins
<1>3. /\ inst'[i].follower = f /\ inst'[i].port = p /\ inst'[i].id = c
      /\ inst'[i].status = "STARTING" /\ ~inst'[i].up
  BY <1>2 DEF NewInstance
<1>4. i \notin alive /\ live \subseteq Instances
  BY <1>1, <1>2 DEF ContainerInv, TypeOK
<1>5. \A g \in Tracked' : IF g = f THEN gateways'[g] = i
                          ELSE g \in Tracked /\ gateways'[g] = gateways[g]
                               /\ gateways[g] \in Instances /\ gateways[g] # i
  BY <1>1, <1>2 DEF Tracked, TypeOK, ContainerInv
<1>6. \A k \in InFlight' : k \in InFlight /\ k # j /\ job'[k] = job[k]
  BY <1>2 DEF InFlight
<1>7. ExclusiveLeases'
  <2>1. \A g \in Tracked' : inst'[gateways'[g]].port \in usedPorts' /\ inst'[gateways'[g]].id \in usedIds'
    <3> SUFFICES ASSUME NEW g \in Tracked'
                 PROVE  inst'[gateways'[g]].port \in usedPorts' /\ inst'[gateways'[g]].id \in usedIds'
      OBVIOUS
    <3>1. CASE g = f BY <1>3, <1>5, <3>1
    <3>2. CASE g # f
      <4>1. g \in Tracked /\ gateways'[g] = gateways[g] /\ inst'[gateways[g]] = ins[gateways[g]]
            /\ gateways[g] \in Instances
        BY <1>2, <1>5, <3>2
      <4>2. inst[gateways[g]].port \in usedPorts /\ inst[gateways[g]].id \in usedIds
        BY <4>1 DEF ExclusiveLeases
      <4>3. ins[gateways[g]].port = inst[gateways[g]].port /\ ins[gateways[g]].id = inst[gateways[g]].id
        BY <1>1, <4>1
      <4>4. inst'[gateways'[g]] = ins[gateways[g]] BY <4>1
      <4>5. inst'[gateways'[g]].port \in usedPorts BY <4>2, <4>3, <4>4
      <4>6. inst'[gateways'[g]].id \in usedIds BY <4>2, <4>3, <4>4
      <4> QED BY <4>5, <4>6
    <3> QED BY <3>1, <3>2
  <2>2. \A k \in InFlight' : job'[k].port \in usedPorts' /\ job'[k].id \in usedIds'
    BY <1>6 DEF ExclusiveLeases
  <2>3. \A g, h \in Tracked' : g # h =>
          inst'[gateways'[g]].port # inst'[gateways'[h]].port /\ inst'[gateways'[g]].id # inst'[gateways'[h]].id
    BY <1>1, <1>2, <1>3, <1>5 DEF ExclusiveLeases
  <2>4. \A k, l \in InFlight' : k # l => job'[k].port # job'[l].port /\ job'[k].id # job'[l].id
    BY <1>6 DEF ExclusiveLeases
  <2>5. \A g \in Tracked', k \in InFlight' :
          inst'[gateways'[g]].port # job'[k].port /\ inst'[gateways'[g]].id # job'[k].id
    BY <1>1, <1>2, <1>3, <1>5, <1>6 DEF ExclusiveLeases
  <2> QED BY <2>1, <2>2, <2>3, <2>4, <2>5 DEF ExclusiveLeases
<1>8. \A k \in live : /\ k \in alive /\ k # i /\ inst'[k] = ins[k] /\ inst[k].port # p
  BY <1>1, <1>2, <1>4
<1>9. ContainerInv'
  <2>1. \A g \in Tracked' : inst'[gateways'[g]].status # "unused" /\ inst'[gateways'[g]].follower = g
    BY <1>1, <1>2, <1>3, <1>5 DEF ContainerInv
  <2>2. \A k \in alive' : /\ inst'[k].status # "unused" /\ inst'[k].follower \in Followers
                          /\ box'[inst'[k].follower] = k
    BY <1>1, <1>2, <1>3, <1>4, <1>8 DEF ContainerInv, TypeOK
  <2>3. \A k, l \in alive' : inst'[k].port = inst'[l].port => k = l
    BY <1>1, <1>2, <1>3, <1>4, <1>8 DEF ContainerInv
  <2>4. \A g \in Tracked', k \in alive' : inst'[k].port = inst'[gateways'[g]].port => k = gateways'[g]
    BY <1>1, <1>2, <1>3, <1>4, <1>5, <1>8 DEF ContainerInv
  <2>5. \A k \in Instances : inst'[k].up =>
           inst'[k].to \in alive' /\ inst'[inst'[k].to].port = inst'[k].port
    <3> SUFFICES ASSUME NEW k \in Instances, inst'[k].up
                 PROVE  inst'[k].to \in alive' /\ inst'[inst'[k].to].port = inst'[k].port
      OBVIOUS
    <3>1. k # i /\ inst'[k] = ins[k] BY <1>2, <1>3
    <3>2. inst[k].up /\ inst[k].to \notin ks /\ inst'[k].to = inst[k].to /\ inst'[k].port = inst[k].port
      BY <1>1, <3>1
    <3>3. inst[k].to \in live /\ inst[inst[k].to].port = inst[k].port
      BY <3>2 DEF ContainerInv
    <3> QED BY <1>1, <1>2, <1>4, <1>8, <3>2, <3>3
  <2> QED BY <2>1, <2>2, <2>3, <2>4, <2>5 DEF ContainerInv
<1> QED BY <1>7, <1>9

\* A step that leaves gateways and containers alone.
LEMMA Quiet ==
  ASSUME TypeOK, TypeOK', ContainerInv, ExclusiveLeases,
         gateways' = gateways, box' = box, alive' = alive,
         usedPorts \subseteq usedPorts', usedIds \subseteq usedIds',
         \A i \in Instances : /\ inst'[i].follower = inst[i].follower
                              /\ inst'[i].port = inst[i].port
                              /\ inst'[i].id = inst[i].id
                              /\ inst[i].status # "unused" => inst'[i].status # "unused",
         \A i \in Instances : inst'[i].up =>
            \/ inst[i].up /\ inst'[i].to = inst[i].to
            \/ inst'[i].to \in alive /\ inst[inst'[i].to].port = inst[i].port,
         \A j \in Jobs : job'[j].pc = "vault" =>
            job[j].pc = "vault" /\ job'[j].port = job[j].port /\ job'[j].id = job[j].id
  PROVE  ContainerInv' /\ ExclusiveLeases'
<1>1. \A f \in Tracked' : inst[gateways[f]].port \in usedPorts' /\ inst[gateways[f]].id \in usedIds'
  BY DEF Tracked, ExclusiveLeases
<1>2. \A j \in InFlight' : job[j].port \in usedPorts' /\ job[j].id \in usedIds'
  BY DEF InFlight, ExclusiveLeases
<1>3. \A i \in Instances : inst'[i].up => inst'[i].to \in alive' /\ inst[inst'[i].to].port = inst[i].port
  BY DEF ContainerInv
<1>4. \A i \in alive' : box'[inst[i].follower] = box[inst[i].follower] OBVIOUS
<1> QED BY <1>1, <1>2, <1>3, <1>4, Shrink

\* A step that only disconnects a gateway's client, or only changes its status.
LEMMA QuietDrop ==
  ASSUME TypeOK, TypeOK', ContainerInv, ExclusiveLeases, NEW i \in Instances,
         UNCHANGED <<gateways, usedPorts, usedIds, box, alive, job>>, inst' = Disconnected(i)
  PROVE  ContainerInv' /\ ExclusiveLeases'
<1>1. PICK new : new = inst' OBVIOUS
<1>2. new = [inst EXCEPT ![i].up = FALSE] /\ inst \in [Instances -> InstanceType]
  BY <1>1 DEF Disconnected, TypeOK
<1>3. \A k \in Instances : /\ new[k].follower = inst[k].follower
                           /\ new[k].port = inst[k].port
                           /\ new[k].id = inst[k].id
                           /\ new[k].status = inst[k].status
                           /\ new[k].to = inst[k].to
                           /\ new[k].up => inst[k].up
  BY <1>2, DropKeeps
<1> QED BY <1>1, <1>3, Quiet

\* A step that only changes a gateway's status.
LEMMA QuietStatus ==
  ASSUME TypeOK, TypeOK', ContainerInv, ExclusiveLeases, NEW i \in Instances,
         NEW status \in Status \ {"unused"},
         UNCHANGED <<gateways, usedPorts, usedIds, box, alive, job>>,
         inst' = [inst EXCEPT ![i].status = status]
  PROVE  ContainerInv' /\ ExclusiveLeases'
<1>1. \A k \in Instances : /\ inst'[k].follower = inst[k].follower
                           /\ inst'[k].port = inst[k].port
                           /\ inst'[k].id = inst[k].id
                           /\ inst[k].status # "unused" => inst'[k].status # "unused"
                           /\ inst'[k].up = inst[k].up
                           /\ inst'[k].to = inst[k].to
  <2> SUFFICES ASSUME NEW k \in Instances
               PROVE  /\ inst'[k].follower = inst[k].follower
                      /\ inst'[k].port = inst[k].port
                      /\ inst'[k].id = inst[k].id
                      /\ inst[k].status # "unused" => inst'[k].status # "unused"
                      /\ inst'[k].up = inst[k].up
                      /\ inst'[k].to = inst[k].to
    OBVIOUS
  <2>1. CASE k # i BY <2>1 DEF TypeOK
  <2>2. CASE k = i
    <3>1. inst'[k] = [inst[k] EXCEPT !.status = status] /\ inst[k] \in InstanceType
      BY <2>2 DEF TypeOK
    <3> QED BY <3>1 DEF InstanceType
  <2> QED BY <2>1, <2>2
<1> QED BY <1>1, Quiet

\* Stopping a gateway frees its port and id together with it.
LEMMA LeasesStop ==
  ASSUME TypeOK, TypeOK', ContainerInv, ExclusiveLeases, NEW j \in Jobs,
         NEW todo \in SUBSET Followers, job[j].pc # "vault", StopNext(j, todo)
  PROVE  ContainerInv' /\ ExclusiveLeases'
<1>1. CASE /\ job' = [job EXCEPT ![j] = Idle]
           /\ UNCHANGED <<gateways, usedPorts, usedIds, inst, box, alive>>
  <2>1. \A k \in Jobs : job'[k].pc = "vault" => job'[k] = job[k]
    BY <1>1 DEF TypeOK, Idle, JobAt
  <2> QED BY <1>1, <2>1, Quiet
<1>2. CASE \E f \in todo \cap Tracked :
             StopGateway(f) /\ job' = [job EXCEPT ![j] = JobAt("unmap", todo \ {f}, {}, f, None)]
  <2>1. PICK f \in todo \cap Tracked :
          StopGateway(f) /\ job' = [job EXCEPT ![j] = JobAt("unmap", todo \ {f}, {}, f, None)]
    BY <1>2
  <2> DEFINE i == gateways[f]
  <2>2. f \in Followers /\ f \in Tracked /\ i \in Instances BY DEF Tracked, TypeOK
  <2>3. PICK left \in {"nothing", "stopped container", "running container"} :
       /\ box' = IF left = "nothing" /\ box[f] = i THEN [box EXCEPT ![f] = None] ELSE box
       /\ alive' = IF left = "running container" THEN alive ELSE alive \ {i}
       /\ inst' = [Sever(alive \ alive') EXCEPT ![i].up = FALSE]
    BY <2>1 DEF StopGateway
  <2>4. /\ usedPorts' = usedPorts \ {inst[i].port} /\ usedIds' = usedIds \ {inst[i].id}
        /\ gateways' = [gateways EXCEPT ![f] = None]
    BY <2>1 DEF StopGateway
  <2> HIDE DEF i
  <2>5. alive' \subseteq alive BY <2>3
  <2>6. \A k \in alive' : box'[inst[k].follower] = box[inst[k].follower]
    <3> SUFFICES ASSUME NEW k \in alive' PROVE box'[inst[k].follower] = box[inst[k].follower]
      OBVIOUS
    <3>1. CASE left = "nothing"
      <4>1. k \in alive /\ k # i BY <2>3, <3>1
      <4>2. inst[k].follower \in Followers /\ box[inst[k].follower] = k BY <4>1 DEF ContainerInv
      <4> QED BY <2>2, <2>3, <4>1, <4>2 DEF TypeOK
    <3>2. CASE left # "nothing" BY <2>3, <3>2
    <3> QED BY <3>1, <3>2
  <2>7. \A k \in Instances :
          Same(inst'[k], inst[k]) /\ (inst'[k].up => inst[k].up /\ inst[k].to \notin alive \ alive')
    <3> SUFFICES ASSUME NEW k \in Instances
                 PROVE  /\ Same(inst'[k], inst[k])
                        /\ inst'[k].up => inst[k].up /\ inst[k].to \notin alive \ alive'
      OBVIOUS
    <3>1. inst \in [Instances -> InstanceType] BY DEF TypeOK
    <3> QED BY <2>2, <2>3, <3>1, SeverDropKeeps
  <2>8. \A k \in Instances : inst'[k].up => inst'[k].to \in alive' /\ inst[inst'[k].to].port = inst[k].port
    BY <2>7 DEF ContainerInv, Same
  <2>9. \A k \in Jobs : job'[k].pc = "vault" =>
            job[k].pc = "vault" /\ job'[k].port = job[k].port /\ job'[k].id = job[k].id
    BY <2>1 DEF TypeOK, JobAt
  <2>10. \A g \in Tracked' : g \in Tracked /\ g # f /\ gateways'[g] = gateways[g]
    BY <2>2, <2>4 DEF Tracked, TypeOK
  <2>11. \A g \in Tracked' : inst[gateways[g]].port \in usedPorts' /\ inst[gateways[g]].id \in usedIds'
    BY <2>2, <2>4, <2>10 DEF ExclusiveLeases, i
  <2>12. \A k \in InFlight' : job[k].port \in usedPorts' /\ job[k].id \in usedIds'
    BY <2>2, <2>4, <2>9 DEF ExclusiveLeases, InFlight, i
  <2>13. \A g \in Followers : gateways'[g] # None => gateways'[g] = gateways[g]
    BY <2>4 DEF TypeOK
  <2> QED BY <2>5, <2>6, <2>7, <2>8, <2>9, <2>11, <2>12, <2>13, Shrink DEF Same
<1> QED BY <1>1, <1>2 DEF StopNext

\* A follower that is passed over leases nothing, but for the port of a start without a client id.
LEMMA LeasesScan ==
  ASSUME TypeOK, TypeOK', ContainerInv, ExclusiveLeases, NEW j \in Jobs, NEW f \in Followers,
         job[j].pc = "scan"
  PROVE  /\ AlreadyRunning(j, f) => ContainerInv' /\ ExclusiveLeases'
         /\ NoPort(j, f) => ContainerInv' /\ ExclusiveLeases'
         /\ NoClientId(j, f) => ContainerInv' /\ ExclusiveLeases'
<1>1. job' = [job EXCEPT ![j] = Scanned(j, f)] =>
        \A k \in Jobs : job'[k].pc = "vault" => job'[k] = job[k]
  BY DEF TypeOK, Scanned, JobAt
<1>2. ASSUME AlreadyRunning(j, f) PROVE ContainerInv' /\ ExclusiveLeases'
  BY <1>1, <1>2, Quiet DEF AlreadyRunning
<1>3. ASSUME NoPort(j, f) PROVE ContainerInv' /\ ExclusiveLeases'
  BY <1>1, <1>3, Quiet DEF NoPort
<1>4. ASSUME NoClientId(j, f) PROVE ContainerInv' /\ ExclusiveLeases'
  <2>1. usedPorts \subseteq usedPorts' BY <1>4 DEF NoClientId
  <2> QED BY <1>1, <1>4, <2>1, Quiet DEF NoClientId
<1> QED BY <1>2, <1>3, <1>4

\* A start without Vault leases a port and an id that were free.
LEMMA LeasesStartAtOnce ==
  ASSUME TypeOK, TypeOK', ContainerInv, ExclusiveLeases, NEW j \in Jobs, NEW f \in Followers,
         StartAtOnce(j, f)
  PROVE  ContainerInv' /\ ExclusiveLeases'
<1>1. PICK p \in Ports, c \in ClientIds \ usedIds :
       /\ FreePort(p)
       /\ RunContainer(j, f, p, c, alive \ {box[f]}, Sever({box[f]} \ {None}))
       /\ usedPorts' = usedPorts \cup {p}
       /\ usedIds' = usedIds \cup {c}
  BY DEF StartAtOnce
<1>2. p \notin usedPorts /\ c \notin usedIds BY <1>1 DEF FreePort
<1> DEFINE live == alive \ {box[f]}
           ks == {box[f]} \ {None}
<1>3. live \in SUBSET alive /\ live \cap ks = {} /\ ks \cup live = alive \cup ks
  <2>1. None \notin alive BY NoneIsNoInstance DEF TypeOK
  <2> QED BY <2>1
<1>4. \A i \in live : inst[i].follower # f BY DEF ContainerInv
<1>5. \A g \in Tracked : inst[gateways[g]].port # p /\ inst[gateways[g]].id # c
  BY <1>2 DEF ExclusiveLeases
<1>6. \A k \in InFlight : job[k].port # p /\ job[k].id # c
  BY <1>2 DEF ExclusiveLeases
<1>7. RunContainer(j, f, p, c, live, Sever(ks)) BY <1>1
<1>8. usedPorts \subseteq usedPorts' /\ usedIds \subseteq usedIds' /\ p \in usedPorts' /\ c \in usedIds'
  BY <1>1
<1> HIDE DEF live, ks
<1> QED BY <1>3, <1>4, <1>5, <1>6, <1>7, <1>8, Grow

\* A start that waited for Vault passes its port and id on to its gateway.
LEMMA LeasesVaultAnswers ==
  ASSUME TypeOK, TypeOK', AwaitInv, ContainerInv, ExclusiveLeases, NEW j \in Jobs, VaultAnswers(j)
  PROVE  ContainerInv' /\ ExclusiveLeases'
<1> DEFINE f == job[j].f
           p == job[j].port
           c == job[j].id
<1>1. f \in Followers /\ p \in Ports /\ c \in ClientIds BY DEF VaultAnswers, AwaitInv
<1>2. j \in InFlight BY DEF VaultAnswers, InFlight
<1>3. RunContainer(j, f, p, c, alive, Sever({}))
  <2>1. Sever({}) = inst BY DEF Sever, TypeOK
  <2> QED BY <2>1 DEF VaultAnswers
<1>4. \A i \in alive : inst[i].follower # f
  BY NoneIsNoInstance DEF VaultAnswers, ContainerInv, TypeOK
<1>5. \A g \in Tracked : inst[gateways[g]].port # p /\ inst[gateways[g]].id # c
  BY <1>2 DEF ExclusiveLeases
<1>6. \A k \in InFlight : k # j => job[k].port # p /\ job[k].id # c
  BY <1>2 DEF ExclusiveLeases
<1>7. usedPorts' = usedPorts /\ usedIds' = usedIds /\ p \in usedPorts /\ c \in usedIds
  BY <1>2 DEF VaultAnswers, ExclusiveLeases
<1> HIDE DEF f, p, c
<1> QED BY <1>1, <1>3, <1>4, <1>5, <1>6, <1>7, Grow

\* The container with a follower's name is removed and its connections are lost.
LEMMA RemoveBox ==
  ASSUME TypeOK, ContainerInv, NEW f \in Followers,
         gateways' = gateways, alive' = alive \ {box[f]}, box' = [box EXCEPT ![f] = None],
         \A i \in Instances :
              /\ inst'[i].follower = inst[i].follower
              /\ inst'[i].port = inst[i].port
              /\ inst'[i].id = inst[i].id
              /\ inst'[i].status = inst[i].status
              /\ inst'[i].to = inst[i].to
              /\ inst'[i].up = (inst[i].up /\ inst[i].to \notin ({box[f]} \ {None}))
  PROVE  ContainerInv'
<1>1. \A g \in Tracked' : g \in Tracked /\ gateways[g] \in Instances BY DEF Tracked, TypeOK
<1>2. \A i \in alive' : i \in alive /\ i \in Instances /\ i # box[f] BY DEF TypeOK
<1>3. \A g \in Tracked' : inst'[gateways'[g]].status # "unused" /\ inst'[gateways'[g]].follower = g
  BY <1>1 DEF ContainerInv
<1>4. \A i \in alive' :
        inst'[i].status # "unused" /\ inst'[i].follower \in Followers /\ box'[inst'[i].follower] = i
  <2> SUFFICES ASSUME NEW i \in alive'
               PROVE  /\ inst'[i].status # "unused" /\ inst'[i].follower \in Followers
                      /\ box'[inst'[i].follower] = i
    OBVIOUS
  <2>1. inst[i].status # "unused" /\ inst[i].follower \in Followers /\ box[inst[i].follower] = i
    BY <1>2 DEF ContainerInv
  <2>2. inst[i].follower # f BY <1>2, <2>1
  <2>3. box'[inst[i].follower] = i BY <2>1, <2>2 DEF TypeOK
  <2>4. inst'[i].status = inst[i].status /\ inst'[i].follower = inst[i].follower BY <1>2
  <2> QED BY <2>1, <2>3, <2>4
<1>5. \A i, k \in alive' : inst'[i].port = inst'[k].port => i = k BY <1>2 DEF ContainerInv
<1>6. \A g \in Tracked', k \in alive' : inst'[k].port = inst'[gateways'[g]].port => k = gateways'[g]
  BY <1>1, <1>2 DEF ContainerInv
<1>7. \A i \in Instances : inst'[i].up => inst'[i].to \in alive' /\ inst'[inst'[i].to].port = inst'[i].port
  <2> SUFFICES ASSUME NEW i \in Instances, inst'[i].up
               PROVE  inst'[i].to \in alive' /\ inst'[inst'[i].to].port = inst'[i].port
    OBVIOUS
  <2>1. inst[i].up /\ inst[i].to \notin ({box[f]} \ {None}) OBVIOUS
  <2>2. inst[i].to \in alive /\ inst[inst[i].to].port = inst[i].port BY <2>1 DEF ContainerInv
  <2>3. inst[i].to # None BY <2>2, NoneIsNoInstance DEF TypeOK
  <2>4. inst[i].to \in alive' BY <2>1, <2>2, <2>3
  <2>5. inst[i].to \in Instances BY <1>2, <2>4
  <2> QED BY <2>2, <2>4, <2>5
<1> QED BY <1>3, <1>4, <1>5, <1>6, <1>7 DEF ContainerInv

\* Every step of a job keeps the leases exclusive and clients with their containers.
LEMMA LeasesJobStep ==
  ASSUME TypeOK, TypeOK', AwaitInv, ContainerInv, ExclusiveLeases, NEW j \in Jobs,
         JobStep(j) \/ JobCall(j)
  PROVE  ContainerInv' /\ ExclusiveLeases'
<1>1. ASSUME NEW f \in Followers, StartWaitsForVault(j, f) PROVE ContainerInv' /\ ExclusiveLeases'
  <2>1. PICK p \in Ports, c \in ClientIds \ usedIds :
       /\ FreePort(p)
       /\ usedPorts' = usedPorts \cup {p}
       /\ usedIds' = usedIds \cup {c}
       /\ job' = [job EXCEPT ![j] = [@ EXCEPT !.pc = "vault", !.f = f, !.port = p,
                                              !.id = c, !.tries = 1]]
    BY <1>1 DEF StartWaitsForVault
  <2>2. p \notin usedPorts /\ c \notin usedIds BY <2>1 DEF FreePort
  <2>3. job'[j].port = p /\ job'[j].id = c /\ \A k \in Jobs \ {j} : job'[k] = job[k]
    BY <2>1 DEF TypeOK, JobType
  <2>4. \A k \in InFlight' : k = j \/ (k \in InFlight /\ job'[k] = job[k])
    BY <2>3 DEF InFlight
  <2>5. /\ gateways' = gateways /\ alive' = alive \ {box[f]} /\ inst' = Sever({box[f]} \ {None})
        /\ box' = [box EXCEPT ![f] = None] /\ Tracked' = Tracked
    BY <1>1 DEF StartWaitsForVault, Tracked
  <2>6. \A i \in Instances :
              /\ inst'[i].follower = inst[i].follower
              /\ inst'[i].port = inst[i].port
              /\ inst'[i].id = inst[i].id
              /\ inst'[i].status = inst[i].status
              /\ inst'[i].to = inst[i].to
              /\ inst'[i].up = (inst[i].up /\ inst[i].to \notin ({box[f]} \ {None}))
    BY <2>5, SeverKeeps DEF TypeOK
  <2>7. \A g \in Tracked : gateways[g] \in Instances BY DEF Tracked, TypeOK
  <2>8. ExclusiveLeases'
    <3>1. \A g \in Tracked : inst'[gateways'[g]].port = inst[gateways[g]].port
                              /\ inst'[gateways'[g]].id = inst[gateways[g]].id
      BY <2>5, <2>6, <2>7
    <3>2. \A g \in Tracked : /\ inst[gateways[g]].port \in usedPorts /\ inst[gateways[g]].id \in usedIds
                             /\ inst[gateways[g]].port # p /\ inst[gateways[g]].id # c
      BY <2>2 DEF ExclusiveLeases
    <3>3. \A k \in InFlight : /\ job[k].port \in usedPorts /\ job[k].id \in usedIds
                              /\ job[k].port # p /\ job[k].id # c
      BY <2>2 DEF ExclusiveLeases
    <3>4. \A g \in Tracked' : inst'[gateways'[g]].port \in usedPorts' /\ inst'[gateways'[g]].id \in usedIds'
      BY <2>1, <2>5, <3>1, <3>2
    <3>5. \A k \in InFlight' : job'[k].port \in usedPorts' /\ job'[k].id \in usedIds'
      BY <2>1, <2>3, <2>4, <3>3
    <3>6. \A g, h \in Tracked' : g # h =>
            inst'[gateways'[g]].port # inst'[gateways'[h]].port /\ inst'[gateways'[g]].id # inst'[gateways'[h]].id
      <4>1. \A g, h \in Tracked : g # h =>
              inst[gateways[g]].port # inst[gateways[h]].port /\ inst[gateways[g]].id # inst[gateways[h]].id
        BY DEF ExclusiveLeases
      <4> SUFFICES ASSUME NEW g \in Tracked, NEW h \in Tracked, g # h
                   PROVE  /\ inst'[gateways'[g]].port # inst'[gateways'[h]].port
                          /\ inst'[gateways'[g]].id # inst'[gateways'[h]].id
        BY <2>5
      <4> QED BY <3>1, <4>1
    <3>7. \A k, l \in InFlight' : k # l => job'[k].port # job'[l].port /\ job'[k].id # job'[l].id
      <4> SUFFICES ASSUME NEW k \in InFlight', NEW l \in InFlight', k # l
                   PROVE  job'[k].port # job'[l].port /\ job'[k].id # job'[l].id
        OBVIOUS
      <4>1. CASE k = j BY <2>3, <2>4, <3>3, <4>1
      <4>2. CASE l = j BY <2>3, <2>4, <3>3, <4>2
      <4>3. CASE k # j /\ l # j BY <2>4, <4>3 DEF ExclusiveLeases
      <4> QED BY <4>1, <4>2, <4>3
    <3>8. \A g \in Tracked', k \in InFlight' :
            inst'[gateways'[g]].port # job'[k].port /\ inst'[gateways'[g]].id # job'[k].id
      <4> SUFFICES ASSUME NEW g \in Tracked, NEW k \in InFlight'
                   PROVE  inst[gateways[g]].port # job'[k].port /\ inst[gateways[g]].id # job'[k].id
        BY <2>5, <3>1
      <4>1. CASE k = j BY <2>3, <3>2, <4>1
      <4>2. CASE k # j BY <2>4, <4>2 DEF ExclusiveLeases
      <4> QED BY <4>1, <4>2
    <3> QED BY <3>4, <3>5, <3>6, <3>7, <3>8 DEF ExclusiveLeases
  <2>9. ContainerInv'
    BY <2>5, <2>6, RemoveBox
  <2> QED BY <2>8, <2>9
<1>2. ASSUME NEW f \in Followers, StartFailsAtOnce(j, f) PROVE ContainerInv' /\ ExclusiveLeases'
  <2>1. \A k \in Jobs : job'[k].pc = "vault" => job'[k] = job[k]
    BY <1>2 DEF StartFailsAtOnce, TypeOK, Scanned, JobAt
  <2>2. CASE UNCHANGED <<inst, box, alive>>
    BY <1>2, <2>1, <2>2, Quiet DEF StartFailsAtOnce
  <2>3. CASE /\ box' = [box EXCEPT ![f] = None]
             /\ alive' = alive \ {box[f]}
             /\ inst' = Sever({box[f]} \ {None})
    <3>1. \A i \in Instances :
              /\ inst'[i].follower = inst[i].follower
              /\ inst'[i].port = inst[i].port
              /\ inst'[i].id = inst[i].id
              /\ inst'[i].status = inst[i].status
              /\ inst'[i].to = inst[i].to
              /\ inst'[i].up = (inst[i].up /\ inst[i].to \notin ({box[f]} \ {None}))
      BY <2>3, SeverKeeps DEF TypeOK
    <3>2. gateways' = gateways /\ usedPorts' = usedPorts /\ usedIds' = usedIds /\ Tracked' = Tracked
      BY <1>2 DEF StartFailsAtOnce, Tracked
    <3>3. ContainerInv' BY <2>3, <3>1, <3>2, RemoveBox
    <3>4. \A g \in Tracked : gateways[g] \in Instances BY DEF Tracked, TypeOK
    <3>5. \A g \in Tracked : inst'[gateways'[g]].port = inst[gateways[g]].port
                              /\ inst'[gateways'[g]].id = inst[gateways[g]].id
      BY <3>1, <3>2, <3>4
    <3>6. \A k \in InFlight' : k \in InFlight /\ job'[k] = job[k] BY <2>1 DEF InFlight
    <3>7. ExclusiveLeases' BY <3>2, <3>5, <3>6 DEF ExclusiveLeases
    <3> QED BY <3>3, <3>7
  <2> QED BY <1>2, <2>2, <2>3 DEF StartFailsAtOnce
<1>3. CASE VaultRetry(j)
  <2>1. \A k \in Jobs : job'[k].pc = job[k].pc /\ job'[k].port = job[k].port /\ job'[k].id = job[k].id
    BY <1>3 DEF VaultRetry, TypeOK, JobType
  <2> QED BY <1>3, <2>1, Quiet DEF VaultRetry
<1>4. CASE StartGivesUp(j)
  <2>1. \A k \in Jobs : job'[k].pc = "vault" => k # j /\ job'[k] = job[k]
    BY <1>4 DEF StartGivesUp, TypeOK, Scanned, JobAt
  <2>2. j \in InFlight BY <1>4 DEF StartGivesUp, InFlight
  <2>3. /\ UNCHANGED <<gateways, inst, box, alive>>
        /\ usedPorts' = usedPorts \ {job[j].port} /\ usedIds' = usedIds \ {job[j].id}
    BY <1>4 DEF StartGivesUp
  <2>4. \A g \in Tracked' : inst[gateways[g]].port \in usedPorts' /\ inst[gateways[g]].id \in usedIds'
    BY <2>2, <2>3 DEF Tracked, ExclusiveLeases
  <2>5. \A k \in InFlight' : job[k].port \in usedPorts' /\ job[k].id \in usedIds'
    BY <2>1, <2>2, <2>3 DEF InFlight, ExclusiveLeases
  <2>6. \A i \in Instances : inst'[i].up => inst'[i].to \in alive' /\ inst[inst'[i].to].port = inst[i].port
    BY <2>3 DEF ContainerInv
  <2> QED BY <2>1, <2>3, <2>4, <2>5, <2>6, Shrink
<1>5. CASE StoreMapping(j)
  <2>1. \A k \in Jobs : job'[k].pc = "vault" => job'[k] = job[k]
    BY <1>5 DEF StoreMapping, TypeOK, JobType
  <2> QED BY <1>5, <2>1, Quiet DEF StoreMapping
<1>6. CASE j = Boot /\ StartEnds
  <2>1. \A k \in Jobs : job'[k].pc = "vault" => job'[k] = job[k]
    BY <1>6 DEF StartEnds, TypeOK, Idle, JobAt
  <2> QED BY <1>6, <2>1, Quiet DEF StartEnds
<1>7. CASE ReloadBegins(j)
  <2>1. \A k \in Jobs : job'[k].pc = "vault" => job'[k] = job[k]
    BY <1>7 DEF ReloadBegins, TypeOK, JobAt
  <2> QED BY <1>7, <2>1, Quiet DEF ReloadBegins
<1>8. CASE Stop(j)
  <2>1. \A k \in Jobs : job'[k].pc = "vault" => job'[k] = job[k]
    BY <1>8 DEF Stop, TypeOK, JobType
  <2> QED BY <1>8, <2>1, Quiet DEF Stop
<1>9. CASE ReloadPrunes(j)
  <2>1. Tracked \ job[j].active \in SUBSET Followers BY DEF Tracked
  <2> QED BY <1>9, <2>1, LeasesStop DEF ReloadPrunes
<1>10. CASE RemoveMapping(j)
  <2>1. job[j].todo \in SUBSET Followers BY DEF TypeOK, JobType
  <2> QED BY <1>10, <2>1, LeasesStop DEF RemoveMapping
<1>11. CASE StopAll(j)
  <2>1. Tracked \in SUBSET Followers BY DEF Tracked
  <2> QED BY <1>11, <2>1, LeasesStop DEF StopAll
<1>12. ASSUME NEW f \in Followers, StopFollower(j, f) PROVE ContainerInv' /\ ExclusiveLeases'
  <2>1. {f} \in SUBSET Followers /\ job[j].pc # "vault" BY <1>12 DEF StopFollower, Idle, JobAt
  <2> QED BY <1>12, <2>1, LeasesStop DEF StopFollower
<1>13. ASSUME NEW f \in Followers, AlreadyRunning(j, f) \/ NoPort(j, f) \/ NoClientId(j, f)
       PROVE ContainerInv' /\ ExclusiveLeases'
  BY <1>13, LeasesScan DEF AlreadyRunning, NoPort, NoClientId, NeedsStart
<1> QED BY <1>1, <1>2, <1>3, <1>4, <1>5, <1>6, <1>7, <1>8, <1>9, <1>10, <1>11, <1>12, <1>13,
           LeasesStartAtOnce, LeasesVaultAnswers DEF JobStep, JobCall

\* A connection attempt that succeeds sets the client of one instance to the container it
\* reached, which runs on that instance's port.
LEMMA QuietConnects ==
  ASSUME TypeOK, TypeOK', ContainerInv, ExclusiveLeases, NEW g \in Instances, NEW k \in Reached(g),
         UNCHANGED <<gateways, usedPorts, usedIds, box, alive, job>>,
         \/ inst' = [inst EXCEPT ![g] = [@ EXCEPT !.to = k, !.up = TRUE]]
         \/ inst' = [inst EXCEPT ![g] = [@ EXCEPT !.to = k, !.up = TRUE, !.status = "RUNNING"]]
         \/ inst' = [inst EXCEPT ![g] = [@ EXCEPT !.to = k, !.up = TRUE, !.failures = 0]]
  PROVE  ContainerInv' /\ ExclusiveLeases'
<1>1. inst[g] \in InstanceType BY DEF TypeOK
<1>2. k \in alive /\ inst[k].port = inst[g].port BY DEF Reached
<1>3. \A i \in Instances \ {g} : inst'[i] = inst[i] BY DEF TypeOK
<1>4. \/ inst'[g] = [inst[g] EXCEPT !.to = k, !.up = TRUE]
      \/ inst'[g] = [inst[g] EXCEPT !.to = k, !.up = TRUE, !.status = "RUNNING"]
      \/ inst'[g] = [inst[g] EXCEPT !.to = k, !.up = TRUE, !.failures = 0]
  BY DEF TypeOK
<1>5. /\ inst'[g].follower = inst[g].follower
      /\ inst'[g].port = inst[g].port
      /\ inst'[g].id = inst[g].id
      /\ inst[g].status # "unused" => inst'[g].status # "unused"
      /\ inst'[g].to = k
  BY <1>1, <1>4 DEF InstanceType
<1>6. \A i \in Instances : /\ inst'[i].follower = inst[i].follower
                           /\ inst'[i].port = inst[i].port
                           /\ inst'[i].id = inst[i].id
                           /\ inst[i].status # "unused" => inst'[i].status # "unused"
  BY <1>3, <1>5
<1>7. \A i \in Instances : inst'[i].up =>
            \/ inst[i].up /\ inst'[i].to = inst[i].to
            \/ inst'[i].to \in alive /\ inst[inst'[i].to].port = inst[i].port
  <2> SUFFICES ASSUME NEW i \in Instances, inst'[i].up
               PROVE  \/ inst[i].up /\ inst'[i].to = inst[i].to
                      \/ inst'[i].to \in alive /\ inst[inst'[i].to].port = inst[i].port
    OBVIOUS
  <2>1. CASE i = g BY <1>2, <1>5, <2>1
  <2>2. CASE i # g BY <1>3, <2>2
  <2> QED BY <2>1, <2>2
<1> QED BY <1>6, <1>7, Quiet

\* So does every step of get_client().
LEMMA LeasesCaller ==
  ASSUME TypeOK, TypeOK', AwaitInv, ContainerInv, ExclusiveLeases, NEW c \in Callers,
         CallerStep(c) \/ \E f \in Followers : GetClient(c, f)
  PROVE  ContainerInv' /\ ExclusiveLeases'
<1>1. ASSUME NEW f \in Followers, GetClient(c, f) PROVE ContainerInv' /\ ExclusiveLeases'
  BY <1>1, Quiet DEF GetClient
<1>2. CASE CallerConnects(c)
  <2>1. PICK k \in Reached(caller[c].g) :
          inst' = [inst EXCEPT ![caller[c].g] = [@ EXCEPT !.to = k, !.up = TRUE]]
    BY <1>2 DEF CallerConnects
  <2>2. caller[c].g \in Instances BY <1>2 DEF CallerConnects, AwaitInv
  <2> QED BY <1>2, <2>1, <2>2, QuietConnects DEF CallerConnects
<1>3. CASE CallerFails(c) BY <1>3, Quiet DEF CallerFails
<1>4. CASE CallerRetries(c)
  <2>1. caller[c].g \in Instances BY <1>4 DEF CallerRetries, AwaitInv
  <2> QED BY <1>4, <2>1, QuietDrop DEF CallerRetries
<1> QED BY <1>1, <1>2, <1>3, <1>4 DEF CallerStep

\* So does every step of the monitor.
LEMMA LeasesMonitor ==
  ASSUME TypeOK, TypeOK', AwaitInv, ContainerInv, ExclusiveLeases, MonitorStep
  PROVE  ContainerInv' /\ ExclusiveLeases'
<1>1. CASE MonitorCycle BY <1>1, Quiet DEF MonitorCycle
<1>2. CASE MonitorRetries
  <2>1. monitor.g \in Instances BY <1>2 DEF MonitorRetries, AwaitInv
  <2> QED BY <1>2, <2>1, QuietDrop DEF MonitorRetries
<1>3. CASE MonitorConnects
  <2>1. PICK k \in Reached(monitor.g) :
          \/ inst' = [inst EXCEPT ![monitor.g] = [@ EXCEPT !.to = k, !.up = TRUE, !.status = "RUNNING"]]
          \/ inst' = [inst EXCEPT ![monitor.g] = [@ EXCEPT !.to = k, !.up = TRUE, !.failures = 0]]
    BY <1>3 DEF MonitorConnects
  <2>2. monitor.g \in Instances BY <1>3 DEF MonitorConnects, AwaitInv
  <2> QED BY <1>3, <2>1, <2>2, QuietConnects DEF MonitorConnects
<1>4. CASE MonitorConnectFails
  <2>1. monitor.g \in Instances BY <1>4 DEF MonitorConnectFails, AwaitInv
  <2>2. "FAILED" \in Status \ {"unused"} BY DEF Status
  <2>3. UNCHANGED <<gateways, usedPorts, usedIds, box, alive, job>> BY <1>4 DEF MonitorConnectFails
  <2>4. CASE inst' = [inst EXCEPT ![monitor.g].status = "FAILED"]
    BY <2>1, <2>2, <2>3, <2>4, QuietStatus
  <2>5. CASE UNCHANGED inst BY <2>3, <2>5, Quiet
  <2> QED BY <1>4, <2>4, <2>5 DEF MonitorConnectFails
<1>5. ASSUME NEW i \in Instances, CheckFindsStopped(i) PROVE ContainerInv' /\ ExclusiveLeases'
  <2>1. "STOPPED" \in Status \ {"unused"} BY DEF Status
  <2> QED BY <1>5, <2>1, QuietStatus DEF CheckFindsStopped
<1>6. ASSUME NEW i \in Instances, CheckConnects(i) PROVE ContainerInv' /\ ExclusiveLeases'
  BY <1>6, QuietDrop DEF CheckConnects
<1>7. ASSUME NEW i \in Instances, CheckCounts(i) PROVE ContainerInv' /\ ExclusiveLeases'
  <2>1. \A k \in Instances :
          /\ inst'[k].follower = inst[k].follower
          /\ inst'[k].port = inst[k].port
          /\ inst'[k].id = inst[k].id
          /\ inst'[k].status = inst[k].status
          /\ inst'[k].up => inst[k].up /\ inst'[k].to = inst[k].to
    <3> SUFFICES ASSUME NEW k \in Instances
                 PROVE  /\ inst'[k].follower = inst[k].follower
                        /\ inst'[k].port = inst[k].port
                        /\ inst'[k].id = inst[k].id
                        /\ inst'[k].status = inst[k].status
                        /\ inst'[k].up => inst[k].up /\ inst'[k].to = inst[k].to
      OBVIOUS
    <3>1. CASE k # i
      <4>1. inst'[k] = inst[k] BY <1>7, <3>1 DEF CheckCounts, TypeOK
      <4> QED BY <4>1
    <3>2. CASE k = i
      <4>1. inst[i] \in InstanceType BY DEF TypeOK
      <4>2. \/ inst'[i] = [inst[i] EXCEPT !.failures = 0]
            \/ inst'[i] = [inst[i] EXCEPT !.failures = 1]
            \/ ~inst[i].up /\ inst'[i] = [inst[i] EXCEPT !.failures = 2, !.to = None]
        BY <1>7 DEF CheckCounts, TypeOK
      <4> QED BY <3>2, <4>1, <4>2 DEF InstanceType
    <3> QED BY <3>1, <3>2
  <2> QED BY <1>7, <2>1, Quiet DEF CheckCounts
<1>8. ASSUME NEW i \in Instances, CheckSkips(i) PROVE ContainerInv' /\ ExclusiveLeases'
  BY <1>8, Quiet DEF CheckSkips
<1> QED BY <1>1, <1>2, <1>3, <1>4, <1>5, <1>6, <1>7, <1>8 DEF MonitorStep

\* So does what Docker, TWS and the followers collection do.
LEMMA LeasesEnvironment ==
  ASSUME TypeOK, TypeOK', ContainerInv, ExclusiveLeases, Environment
  PROVE  ContainerInv' /\ ExclusiveLeases'
<1>1. ASSUME NEW f \in Followers, EditFollower(f) PROVE ContainerInv' /\ ExclusiveLeases'
  BY <1>1, Quiet DEF EditFollower
<1>2. ASSUME NEW i \in Instances, ContainerEnds(i) PROVE ContainerInv' /\ ExclusiveLeases'
  <2>1. PICK g \in Followers : box[g] = i /\ box' \in {box, [box EXCEPT ![g] = None]}
    BY <1>2 DEF ContainerEnds
  <2>2. alive' = alive \ {i} /\ inst' = Sever({i}) BY <1>2 DEF ContainerEnds
  <2>3. \A k \in Instances :
          /\ inst'[k].follower = inst[k].follower
          /\ inst'[k].port = inst[k].port
          /\ inst'[k].id = inst[k].id
          /\ inst'[k].status = inst[k].status
          /\ inst'[k].to = inst[k].to
          /\ inst'[k].up = (inst[k].up /\ inst[k].to \notin {i})
    BY <2>2, SeverKeeps DEF TypeOK
  <2>4. \A k \in alive' : box'[inst[k].follower] = box[inst[k].follower]
    <3> SUFFICES ASSUME NEW k \in alive' PROVE box'[inst[k].follower] = box[inst[k].follower]
      OBVIOUS
    <3>1. k \in alive /\ k # i BY <2>2
    <3>2. box[inst[k].follower] = k /\ inst[k].follower \in Followers BY <3>1 DEF ContainerInv
    <3> QED BY <2>1, <3>1, <3>2 DEF TypeOK
  <2>5. \A k \in Instances : inst'[k].up => inst'[k].to \in alive' /\ inst[inst'[k].to].port = inst[k].port
    <3> SUFFICES ASSUME NEW k \in Instances, inst'[k].up
                 PROVE  inst'[k].to \in alive' /\ inst[inst'[k].to].port = inst[k].port
      OBVIOUS
    <3>1. inst[k].up /\ inst[k].to # i /\ inst'[k].to = inst[k].to BY <2>3
    <3>2. inst[k].to \in alive /\ inst[inst[k].to].port = inst[k].port BY <3>1 DEF ContainerInv
    <3> QED BY <2>2, <3>1, <3>2
  <2>6. UNCHANGED <<gateways, usedPorts, usedIds, job>> BY <1>2 DEF ContainerEnds
  <2>7. \A f \in Tracked' : inst[gateways[f]].port \in usedPorts' /\ inst[gateways[f]].id \in usedIds'
    BY <2>6 DEF Tracked, ExclusiveLeases
  <2>8. \A j \in InFlight' : job[j].port \in usedPorts' /\ job[j].id \in usedIds'
    BY <2>6 DEF InFlight, ExclusiveLeases
  <2>9. alive' \subseteq alive BY <2>2
  <2> QED BY <2>3, <2>4, <2>5, <2>6, <2>7, <2>8, <2>9, Shrink
<1>3. ASSUME NEW i \in Instances, ConnectionDrops(i) PROVE ContainerInv' /\ ExclusiveLeases'
  BY <1>3, QuietDrop DEF ConnectionDrops
<1> QED BY <1>1, <1>2, <1>3 DEF Environment

-----------------------------------------------------------------------------
(* What the awaiting tasks work on *)

\* StopNext leaves the task idle, or with the mapping of a follower to remove.
LEMMA AwaitStop ==
  ASSUME TypeOK, AwaitInv, NEW j \in Jobs, NEW todo \in SUBSET Followers, StopNext(j, todo),
         UNCHANGED <<monitor, caller>>
  PROVE  AwaitInv'
<1>1. \A k \in Jobs \ {j} : job'[k] = job[k] BY DEF StopNext, TypeOK
<1>2. \/ job'[j].pc = "idle"
      \/ job'[j].pc = "unmap" /\ job'[j].f \in Followers
  BY DEF StopNext, TypeOK, Idle, JobAt, Tracked
<1> QED BY <1>1, <1>2 DEF AwaitInv

\* A job awaits what its record says.
LEMMA AwaitJob ==
  ASSUME TypeOK, AwaitInv, NEW j \in Jobs, JobStep(j) \/ JobCall(j)
  PROVE  AwaitInv'
<1> USE DEF TypeOK
<1>1. ASSUME UNCHANGED <<monitor, caller>>,
             \A k \in Jobs \ {j} : job'[k] = job[k],
             job'[j].pc \in {"idle", "scan", "halt"}
      PROVE  AwaitInv'
  BY <1>1 DEF AwaitInv
<1>2. ASSUME UNCHANGED <<monitor, caller>>, NEW f \in Followers,
             job' = [job EXCEPT ![j] = Scanned(j, f)]
      PROVE  AwaitInv'
  BY <1>1, <1>2 DEF Scanned, JobAt
<1>3. ASSUME NEW f \in Followers, StartAtOnce(j, f) PROVE AwaitInv'
  <2>1. PICK p \in Ports, c \in ClientIds :
          RunContainer(j, f, p, c, alive \ {box[f]}, Sever({box[f]} \ {None}))
    BY <1>3 DEF StartAtOnce
  <2>2. Sever({box[f]} \ {None}) \in [Instances -> InstanceType] BY SeverKeeps
  <2>3. job'[j].pc = "store" /\ job'[j].f = f /\ \A k \in Jobs \ {j} : job'[k] = job[k]
    BY <2>1, <2>2, RunSteps
  <2>4. UNCHANGED <<monitor, caller>> BY <1>3 DEF StartAtOnce
  <2> QED BY <2>3, <2>4 DEF AwaitInv
<1>4. ASSUME NEW f \in Followers, StartWaitsForVault(j, f) PROVE AwaitInv'
  <2>1. PICK p \in Ports, c \in ClientIds :
          job' = [job EXCEPT ![j] = [@ EXCEPT !.pc = "vault", !.f = f, !.port = p,
                                              !.id = c, !.tries = 1]]
    BY <1>4 DEF StartWaitsForVault
  <2>2. job'[j].f = f /\ job'[j].port = p /\ job'[j].id = c /\ \A k \in Jobs \ {j} : job'[k] = job[k]
    BY <2>1 DEF JobType
  <2>3. UNCHANGED <<monitor, caller>> BY <1>4 DEF StartWaitsForVault
  <2> QED BY <2>2, <2>3 DEF AwaitInv
<1>5. CASE VaultRetry(j)
  <2>1. \A k \in Jobs : /\ job'[k].pc = job[k].pc /\ job'[k].f = job[k].f
                        /\ job'[k].port = job[k].port /\ job'[k].id = job[k].id
    BY <1>5 DEF VaultRetry, JobType
  <2>2. UNCHANGED <<monitor, caller>> BY <1>5 DEF VaultRetry
  <2> QED BY <2>1, <2>2 DEF AwaitInv
<1>6. CASE VaultAnswers(j)
  <2>1. job[j].f \in Followers /\ job[j].port \in Ports /\ job[j].id \in ClientIds
    BY <1>6 DEF VaultAnswers, AwaitInv
  <2>2. RunContainer(j, job[j].f, job[j].port, job[j].id, alive, inst)
    BY <1>6 DEF VaultAnswers
  <2>3. job'[j].pc = "store" /\ job'[j].f = job[j].f /\ \A k \in Jobs \ {j} : job'[k] = job[k]
    BY <2>1, <2>2, RunSteps
  <2>4. UNCHANGED <<monitor, caller>> BY <1>6 DEF VaultAnswers
  <2> QED BY <2>1, <2>3, <2>4 DEF AwaitInv
<1>7. CASE StartGivesUp(j)
  <2>1. job[j].f \in Followers BY <1>7 DEF StartGivesUp, AwaitInv
  <2> QED BY <1>2, <1>7, <2>1 DEF StartGivesUp
<1>8. CASE StoreMapping(j)
  <2>1. job'[j].pc = "scan" /\ \A k \in Jobs \ {j} : job'[k] = job[k]
    BY <1>8 DEF StoreMapping, JobType
  <2> QED BY <1>1, <1>8, <2>1 DEF StoreMapping
<1>9. CASE ReloadPrunes(j)
  <2>1. Tracked \ job[j].active \in SUBSET Followers BY DEF Tracked
  <2> QED BY <1>9, <2>1, AwaitStop DEF ReloadPrunes
<1>10. CASE RemoveMapping(j)
  <2>1. job[j].todo \in SUBSET Followers BY DEF JobType
  <2> QED BY <1>10, <2>1, AwaitStop DEF RemoveMapping
<1>11. CASE StopAll(j)
  <2>1. Tracked \in SUBSET Followers BY DEF Tracked
  <2> QED BY <1>11, <2>1, AwaitStop DEF StopAll
<1>12. CASE j = Boot /\ StartEnds
  <2>1. \/ monitor' = monitor
        \/ monitor'.pc = "idle"
    BY <1>12 DEF StartEnds, MonitorAt
  <2>2. \A k \in Jobs \ {j} : job'[k] = job[k] BY <1>12 DEF StartEnds
  <2>3. job'[j].pc = "idle" BY <1>12 DEF StartEnds, Idle, JobAt
  <2>4. caller' = caller BY <1>12 DEF StartEnds
  <2> QED BY <2>1, <2>2, <2>3, <2>4 DEF AwaitInv
<1>13. CASE ReloadBegins(j) BY <1>1, <1>13 DEF ReloadBegins, JobAt
<1>14. CASE Stop(j)
  <2>1. monitor'.pc = "off" /\ caller' = caller BY <1>14 DEF Stop, MonitorAt
  <2>2. job'[j].pc = "halt" /\ \A k \in Jobs \ {j} : job'[k] = job[k] BY <1>14 DEF Stop, JobType
  <2> QED BY <2>1, <2>2 DEF AwaitInv
<1>15. ASSUME NEW f \in Followers, StopFollower(j, f) PROVE AwaitInv'
  <2>1. {f} \in SUBSET Followers OBVIOUS
  <2> QED BY <1>15, <2>1, AwaitStop DEF StopFollower
<1>16. ASSUME NEW f \in Followers, AlreadyRunning(j, f) \/ NoPort(j, f) \/ NoClientId(j, f)
                                   \/ StartFailsAtOnce(j, f)
       PROVE  AwaitInv'
  BY <1>2, <1>16 DEF AlreadyRunning, NoPort, NoClientId, StartFailsAtOnce
<1> HIDE DEF TypeOK
<1> QED BY <1>3, <1>4, <1>5, <1>6, <1>7, <1>8, <1>9, <1>10, <1>11, <1>12, <1>13, <1>14,
           <1>15, <1>16 DEF JobStep, JobCall

\* So does a get_client() call.
LEMMA AwaitCaller ==
  ASSUME TypeOK, AwaitInv, NEW c \in Callers,
         CallerStep(c) \/ \E f \in Followers : GetClient(c, f)
  PROVE  AwaitInv'
<1> USE DEF TypeOK
<1>1. ASSUME UNCHANGED <<monitor, job>>,
             \A d \in Callers \ {c} : caller'[d] = caller[d],
             caller'[c].pc # "idle" => caller'[c].g \in Instances,
             caller'[c].pc = "backoff" => caller'[c].tries < ConnectTries
      PROVE  AwaitInv'
  BY <1>1 DEF AwaitInv
<1>2. ASSUME NEW f \in Followers, GetClient(c, f) PROVE AwaitInv'
  <2>1. gateways[f] \in Instances BY <1>2 DEF GetClient, Tracked
  <2>2. \/ caller'[c].pc = "idle"
        \/ caller'[c].pc = "connect" /\ caller'[c].g = gateways[f]
    BY <1>2 DEF GetClient, Call
  <2> QED BY <1>1, <1>2, <2>1, <2>2 DEF GetClient
<1>3. CASE CallerConnects(c)
  <2>1. caller'[c].pc = "idle" BY <1>3 DEF CallerConnects, Call
  <2> QED BY <1>1, <1>3, <2>1 DEF CallerConnects
<1>4. CASE CallerFails(c)
  <2>1. caller[c].g \in Instances BY <1>4 DEF CallerFails, AwaitInv
  <2>2. CASE caller[c].tries < ConnectTries
    <3>1. caller'[c] = [caller[c] EXCEPT !.pc = "backoff"] BY <1>4, <2>2 DEF CallerFails
    <3>2. caller'[c].g = caller[c].g /\ caller'[c].tries = caller[c].tries BY <3>1 DEF CallerType
    <3> QED BY <1>1, <1>4, <2>1, <2>2, <3>2 DEF CallerFails
  <2>3. CASE ~(caller[c].tries < ConnectTries)
    <3>1. caller'[c].pc = "idle" BY <1>4, <2>3 DEF CallerFails, NoCall, Call
    <3> QED BY <1>1, <1>4, <3>1 DEF CallerFails
  <2> QED BY <2>2, <2>3
<1>5. CASE CallerRetries(c)
  <2>1. caller[c].g \in Instances BY <1>5 DEF CallerRetries, AwaitInv
  <2>2. caller'[c].pc = "connect" /\ caller'[c].g = caller[c].g BY <1>5 DEF CallerRetries, CallerType
  <2> QED BY <1>1, <1>5, <2>1, <2>2 DEF CallerRetries
<1> QED BY <1>2, <1>3, <1>4, <1>5 DEF CallerStep

\* So does the monitor.
LEMMA AwaitMonitor ==
  ASSUME TypeOK, AwaitInv, MonitorStep
  PROVE  AwaitInv'
<1> USE DEF TypeOK
<1>1. ASSUME UNCHANGED <<job, caller>>,
             \/ monitor'.pc \in {"idle", "check"}
             \/ monitor'.pc \in {"connect", "pause"} /\ monitor'.g \in Instances
             \/ /\ monitor'.pc = "backoff" /\ monitor'.g \in Instances
                /\ monitor'.tries < ConnectTries
      PROVE  AwaitInv'
  BY <1>1 DEF AwaitInv
<1>2. \A todo : NextCheck(todo).pc \in {"idle", "check"} BY DEF NextCheck, MonitorAt
<1>3. CASE MonitorCycle BY <1>1, <1>3 DEF MonitorCycle, MonitorAt
<1>4. CASE MonitorRetries
  <2>1. monitor.g \in Instances BY <1>4 DEF MonitorRetries, AwaitInv
  <2>2. monitor'.pc = "connect" /\ monitor'.g = monitor.g BY <1>4 DEF MonitorRetries, MonitorType
  <2> QED BY <1>1, <1>4, <2>1, <2>2 DEF MonitorRetries
<1>5. CASE MonitorConnects BY <1>1, <1>2, <1>5 DEF MonitorConnects
<1>6. CASE MonitorConnectFails
  <2>1. monitor.g \in Instances BY <1>6 DEF MonitorConnectFails, AwaitInv
  <2>2. CASE monitor.tries < ConnectTries /\ monitor' = [monitor EXCEPT !.pc = "backoff"]
    <3>1. monitor'.pc = "backoff" /\ monitor'.g = monitor.g /\ monitor'.tries = monitor.tries
      BY <2>2 DEF MonitorType
    <3> QED BY <1>1, <1>6, <2>1, <2>2, <3>1 DEF MonitorConnectFails
  <2>3. CASE monitor' = NextCheck(monitor.todo)
    BY <1>1, <1>2, <1>6, <2>3 DEF MonitorConnectFails
  <2> QED BY <1>6, <2>2, <2>3 DEF MonitorConnectFails
<1>7. ASSUME NEW i \in Instances, CheckFindsStopped(i) PROVE AwaitInv'
  BY <1>1, <1>2, <1>7 DEF CheckFindsStopped
<1>8. ASSUME NEW i \in Instances, CheckConnects(i) PROVE AwaitInv'
  <2>1. monitor'.pc = "connect" /\ monitor'.g = i BY <1>8 DEF CheckConnects, Connecting
  <2> QED BY <1>1, <1>8, <2>1 DEF CheckConnects
<1>9. ASSUME NEW i \in Instances, CheckCounts(i) PROVE AwaitInv'
  <2>1. \/ monitor'.pc \in {"idle", "check"}
        \/ monitor'.pc = "pause" /\ monitor'.g = i
    BY <1>2, <1>9 DEF CheckCounts, Connecting
  <2> QED BY <1>1, <1>9, <2>1 DEF CheckCounts
<1>10. ASSUME NEW i \in Instances, CheckSkips(i) PROVE AwaitInv'
  BY <1>1, <1>2, <1>10 DEF CheckSkips
<1> QED BY <1>3, <1>4, <1>5, <1>6, <1>7, <1>8, <1>9, <1>10 DEF MonitorStep

-----------------------------------------------------------------------------
(* The theorems *)

\* The invariant holds at the start.
LEMMA InvInit == Init => GatewayInv
<1> SUFFICES ASSUME Init PROVE GatewayInv OBVIOUS
<1>1. Tracked = {} BY DEF Init, Tracked
<1>2. InFlight = {} BY DEF Init, InFlight, Idle, JobAt
<1>3. AwaitInv
  <2>1. \A j \in Jobs : job[j].pc \in {"scan", "idle"} BY DEF Init, Idle, JobAt
  <2>2. monitor.pc = "off" BY DEF Init, MonitorAt
  <2>3. \A c \in Callers : caller[c].pc = "idle" BY DEF Init, NoCall, Call
  <2> QED BY <2>1, <2>2, <2>3 DEF AwaitInv
<1>4. ContainerInv
  <2>1. \A i \in Instances : ~inst[i].up BY DEF Init, Unused, NewInstance
  <2>2. alive = {} BY DEF Init
  <2> QED BY <1>1, <2>1, <2>2 DEF ContainerInv
<1>5. ExclusiveLeases BY <1>1, <1>2 DEF ExclusiveLeases
<1> QED BY <1>3, <1>4, <1>5 DEF GatewayInv

\* Every step keeps the invariant.
LEMMA InvStep ==
  ASSUME TypeOK, GatewayInv, [Next]_vars
  PROVE  TypeOK' /\ GatewayInv'
<1>1. TypeOK' BY TypeStep
<1>2. AwaitInv /\ ContainerInv /\ ExclusiveLeases BY DEF GatewayInv
<1>3. CASE UNCHANGED vars
  BY <1>1, <1>2, <1>3
     DEF vars, GatewayInv, AwaitInv, ContainerInv, ExclusiveLeases, Tracked, InFlight
<1>4. CASE Next
  <2>1. ASSUME NEW j \in Jobs, JobStep(j) \/ JobCall(j) PROVE GatewayInv'
    BY <1>1, <1>2, <2>1, LeasesJobStep, AwaitJob DEF GatewayInv
  <2>2. ASSUME NEW c \in Callers, CallerStep(c) \/ \E f \in Followers : GetClient(c, f)
        PROVE  GatewayInv'
    BY <1>1, <1>2, <2>2, LeasesCaller, AwaitCaller DEF GatewayInv
  <2>3. CASE MonitorStep
    BY <1>1, <1>2, <2>3, LeasesMonitor, AwaitMonitor DEF GatewayInv
  <2>4. CASE Environment
    <3>1. UNCHANGED <<job, monitor, caller>>
      BY <2>4 DEF Environment, EditFollower, ContainerEnds, ConnectionDrops
    <3>2. AwaitInv' BY <1>2, <3>1 DEF AwaitInv
    <3> QED BY <1>1, <1>2, <2>4, <3>2, LeasesEnvironment DEF GatewayInv
  <2> QED BY <1>1, <1>4, <2>1, <2>2, <2>3, <2>4 DEF Next
<1> QED BY <1>3, <1>4

\* Every reachable state is well typed and satisfies the inductive invariant, for any
\* number of followers, ports, client ids, tasks and container starts.
THEOREM GatewayInvariant == Spec => [](TypeOK /\ GatewayInv)
<1>1. Init => TypeOK /\ GatewayInv BY TypeInit, InvInit
<1>2. TypeOK /\ GatewayInv /\ [Next]_vars => (TypeOK /\ GatewayInv)' BY InvStep
<1> QED BY <1>1, <1>2, PTL DEF Spec

\* The gateway manager's state keeps its type.
THEOREM TypeCorrect == Spec => []TypeOK
BY GatewayInvariant, PTL

\* No two gateways or starts in flight ever hold the same port or client id.
THEOREM LeasesExclusive == Spec => []ExclusiveLeases
<1>1. TypeOK /\ GatewayInv => ExclusiveLeases BY DEF GatewayInv
<1> QED BY <1>1, GatewayInvariant, PTL

\* The connected client of a gateway in use talks to that gateway's own container.
THEOREM OwnContainer == Spec => []ClientReachesOwnContainer
<1>1. TypeOK /\ GatewayInv => ClientReachesOwnContainer
  <2> SUFFICES ASSUME TypeOK, ContainerInv, NEW f \in Tracked, inst[gateways[f]].up
               PROVE  inst[gateways[f]].to = gateways[f] /\ gateways[f] \in alive
    BY DEF GatewayInv, ClientReachesOwnContainer
  <2>1. gateways[f] \in Instances BY DEF Tracked, TypeOK
  <2>2. /\ inst[gateways[f]].to \in alive
        /\ inst[inst[gateways[f]].to].port = inst[gateways[f]].port
    BY <2>1 DEF ContainerInv
  <2>3. inst[gateways[f]].to = gateways[f] BY <2>2 DEF ContainerInv
  <2> QED BY <2>2, <2>3
<1> QED BY <1>1, GatewayInvariant, PTL

-----------------------------------------------------------------------------
(* What the monitor knows across its awaits, and the statuses *)

\* Only the monitor writes a status after the start of a gateway: what it connects as
\* starting, or reconnects as running, still starts or runs when the attempt ends.
MonitorInv ==
  /\ monitor.pc = "pause" => monitor.why = "reconnect"
  /\ monitor.pc \in {"connect", "backoff", "pause"} =>
       /\ monitor.why = "startup" => inst[monitor.g].status = "STARTING"
       /\ monitor.why = "reconnect" => inst[monitor.g].status = "RUNNING"

\* A step of another task: an instance keeps its status, unless it starts.
StatusKept(i) ==
  \/ inst'[i].status = inst[i].status
  \/ inst[i].status = "unused" /\ inst'[i].status = "STARTING"

\* docker run writes no status but that of the new instance.
LEMMA RunStatuses ==
  ASSUME TypeOK, NEW j \in Jobs, NEW f \in Followers, NEW p \in Ports, NEW c \in ClientIds,
         NEW live \in SUBSET Instances, NEW ins \in [Instances -> InstanceType],
         RunContainer(j, f, p, c, live, ins), \A i \in Instances : ins[i].status = inst[i].status
  PROVE  \A i \in Instances : StatusKept(i)
<1>1. PICK n \in Instances :
              /\ ins[n].status = "unused"
              /\ \A k \in live : ins[k].port # p
              /\ inst'[n] = NewInstance(f, p, c, "STARTING")
              /\ \A k \in Instances \ {n} : inst'[k] = ins[k]
              /\ box' = [box EXCEPT ![f] = n]
              /\ alive' = live \cup {n}
              /\ gateways' = [gateways EXCEPT ![f] = n]
              /\ job'[j].pc = "store" /\ job'[j].f = f
              /\ \A k \in Jobs \ {j} : job'[k] = job[k]
  BY RunSteps
<1>2. inst'[n].status = "STARTING" BY <1>1 DEF NewInstance
<1> QED BY <1>1, <1>2 DEF StatusKept

\* The tasks in Jobs write no status but that of a new instance.
LEMMA JobStatuses ==
  ASSUME TypeOK, GatewayInv, NEW j \in Jobs, JobStep(j) \/ JobCall(j)
  PROVE  /\ \A i \in Instances : StatusKept(i)
         /\ monitor' = monitor \/ monitor'.pc \in {"idle", "off"}
<1>1. ASSUME UNCHANGED inst PROVE \A i \in Instances : StatusKept(i)
  BY <1>1 DEF StatusKept
<1>2. ASSUME NEW ks, inst' = Sever(ks) PROVE \A i \in Instances : StatusKept(i)
  BY <1>2, SeverKeeps DEF StatusKept, TypeOK
<1>3. ASSUME NEW f \in Followers, NEW p \in Ports, NEW c \in ClientIds, NEW live \in SUBSET Instances,
             NEW ks, RunContainer(j, f, p, c, live, Sever(ks))
      PROVE  \A i \in Instances : StatusKept(i)
  <2> DEFINE ins == Sever(ks)
  <2>1. ins \in [Instances -> InstanceType] /\ \A i \in Instances : ins[i].status = inst[i].status
    BY SeverKeeps DEF TypeOK
  <2>2. RunContainer(j, f, p, c, live, ins) BY <1>3
  <2> HIDE DEF ins
  <2> QED BY <2>1, <2>2, RunStatuses
<1>4. ASSUME NEW f \in Tracked, StopGateway(f) PROVE \A i \in Instances : StatusKept(i)
  <2>1. gateways[f] \in Instances BY DEF Tracked, TypeOK
  <2>2. inst' = [Sever(alive \ alive') EXCEPT ![gateways[f]].up = FALSE] BY <1>4 DEF StopGateway
  <2> QED BY <2>1, <2>2, SeverDropKeeps DEF TypeOK, Same, StatusKept
<1>5. ASSUME NEW todo, StopNext(j, todo) PROVE \A i \in Instances : StatusKept(i)
  BY <1>1, <1>4, <1>5 DEF StopNext
<1>6. ASSUME NEW f \in Followers, StartAtOnce(j, f) PROVE \A i \in Instances : StatusKept(i)
  <2>1. alive \ {box[f]} \in SUBSET Instances BY DEF TypeOK
  <2> QED BY <1>3, <1>6, <2>1 DEF StartAtOnce
<1>7. ASSUME VaultAnswers(j) PROVE \A i \in Instances : StatusKept(i)
  <2>1. job[j].f \in Followers /\ job[j].port \in Ports /\ job[j].id \in ClientIds
    BY <1>7 DEF VaultAnswers, GatewayInv, AwaitInv
  <2>2. RunContainer(j, job[j].f, job[j].port, job[j].id, alive, inst) BY <1>7 DEF VaultAnswers
  <2> QED BY <2>1, <2>2, RunStatuses DEF TypeOK
<1>8. CASE JobStep(j)
  <2>1. \A i \in Instances : StatusKept(i)
    BY <1>1, <1>2, <1>5, <1>6, <1>7, <1>8
       DEF JobStep, AlreadyRunning, NoPort, NoClientId, StartWaitsForVault, StartFailsAtOnce,
           VaultRetry, StartGivesUp, StoreMapping, ReloadPrunes, RemoveMapping, StopAll, StartEnds
  <2>2. CASE StartEnds
    BY <2>1, <2>2 DEF StartEnds, MonitorAt
  <2>3. ASSUME NEW f \in Followers,
               \/ AlreadyRunning(j, f) \/ NoPort(j, f) \/ NoClientId(j, f)
               \/ StartAtOnce(j, f) \/ StartWaitsForVault(j, f) \/ StartFailsAtOnce(j, f)
        PROVE  monitor' = monitor
    BY <2>3 DEF AlreadyRunning, NoPort, NoClientId, StartAtOnce, StartWaitsForVault, StartFailsAtOnce
  <2>4. ASSUME \/ VaultRetry(j) \/ VaultAnswers(j) \/ StartGivesUp(j) \/ StoreMapping(j)
               \/ ReloadPrunes(j) \/ RemoveMapping(j) \/ StopAll(j)
        PROVE  monitor' = monitor
    BY <2>4 DEF VaultRetry, VaultAnswers, StartGivesUp, StoreMapping, ReloadPrunes, RemoveMapping,
                StopAll
  <2> QED BY <1>8, <2>1, <2>2, <2>3, <2>4 DEF JobStep
<1>9. CASE JobCall(j)
  <2>1. CASE ReloadBegins(j) BY <1>1, <2>1 DEF ReloadBegins
  <2>2. CASE Stop(j) BY <1>1, <2>2 DEF Stop, MonitorAt
  <2>3. ASSUME NEW f \in Followers, StopFollower(j, f)
        PROVE  (\A i \in Instances : StatusKept(i)) /\ monitor' = monitor
    BY <1>5, <2>3 DEF StopFollower
  <2> QED BY <1>9, <2>1, <2>2, <2>3 DEF JobCall
<1> QED BY <1>8, <1>9

\* Neither does get_client(), nor what Docker, TWS and the followers collection do.
LEMMA OtherStatuses ==
  ASSUME TypeOK, GatewayInv,
         \/ Environment
         \/ \E c \in Callers : CallerStep(c) \/ \E f \in Followers : GetClient(c, f)
  PROVE  (\A i \in Instances : inst'[i].status = inst[i].status) /\ monitor' = monitor
<1>1. ASSUME NEW g \in Instances, inst' = Disconnected(g)
      PROVE  \A i \in Instances : inst'[i].status = inst[i].status
  BY <1>1, DropKeeps DEF Disconnected, TypeOK
<1>2. ASSUME NEW c \in Callers, CallerStep(c) \/ \E f \in Followers : GetClient(c, f)
      PROVE  \A i \in Instances : inst'[i].status = inst[i].status
  <2>1. CASE CallerConnects(c)
    <3>1. caller[c].g \in Instances BY <2>1 DEF CallerConnects, GatewayInv, AwaitInv
    <3>2. inst[caller[c].g] \in InstanceType BY <3>1 DEF TypeOK
    <3>3. PICK k : inst' = [inst EXCEPT ![caller[c].g] = [@ EXCEPT !.to = k, !.up = TRUE]]
      BY <2>1 DEF CallerConnects
    <3> QED BY <3>1, <3>2, <3>3 DEF InstanceType, TypeOK
  <2>2. CASE CallerRetries(c)
    BY <1>1, <2>2 DEF CallerRetries, GatewayInv, AwaitInv
  <2> QED BY <1>2, <2>1, <2>2 DEF CallerStep, CallerFails, GetClient
<1>3. ASSUME Environment PROVE \A i \in Instances : inst'[i].status = inst[i].status
  <2>1. ASSUME NEW g \in Instances, ContainerEnds(g)
        PROVE  \A i \in Instances : inst'[i].status = inst[i].status
    BY <2>1, SeverKeeps DEF ContainerEnds, TypeOK
  <2>2. ASSUME NEW g \in Instances, ConnectionDrops(g)
        PROVE  \A i \in Instances : inst'[i].status = inst[i].status
    BY <1>1, <2>2 DEF ConnectionDrops
  <2>3. ASSUME NEW f \in Followers, EditFollower(f)
        PROVE  \A i \in Instances : inst'[i].status = inst[i].status
    BY <2>3 DEF EditFollower
  <2> QED BY <1>3, <2>1, <2>2, <2>3 DEF Environment
<1>4. monitor' = monitor
  BY DEF Environment, EditFollower, ContainerEnds, ConnectionDrops, CallerStep, CallerConnects,
         CallerFails, CallerRetries, GetClient
<1> QED BY <1>2, <1>3, <1>4

\* What NoRevival says of one step and one instance.
KeepsOut(i) ==
  /\ inst[i].status = "STOPPED" => inst'[i].status = "STOPPED"
  /\ inst[i].status = "FAILED" => inst'[i].status \in {"FAILED", "STOPPED"}

\* The monitor revives no gateway.
LEMMA MonitorStatuses ==
  ASSUME TypeOK, GatewayInv, MonitorInv, MonitorStep
  PROVE  MonitorInv' /\ \A i \in Instances : KeepsOut(i)
<1>1. ASSUME monitor'.pc \in {"idle", "check"} PROVE MonitorInv'
  BY <1>1 DEF MonitorInv
<1>2. \A todo : NextCheck(todo).pc \in {"idle", "check"} BY DEF NextCheck, MonitorAt
<1>3. ASSUME \A i \in Instances : inst'[i].status = inst[i].status
      PROVE  \A i \in Instances : KeepsOut(i)
  BY <1>3 DEF KeepsOut
<1>4. ASSUME NEW i \in Instances, inst' = Disconnected(i)
      PROVE  \A k \in Instances : inst'[k].status = inst[k].status
  BY <1>4, DropKeeps DEF Disconnected, TypeOK
<1> DEFINE Goal == MonitorInv' /\ \A i \in Instances : KeepsOut(i)
<1>5. CASE MonitorCycle
  BY <1>1, <1>3, <1>5 DEF MonitorCycle, MonitorAt
<1>6. CASE MonitorRetries
  <2>1. monitor.g \in Instances BY <1>6 DEF MonitorRetries, GatewayInv, AwaitInv
  <2>2. \A k \in Instances : inst'[k].status = inst[k].status
    BY <1>4, <1>6, <2>1 DEF MonitorRetries
  <2>3. monitor'.pc = "connect" /\ monitor'.g = monitor.g /\ monitor'.why = monitor.why
    BY <1>6 DEF MonitorRetries, MonitorType, TypeOK
  <2>4. MonitorInv' BY <1>6, <2>1, <2>2, <2>3 DEF MonitorInv, MonitorRetries
  <2> QED BY <1>3, <2>2, <2>4
<1>7. CASE MonitorConnects
  <2>1. monitor.g \in Instances BY <1>7 DEF MonitorConnects, GatewayInv, AwaitInv
  <2>2. inst[monitor.g] \in InstanceType BY <2>1 DEF TypeOK
  <2>3. PICK k \in Reached(monitor.g) :
          \/ /\ monitor.why = "startup"
             /\ inst' = [inst EXCEPT ![monitor.g] = [@ EXCEPT !.to = k, !.up = TRUE, !.status = "RUNNING"]]
          \/ inst' = [inst EXCEPT ![monitor.g] = [@ EXCEPT !.to = k, !.up = TRUE, !.failures = 0]]
    BY <1>7 DEF MonitorConnects
  <2>4. k \in alive BY DEF Reached
  <2>5. \A i \in Instances \ {monitor.g} : inst'[i] = inst[i] BY <2>3 DEF TypeOK
  <2>6. \/ /\ monitor.why = "startup"
           /\ inst'[monitor.g].up /\ inst'[monitor.g].to \in alive
        \/ inst'[monitor.g].status = inst[monitor.g].status
    <3>1. CASE /\ monitor.why = "startup"
               /\ inst' = [inst EXCEPT ![monitor.g] = [@ EXCEPT !.to = k, !.up = TRUE, !.status = "RUNNING"]]
      <4>1. inst'[monitor.g] = [inst[monitor.g] EXCEPT !.to = k, !.up = TRUE, !.status = "RUNNING"]
        BY <2>1, <3>1 DEF TypeOK
      <4>2. inst'[monitor.g].up /\ inst'[monitor.g].to = k BY <2>2, <4>1 DEF InstanceType
      <4> QED BY <2>4, <3>1, <4>2
    <3>2. CASE inst' = [inst EXCEPT ![monitor.g] = [@ EXCEPT !.to = k, !.up = TRUE, !.failures = 0]]
      <4>1. inst'[monitor.g] = [inst[monitor.g] EXCEPT !.to = k, !.up = TRUE, !.failures = 0]
        BY <2>1, <3>2 DEF TypeOK
      <4> QED BY <2>2, <4>1 DEF InstanceType
    <3> QED BY <2>3, <3>1, <3>2
  <2>7. monitor.why = "startup" => inst[monitor.g].status = "STARTING"
    BY <1>7 DEF MonitorConnects, MonitorInv
  <2>8. \A i \in Instances : KeepsOut(i)
    BY <2>5, <2>6, <2>7 DEF KeepsOut
  <2> QED BY <1>1, <1>2, <1>7, <2>8 DEF MonitorConnects
<1>8. CASE MonitorConnectFails
  <2>1. monitor.g \in Instances BY <1>8 DEF MonitorConnectFails, GatewayInv, AwaitInv
  <2>2. CASE monitor' = [monitor EXCEPT !.pc = "backoff"] /\ UNCHANGED inst
    <3>1. monitor'.pc = "backoff" /\ monitor'.g = monitor.g /\ monitor'.why = monitor.why
      BY <2>2 DEF MonitorType, TypeOK
    <3>2. MonitorInv' BY <1>8, <2>2, <3>1 DEF MonitorInv, MonitorConnectFails
    <3> QED BY <1>3, <2>2, <3>2
  <2>3. CASE /\ monitor.why \in {"startup", "reconnect"}
             /\ inst' = [inst EXCEPT ![monitor.g].status = "FAILED"]
             /\ monitor' = NextCheck(monitor.todo)
    <3>1. inst[monitor.g].status \in {"STARTING", "RUNNING"}
      BY <1>8, <2>3 DEF MonitorInv, MonitorConnectFails
    <3>2. \A i \in Instances \ {monitor.g} : inst'[i] = inst[i] BY <2>3 DEF TypeOK
    <3>3. inst'[monitor.g].status = "FAILED" BY <2>1, <2>3 DEF TypeOK, InstanceType
    <3>4. \A i \in Instances : KeepsOut(i)
      BY <3>1, <3>2, <3>3 DEF KeepsOut
    <3> QED BY <1>1, <1>2, <2>3, <3>4
  <2>4. CASE UNCHANGED inst /\ monitor' = NextCheck(monitor.todo)
    BY <1>1, <1>2, <1>3, <2>4
  <2> QED BY <1>8, <2>2, <2>3, <2>4 DEF MonitorConnectFails
<1>9. ASSUME NEW i \in Instances, CheckFindsStopped(i) PROVE Goal
  <2>1. \A k \in Instances \ {i} : inst'[k] = inst[k] BY <1>9 DEF CheckFindsStopped, TypeOK
  <2>2. inst'[i].status = "STOPPED" BY <1>9 DEF CheckFindsStopped, TypeOK, InstanceType
  <2>3. \A k \in Instances : KeepsOut(k)
    BY <2>1, <2>2 DEF KeepsOut
  <2> QED BY <1>1, <1>2, <1>9, <2>3 DEF CheckFindsStopped
<1>10. ASSUME NEW i \in Instances, CheckConnects(i) PROVE Goal
  <2>1. \A k \in Instances : inst'[k].status = inst[k].status
    BY <1>4, <1>10 DEF CheckConnects
  <2>2. /\ monitor'.pc = "connect" /\ monitor'.g = i
        /\ \/ monitor'.why = "startup" /\ inst[i].status = "STARTING"
           \/ monitor'.why = "lost"
    BY <1>10 DEF CheckConnects, Connecting
  <2>3. MonitorInv' BY <2>1, <2>2 DEF MonitorInv
  <2> QED BY <1>3, <2>1, <2>3
<1>11. ASSUME NEW i \in Instances, CheckCounts(i) PROVE Goal
  <2>1. \A k \in Instances : inst'[k].status = inst[k].status
    <3>1. inst[i] \in InstanceType /\ inst \in [Instances -> InstanceType] BY DEF TypeOK
    <3>2. \A k \in Instances \ {i} : inst'[k] = inst[k] BY <1>11, <3>1 DEF CheckCounts
    <3>3. \/ inst'[i] = [inst[i] EXCEPT !.failures = 0]
          \/ inst'[i] = [inst[i] EXCEPT !.failures = 1]
          \/ inst'[i] = [inst[i] EXCEPT !.failures = 2, !.to = None]
      BY <1>11, <3>1 DEF CheckCounts
    <3>4. inst'[i].status = inst[i].status BY <3>1, <3>3 DEF InstanceType
    <3> QED BY <3>2, <3>4
  <2>2. \/ monitor'.pc \in {"idle", "check"}
        \/ monitor'.pc = "pause" /\ monitor'.g = i /\ monitor'.why = "reconnect"
    BY <1>2, <1>11 DEF CheckCounts, Connecting
  <2>3. MonitorInv' BY <1>11, <2>1, <2>2 DEF MonitorInv, CheckCounts
  <2> QED BY <1>3, <2>1, <2>3
<1>12. ASSUME NEW i \in Instances, CheckSkips(i) PROVE Goal
  BY <1>1, <1>2, <1>3, <1>12 DEF CheckSkips
<1> QED BY <1>5, <1>6, <1>7, <1>8, <1>9, <1>10, <1>11, <1>12 DEF MonitorStep

\* Every step keeps what the monitor knows, and revives no gateway.
LEMMA StatusStep ==
  ASSUME TypeOK, GatewayInv, MonitorInv, [Next]_vars
  PROVE  MonitorInv' /\ \A i \in Instances : KeepsOut(i)
<1>1. ASSUME \A i \in Instances : StatusKept(i), monitor' = monitor \/ monitor'.pc \in {"idle", "off"}
      PROVE  MonitorInv' /\ \A i \in Instances : KeepsOut(i)
  <2>1. \A i \in Instances : KeepsOut(i)
    BY <1>1 DEF StatusKept, KeepsOut
  <2>2. CASE monitor'.pc \in {"idle", "off"} BY <2>1, <2>2 DEF MonitorInv
  <2>3. CASE monitor' = monitor
    <3>1. monitor.pc \in {"connect", "backoff", "pause"} => monitor.g \in Instances
      BY DEF GatewayInv, AwaitInv
    <3>2. MonitorInv' BY <1>1, <2>3, <3>1 DEF MonitorInv, StatusKept
    <3> QED BY <2>1, <3>2
  <2> QED BY <1>1, <2>1, <2>2, <2>3
<1>2. CASE UNCHANGED vars BY <1>1, <1>2 DEF vars, StatusKept
<1>3. ASSUME NEW j \in Jobs, JobStep(j) \/ JobCall(j)
      PROVE  MonitorInv' /\ \A i \in Instances : KeepsOut(i)
  BY <1>1, <1>3, JobStatuses
<1>4. ASSUME \/ Environment
             \/ \E c \in Callers : CallerStep(c) \/ \E f \in Followers : GetClient(c, f)
      PROVE  MonitorInv' /\ \A i \in Instances : KeepsOut(i)
  BY <1>1, <1>4, OtherStatuses DEF StatusKept
<1>5. CASE MonitorStep BY <1>5, MonitorStatuses
<1> QED BY <1>2, <1>3, <1>4, <1>5 DEF Next

\* The invariant behind the action property.
LEMMA MonitorKnows == Spec => [](TypeOK /\ GatewayInv /\ MonitorInv)
<1>1. Init => MonitorInv BY DEF Init, MonitorInv, MonitorAt
<1>2. MonitorInv /\ TypeOK /\ GatewayInv /\ [Next]_vars => MonitorInv' BY StatusStep
<1> QED BY <1>1, <1>2, GatewayInvariant, PTL DEF Spec

\* No health check, reconnection or late answer puts a STOPPED or FAILED gateway back
\* into service.
THEOREM NeverRevived == Spec => NoRevival
<1> DEFINE A == \A i \in Instances :
                  /\ inst[i].status = "STOPPED" => inst'[i].status = "STOPPED"
                  /\ inst[i].status = "FAILED" => inst'[i].status \in {"FAILED", "STOPPED"}
<1>1. TypeOK /\ GatewayInv /\ MonitorInv /\ [Next]_vars => [A]_vars
  BY StatusStep DEF KeepsOut
<1>2. Spec => [][A]_vars
  <2> HIDE DEF A
  <2> QED BY <1>1, MonitorKnows, PTL DEF Spec
<1> QED BY <1>2 DEF NoRevival

-----------------------------------------------------------------------------
(* One task at a time *)

\* start() ends before anything else is called, calls do not overlap, and there are
\* client ids for all followers.
Serial ==
  /\ ~CallsDuringStart
  /\ \A r, s \in Reloads \cup Stops : r = s
  /\ IsFiniteSet(Followers)
  /\ IsFiniteSet(ClientIds) => Cardinality(Followers) <= Cardinality(ClientIds)

\* One job works at a time; start() has its followers before it, and a start that waits
\* for Vault has no gateway yet.
AloneInv ==
  /\ \A i, j \in Jobs : i # j => job[i].pc = "idle" \/ job[j].pc = "idle"
  /\ job[Boot].pc \in {"idle", "scan", "vault", "store"}
  /\ job[Boot].pc # "idle" => job[Boot].todo \cap Tracked = {}
  /\ \A j \in InFlight : job[j].f \notin Tracked

\* What is marked as used is held; ExclusiveLeases says the converse.
PortHeld(p) ==
  \/ \E f \in Tracked : inst[gateways[f]].port = p
  \/ \E j \in InFlight : job[j].port = p
IdHeld(c) ==
  \/ \E f \in Tracked : inst[gateways[f]].id = c
  \/ \E j \in InFlight : job[j].id = c
HeldInv == (\A p \in usedPorts : PortHeld(p)) /\ (\A c \in usedIds : IdHeld(c))

SerialInv == AloneInv /\ HeldInv

\* All that is used is held, and all that is held is used.
LEMMA HeldIsNothingLeaked ==
  ASSUME HeldInv, ExclusiveLeases
  PROVE  NothingLeaked
<1>1. \A f \in Tracked : inst[gateways[f]].port \in usedPorts /\ inst[gateways[f]].id \in usedIds
  BY DEF ExclusiveLeases
<1>2. \A j \in InFlight : job[j].port \in usedPorts /\ job[j].id \in usedIds
  BY DEF ExclusiveLeases
<1>3. usedPorts = {inst[gateways[f]].port : f \in Tracked} \cup {job[j].port : j \in InFlight}
  BY <1>1, <1>2 DEF HeldInv, PortHeld
<1>4. usedIds = {inst[gateways[f]].id : f \in Tracked} \cup {job[j].id : j \in InFlight}
  BY <1>1, <1>2 DEF HeldInv, IdHeld
<1> QED BY <1>3, <1>4 DEF NothingLeaked

\* A step that concerns neither jobs nor leases nor documents.
LEMMA SerialQuiet ==
  ASSUME TypeOK, SerialInv, UNCHANGED <<gateways, usedPorts, usedIds, job>>,
         \A i \in Instances : inst'[i].port = inst[i].port /\ inst'[i].id = inst[i].id
  PROVE  SerialInv'
<1>1. Tracked' = Tracked /\ InFlight' = InFlight BY DEF Tracked, InFlight
<1>2. \A f \in Tracked : gateways[f] \in Instances BY DEF Tracked, TypeOK
<1>3. AloneInv' BY <1>1 DEF AloneInv, SerialInv
<1>4. HeldInv' BY <1>1, <1>2 DEF HeldInv, SerialInv, PortHeld, IdHeld
<1> QED BY <1>3, <1>4 DEF SerialInv

\* The other tasks are idle and stay so.
Sole(j) == \A k \in Jobs \ {j} : job[k].pc = "idle" /\ job'[k] = job[k]

\* The one job that works leaves itself as AloneInv asks.
LEMMA AloneFrom ==
  ASSUME AloneInv, NEW j \in Jobs, Sole(j),
         job'[j].pc = "vault" => job'[j].f \notin Tracked',
         j = Boot => /\ job'[j].pc \in {"idle", "scan", "vault", "store"}
                     /\ job'[j].pc # "idle" => job'[j].todo \cap Tracked' = {}
  PROVE  AloneInv'
<1>1. \A i, k \in Jobs : i # k => job'[i].pc = "idle" \/ job'[k].pc = "idle" BY DEF Sole
<1>2. Boot \in Jobs BY DEF Jobs
<1>3. j # Boot => job'[Boot].pc = "idle" BY <1>2 DEF Sole
<1>4. \A k \in InFlight' : k = j BY DEF InFlight, Sole
<1>5. \A k \in InFlight' : job'[k].f \notin Tracked' BY <1>4 DEF InFlight
<1> QED BY <1>1, <1>3, <1>5 DEF AloneInv

\* What stays used is still held when no gateway and no start in flight goes.
LEMMA HeldKept ==
  ASSUME TypeOK, HeldInv, NEW j \in Jobs, \A k \in Jobs \ {j} : job'[k] = job[k],
         gateways' = gateways, job[j].pc # "vault",
         \A i \in Instances : inst'[i].port = inst[i].port /\ inst'[i].id = inst[i].id
  PROVE  (\A p \in usedPorts : PortHeld(p)') /\ (\A c \in usedIds : IdHeld(c)')
<1>1. Tracked' = Tracked /\ \A f \in Tracked : gateways[f] \in Instances BY DEF Tracked, TypeOK
<1>2. \A k \in InFlight : k \in InFlight' /\ job'[k] = job[k] BY DEF InFlight
<1> QED BY <1>1, <1>2 DEF HeldInv, PortHeld, IdHeld

-----------------------------------------------------------------------------
\* A step of a task leaves the other tasks alone.
LEMMA OthersKept ==
  ASSUME TypeOK, NEW j \in Jobs, JobStep(j) \/ JobCall(j)
  PROVE  \A k \in Jobs \ {j} : job'[k] = job[k]
<1>1. ASSUME NEW f, NEW p, NEW c, NEW live, NEW ins, RunContainer(j, f, p, c, live, ins)
      PROVE  \A k \in Jobs \ {j} : job'[k] = job[k]
  BY <1>1 DEF RunContainer, TypeOK
<1>2. ASSUME NEW todo, StopNext(j, todo) PROVE \A k \in Jobs \ {j} : job'[k] = job[k]
  BY <1>2 DEF StopNext, TypeOK
<1>3. CASE JobCall(j)
  BY <1>2, <1>3 DEF JobCall, ReloadBegins, Stop, StopFollower, TypeOK
<1>4. ASSUME NEW f \in Followers, StartAtOnce(j, f) PROVE \A k \in Jobs \ {j} : job'[k] = job[k]
  BY <1>1, <1>4 DEF StartAtOnce
<1>5. ASSUME VaultAnswers(j) PROVE \A k \in Jobs \ {j} : job'[k] = job[k]
  BY <1>1, <1>5 DEF VaultAnswers
<1>6. CASE JobStep(j)
  BY <1>2, <1>4, <1>5, <1>6
     DEF JobStep, AlreadyRunning, NoPort, NoClientId, StartWaitsForVault, StartFailsAtOnce,
         VaultRetry, StartGivesUp, StoreMapping, ReloadPrunes, RemoveMapping, StopAll, StartEnds,
         TypeOK
<1> QED BY <1>3, <1>6

\* A task is the only one that works.
LEMMA SoleStep ==
  ASSUME TypeOK, Serial, AloneInv, NEW j \in Jobs, JobStep(j) \/ JobCall(j)
  PROVE  Sole(j)
<1>1. \A k \in Jobs \ {j} : job'[k] = job[k] BY OthersKept
<1>2. CASE JobStep(j)
  <2>1. job[j].pc # "idle"
    BY <1>2 DEF JobStep, AlreadyRunning, NeedsStart, NoPort, NoClientId, StartAtOnce,
                StartWaitsForVault, StartFailsAtOnce, VaultRetry, VaultAnswers, StartGivesUp,
                StoreMapping, ReloadPrunes, RemoveMapping, StopAll, StartEnds
  <2> QED BY <1>1, <2>1 DEF Sole, AloneInv
<1>3. CASE JobCall(j)
  <2>1. j \in Reloads \cup Stops /\ Booted
    BY <1>3 DEF JobCall, ReloadBegins, Stop, StopFollower, Callable, Serial
  <2>2. \A k \in Jobs \ {j} : k = Boot BY <2>1 DEF Jobs, Serial
  <2> QED BY <1>1, <2>1, <2>2 DEF Sole, Booted
<1> QED BY <1>2, <1>3

\* Client ids do not run out: they are held by gateways, and one follower has none.
LEMMA IdsSuffice ==
  ASSUME TypeOK, Serial, SerialInv, NEW j \in Jobs, Sole(j), job[j].pc = "scan",
         NEW f \in Followers, f \notin Tracked
  PROVE  ~(ClientIds \subseteq usedIds)
<1> SUFFICES ASSUME ClientIds \subseteq usedIds PROVE FALSE OBVIOUS
<1> DEFINE IdOf == [g \in Followers |-> inst[gateways[g]].id]
           Others == Followers \ {f}
           Ids == {IdOf[g] : g \in Others}
<1>1. InFlight = {} BY DEF InFlight, Sole
<1>2. \A c \in ClientIds : \E g \in Others : IdOf[g] = c
  <2> SUFFICES ASSUME NEW c \in ClientIds PROVE \E g \in Others : IdOf[g] = c OBVIOUS
  <2>1. IdHeld(c) BY DEF SerialInv, HeldInv
  <2>2. PICK g \in Tracked : inst[gateways[g]].id = c BY <1>1, <2>1 DEF IdHeld
  <2>3. g \in Others /\ IdOf[g] = c BY <2>2 DEF Tracked
  <2> QED BY <2>3
<1>3. ClientIds \subseteq Ids BY <1>2
<1>4. IsFiniteSet(Followers) /\ IsFiniteSet(Others) /\ Cardinality(Others) = Cardinality(Followers) - 1
  BY FS_RemoveElement, FS_Subset DEF Serial
<1>5. IsFiniteSet(Ids) /\ Cardinality(Ids) <= Cardinality(Others)
  <2>1. [g \in Others |-> IdOf[g]] \in Surjection(Others, Ids) BY DEF Surjection
  <2> HIDE DEF IdOf, Others, Ids
  <2> QED BY <1>4, <2>1, FS_Surjection
<1> HIDE DEF Ids, Others
<1>6. IsFiniteSet(ClientIds) /\ Cardinality(ClientIds) <= Cardinality(Ids) BY <1>3, <1>5, FS_Subset
<1>7. Cardinality(Followers) <= Cardinality(ClientIds) BY <1>6 DEF Serial
<1>8. /\ Cardinality(Followers) \in Nat /\ Cardinality(ClientIds) \in Nat
      /\ Cardinality(Ids) \in Nat /\ Cardinality(Others) \in Nat
  BY <1>4, <1>5, <1>6, FS_CardinalityType
<1> QED BY <1>4, <1>5, <1>6, <1>7, <1>8

\* docker run: the job held a port and an id, or took them, for a follower without a gateway.
LEMMA SerialRun ==
  ASSUME TypeOK, TypeOK', SerialInv, NEW j \in Jobs, Sole(j),
         NEW f \in Followers, NEW p \in Ports, NEW c \in ClientIds,
         NEW live \in SUBSET Instances, NEW ins \in [Instances -> InstanceType],
         RunContainer(j, f, p, c, live, ins),
         \A i \in Instances : /\ ins[i].status = inst[i].status
                              /\ ins[i].port = inst[i].port /\ ins[i].id = inst[i].id,
         ContainerInv, f \notin Tracked,
         job[j].pc \in {"scan", "vault"},
         job[j].pc = "vault" => p = job[j].port /\ c = job[j].id,
         usedPorts' \subseteq usedPorts \cup {p}, usedIds' \subseteq usedIds \cup {c}
  PROVE  SerialInv'
<1>1. PICK n \in Instances :
        /\ ins[n].status = "unused"
        /\ inst' = [ins EXCEPT ![n] = NewInstance(f, p, c, "STARTING")]
        /\ gateways' = [gateways EXCEPT ![f] = n]
        /\ job' = [job EXCEPT ![j] = JobAt("store", job[j].todo \ {f}, job[j].active \cup {f}, f, n)]
  BY DEF RunContainer
<1>2. /\ job'[j].pc = "store" /\ job'[j].f = f /\ job'[j].g = n
      /\ job'[j].todo = job[j].todo \ {f}
  BY <1>1 DEF TypeOK, JobAt
<1>3. gateways'[f] = n /\ \A g \in Followers \ {f} : gateways'[g] = gateways[g] BY <1>1 DEF TypeOK
<1>4. Tracked' = Tracked \cup {f} BY <1>3, NoneIsNoInstance DEF Tracked
<1>5. AloneInv'
  <2>1. j = Boot => job'[j].todo \cap Tracked' = {}
    BY <1>2, <1>4 DEF SerialInv, AloneInv
  <2> QED BY <1>2, <2>1, AloneFrom DEF SerialInv
<1>6. /\ inst'[n].port = p /\ inst'[n].id = c
      /\ \A g \in Tracked : inst'[gateways'[g]].port = inst[gateways[g]].port
                            /\ inst'[gateways'[g]].id = inst[gateways[g]].id
  <2>1. inst'[n] = NewInstance(f, p, c, "STARTING") BY <1>1
  <2>2. \A g \in Tracked : gateways[g] \in Instances /\ gateways[g] # n /\ gateways'[g] = gateways[g]
    BY <1>1, <1>3 DEF Tracked, TypeOK, ContainerInv
  <2>3. \A i \in Instances \ {n} : inst'[i] = ins[i] BY <1>1
  <2> QED BY <2>1, <2>2, <2>3 DEF NewInstance
<1>7. \A k \in InFlight : k = j BY DEF InFlight, Sole
<1>8. \A q \in usedPorts' : PortHeld(q)'
  <2> SUFFICES ASSUME NEW q \in usedPorts' PROVE \E g \in Tracked' : inst'[gateways'[g]].port = q
    BY DEF PortHeld
  <2>1. CASE q = p BY <1>3, <1>4, <1>6, <2>1
  <2>2. CASE q # p
    <3>1. PortHeld(q) BY <2>2 DEF SerialInv, HeldInv
    <3>2. \E g \in Tracked : inst[gateways[g]].port = q BY <1>7, <2>2, <3>1 DEF PortHeld, InFlight
    <3> QED BY <1>4, <1>6, <3>2
  <2> QED BY <2>1, <2>2
<1>9. \A d \in usedIds' : IdHeld(d)'
  <2> SUFFICES ASSUME NEW d \in usedIds' PROVE \E g \in Tracked' : inst'[gateways'[g]].id = d
    BY DEF IdHeld
  <2>1. CASE d = c BY <1>3, <1>4, <1>6, <2>1
  <2>2. CASE d # c
    <3>1. IdHeld(d) BY <2>2 DEF SerialInv, HeldInv
    <3>2. \E g \in Tracked : inst[gateways[g]].id = d BY <1>7, <2>2, <3>1 DEF IdHeld, InFlight
    <3> QED BY <1>4, <1>6, <3>2
  <2> QED BY <2>1, <2>2
<1> QED BY <1>5, <1>8, <1>9 DEF SerialInv, HeldInv

\* A follower done with, or passed over.
LEMMA SerialScanned ==
  ASSUME TypeOK, SerialInv, NEW j \in Jobs, Sole(j), NEW f \in Followers,
         job' = [job EXCEPT ![j] = Scanned(j, f)], job[j].pc \in {"scan", "vault"},
         UNCHANGED gateways,
         \A i \in Instances : inst'[i].port = inst[i].port /\ inst'[i].id = inst[i].id,
         IF job[j].pc = "vault"
         THEN usedPorts' = usedPorts \ {job[j].port} /\ usedIds' = usedIds \ {job[j].id}
         ELSE UNCHANGED <<usedPorts, usedIds>>
  PROVE  SerialInv'
<1>1. job'[j].pc = "scan" /\ job'[j].todo \subseteq job[j].todo BY DEF Scanned, JobAt, TypeOK
<1>2. Tracked' = Tracked /\ \A g \in Tracked : gateways[g] \in Instances BY DEF Tracked, TypeOK
<1>3. AloneInv'
  <2>1. j = Boot => job'[j].todo \cap Tracked' = {} BY <1>1, <1>2 DEF SerialInv, AloneInv
  <2> QED BY <1>1, <2>1, AloneFrom DEF SerialInv
<1>4. \A k \in InFlight : k = j /\ job[j].pc = "vault" BY DEF InFlight, Sole
<1>5. HeldInv' BY <1>2, <1>4 DEF SerialInv, HeldInv, PortHeld, IdHeld
<1> QED BY <1>3, <1>5 DEF SerialInv

\* A start keeps a port and an id while it waits for Vault.
LEMMA SerialWaits ==
  ASSUME TypeOK, SerialInv, NEW j \in Jobs, Sole(j), NEW f \in Followers,
         StartWaitsForVault(j, f)
  PROVE  SerialInv'
<1>1. PICK p \in Ports, c \in ClientIds :
        /\ usedPorts' = usedPorts \cup {p} /\ usedIds' = usedIds \cup {c}
        /\ job' = [job EXCEPT ![j] = [@ EXCEPT !.pc = "vault", !.f = f, !.port = p, !.id = c, !.tries = 1]]
  BY DEF StartWaitsForVault
<1>2. /\ job'[j].pc = "vault" /\ job'[j].f = f /\ job'[j].port = p /\ job'[j].id = c
      /\ job'[j].todo = job[j].todo
  <2>1. job[j] \in JobType BY DEF TypeOK
  <2>2. job'[j] = [job[j] EXCEPT !.pc = "vault", !.f = f, !.port = p, !.id = c, !.tries = 1]
    BY <1>1 DEF TypeOK
  <2> QED BY <2>1, <2>2 DEF JobType
<1>3. job[j].pc = "scan" /\ f \notin Tracked
  BY DEF StartWaitsForVault, NeedsStart, SerialInv, AloneInv
<1>4. /\ Tracked' = Tracked /\ \A g \in Tracked : gateways[g] \in Instances
      /\ UNCHANGED gateways
  BY DEF Tracked, TypeOK, StartWaitsForVault
<1>5. \A i \in Instances : inst'[i].port = inst[i].port /\ inst'[i].id = inst[i].id
  BY SeverKeeps DEF StartWaitsForVault, TypeOK
<1>6. AloneInv'
  <2>1. j = Boot => job'[j].todo \cap Tracked' = {} BY <1>2, <1>3, <1>4 DEF SerialInv, AloneInv
  <2> QED BY <1>2, <1>3, <1>4, <2>1, AloneFrom DEF SerialInv
<1>7. j \in InFlight' BY <1>2 DEF InFlight
<1>8. (\A q \in usedPorts : PortHeld(q)') /\ (\A d \in usedIds : IdHeld(d)')
  BY <1>3, <1>4, <1>5, HeldKept DEF SerialInv, Sole
<1>9. PortHeld(p)' /\ IdHeld(c)' BY <1>2, <1>7 DEF PortHeld, IdHeld
<1>10. HeldInv' BY <1>1, <1>8, <1>9 DEF HeldInv
<1> QED BY <1>6, <1>10 DEF SerialInv

\* _stop_gateway, with the document of the follower stopped before removed.
LEMMA SerialStop ==
  ASSUME TypeOK, SerialInv, NEW j \in Jobs \ {Boot}, Sole(j), NEW todo \in SUBSET Followers,
         StopNext(j, todo), job[j].pc # "vault"
  PROVE  SerialInv'
<1>1. CASE /\ job' = [job EXCEPT ![j] = Idle]
           /\ UNCHANGED <<gateways, usedPorts, usedIds, inst, box, alive>>
  <2>1. job'[j].pc = "idle" BY <1>1 DEF TypeOK, Idle, JobAt
  <2>2. AloneInv' BY <2>1, AloneFrom DEF SerialInv
  <2>3. HeldInv' BY <1>1, HeldKept DEF SerialInv, HeldInv, Sole
  <2> QED BY <2>2, <2>3 DEF SerialInv
<1>2. ASSUME NEW f \in todo \cap Tracked, StopGateway(f),
             job' = [job EXCEPT ![j] = JobAt("unmap", todo \ {f}, {}, f, None)]
      PROVE  SerialInv'
  <2>1. job'[j].pc = "unmap" /\ job'[j].f = f BY <1>2 DEF TypeOK, JobAt
  <2>2. gateways' = [gateways EXCEPT ![f] = None] BY <1>2 DEF StopGateway
  <2>3. /\ gateways'[f] = None /\ \A g \in Followers \ {f} : gateways'[g] = gateways[g]
        /\ Tracked' = Tracked \ {f}
        /\ \A g \in Tracked : gateways[g] \in Instances
    BY <2>2 DEF Tracked, TypeOK
  <2>4. \A i \in Instances : inst'[i].port = inst[i].port /\ inst'[i].id = inst[i].id
    <3>1. inst' = [Sever(alive \ alive') EXCEPT ![gateways[f]].up = FALSE]
      BY <1>2 DEF StopGateway
    <3> QED BY <2>3, <3>1, SeverDropKeeps DEF Same, TypeOK
  <2>5. AloneInv' BY <2>1, AloneFrom DEF SerialInv
  <2>6. InFlight = {} BY DEF InFlight, Sole
  <2>7. usedPorts' = usedPorts \ {inst[gateways[f]].port} /\ usedIds' = usedIds \ {inst[gateways[f]].id}
    BY <1>2 DEF StopGateway
  <2>8. \A q \in usedPorts' : PortHeld(q)'
    <3> SUFFICES ASSUME NEW q \in usedPorts'
                 PROVE  \E g \in Tracked' : inst'[gateways'[g]].port = q
      BY DEF PortHeld
    <3>1. PortHeld(q) /\ q # inst[gateways[f]].port BY <2>7 DEF SerialInv, HeldInv
    <3>2. PICK g \in Tracked : inst[gateways[g]].port = q BY <2>6, <3>1 DEF PortHeld
    <3>3. g # f BY <3>1, <3>2
    <3>4. g \in Tracked' /\ gateways'[g] = gateways[g] BY <2>3, <3>3 DEF Tracked
    <3> QED BY <2>3, <2>4, <3>2, <3>4
  <2>9. \A d \in usedIds' : IdHeld(d)'
    <3> SUFFICES ASSUME NEW d \in usedIds'
                 PROVE  \E g \in Tracked' : inst'[gateways'[g]].id = d
      BY DEF IdHeld
    <3>1. IdHeld(d) /\ d # inst[gateways[f]].id BY <2>7 DEF SerialInv, HeldInv
    <3>2. PICK g \in Tracked : inst[gateways[g]].id = d BY <2>6, <3>1 DEF IdHeld
    <3>3. g # f BY <3>1, <3>2
    <3>4. g \in Tracked' /\ gateways'[g] = gateways[g] BY <2>3, <3>3 DEF Tracked
    <3> QED BY <2>3, <2>4, <3>2, <3>4
  <2> QED BY <2>5, <2>8, <2>9 DEF SerialInv, HeldInv
<1> QED BY <1>1, <1>2 DEF StopNext

\* get_client() and the monitor change no port and no client id.
LEMMA CallerLeases ==
  ASSUME TypeOK, GatewayInv, NEW c \in Callers,
         CallerStep(c) \/ \E f \in Followers : GetClient(c, f)
  PROVE  \A i \in Instances : inst'[i].port = inst[i].port /\ inst'[i].id = inst[i].id
<1>1. CASE CallerConnects(c)
  <2>1. caller[c].g \in Instances BY <1>1 DEF CallerConnects, GatewayInv, AwaitInv
  <2>2. inst[caller[c].g] \in InstanceType BY <2>1 DEF TypeOK
  <2>3. PICK k : inst' = [inst EXCEPT ![caller[c].g] = [@ EXCEPT !.to = k, !.up = TRUE]]
    BY <1>1 DEF CallerConnects
  <2> QED BY <2>1, <2>2, <2>3 DEF InstanceType, TypeOK
<1>2. CASE CallerRetries(c)
  <2>1. caller[c].g \in Instances BY <1>2 DEF CallerRetries, GatewayInv, AwaitInv
  <2> QED BY <1>2, <2>1, DropKeeps DEF CallerRetries, Disconnected, TypeOK
<1>3. CASE CallerFails(c) \/ \E f \in Followers : GetClient(c, f)
  BY <1>3 DEF CallerFails, GetClient
<1> QED BY <1>1, <1>2, <1>3 DEF CallerStep

\* Neither does the monitor.
LEMMA MonitorLeases ==
  ASSUME TypeOK, GatewayInv, MonitorStep
  PROVE  \A i \in Instances : inst'[i].port = inst[i].port /\ inst'[i].id = inst[i].id
<1> DEFINE Goal == \A i \in Instances : inst'[i].port = inst[i].port /\ inst'[i].id = inst[i].id
<1>0. inst \in [Instances -> InstanceType] BY DEF TypeOK
<1>1. ASSUME NEW g \in Instances, NEW r,
             inst' = [inst EXCEPT ![g] = r], r.port = inst[g].port, r.id = inst[g].id
      PROVE  Goal
  <2>1. inst'[g] = r /\ \A i \in Instances \ {g} : inst'[i] = inst[i] BY <1>0, <1>1
  <2> QED BY <1>1, <2>1
<1>2. ASSUME NEW g \in Instances, inst' = Disconnected(g) PROVE Goal
  BY <1>0, <1>2, DropKeeps DEF Disconnected
<1>3. ASSUME NEW g \in Instances, NEW st, inst' = [inst EXCEPT ![g].status = st] PROVE Goal
  <2>1. inst[g] \in InstanceType BY <1>0
  <2>2. inst' = [inst EXCEPT ![g] = [inst[g] EXCEPT !.status = st]] BY <1>3
  <2> QED BY <1>1, <2>1, <2>2 DEF InstanceType
<1>4. CASE MonitorRetries
  <2>1. monitor.g \in Instances BY <1>4 DEF MonitorRetries, GatewayInv, AwaitInv
  <2> QED BY <1>2, <1>4, <2>1 DEF MonitorRetries
<1>5. CASE MonitorConnects
  <2>1. monitor.g \in Instances BY <1>5 DEF MonitorConnects, GatewayInv, AwaitInv
  <2>2. inst[monitor.g] \in InstanceType BY <1>0, <2>1
  <2>3. PICK k :
          \/ inst' = [inst EXCEPT ![monitor.g] =
                        [inst[monitor.g] EXCEPT !.to = k, !.up = TRUE, !.status = "RUNNING"]]
          \/ inst' = [inst EXCEPT ![monitor.g] =
                        [inst[monitor.g] EXCEPT !.to = k, !.up = TRUE, !.failures = 0]]
    BY <1>5 DEF MonitorConnects
  <2>4. CASE inst' = [inst EXCEPT ![monitor.g] =
                        [inst[monitor.g] EXCEPT !.to = k, !.up = TRUE, !.status = "RUNNING"]]
    BY <1>1, <2>1, <2>2, <2>4 DEF InstanceType
  <2>5. CASE inst' = [inst EXCEPT ![monitor.g] =
                        [inst[monitor.g] EXCEPT !.to = k, !.up = TRUE, !.failures = 0]]
    BY <1>1, <2>1, <2>2, <2>5 DEF InstanceType
  <2> QED BY <2>3, <2>4, <2>5
<1>6. CASE MonitorConnectFails
  <2>1. monitor.g \in Instances BY <1>6 DEF MonitorConnectFails, GatewayInv, AwaitInv
  <2> QED BY <1>3, <1>6, <2>1 DEF MonitorConnectFails
<1>7. ASSUME NEW i \in Instances, CheckFindsStopped(i) PROVE Goal
  BY <1>3, <1>7 DEF CheckFindsStopped
<1>8. ASSUME NEW i \in Instances, CheckConnects(i) PROVE Goal
  BY <1>2, <1>8 DEF CheckConnects
<1>9. ASSUME NEW i \in Instances, CheckCounts(i) PROVE Goal
  <2>1. inst[i] \in InstanceType BY <1>0
  <2>2. \/ \E n \in 0..1 : inst' = [inst EXCEPT ![i] = [inst[i] EXCEPT !.failures = n]]
        \/ inst' = [inst EXCEPT ![i] = [inst[i] EXCEPT !.failures = 2, !.to = None]]
    BY <1>9 DEF CheckCounts
  <2>3. ASSUME NEW n \in 0..1, inst' = [inst EXCEPT ![i] = [inst[i] EXCEPT !.failures = n]] PROVE Goal
    BY <1>1, <2>1, <2>3 DEF InstanceType
  <2>4. CASE inst' = [inst EXCEPT ![i] = [inst[i] EXCEPT !.failures = 2, !.to = None]]
    BY <1>1, <2>1, <2>4 DEF InstanceType
  <2> QED BY <2>2, <2>3, <2>4
<1>10. CASE MonitorCycle \/ \E i \in Instances : CheckSkips(i)
  BY <1>10 DEF MonitorCycle, CheckSkips
<1> QED BY <1>4, <1>5, <1>6, <1>7, <1>8, <1>9, <1>10 DEF MonitorStep

\* Every step of a start, a reload or a stop.
LEMMA SerialJobStep ==
  ASSUME TypeOK, TypeOK', GatewayInv, Serial, SerialInv, NEW j \in Jobs, Sole(j), JobStep(j)
  PROVE  SerialInv'
<1>0. AloneInv /\ ContainerInv BY DEF SerialInv, GatewayInv
<1>1. ASSUME NEW f \in Followers, NeedsStart(j, f) PROVE job[j].pc = "scan" /\ f \notin Tracked
  BY <1>0, <1>1 DEF NeedsStart, AloneInv
<1>2. ASSUME NEW ks
      PROVE  /\ Sever(ks) \in [Instances -> InstanceType]
             /\ \A i \in Instances : /\ Sever(ks)[i].status = inst[i].status
                                     /\ Sever(ks)[i].port = inst[i].port
                                     /\ Sever(ks)[i].id = inst[i].id
  BY SeverKeeps DEF TypeOK
<1>3. ASSUME NEW f \in Followers, AlreadyRunning(j, f) PROVE SerialInv'
  BY <1>3, SerialScanned DEF AlreadyRunning
<1>4. ASSUME NEW f \in Followers, NoPort(j, f) PROVE SerialInv'
  BY <1>1, <1>4, SerialScanned DEF NoPort
<1>5. ASSUME NEW f \in Followers, NoClientId(j, f) PROVE SerialInv'
  BY <1>1, <1>5, IdsSuffice DEF NoClientId
<1>6. ASSUME NEW f \in Followers, StartAtOnce(j, f) PROVE SerialInv'
  <2> DEFINE ins == Sever({box[f]} \ {None})
  <2>1. PICK p \in Ports, c \in ClientIds :
          /\ RunContainer(j, f, p, c, alive \ {box[f]}, ins)
          /\ usedPorts' = usedPorts \cup {p} /\ usedIds' = usedIds \cup {c}
    BY <1>6 DEF StartAtOnce
  <2>2. alive \ {box[f]} \in SUBSET Instances BY DEF TypeOK
  <2>3. job[j].pc = "scan" /\ f \notin Tracked BY <1>1, <1>6 DEF StartAtOnce
  <2>4. /\ ins \in [Instances -> InstanceType]
        /\ \A i \in Instances : /\ ins[i].status = inst[i].status
                                /\ ins[i].port = inst[i].port /\ ins[i].id = inst[i].id
    BY <1>2
  <2> HIDE DEF ins
  <2> QED BY <1>0, <2>1, <2>2, <2>3, <2>4, SerialRun
<1>7. ASSUME NEW f \in Followers, StartWaitsForVault(j, f) PROVE SerialInv'
  BY <1>7, SerialWaits
<1>8. ASSUME NEW f \in Followers, StartFailsAtOnce(j, f) PROVE SerialInv'
  <2>1. \A i \in Instances : inst'[i].port = inst[i].port /\ inst'[i].id = inst[i].id
    BY <1>2, <1>8 DEF StartFailsAtOnce
  <2> QED BY <1>1, <1>8, <2>1, SerialScanned DEF StartFailsAtOnce
<1>9. CASE VaultRetry(j)
  <2>1. /\ job'[j].pc = "vault" /\ job[j].pc = "vault"
        /\ job'[j].f = job[j].f /\ job'[j].todo = job[j].todo
        /\ job'[j].port = job[j].port /\ job'[j].id = job[j].id
    BY <1>9 DEF VaultRetry, TypeOK, JobType
  <2>2. UNCHANGED <<gateways, usedPorts, usedIds, inst>> BY <1>9 DEF VaultRetry
  <2>3. Tracked' = Tracked /\ InFlight' = InFlight
    BY <2>1, <2>2 DEF Tracked, InFlight, Sole
  <2>4. \A k \in InFlight : k = j BY DEF InFlight, Sole
  <2>5. AloneInv'
    <3>1. j \in InFlight BY <2>1 DEF InFlight
    <3>2. job'[j].f \notin Tracked' BY <1>0, <2>1, <2>3, <3>1 DEF AloneInv
    <3>3. j = Boot => job'[j].todo \cap Tracked' = {} BY <1>0, <2>1, <2>3 DEF AloneInv
    <3> QED BY <1>0, <2>1, <3>2, <3>3, AloneFrom
  <2>6. HeldInv' BY <2>1, <2>2, <2>3, <2>4 DEF SerialInv, HeldInv, PortHeld, IdHeld
  <2> QED BY <2>5, <2>6 DEF SerialInv
<1>10. CASE VaultAnswers(j)
  <2>1. job[j].pc = "vault" /\ RunContainer(j, job[j].f, job[j].port, job[j].id, alive, inst)
    BY <1>10 DEF VaultAnswers
  <2>2. job[j].f \in Followers /\ job[j].port \in Ports /\ job[j].id \in ClientIds
    BY <2>1 DEF GatewayInv, AwaitInv
  <2>3. job[j].f \notin Tracked BY <1>0, <2>1 DEF AloneInv, InFlight
  <2>4. UNCHANGED <<usedPorts, usedIds>> BY <1>10 DEF VaultAnswers
  <2>5. inst \in [Instances -> InstanceType] /\ alive \in SUBSET Instances BY DEF TypeOK
  <2> QED BY <1>0, <2>1, <2>2, <2>3, <2>4, <2>5, SerialRun
<1>11. CASE StartGivesUp(j)
  <2>1. job[j].f \in Followers BY <1>11 DEF StartGivesUp, GatewayInv, AwaitInv
  <2> QED BY <1>11, <2>1, SerialScanned DEF StartGivesUp
<1>12. CASE StoreMapping(j)
  <2>1. /\ job[j].pc = "store" /\ job'[j].pc = "scan" /\ job'[j].todo = job[j].todo
    BY <1>12 DEF StoreMapping, TypeOK, JobType
  <2>2. UNCHANGED <<gateways, usedPorts, usedIds, inst>> BY <1>12 DEF StoreMapping
  <2>3. AloneInv'
    <3>1. Tracked' = Tracked BY <2>2 DEF Tracked
    <3>2. j = Boot => job'[j].todo \cap Tracked' = {} BY <1>0, <2>1, <3>1 DEF AloneInv
    <3> QED BY <1>0, <2>1, <3>2, AloneFrom
  <2>4. HeldInv' BY <2>1, <2>2, HeldKept DEF SerialInv, HeldInv, Sole
  <2> QED BY <2>3, <2>4 DEF SerialInv
<1>13. CASE ReloadPrunes(j)
  <2>1. j # Boot /\ job[j].pc = "scan" /\ StopNext(j, Tracked \ job[j].active)
    BY <1>13 DEF ReloadPrunes
  <2>3. Tracked \ job[j].active \in SUBSET Followers BY DEF Tracked
  <2> QED BY <2>1, <2>3, SerialStop
<1>14. CASE RemoveMapping(j)
  <2>1. job[j].pc = "unmap" /\ StopNext(j, job[j].todo) BY <1>14 DEF RemoveMapping
  <2>2. j # Boot BY <1>0, <2>1 DEF AloneInv
  <2>4. job[j].todo \in SUBSET Followers BY DEF TypeOK, JobType
  <2> QED BY <2>1, <2>2, <2>4, SerialStop
<1>15. CASE StopAll(j)
  <2>1. job[j].pc = "halt" /\ StopNext(j, Tracked) BY <1>15 DEF StopAll
  <2>2. j # Boot BY <1>0, <2>1 DEF AloneInv
  <2>4. Tracked \in SUBSET Followers BY DEF Tracked
  <2> QED BY <2>1, <2>2, <2>4, SerialStop
<1>16. CASE j = Boot /\ StartEnds
  <2>1. job[j].pc = "scan" /\ job'[j].pc = "idle"
    BY <1>16 DEF StartEnds, TypeOK, Idle, JobAt
  <2>2. UNCHANGED <<gateways, usedPorts, usedIds, inst>> BY <1>16 DEF StartEnds
  <2>3. AloneInv' BY <1>0, <2>1, AloneFrom
  <2>4. HeldInv' BY <2>1, <2>2, HeldKept DEF SerialInv, HeldInv, Sole
  <2> QED BY <2>3, <2>4 DEF SerialInv
<1> QED BY <1>3, <1>4, <1>5, <1>6, <1>7, <1>8, <1>9, <1>10, <1>11, <1>12, <1>13, <1>14, <1>15,
           <1>16 DEF JobStep

\* Every call that begins one.
LEMMA SerialJobCall ==
  ASSUME TypeOK, GatewayInv, Serial, SerialInv, NEW j \in Jobs, Sole(j), JobCall(j)
  PROVE  SerialInv'
<1>0. AloneInv BY DEF SerialInv
<1>1. j # Boot /\ job[j].pc = "idle"
  <2>1. j \in Reloads \cup Stops /\ job[j] = Idle BY DEF JobCall, ReloadBegins, Stop, StopFollower
  <2> QED BY <2>1 DEF Idle, JobAt
<1>3. ASSUME UNCHANGED <<gateways, usedPorts, usedIds, inst>>,
             job'[j].pc \in {"scan", "halt"}
      PROVE  SerialInv'
  <2>1. AloneInv' BY <1>0, <1>1, <1>3, AloneFrom
  <2>2. HeldInv' BY <1>1, <1>3, HeldKept DEF SerialInv, HeldInv, Sole
  <2> QED BY <2>1, <2>2 DEF SerialInv
<1>4. CASE ReloadBegins(j)
  <2>1. job'[j].pc = "scan" BY <1>4 DEF ReloadBegins, TypeOK, JobAt
  <2> QED BY <1>3, <1>4, <2>1 DEF ReloadBegins
<1>5. CASE Stop(j)
  <2>1. job'[j].pc = "halt" BY <1>5 DEF Stop, TypeOK, JobType
  <2> QED BY <1>3, <1>5, <2>1 DEF Stop
<1>6. ASSUME NEW f \in Followers, StopFollower(j, f) PROVE SerialInv'
  <2>1. StopNext(j, {f}) BY <1>6 DEF StopFollower
  <2>3. {f} \in SUBSET Followers OBVIOUS
  <2> QED BY <1>1, <2>1, <2>3, SerialStop
<1> QED BY <1>4, <1>5, <1>6 DEF JobCall

\* Every step keeps the serial invariant.
LEMMA SerialStep ==
  ASSUME TypeOK, GatewayInv, Serial, SerialInv, [Next]_vars
  PROVE  SerialInv'
<1>1. TypeOK' BY TypeStep
<1>2. CASE UNCHANGED vars BY <1>2, SerialQuiet DEF vars
<1>3. ASSUME NEW j \in Jobs, JobStep(j) \/ JobCall(j) PROVE SerialInv'
  <2>1. Sole(j) BY <1>3, SoleStep DEF SerialInv
  <2> QED BY <1>1, <1>3, <2>1, SerialJobStep, SerialJobCall
<1>4. ASSUME NEW c \in Callers, CallerStep(c) \/ \E f \in Followers : GetClient(c, f)
      PROVE  SerialInv'
  <2>1. UNCHANGED <<gateways, usedPorts, usedIds, job>>
    BY <1>4 DEF CallerStep, CallerConnects, CallerFails, CallerRetries, GetClient
  <2>2. \A i \in Instances : inst'[i].port = inst[i].port /\ inst'[i].id = inst[i].id
    BY <1>4, CallerLeases
  <2> QED BY <2>1, <2>2, SerialQuiet
<1>5. CASE MonitorStep
  <2>1. UNCHANGED <<gateways, usedPorts, usedIds, job>>
    BY <1>5 DEF MonitorStep, MonitorCycle, MonitorRetries, MonitorConnects, MonitorConnectFails,
                CheckFindsStopped, CheckConnects, CheckCounts, CheckSkips
  <2> QED BY <1>5, <2>1, MonitorLeases, SerialQuiet
<1>6. CASE Environment
  <2>1. UNCHANGED <<gateways, usedPorts, usedIds, job>>
    BY <1>6 DEF Environment, EditFollower, ContainerEnds, ConnectionDrops
  <2>2. \A i \in Instances : inst'[i].port = inst[i].port /\ inst'[i].id = inst[i].id
    <3>1. ASSUME NEW g \in Instances, ContainerEnds(g)
          PROVE  \A i \in Instances : inst'[i].port = inst[i].port /\ inst'[i].id = inst[i].id
      BY <3>1, SeverKeeps DEF ContainerEnds, TypeOK
    <3>2. ASSUME NEW g \in Instances, ConnectionDrops(g)
          PROVE  \A i \in Instances : inst'[i].port = inst[i].port /\ inst'[i].id = inst[i].id
      BY <3>2, DropKeeps DEF ConnectionDrops, Disconnected, TypeOK
    <3>3. ASSUME NEW f \in Followers, EditFollower(f) PROVE inst' = inst
      BY <3>3 DEF EditFollower
    <3> QED BY <1>6, <3>1, <3>2, <3>3 DEF Environment
  <2> QED BY <2>1, <2>2, SerialQuiet
<1> QED BY <1>2, <1>3, <1>4, <1>5, <1>6 DEF Next

\* The manager starts alone and holds nothing.
LEMMA SerialInit == Init => SerialInv
<1> SUFFICES ASSUME Init PROVE SerialInv OBVIOUS
<1>1. Tracked = {} BY DEF Init, Tracked
<1>2. /\ job[Boot].pc = "scan"
      /\ \A j \in Jobs \ {Boot} : job[j].pc = "idle"
  BY DEF Init, Idle, JobAt, Jobs
<1>3. InFlight = {} BY <1>2 DEF InFlight
<1>4. AloneInv BY <1>1, <1>2, <1>3 DEF AloneInv
<1>5. HeldInv BY DEF Init, HeldInv
<1> QED BY <1>4, <1>5 DEF SerialInv

\* With one task at a time the serial invariant always holds.
THEOREM SerialInvariant == ASSUME Serial PROVE Spec => [](TypeOK /\ GatewayInv /\ SerialInv)
<1>1. SerialInv /\ TypeOK /\ GatewayInv /\ [Next]_vars => SerialInv' BY SerialStep
<1> QED BY <1>1, SerialInit, GatewayInvariant, PTL DEF Spec

\* With one task at a time no failed start and no stop loses a port or a client id.
THEOREM NothingIsLeaked == ASSUME Serial PROVE Spec => []NothingLeaked
<1>1. TypeOK /\ GatewayInv /\ SerialInv => NothingLeaked
  BY HeldIsNothingLeaked DEF GatewayInv, SerialInv
<1> QED BY <1>1, SerialInvariant, PTL

-----------------------------------------------------------------------------
(* Documents beside tasks that overlap *)

\* Whether a task has a write to the follower's document under way, and which.
Writes(j, f) == job[j].pc \in {"store", "unmap"} /\ job[j].f = f
Written(j) == IF job[j].pc = "store" THEN job[j].g ELSE None

\* What a task's step does to a follower's gateway and document: a gateway changes only
\* as its write begins, what is written is what the gateway became, and only the write
\* that ends changes the document.
DocumentStep(j, f) ==
  /\ gateways'[f] # gateways[f] => Writes(j, f)'
  /\ Writes(j, f)' => Written(j)' = gateways'[f]
  /\ mapping'[f] = IF Writes(j, f) THEN Written(j) ELSE mapping[f]

\* A follower's one write under way will tell the truth, and with none the document does.
DocumentTrue(f) ==
  /\ ~Contested(f)
  /\ \A j \in Writers(f) : Written(j) = gateways[f]
  /\ Writers(f) = {} => mapping[f] = gateways[f]

DocumentInv == \A f \in Followers \ disputed : DocumentTrue(f)

\* docker run tracks the gateway and leaves its document to be stored.
LEMMA DocumentRun ==
  ASSUME TypeOK, NEW j \in Jobs, NEW f \in Followers, NEW p, NEW c, NEW live, NEW ins,
         RunContainer(j, f, p, c, live, ins), job[j].pc \in {"scan", "vault"},
         mapping' = mapping, NEW h \in Followers
  PROVE  DocumentStep(j, h)
<1>1. PICK n \in Instances :
        /\ gateways' = [gateways EXCEPT ![f] = n]
        /\ job' = [job EXCEPT ![j] = JobAt("store", job[j].todo \ {f}, job[j].active \cup {f}, f, n)]
  BY DEF RunContainer
<1>2. job'[j].pc = "store" /\ job'[j].f = f /\ job'[j].g = n BY <1>1 DEF TypeOK, JobAt
<1>3. gateways'[f] = n /\ (h # f => gateways'[h] = gateways[h]) BY <1>1 DEF TypeOK
<1> QED BY <1>2, <1>3 DEF DocumentStep, Writes, Written

\* _stop_gateway forgets the gateway and leaves its document to be removed.
LEMMA DocumentStop ==
  ASSUME TypeOK, NEW j \in Jobs, NEW todo, StopNext(j, todo), NEW h \in Followers,
         mapping'[h] = IF Writes(j, h) THEN Written(j) ELSE mapping[h]
  PROVE  DocumentStep(j, h)
<1>1. CASE gateways' = gateways /\ job' = [job EXCEPT ![j] = Idle]
  <2>1. job'[j].pc = "idle" BY <1>1 DEF TypeOK, Idle, JobAt
  <2> QED BY <1>1, <2>1 DEF DocumentStep, Writes
<1>2. ASSUME NEW f \in todo \cap Tracked, StopGateway(f),
             job' = [job EXCEPT ![j] = JobAt("unmap", todo \ {f}, {}, f, None)]
      PROVE  DocumentStep(j, h)
  <2>1. job'[j].pc = "unmap" /\ job'[j].f = f BY <1>2 DEF TypeOK, JobAt
  <2>2. gateways' = [gateways EXCEPT ![f] = None] BY <1>2 DEF StopGateway
  <2>3. gateways'[f] = None /\ (h # f => gateways'[h] = gateways[h])
    BY <2>2 DEF TypeOK, Tracked
  <2> QED BY <2>1, <2>3 DEF DocumentStep, Writes, Written
<1> QED BY <1>1, <1>2 DEF StopNext

\* A step of a task that has no write under way before or after it.
LEMMA DocumentQuiet ==
  ASSUME NEW j \in Jobs, NEW h \in Followers, UNCHANGED <<gateways, mapping>>,
         job[j].pc \notin {"store", "unmap"}, job'[j].pc \notin {"store", "unmap"}
  PROVE  DocumentStep(j, h)
BY DEF DocumentStep, Writes

\* Every step of a task.
LEMMA DocumentJob ==
  ASSUME TypeOK, GatewayInv, MongoWrites, NEW j \in Jobs, JobStep(j) \/ JobCall(j),
         NEW h \in Followers
  PROVE  DocumentStep(j, h)
<1>0. job[j] \in JobType BY DEF TypeOK
<1>1. ASSUME NEW f \in Followers, job' = [job EXCEPT ![j] = Scanned(j, f)]
      PROVE  job'[j].pc = "scan"
  BY <1>1 DEF TypeOK, Scanned, JobAt
<1>2. ASSUME NEW f \in Followers,
             AlreadyRunning(j, f) \/ NoPort(j, f) \/ NoClientId(j, f) \/ StartFailsAtOnce(j, f)
      PROVE  DocumentStep(j, h)
  <2>1. job[j].pc = "scan" /\ job' = [job EXCEPT ![j] = Scanned(j, f)]
    BY <1>2 DEF AlreadyRunning, NoPort, NoClientId, StartFailsAtOnce, NeedsStart
  <2>2. UNCHANGED <<gateways, mapping>>
    BY <1>2 DEF AlreadyRunning, NoPort, NoClientId, StartFailsAtOnce
  <2> QED BY <1>1, <2>1, <2>2, DocumentQuiet
<1>3. ASSUME NEW f \in Followers, StartAtOnce(j, f) PROVE DocumentStep(j, h)
  <2>1. PICK p, c : RunContainer(j, f, p, c, alive \ {box[f]}, Sever({box[f]} \ {None}))
    BY <1>3 DEF StartAtOnce
  <2>2. job[j].pc = "scan" /\ mapping' = mapping BY <1>3 DEF StartAtOnce, NeedsStart
  <2> QED BY <2>1, <2>2, DocumentRun
<1>4. ASSUME NEW f \in Followers, StartWaitsForVault(j, f) PROVE DocumentStep(j, h)
  <2>1. job[j].pc = "scan" /\ UNCHANGED <<gateways, mapping>>
    BY <1>4 DEF StartWaitsForVault, NeedsStart
  <2>2. job'[j].pc = "vault" BY <1>0, <1>4 DEF StartWaitsForVault, TypeOK, JobType
  <2> QED BY <2>1, <2>2, DocumentQuiet
<1>5. CASE VaultRetry(j)
  <2>1. job[j].pc = "vault" /\ job'[j].pc = "vault" /\ UNCHANGED <<gateways, mapping>>
    BY <1>0, <1>5 DEF VaultRetry, TypeOK, JobType
  <2> QED BY <2>1, DocumentQuiet
<1>6. CASE VaultAnswers(j)
  <2>1. /\ job[j].pc = "vault" /\ mapping' = mapping
        /\ RunContainer(j, job[j].f, job[j].port, job[j].id, alive, inst)
    BY <1>6 DEF VaultAnswers
  <2>2. job[j].f \in Followers BY <2>1 DEF GatewayInv, AwaitInv
  <2> QED BY <2>1, <2>2, DocumentRun
<1>7. CASE StartGivesUp(j)
  <2>1. job[j].f \in Followers BY <1>7 DEF StartGivesUp, GatewayInv, AwaitInv
  <2>2. job[j].pc = "vault" /\ UNCHANGED <<gateways, mapping>> BY <1>7 DEF StartGivesUp
  <2>3. job'[j].pc = "scan" BY <1>1, <1>7, <2>1 DEF StartGivesUp
  <2> QED BY <2>2, <2>3, DocumentQuiet
<1>8. CASE StoreMapping(j)
  <2>1. job[j].pc = "store" /\ job'[j].pc = "scan" /\ gateways' = gateways
    BY <1>0, <1>8 DEF StoreMapping, TypeOK, JobType
  <2>2. mapping' = [mapping EXCEPT ![job[j].f] = job[j].g] BY <1>8 DEF StoreMapping
  <2>3. mapping'[h] = IF job[j].f = h THEN job[j].g ELSE mapping[h] BY <2>2 DEF TypeOK
  <2> QED BY <2>1, <2>3 DEF DocumentStep, Writes, Written
<1>9. CASE ReloadPrunes(j) \/ StopAll(j)
  <2>1. job[j].pc \in {"scan", "halt"} /\ mapping' = mapping BY <1>9 DEF ReloadPrunes, StopAll
  <2>2. PICK todo : StopNext(j, todo) BY <1>9 DEF ReloadPrunes, StopAll
  <2>3. mapping'[h] = IF Writes(j, h) THEN Written(j) ELSE mapping[h] BY <2>1 DEF Writes
  <2> QED BY <2>2, <2>3, DocumentStop
<1>10. CASE RemoveMapping(j)
  <2>1. job[j].pc = "unmap" /\ StopNext(j, job[j].todo) BY <1>10 DEF RemoveMapping
  <2>2. mapping' = [mapping EXCEPT ![job[j].f] = None] BY <1>10 DEF RemoveMapping
  <2>3. mapping'[h] = IF job[j].f = h THEN None ELSE mapping[h] BY <2>2 DEF TypeOK
  <2>4. mapping'[h] = IF Writes(j, h) THEN Written(j) ELSE mapping[h]
    BY <2>1, <2>3 DEF Writes, Written
  <2> QED BY <2>1, <2>4, DocumentStop
<1>11. CASE j = Boot /\ StartEnds
  <2>1. job[j].pc = "scan" /\ UNCHANGED <<gateways, mapping>> BY <1>11 DEF StartEnds
  <2>2. job'[j].pc = "idle" BY <1>11 DEF StartEnds, TypeOK, Idle, JobAt
  <2> QED BY <2>1, <2>2, DocumentQuiet
<1>12. CASE ReloadBegins(j)
  <2>1. job[j].pc = "idle" /\ UNCHANGED <<gateways, mapping>>
    BY <1>12 DEF ReloadBegins, Idle, JobAt
  <2>2. job'[j].pc = "scan" BY <1>12 DEF ReloadBegins, TypeOK, JobAt
  <2> QED BY <2>1, <2>2, DocumentQuiet
<1>13. CASE Stop(j)
  <2>1. job[j].pc = "idle" /\ UNCHANGED <<gateways, mapping>> BY <1>13 DEF Stop, Idle, JobAt
  <2>2. job'[j].pc = "halt" BY <1>0, <1>13 DEF Stop, TypeOK, JobType
  <2> QED BY <2>1, <2>2, DocumentQuiet
<1>14. ASSUME NEW f \in Followers, StopFollower(j, f) PROVE DocumentStep(j, h)
  <2>1. job[j].pc = "idle" /\ mapping' = mapping /\ StopNext(j, {f})
    BY <1>14 DEF StopFollower, Idle, JobAt
  <2>2. mapping'[h] = IF Writes(j, h) THEN Written(j) ELSE mapping[h] BY <2>1 DEF Writes
  <2> QED BY <2>1, <2>2, DocumentStop
<1> QED BY <1>2, <1>3, <1>4, <1>5, <1>6, <1>7, <1>8, <1>9, <1>10, <1>11, <1>12, <1>13, <1>14
        DEF JobStep, JobCall

\* A task's step keeps every document that no overlapping writes dispute.
LEMMA DocumentKept ==
  ASSUME NEW j \in Jobs, NEW f \in Followers \ disputed', DocumentInv, Observe,
         \A k \in Jobs \ {j} : job'[k] = job[k], DocumentStep(j, f)
  PROVE  DocumentTrue(f)'
<1>1. ~Contested(f)' BY DEF Observe
<1>2. f \in disputed => Writers(f) = {} /\ Writers(f)' # {} BY DEF Observe, BegunAlone
<1>3. f \notin disputed => DocumentTrue(f) BY DEF DocumentInv
<1>4. \A k \in Jobs \ {j} : (Writes(k, f)' <=> Writes(k, f)) /\ Written(k)' = Written(k)
  BY DEF Writes, Written
<1>5. /\ \A k : k \in Writers(f) <=> k \in Jobs /\ Writes(k, f)
      /\ \A k : k \in Writers(f)' <=> k \in Jobs /\ Writes(k, f)'
  BY DEF Writers, Writes
<1>6. ASSUME NEW k \in Writers(f)' PROVE Written(k)' = gateways'[f]
  <2>1. CASE k = j BY <1>5, <1>6, <2>1 DEF DocumentStep
  <2>2. CASE k # j
    <3>1. k \in Writers(f) /\ Written(k)' = Written(k) BY <1>4, <1>5, <1>6, <2>2
    <3>2. Written(k) = gateways[f] BY <1>2, <1>3, <3>1 DEF DocumentTrue
    <3>3. ~Writes(j, f)'
      <4>1. ASSUME Writes(j, f)' PROVE Contested(f)'
        <5>1. j \in Writers(f)' /\ k \in Writers(f)' BY <1>5, <1>6, <4>1
        <5> QED BY <2>2, <5>1 DEF Contested
      <4> QED BY <1>1, <4>1
    <3>4. gateways'[f] = gateways[f] BY <3>3 DEF DocumentStep
    <3> QED BY <3>1, <3>2, <3>4
  <2> QED BY <2>1, <2>2
<1>7. ASSUME Writers(f)' = {} PROVE mapping'[f] = gateways'[f]
  <2>1. DocumentTrue(f) BY <1>2, <1>3, <1>7
  <2>2. ~Writes(j, f)' BY <1>5, <1>7
  <2>3. gateways'[f] = gateways[f] BY <2>2 DEF DocumentStep
  <2>4. CASE Writes(j, f)
    <3>1. Written(j) = gateways[f] BY <1>5, <2>1, <2>4 DEF DocumentTrue
    <3> QED BY <2>3, <2>4, <3>1 DEF DocumentStep
  <2>5. CASE ~Writes(j, f)
    <3>1. Writers(f) = {} BY <1>4, <1>5, <1>7, <2>5
    <3>2. mapping[f] = gateways[f] BY <2>1, <3>1 DEF DocumentTrue
    <3> QED BY <2>3, <2>5, <3>2 DEF DocumentStep
  <2> QED BY <2>4, <2>5
<1> QED BY <1>1, <1>6, <1>7 DEF DocumentTrue

\* A step that concerns neither tasks nor gateways nor documents.
LEMMA DocumentStays ==
  ASSUME DocumentInv, Observe, UNCHANGED <<gateways, mapping, job>>
  PROVE  DocumentInv'
<1> SUFFICES ASSUME NEW f \in Followers \ disputed' PROVE DocumentTrue(f)' BY DEF DocumentInv
<1>1. /\ Writers(f)' = Writers(f) /\ (Contested(f)' <=> Contested(f))
      /\ \A k \in Jobs : Written(k)' = Written(k)
  BY DEF Writers, Contested, Written
<1>2. f \notin disputed BY <1>1 DEF Observe, BegunAlone
<1>3. DocumentTrue(f) BY <1>2 DEF DocumentInv
<1>4. \A k \in Writers(f) : k \in Jobs BY DEF Writers
<1> QED BY <1>1, <1>3, <1>4 DEF DocumentTrue

\* Every step keeps the documents.
LEMMA DocumentsStep ==
  ASSUME TypeOK, GatewayInv, MongoWrites, DocumentInv, [Next /\ Observe]_hvars
  PROVE  DocumentInv'
<1>1. CASE UNCHANGED hvars
  <2>1. UNCHANGED <<gateways, mapping, job, disputed>> BY <1>1 DEF hvars, vars
  <2> SUFFICES ASSUME NEW f \in Followers \ disputed PROVE DocumentTrue(f)'
    BY <2>1 DEF DocumentInv
  <2>2. DocumentTrue(f) BY DEF DocumentInv
  <2> QED BY <2>1, <2>2 DEF DocumentTrue, Contested, Writers, Written
<1>2. ASSUME NEW j \in Jobs, JobStep(j) \/ JobCall(j), Observe PROVE DocumentInv'
  <2> SUFFICES ASSUME NEW f \in Followers \ disputed' PROVE DocumentTrue(f)' BY DEF DocumentInv
  <2>1. \A k \in Jobs \ {j} : job'[k] = job[k] BY <1>2, OthersKept
  <2>2. DocumentStep(j, f) BY <1>2, DocumentJob
  <2> QED BY <1>2, <2>1, <2>2, DocumentKept
<1>3. ASSUME Observe,
             \/ MonitorStep \/ Environment
             \/ \E c \in Callers : CallerStep(c) \/ \E f \in Followers : GetClient(c, f)
      PROVE  DocumentInv'
  <2>1. UNCHANGED <<gateways, mapping, job>>
    BY <1>3 DEF CallerStep, CallerConnects, CallerFails, CallerRetries, GetClient, MonitorStep,
                MonitorCycle, MonitorRetries, MonitorConnects, MonitorConnectFails,
                CheckFindsStopped, CheckConnects, CheckCounts, CheckSkips,
                Environment, EditFollower, ContainerEnds, ConnectionDrops
  <2> QED BY <1>3, <2>1, DocumentStays
<1> QED BY <1>1, <1>2, <1>3 DEF Next

\* The history changes nothing of what the manager does.
LEMMA HistoryIsSpec == HistorySpec => Spec
<1>1. [Next /\ Observe]_hvars => [Next]_vars BY DEF hvars
<1> QED BY <1>1, PTL DEF HistorySpec, Spec

\* However start(), reloads and stops overlap, a document that is not being written
\* describes its follower's gateway, unless the last writes to it overlapped each other.
THEOREM MappingFollows == ASSUME MongoWrites PROVE HistorySpec => []MappingFollowsGateways
<1>1. Init /\ disputed = {} => DocumentInv
  <2> SUFFICES ASSUME Init, NEW f \in Followers PROVE DocumentTrue(f) BY DEF DocumentInv
  <2>1. \A j \in Jobs : job[j].pc \in {"idle", "scan"} BY DEF Init, Idle, JobAt
  <2>2. Writers(f) = {} BY <2>1 DEF Writers
  <2>3. mapping[f] = gateways[f] BY DEF Init
  <2> QED BY <2>2, <2>3 DEF DocumentTrue, Contested
<1>2. TypeOK /\ GatewayInv /\ DocumentInv /\ [Next /\ Observe]_hvars => DocumentInv'
  BY DocumentsStep
<1>3. DocumentInv => MappingFollowsGateways
  BY DEF DocumentInv, DocumentTrue, MappingFollowsGateways
<1>4. HistorySpec => [](TypeOK /\ GatewayInv) BY HistoryIsSpec, GatewayInvariant, PTL
<1> QED BY <1>1, <1>2, <1>3, <1>4, PTL DEF HistorySpec
=============================================================================
