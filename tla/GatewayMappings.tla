-------------------------- MODULE GatewayMappings --------------------------
(***************************************************************************)
(* The gateway_mappings collection beside tasks that overlap: start(),     *)
(* reloads and stops track or forget a gateway first and write its         *)
(* document after an await, in whatever order MongoDB takes the writes.    *)
(* A history variable tells which documents were written by two tasks at   *)
(* once; it changes nothing of what the manager does.                      *)
(***************************************************************************)
EXTENDS GatewayManagerProperties

VARIABLE
  disputed   \* followers whose document was last written by tasks that overlapped

hvars == <<vars, disputed>>

\* The tasks whose write to the follower's document is under way.
Writers(f) == {j \in Jobs : job[j].pc \in {"store", "unmap"} /\ job[j].f = f}

Contested(f) == \E i, j \in Writers(f) : i # j

\* A write is begun while no other one is under way.
BegunAlone(f) == Writers(f) = {} /\ Writers(f)' # {}

\* Overlapping writes leave a dispute, which the next write begun alone ends.
Observe ==
  disputed' = {f \in Followers : Contested(f)' \/ (f \in disputed /\ ~BegunAlone(f))}

HistorySpec ==
  Init /\ disputed = {} /\ [][Next /\ Observe]_hvars

-----------------------------------------------------------------------------
\* Once no write to a follower's document is under way it describes the follower's
\* gateway, or is gone with it, however start(), reloads and stops overlap; unless the last
\* writes to it overlapped each other, and then from the next write on.
MappingFollowsGateways ==
  \A f \in Followers \ disputed : Writers(f) = {} => mapping[f] = gateways[f]
=============================================================================
