--------------------------- MODULE ClusterRouting ---------------------------
(***************************************************************************)
(* How a server decides that it is ready: a loop asks the storage nodes    *)
(* for their status, one after another, and publishes whether a majority   *)
(* answered and someone knew a leader.                                     *)
(***************************************************************************)
EXTENDS Naturals, Sequences, FiniteSets

CONSTANTS
  StatusPeers,   \* the nodes in the order of MAXIO_STORAGE_ENDPOINTS
  MaxEpoch       \* bound: where the routing epoch saturates (u64::MAX)

ASSUME RoutingAssumption == MaxEpoch \in Nat \ {0}

VARIABLES
  status,        \* node -> "down", "alone" (no leader known) or "led"
  poll,          \* the loop: [i, ok, seen]
  routing        \* the published snapshot: [ready, epoch]

routingVars == <<status, poll, routing>>

StatusNodes == {StatusPeers[i] : i \in 1 .. Len(StatusPeers)}
PollStart == [i |-> 1, ok |-> 0, seen |-> FALSE]

RoutingInit ==
  /\ status = [n \in StatusNodes |-> "down"]
  /\ poll = PollStart
  /\ routing = [ready |-> FALSE, epoch |-> 0]

StatusTurns(n, v) ==
  /\ status[n] # v
  /\ status' = [status EXCEPT ![n] = v]
  /\ UNCHANGED <<poll, routing>>

\* fetch_routing_snapshot asks the next peer.
PollPeer ==
  LET s == status[StatusPeers[poll.i]] IN
    /\ poll.i <= Len(StatusPeers)
    /\ poll' = [i |-> poll.i + 1, ok |-> IF s = "down" THEN poll.ok ELSE poll.ok + 1,
                seen |-> poll.seen \/ s = "led"]
    /\ UNCHANGED <<status, routing>>

\* Mutant: a peer that names a leader is enough.
LeaderIsEnough(q) == q.seen

QuorumOk(q) == q.ok * 2 > Len(StatusPeers) /\ q.seen

\* run_cluster_sync publishes what the round gave.
Publish ==
  /\ poll.i > Len(StatusPeers)
  /\ routing' = [ready |-> QuorumOk(poll),
                 epoch |-> IF routing.epoch < MaxEpoch THEN routing.epoch + 1 ELSE MaxEpoch]
  /\ poll' = PollStart
  /\ UNCHANGED status

RoutingNext ==
  \/ \E n \in StatusNodes : \E v \in {"down", "alone", "led"} : StatusTurns(n, v)
  \/ PollPeer \/ Publish

-----------------------------------------------------------------------------
(* Properties.                                                              *)

Majority(S) == Cardinality(S) * 2 > Len(StatusPeers)
Know(S) == \A n \in S : status[n] = "led"
Silent(S) == \A n \in S : status[n] = "down"

\* Readiness follows the nodes, however the others flap: if from some time on the same
\* majority answers and knows a leader, the server is ready for good, and if from
\* some time on the same nodes are silent and the others are no majority, it is not.
\* (When it is now these and now those, a round mixes answers of different times and
\* nothing follows.)
ReadyTracksQuorum ==
  \A S \in SUBSET StatusNodes :
    /\ Majority(S) => (<>[]Know(S) => <>[](routing.ready))
    /\ ~Majority(StatusNodes \ S) => (<>[]Silent(S) => <>[](~routing.ready))
=============================================================================
