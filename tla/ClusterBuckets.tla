--------------------------- MODULE ClusterBuckets ---------------------------
(***************************************************************************)
(* Buckets in cluster mode.  A server proposes the creation or deletion of *)
(* a bucket to the storage nodes' Raft group, then does the same in its    *)
(* own filesystem.  A storage node keeps votes, log, state machine and     *)
(* snapshot in memory and the buckets it was told of on disk.              *)
(*                                                                         *)
(* openraft is external: `chosen' is the sequence of committed mutations,  *)
(* held[n] how many of them node n holds.  It promises what it does as     *)
(* long as a majority remembers; since a restarted node here remembers     *)
(* nothing, that is the condition under which a node may restart.          *)
(***************************************************************************)
EXTENDS Naturals, Sequences, FiniteSets

CONSTANTS
  Node,          \* storage nodes
  Peers,         \* the same in the order of MAXIO_STORAGE_ENDPOINTS
  FirstLeader,   \* the node that leads at first
  Server,        \* servers, each with a filesystem
  Bucket,
  MaxOps,        \* bound on requests
  MaxFaults,     \* bound on failures of nodes
  MaxSnapshots   \* bound on snapshots built

NoNode == "none"
Ops == {"create", "delete"}

ASSUME ClusterAssumption ==
  /\ FirstLeader \in Node /\ NoNode \notin Node /\ Bucket # {}
  /\ Peers \in Seq(Node) /\ {Peers[i] : i \in 1 .. Len(Peers)} = Node
  /\ Len(Peers) = Cardinality(Node)
  /\ MaxOps \in Nat /\ MaxFaults \in Nat /\ MaxSnapshots \in Nat

VARIABLES
  chosen,        \* committed mutations [op, bucket, id], in order
  held,          \* node -> entries it holds, in its log or its snapshot
  applied,       \* node -> entries applied
  machine,       \* node -> buckets in the state machine
  snap,          \* node -> [upto, buckets, lost], its snapshot; the log starts after it
  files,         \* node -> bucket -> its directory: "none", "bare" (without a whole
                 \* `.bucket.json') or "whole"
  doing,         \* node -> "idle", or applying entry applied[n]: "work" (between two
                 \* calls of the filesystem) or "pass" (there is nothing to do on disk)
  up,            \* node -> "up", "down" (memory lost), "cut" (unreachable), "halted"
  leader, led,   \* the leader, and every node that has led
  pending,       \* proposals the leader has not committed, [op, bucket, id]
  local,         \* server -> buckets in its filesystem
  req,           \* server -> its request
  ops, faults,   \* how many so far
  built,         \* how many snapshots so far
  skipped,       \* history: node -> buckets whose changes a snapshot jumped over
  lost,          \* history: node -> buckets whose last change its snapshot counted
                 \* and did not contain
  cutoff         \* history: node -> buckets it was creating or deleting when it ended

raftVars == <<chosen, held, applied, machine, snap, files, doing, up, leader, led, pending>>
histVars == <<built, skipped, lost, cutoff>>
clusterVars == <<raftVars, local, req, ops, faults, histVars>>

Majority(S) == Cardinality(S) * 2 > Cardinality(Node)
Alive == {n \in Node : up[n] = "up"}
Reachable(n) == up[n] = "up"
\* A node whose Raft core has stopped still answers, with what it last believed.
Answers(n) == up[n] \in {"up", "halted"}
\* Whom node n names as the leader: itself, if it is; else it may have heard of
\* none, of this one or still of an earlier one, itself included.
Names(n) == IF n = leader THEN {n} ELSE led \union {NoNode}

NoSnapshot == [upto |-> 0, buckets |-> {}, lost |-> {}]
NoRequest == [pc |-> "idle", op |-> "create", bucket |-> CHOOSE b \in Bucket : TRUE,
              i |-> 1, hint |-> NoNode, to |-> NoNode, id |-> <<>>]

\* What the first k entries make of an empty state machine: a bucket is there that
\* one of them creates and no later one deletes.
After(k) ==
  {b \in Bucket :
     \E j \in 1 .. k :
       /\ chosen[j].op = "create" /\ chosen[j].bucket = b
       /\ \A i \in j + 1 .. k : chosen[i].bucket = b => chosen[i].op = "create"}

\* The entries node n has finished with, and the bucket it is busy with.
Finished(n) == IF doing[n] = "idle" THEN applied[n] ELSE applied[n] - 1
Applying(n) == IF doing[n] = "idle" THEN {} ELSE {chosen[applied[n]].bucket}

-----------------------------------------------------------------------------
(* StorageRaftStore.                                                        *)

ClusterInit ==
  /\ chosen = <<>> /\ pending = {}
  /\ held = [n \in Node |-> 0] /\ applied = [n \in Node |-> 0]
  /\ machine = [n \in Node |-> {}]
  /\ files = [n \in Node |-> [b \in Bucket |-> "none"]]
  /\ doing = [n \in Node |-> "idle"]
  /\ snap = [n \in Node |-> NoSnapshot]
  /\ up = [n \in Node |-> "up"]
  /\ leader = FirstLeader
  /\ led = {leader}
  /\ local = [s \in Server |-> {}]
  /\ req = [s \in Server |-> NoRequest]
  /\ ops = 0 /\ faults = 0 /\ built = 0
  /\ skipped = [n \in Node |-> {}] /\ lost = [n \in Node |-> {}]
  /\ cutoff = [n \in Node |-> {}]

\* What a mutation makes of a set of buckets.
Change(m, buckets) ==
  IF m.op = "create" THEN buckets \union {m.bucket} ELSE buckets \ {m.bucket}

\* Mutant: delete_bucket asks as head_bucket does, for the `.bucket.json'.
IfWhole(d) == d = "whole"

\* delete_bucket goes on if the directory is there.
ToDelete(d) == d # "none"

\* apply_to_state_machine sets last_applied and lets go of the lock; apply_mutation
\* turns to the filesystem.  Its first call that changes something is create_dir or
\* the purge, after which the directory has no `.bucket.json'; creating what exists
\* and deleting what does not are no errors.
ApplyBegin(n) ==
  LET m == chosen[applied[n] + 1]
      there == files[n][m.bucket]
      work == IF m.op = "create" THEN there = "none" ELSE ToDelete(there)
  IN
    /\ Reachable(n) /\ doing[n] = "idle" /\ applied[n] < held[n]
    /\ applied' = [applied EXCEPT ![n] = @ + 1]
    /\ doing' = [doing EXCEPT ![n] = IF work THEN "work" ELSE "pass"]
    /\ files' = IF work THEN [files EXCEPT ![n][m.bucket] = "bare"] ELSE files
    /\ UNCHANGED <<chosen, held, machine, snap, up, leader, led, pending,
                   local, req, ops, faults, histVars>>

\* The second call, fs::write or remove_dir, and then the state machine.
ApplyEnd(n) ==
  LET m == chosen[applied[n]] IN
    /\ Reachable(n) /\ doing[n] # "idle"
    /\ doing' = [doing EXCEPT ![n] = "idle"]
    /\ IF doing[n] = "work"
       THEN /\ files' = [files EXCEPT
                           ![n][m.bucket] = IF m.op = "create" THEN "whole" ELSE "none"]
            /\ cutoff' = [cutoff EXCEPT ![n] = @ \ {m.bucket}]
       ELSE UNCHANGED <<files, cutoff>>
    /\ machine' = [machine EXCEPT ![n] = Change(m, @)]
    /\ lost' = [lost EXCEPT ![n] = @ \ {m.bucket}]
    /\ UNCHANGED <<chosen, held, applied, snap, up, leader, led, pending,
                   local, req, ops, faults, built, skipped>>

\* The filesystem refuses, at once or half way: the error is fatal to the node, whose
\* last_applied has already moved on.  create_bucket removes the directory it could
\* not write to, unless a piece of `.bucket.json' is in it.
ApplyFails(n) ==
  /\ Reachable(n) /\ faults < MaxFaults /\ faults' = faults + 1
  /\ up' = [up EXCEPT ![n] = "halted"]
  /\ doing' = [doing EXCEPT ![n] = "idle"]
  /\ \/ /\ doing[n] = "idle" /\ applied[n] < held[n]
        /\ applied' = [applied EXCEPT ![n] = @ + 1]
        /\ UNCHANGED <<files, cutoff>>
     \/ LET m == chosen[applied[n]] IN
          /\ doing[n] = "work"
          /\ \E d \in IF m.op = "create" THEN {"none", "bare"} ELSE {"bare"} :
               files' = [files EXCEPT ![n][m.bucket] = d]
          /\ cutoff' = [cutoff EXCEPT ![n] = @ \union {m.bucket}]
          /\ UNCHANGED applied
  /\ UNCHANGED <<chosen, held, machine, snap, leader, led, pending,
                 local, req, ops, built, skipped, lost>>

\* build_snapshot and purge_logs_upto.  Any node does this; what a node has put away
\* matters once it leads, so it is enough to let the leader do it.  It does not wait
\* for an apply that let go of the lock: the entry is counted, its change missing.
BuildSnapshot(n) ==
  /\ Reachable(n) /\ n = leader /\ applied[n] > snap[n].upto
  /\ built < MaxSnapshots /\ built' = built + 1
  /\ snap' = [snap EXCEPT ![n] = [upto |-> applied[n], buckets |-> machine[n],
                                       lost |-> lost[n] \union Applying(n)]]
  /\ UNCHANGED <<chosen, held, applied, machine, files, doing, up, leader, led, pending,
                 local, req, ops, faults, skipped, lost, cutoff>>

\* append_to_log: the leader sends the next entry, if it still has it.
Replicate(n) ==
  /\ leader \in Alive /\ Reachable(n)
  /\ held[n] < held[leader] /\ held[n] >= snap[leader].upto
  /\ held' = [held EXCEPT ![n] = @ + 1]
  /\ UNCHANGED <<chosen, applied, machine, snap, files, doing, up, leader, led, pending,
                 local, req, ops, faults, histVars>>

\* Mutant: what the node knew stays.
MergeSnapshot(n, s) ==
  machine' = [machine EXCEPT ![n] = @ \union s.buckets]

\* install_snapshot replaces the state machine; nothing is done to the disk.
Replace(n, s) ==
  machine' = [machine EXCEPT ![n] = s.buckets]

InstallSnapshot(n) ==
  LET s == snap[leader] IN
    /\ leader \in Alive /\ Reachable(n) /\ n # leader
    /\ held[n] < s.upto /\ doing[n] = "idle"
    /\ held' = [held EXCEPT ![n] = s.upto]
    /\ applied' = [applied EXCEPT ![n] = s.upto]
    /\ Replace(n, s)
    /\ snap' = [snap EXCEPT ![n] = s]
    /\ skipped' = [skipped EXCEPT
                     ![n] = @ \union {chosen[j].bucket : j \in applied[n] + 1 .. s.upto}]
    /\ lost' = [lost EXCEPT ![n] = s.lost]
    /\ UNCHANGED <<chosen, files, doing, up, leader, led, pending,
                   local, req, ops, faults, built, cutoff>>

-----------------------------------------------------------------------------
(* openraft, as far as the code around it can tell.                         *)

\* A majority that holds everything takes the leader's next entry.
Commit(m) ==
  /\ leader \in Alive /\ m \in pending
  /\ \E Q \in SUBSET Alive :
       /\ leader \in Q /\ Majority(Q)
       /\ \A n \in Q : held[n] = Len(chosen)
       /\ held' = [n \in Node |-> IF n \in Q THEN Len(chosen) + 1 ELSE held[n]]
  /\ chosen' = Append(chosen, m)
  /\ pending' = pending \ {m}
  /\ UNCHANGED <<applied, machine, snap, files, doing, up, leader, led,
                 local, req, ops, faults, histVars>>

\* A node that misses nothing wins; the old leader's proposals may be lost.
Elect(n) ==
  /\ leader # n /\ Reachable(n) /\ Majority(Alive) /\ held[n] = Len(chosen)
  /\ leader \notin Alive
  /\ leader' = n
  /\ led' = led \union {n}
  /\ pending' \in SUBSET pending
  /\ UNCHANGED <<chosen, held, applied, machine, snap, files, doing, up,
                 local, req, ops, faults, histVars>>

MajorityRemembersWithout(n) ==
  Majority({m \in Node \ {n} : held[m] = Len(chosen) /\ up[m] # "halted"})

\* The process ends and its memory with it: everything StorageRaftStore::new
\* starts empty.  What it was creating or deleting stays as it is.
Crash(n) ==
  /\ up[n] # "down" /\ MajorityRemembersWithout(n)
  /\ up[n] = "halted" \/ faults < MaxFaults
  /\ faults' = IF up[n] = "halted" THEN faults ELSE faults + 1
  /\ up' = [up EXCEPT ![n] = "down"]
  /\ held' = [held EXCEPT ![n] = 0] /\ applied' = [applied EXCEPT ![n] = 0]
  /\ machine' = [machine EXCEPT ![n] = {}]
  /\ snap' = [snap EXCEPT ![n] = NoSnapshot]
  /\ doing' = [doing EXCEPT ![n] = "idle"]
  /\ cutoff' = [cutoff EXCEPT ![n] = IF doing[n] = "work" THEN @ \union Applying(n) ELSE @]
  /\ lost' = [lost EXCEPT ![n] = {}]
  /\ leader' = IF leader = n THEN NoNode ELSE leader
  /\ pending' \in IF leader = n THEN SUBSET pending ELSE {pending}
  /\ UNCHANGED <<chosen, files, led, local, req, ops, built, skipped>>

Cut(n) ==
  /\ up[n] = "up" /\ faults < MaxFaults /\ faults' = faults + 1
  /\ up' = [up EXCEPT ![n] = "cut"]
  /\ UNCHANGED <<chosen, held, applied, machine, snap, files, doing, leader, led, pending,
                 local, req, ops, histVars>>

Return(n) ==
  /\ up[n] \in {"down", "cut"}
  /\ up' = [up EXCEPT ![n] = "up"]
  /\ UNCHANGED <<chosen, held, applied, machine, snap, files, doing, leader, led, pending,
                 local, req, ops, faults, histVars>>

-----------------------------------------------------------------------------
(* ClusterMetadataStorage and StorageRaftClient.                            *)

\* An answered request leaves nothing behind but its answer.
Step(s, r) ==
  req' = [req EXCEPT ![s] = IF r.pc \in {"done", "failed"} THEN [NoRequest EXCEPT !.pc = r.pc]
                            ELSE r]

Start(s, op, b) ==
  /\ req[s].pc \notin {"find", "send", "wait", "local"} /\ ops < MaxOps
  /\ ops' = ops + 1
  /\ Step(s, [NoRequest EXCEPT !.pc = "find", !.op = op, !.bucket = b, !.id = <<s, ops>>])
  /\ UNCHANGED <<raftVars, local, faults, histVars>>

\* find_leader_propose_url asks one peer after another: the first that says it
\* leads wins, else the first leader anyone named.
FindLeader(s) ==
  LET r == req[s]
      p == Peers[r.i]
  IN
    /\ r.pc = "find"
    /\ \/ /\ r.i > Len(Peers)
          /\ Step(s, IF r.hint = NoNode THEN [r EXCEPT !.pc = "failed"]
                     ELSE [r EXCEPT !.to = r.hint, !.pc = "send"])
       \/ /\ r.i <= Len(Peers) /\ Answers(p)
          /\ \E x \in Names(p) :
               Step(s, IF x = p THEN [r EXCEPT !.to = p, !.pc = "send"]
                       ELSE [r EXCEPT !.i = @ + 1, !.hint = IF @ = NoNode THEN x ELSE @])
       \/ /\ r.i <= Len(Peers) /\ ~Answers(p)
          /\ Step(s, [r EXCEPT !.i = @ + 1])
    /\ UNCHANGED <<raftVars, local, ops, faults, histVars>>

\* propose: only the leader takes it.
Propose(s) ==
  LET r == req[s]
      ok == Reachable(r.to) /\ r.to = leader IN
    /\ r.pc = "send"
    /\ Step(s, [r EXCEPT !.pc = IF ok THEN "wait" ELSE "failed"])
    /\ pending' = IF ok THEN pending \union {[op |-> r.op, bucket |-> r.bucket, id |-> r.id]}
                  ELSE pending
    /\ UNCHANGED <<chosen, held, applied, machine, snap, files, doing, up, leader, led,
                   local, ops, faults, histVars>>

\* The node answers when it has applied the entry.
Accepted(s) ==
  LET r == req[s] IN
    /\ r.pc = "wait" /\ Reachable(r.to)
    /\ \E k \in 1 .. Finished(r.to) : chosen[k].id = r.id
    /\ Step(s, [r EXCEPT !.pc = "local"])
    /\ UNCHANGED <<raftVars, local, ops, faults, histVars>>

\* Mutant: the error of the proposal is not looked at.
LocalAnyway(s) == Step(s, [req[s] EXCEPT !.pc = "local"])

\* The answer of an unsuccessful proposal: the local filesystem is not touched.
Abandon(s) == Step(s, [req[s] EXCEPT !.pc = "failed"])

\* Ten seconds pass, or the leader lost its office; the entry may yet be committed.
GiveUp(s) ==
  /\ req[s].pc = "wait"
  /\ Abandon(s)
  /\ UNCHANGED <<raftVars, local, ops, faults, histVars>>

\* The same in the server's own filesystem, which may refuse what the group agreed.
Local(s) ==
  LET r == req[s] IN
    /\ r.pc = "local"
    /\ \/ /\ local' = [local EXCEPT ![s] = Change(r, @)]
          /\ Step(s, [r EXCEPT !.pc = "done"])
       \/ /\ Step(s, [r EXCEPT !.pc = "failed"])
          /\ UNCHANGED local
    /\ UNCHANGED <<raftVars, ops, faults, histVars>>

-----------------------------------------------------------------------------
ClusterNext ==
  \/ \E n \in Node :
       \/ ApplyBegin(n) \/ ApplyEnd(n) \/ ApplyFails(n) \/ BuildSnapshot(n)
       \/ Replicate(n) \/ InstallSnapshot(n) \/ Elect(n) \/ Crash(n) \/ Cut(n) \/ Return(n)
  \/ \E m \in pending : Commit(m)
  \/ \E s \in Server :
       \/ \E op \in Ops, b \in Bucket : Start(s, op, b)
       \/ FindLeader(s) \/ Propose(s) \/ Accepted(s) \/ GiveUp(s) \/ Local(s)

ClusterSpec == ClusterInit /\ [][ClusterNext]_clusterVars

-----------------------------------------------------------------------------
(* Properties.                                                              *)

\* However often nodes forget, replay entries or jump ahead by a snapshot, a node's
\* state machine is what the entries it has finished with make of an empty one.  The
\* only exceptions are the buckets being changed when the snapshot a node jumped ahead
\* by was built, until an entry about them comes.
MachineIsLog ==
  \A n \in Node : up[n] \in {"up", "cut"} =>
    \A b \in Bucket \ lost[n] : b \in machine[n] <=> b \in After(Finished(n))

\* A node that has caught up has the directories of the log's buckets on disk and no
\* others, also after a restart that replays old creations and deletions over a newer
\* disk, and after one in the middle of an apply.  The only exceptions are buckets
\* whose changes a snapshot carried past the disk; and a directory is without its
\* `.bucket.json' only where a creation or deletion was broken off.
DiskFollowsLog ==
  \A n \in Node : up[n] = "up" /\ doing[n] = "idle" /\ applied[n] = Len(chosen) =>
    \A b \in Bucket :
      /\ b \notin skipped[n] => (files[n][b] # "none" <=> b \in After(Len(chosen)))
      /\ files[n][b] = "bare" => b \in cutoff[n]

\* A bucket is in a server's filesystem only if the storage group has agreed to
\* create it at that server's request: no local change without a committed one.
LocalAfterCommit ==
  \A s \in Server : \A b \in local[s] :
    \E k \in 1 .. Len(chosen) :
      chosen[k].op = "create" /\ chosen[k].bucket = b /\ chosen[k].id[1] = s
=============================================================================
