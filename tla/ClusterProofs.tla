---------------------------- MODULE ClusterProofs ----------------------------
(***************************************************************************)
(* Proofs about the storage cluster.  ClusterBuckets, for any number of    *)
(* storage nodes, servers and buckets: no bucket appears in a server's     *)
(* filesystem that the storage group has not agreed to create at that      *)
(* server's request, and what a node holds in memory and on disk is what   *)
(* the log says.  ShardRepair, for any number of shards: repairs never     *)
(* spread the damage of one spoilt file.                                   *)
(***************************************************************************)
EXTENDS ClusterBuckets, ShardRepair, FiniteSetTheorems, TLAPS

\* What the proofs use of the constants.
LEMMA ConstantsOK ==
  /\ FirstLeader \in Node /\ NoNode \notin Node /\ Bucket # {}
  /\ \A i \in 1 .. Len(Peers) : Peers[i] \in Node
  /\ Len(Peers) \in Nat
BY ClusterAssumption

-----------------------------------------------------------------------------
(* The inductive invariant.                                                 *)

Entry == [op : Ops, bucket : Bucket, id : Server \X Nat]
Request ==
  [pc : {"idle", "find", "send", "wait", "local", "done", "failed"}, op : Ops,
   bucket : Bucket, i : Nat \ {0}, hint : Node \union {NoNode},
   to : Node \union {NoNode}, id : (Server \X Nat) \union {<<>>}]

Snapshot == [upto : Nat, buckets : SUBSET Bucket, lost : SUBSET Bucket]

LogTypeOK == chosen \in Seq(Entry) /\ pending \in SUBSET Entry
NodeTypeOK ==
  /\ held \in [Node -> Nat] /\ applied \in [Node -> Nat]
  /\ snap \in [Node -> Snapshot]
  /\ machine \in [Node -> SUBSET Bucket] /\ lost \in [Node -> SUBSET Bucket]
  /\ doing \in [Node -> {"idle", "work", "pass"}]
  /\ up \in [Node -> {"up", "down", "cut", "halted"}]
  /\ leader \in Node \union {NoNode} /\ led \subseteq Node
RequestTypeOK ==
  /\ local \in [Server -> SUBSET Bucket]
  /\ req \in [Server -> Request]
  /\ ops \in Nat
ClusterTypeOK == LogTypeOK /\ NodeTypeOK /\ RequestTypeOK

\* No node is ahead of the group; a node that is applying has an entry to apply.
Behind ==
  \A n \in Node : /\ held[n] <= Len(chosen) /\ applied[n] <= Len(chosen)
                  /\ snap[n].upto <= Len(chosen)
                  /\ doing[n] # "idle" => applied[n] >= 1

\* Every proposal that was made and not forgotten.
Entries == pending \union {chosen[k] : k \in 1 .. Len(chosen)}

\* Proposals are numbered; the numbers to come are free.
Numbered == \A m \in Entries : m.id[2] < ops

\* The proposal of a running request, wherever it is, asks what the request asks.
Active(r) == r.pc \in {"find", "send", "wait", "local"}
Own ==
  \A s \in Server : Active(req[s]) =>
    /\ req[s].id \in {s} \X Nat /\ req[s].id[2] < ops
    /\ \A m \in Entries : m.id = req[s].id => m.op = req[s].op /\ m.bucket = req[s].bucket

Addressed == \A s \in Server : req[s].pc \in {"send", "wait"} => req[s].to \in Node

\* A request that turns to the filesystem has a committed entry.
Agreed ==
  \A s \in Server : req[s].pc = "local" =>
    \E k \in 1 .. Len(chosen) : chosen[k].id = req[s].id

Requests == Numbered /\ Own /\ Addressed /\ Agreed /\ LocalAfterCommit
ClusterInv == ClusterTypeOK /\ Behind /\ Requests

LEMMA NoRequestType == NoRequest \in Request /\ NoRequest.pc = "idle"
BY ConstantsOK DEF NoRequest, Request, Ops

LEMMA LogLength == LogTypeOK => Len(chosen) \in Nat
BY DEF LogTypeOK

LEMMA InitCluster == ClusterInit => ClusterInv
<1> SUFFICES ASSUME ClusterInit PROVE ClusterInv
  OBVIOUS
<1>1. ClusterTypeOK
  BY NoRequestType, ConstantsOK
  DEF ClusterInit, ClusterTypeOK, LogTypeOK, NodeTypeOK, RequestTypeOK, NoSnapshot, Snapshot
<1>2. Behind
  BY DEF ClusterInit, Behind, NoSnapshot
<1>3. Requests
  BY NoRequestType DEF ClusterInit, Requests, Numbered, Entries, Own, Active, Addressed,
     Agreed, LocalAfterCommit
<1> QED BY <1>1, <1>2, <1>3 DEF ClusterInv

-----------------------------------------------------------------------------
(* Steps of the storage group.                                              *)

\* Nothing the group does to its own state disturbs the requests, as long as
\* committed entries stay where they are and no proposal appears.
LEMMA GroupKeeps ==
  ASSUME ClusterInv, ClusterTypeOK', Behind', UNCHANGED <<local, req, ops>>,
         Entries' \subseteq Entries,
         \A k \in 1 .. Len(chosen) : k \in 1 .. Len(chosen') /\ chosen'[k] = chosen[k]
  PROVE  ClusterInv'
<1> USE DEF ClusterInv, Requests
<1>1. Numbered' /\ Own' /\ Addressed'
  BY DEF Numbered, Own, Addressed, Active
<1>2. Agreed'
  BY DEF Agreed
<1>3. LocalAfterCommit'
  BY DEF LocalAfterCommit
<1> QED BY <1>1, <1>2, <1>3

\* The same when the committed entries do not change at all.
LEMMA QuietGroupKeeps ==
  ASSUME ClusterInv, NodeTypeOK', Behind', UNCHANGED <<local, req, ops, chosen>>,
         pending' \subseteq pending
  PROVE  ClusterInv'
<1>1. Entries' \subseteq Entries
  BY DEF Entries
<1>2. ClusterTypeOK'
  BY DEF ClusterInv, ClusterTypeOK, LogTypeOK, RequestTypeOK
<1> QED BY <1>1, <1>2, GroupKeeps

\* What an entry that a node is about to apply, or is applying, is about.
LEMMA EntryAt ==
  ASSUME ClusterInv, NEW n \in Node
  PROVE  /\ Len(chosen) \in Nat /\ held[n] \in Nat /\ applied[n] \in Nat
         /\ applied[n] < held[n] => /\ applied[n] + 1 \in 1 .. Len(chosen)
                                    /\ chosen[applied[n] + 1] \in Entry
                                    /\ chosen[applied[n] + 1].bucket \in Bucket
         /\ doing[n] # "idle" => /\ applied[n] \in 1 .. Len(chosen)
                                 /\ chosen[applied[n]] \in Entry
                                 /\ chosen[applied[n]].bucket \in Bucket
<1>1. /\ chosen \in Seq(Entry) /\ Len(chosen) \in Nat /\ held[n] \in Nat /\ applied[n] \in Nat
      /\ held[n] <= Len(chosen) /\ applied[n] <= Len(chosen)
      /\ doing[n] # "idle" => applied[n] >= 1
  BY DEF ClusterInv, ClusterTypeOK, LogTypeOK, NodeTypeOK, Behind
<1>2. \A k \in 1 .. Len(chosen) : chosen[k] \in Entry /\ chosen[k].bucket \in Bucket
  <2>1. \A k \in 1 .. Len(chosen) : chosen[k] \in Entry
    BY <1>1
  <2> QED BY <2>1 DEF Entry
<1>3. /\ applied[n] < held[n] => applied[n] + 1 \in 1 .. Len(chosen)
      /\ doing[n] # "idle" => applied[n] \in 1 .. Len(chosen)
  BY <1>1
<1> QED BY <1>1, <1>2, <1>3

LEMMA BusyType == ASSUME ClusterInv, NEW n \in Node PROVE Applying(n) \in SUBSET Bucket
BY EntryAt DEF Applying

LEMMA NodeKeeps ==
  ASSUME ClusterInv, NEW n \in Node,
         \/ ApplyBegin(n) \/ ApplyEnd(n) \/ ApplyFails(n) \/ BuildSnapshot(n) \/ Replicate(n)
         \/ InstallSnapshot(n) \/ Elect(n) \/ Crash(n) \/ Cut(n) \/ Return(n)
  PROVE  ClusterInv'
<1> DEFINE L == Len(chosen)
<1>0. L \in Nat /\ NodeTypeOK /\ Behind
  BY LogLength DEF ClusterInv, ClusterTypeOK
<1>a. \A m \in Node : /\ held[m] <= L /\ applied[m] <= L /\ snap[m].upto <= L
                      /\ doing[m] # "idle" => applied[m] >= 1
  BY <1>0 DEF Behind
<1>b. ASSUME UNCHANGED chosen,
             \A m \in Node : /\ held'[m] <= L /\ applied'[m] <= L /\ snap'[m].upto <= L
                             /\ doing'[m] # "idle" => applied'[m] >= 1
      PROVE  Behind'
  BY <1>b DEF Behind
<1>c. /\ applied[n] \in Nat /\ held[n] \in Nat
      /\ applied[n] < held[n] => applied[n] + 1 <= L /\ applied[n] + 1 >= 1
  BY EntryAt
<1> HIDE DEF L
<1>1. CASE ApplyBegin(n)
  <2>1. /\ UNCHANGED <<chosen, held, machine, snap, lost, up, leader, led, pending,
                       local, req, ops>>
        /\ applied[n] < held[n] /\ applied' = [applied EXCEPT ![n] = @ + 1]
        /\ \E d \in {"work", "pass"} : doing' = [doing EXCEPT ![n] = d]
    BY <1>1 DEF ApplyBegin, histVars
  <2>2. NodeTypeOK'
    BY <1>0, <1>c, <2>1 DEF NodeTypeOK
  <2>3. Behind'
    BY <1>0, <1>a, <1>b, <1>c, <2>1 DEF NodeTypeOK
  <2> QED BY <2>1, <2>2, <2>3, QuietGroupKeeps
<1>2. CASE ApplyEnd(n)
  <2> DEFINE m == chosen[applied[n]]
  <2>1. /\ UNCHANGED <<chosen, held, applied, snap, up, leader, led, pending,
                       local, req, ops>>
        /\ doing[n] # "idle" /\ doing' = [doing EXCEPT ![n] = "idle"]
        /\ machine' = [machine EXCEPT ![n] = Change(m, @)]
        /\ lost' = [lost EXCEPT ![n] = @ \ {m.bucket}]
    BY <1>2 DEF ApplyEnd
  <2>2. m.bucket \in Bucket
    BY <2>1, EntryAt
  <2> HIDE DEF m
  <2>3. Change(m, machine[n]) \in SUBSET Bucket
    BY <1>0, <2>2 DEF Change, NodeTypeOK
  <2>4. NodeTypeOK'
    BY <1>0, <2>1, <2>3 DEF NodeTypeOK
  <2>5. Behind'
    BY <1>0, <1>a, <1>b, <2>1 DEF NodeTypeOK
  <2> QED BY <2>1, <2>4, <2>5, QuietGroupKeeps
<1>3. CASE ApplyFails(n)
  <2>1. /\ UNCHANGED <<chosen, held, machine, snap, lost, leader, led, pending,
                       local, req, ops>>
        /\ \/ applied[n] < held[n] /\ applied' = [applied EXCEPT ![n] = @ + 1]
           \/ UNCHANGED applied
        /\ up' = [up EXCEPT ![n] = "halted"] /\ doing' = [doing EXCEPT ![n] = "idle"]
    BY <1>3 DEF ApplyFails
  <2>2. NodeTypeOK'
    BY <1>0, <1>c, <2>1 DEF NodeTypeOK
  <2>3. Behind'
    BY <1>0, <1>a, <1>b, <1>c, <2>1 DEF NodeTypeOK
  <2> QED BY <2>1, <2>2, <2>3, QuietGroupKeeps
<1>4. CASE BuildSnapshot(n)
  <2> DEFINE new == [upto |-> applied[n], buckets |-> machine[n], lost |-> lost[n] \union Applying(n)]
  <2>1. /\ UNCHANGED <<chosen, held, applied, machine, doing, lost, up, leader, led, pending,
                       local, req, ops>>
        /\ snap' = [snap EXCEPT ![n] = new]
    BY <1>4 DEF BuildSnapshot
  <2>2. new \in Snapshot /\ new.upto = applied[n]
    BY <1>0, BusyType DEF NodeTypeOK, Snapshot
  <2> HIDE DEF new
  <2>3. NodeTypeOK'
    BY <1>0, <2>1, <2>2 DEF NodeTypeOK
  <2>4. Behind'
    BY <1>0, <1>a, <1>b, <2>1, <2>2 DEF NodeTypeOK
  <2> QED BY <2>1, <2>3, <2>4, QuietGroupKeeps
<1>5. CASE Replicate(n)
  <2>1. /\ UNCHANGED <<chosen, applied, machine, snap, doing, lost, up, leader, led, pending,
                       local, req, ops>>
        /\ leader \in Node /\ held[n] < held[leader]
        /\ held' = [held EXCEPT ![n] = @ + 1]
    BY <1>5 DEF Replicate, Alive, histVars
  <2>2. held[n] \in Nat /\ held[leader] \in Nat
    BY <1>0, <2>1 DEF NodeTypeOK
  <2>3. held[n] + 1 <= L
    BY <2>1, <2>2, <1>0, <1>a
  <2>4. NodeTypeOK'
    BY <1>0, <2>1, <2>2 DEF NodeTypeOK
  <2>5. Behind'
    BY <1>0, <1>a, <1>b, <2>1, <2>3 DEF NodeTypeOK
  <2> QED BY <2>1, <2>4, <2>5, QuietGroupKeeps
<1>6. CASE InstallSnapshot(n)
  <2> DEFINE new == snap[leader]
  <2>1. /\ UNCHANGED <<chosen, doing, up, leader, led, pending, local, req, ops>>
        /\ leader \in Node /\ doing[n] = "idle"
        /\ held' = [held EXCEPT ![n] = new.upto]
        /\ applied' = [applied EXCEPT ![n] = new.upto]
        /\ machine' = [machine EXCEPT ![n] = new.buckets]
        /\ snap' = [snap EXCEPT ![n] = new]
        /\ lost' = [lost EXCEPT ![n] = new.lost]
    BY <1>6 DEF InstallSnapshot, Alive, Replace
  <2>2. new \in Snapshot /\ new.upto <= L
    BY <1>0, <1>a, <2>1 DEF NodeTypeOK
  <2> HIDE DEF new
  <2>3. NodeTypeOK'
    BY <1>0, <2>1, <2>2 DEF NodeTypeOK, Snapshot
  <2>4. Behind'
    BY <1>0, <1>a, <1>b, <2>1, <2>2 DEF NodeTypeOK
  <2> QED BY <2>1, <2>3, <2>4, QuietGroupKeeps
<1>7. CASE Elect(n)
  <2>1. /\ UNCHANGED <<chosen, held, applied, machine, snap, doing, lost, up, local, req, ops>>
        /\ leader' = n /\ led' = led \union {n} /\ pending' \subseteq pending
    BY <1>7 DEF Elect, histVars
  <2>2. NodeTypeOK' /\ Behind'
    BY <1>0, <1>a, <1>b, <2>1 DEF NodeTypeOK
  <2> QED BY <2>1, <2>2, QuietGroupKeeps
<1>8. CASE Crash(n)
  <2>1. /\ pending' \subseteq pending /\ UNCHANGED <<chosen, led, local, req, ops>>
        /\ up' = [up EXCEPT ![n] = "down"]
        /\ held' = [held EXCEPT ![n] = 0] /\ applied' = [applied EXCEPT ![n] = 0]
        /\ machine' = [machine EXCEPT ![n] = {}]
        /\ snap' = [snap EXCEPT ![n] = NoSnapshot]
        /\ doing' = [doing EXCEPT ![n] = "idle"] /\ lost' = [lost EXCEPT ![n] = {}]
        /\ leader' \in {leader, NoNode}
    BY <1>8 DEF Crash
  <2>2. NoSnapshot \in Snapshot /\ NoSnapshot.upto <= L
    BY <1>0 DEF NoSnapshot, Snapshot
  <2>3. NodeTypeOK'
    BY <1>0, <2>1, <2>2 DEF NodeTypeOK
  <2>4. Behind'
    BY <1>0, <1>a, <1>b, <2>1, <2>2 DEF NodeTypeOK
  <2> QED BY <2>1, <2>3, <2>4, QuietGroupKeeps
<1>9. CASE Cut(n) \/ Return(n)
  <2>1. /\ UNCHANGED <<chosen, held, applied, machine, snap, doing, lost, leader, led, pending,
                       local, req, ops>>
        /\ up' = [up EXCEPT ![n] = "cut"] \/ up' = [up EXCEPT ![n] = "up"]
    BY <1>9 DEF Cut, Return, histVars
  <2>2. NodeTypeOK' /\ Behind'
    BY <1>0, <1>a, <1>b, <2>1 DEF NodeTypeOK
  <2> QED BY <2>1, <2>2, QuietGroupKeeps
<1> QED BY <1>1, <1>2, <1>3, <1>4, <1>5, <1>6, <1>7, <1>8, <1>9

LEMMA CommitKeeps ==
  ASSUME ClusterInv, NEW m \in pending, Commit(m) PROVE ClusterInv'
<1>1. /\ m \in Entry /\ chosen \in Seq(Entry) /\ chosen' = Append(chosen, m)
      /\ pending' = pending \ {m}
      /\ UNCHANGED <<applied, machine, snap, doing, lost, up, leader, led, local, req, ops>>
  BY DEF Commit, histVars, ClusterInv, ClusterTypeOK, LogTypeOK
<1> DEFINE L == Len(chosen)
<1>2. /\ chosen' \in Seq(Entry) /\ Len(chosen') = L + 1 /\ L \in Nat
      /\ \A k \in 1 .. L : chosen'[k] = chosen[k]
      /\ chosen'[L + 1] = m
  BY <1>1
<1>3. PICK Q \in SUBSET Alive :
        held' = [n \in Node |-> IF n \in Q THEN L + 1 ELSE held[n]]
  BY DEF Commit
<1>4. Entries' \subseteq Entries
  BY <1>1, <1>2 DEF Entries
<1>5. \A n \in Node : /\ held[n] <= L /\ applied[n] <= L /\ snap[n].upto <= L
                      /\ doing[n] # "idle" => applied[n] >= 1
  BY DEF ClusterInv, Behind
<1> HIDE DEF L
<1>6. ClusterTypeOK'
  <2>1. NodeTypeOK'
    BY <1>1, <1>2, <1>3 DEF ClusterInv, ClusterTypeOK, NodeTypeOK
  <2>2. LogTypeOK' /\ RequestTypeOK'
    BY <1>1, <1>2 DEF ClusterInv, ClusterTypeOK, LogTypeOK, RequestTypeOK
  <2> QED BY <2>1, <2>2 DEF ClusterTypeOK
<1>7. Behind'
  <2> SUFFICES ASSUME NEW n \in Node
               PROVE  /\ held'[n] <= L + 1 /\ applied[n] <= L + 1 /\ snap[n].upto <= L + 1
                      /\ doing[n] # "idle" => applied[n] >= 1
    BY <1>1, <1>2 DEF Behind
  <2>1. held[n] \in Nat /\ applied[n] \in Nat /\ snap[n].upto \in Nat
    BY DEF ClusterInv, ClusterTypeOK, NodeTypeOK, Snapshot
  <2> QED BY <2>1, <1>2, <1>3, <1>5
<1>8. \A k \in 1 .. L : k \in 1 .. Len(chosen')
  BY <1>2
<1> QED BY <1>1, <1>2, <1>4, <1>6, <1>7, <1>8, GroupKeeps DEF L

-----------------------------------------------------------------------------
(* Steps of a request.                                                      *)

\* A request goes on with the same question, or is answered.
LEMMA StepKeeps ==
  ASSUME ClusterInv, NEW s \in Server, NEW r \in Request, Step(s, r),
         UNCHANGED <<raftVars, lost, local, ops>>,
         r.pc # "idle",
         Active(r) => /\ Active(req[s])
                      /\ r.id = req[s].id /\ r.op = req[s].op /\ r.bucket = req[s].bucket,
         r.pc \in {"send", "wait"} => r.to \in Node,
         r.pc = "local" => \E k \in 1 .. Len(chosen) : chosen[k].id = r.id
  PROVE  ClusterInv'
<1> DEFINE new == IF r.pc \in {"done", "failed"} THEN [NoRequest EXCEPT !.pc = r.pc] ELSE r
<1>1. new \in Request /\ (Active(new) => new = r) /\ (r.pc \notin {"done", "failed"} => new = r)
      /\ new.pc = r.pc
  BY NoRequestType DEF Request, Active
<1>2. req' = [req EXCEPT ![s] = new]
  BY DEF Step
<1> HIDE DEF new
<1> USE DEF ClusterInv, Requests
<1>3. req'[s] = new /\ \A t \in Server \ {s} : req'[t] = req[t]
  BY <1>2 DEF ClusterTypeOK, RequestTypeOK
<1>4. ClusterTypeOK' /\ Behind'
  <2>1. RequestTypeOK'
    BY <1>1, <1>2 DEF ClusterTypeOK, RequestTypeOK
  <2> QED BY <2>1 DEF ClusterTypeOK, LogTypeOK, NodeTypeOK, Behind, raftVars
<1>5. Entries' = Entries /\ UNCHANGED chosen
  BY DEF Entries, raftVars
<1>6. Numbered'
  BY <1>5 DEF Numbered
<1>7. Own'
  BY <1>1, <1>3, <1>5 DEF Own, Active
<1>8. Addressed' /\ Agreed'
  BY <1>1, <1>3, <1>5 DEF Addressed, Agreed, Active
<1>9. LocalAfterCommit'
  BY <1>5 DEF LocalAfterCommit
<1> QED BY <1>4, <1>6, <1>7, <1>8, <1>9

LEMMA StartKeeps ==
  ASSUME ClusterInv, NEW s \in Server, NEW op \in Ops, NEW b \in Bucket, Start(s, op, b)
  PROVE  ClusterInv'
<1> DEFINE r == [NoRequest EXCEPT !.pc = "find", !.op = op, !.bucket = b, !.id = <<s, ops>>]
<1> USE DEF ClusterInv, Requests
<1>1. /\ r \in Request /\ r.pc = "find" /\ r.op = op /\ r.bucket = b /\ r.id = <<s, ops>>
  BY NoRequestType DEF Request, ClusterTypeOK, RequestTypeOK
<1>2. ops' = ops + 1 /\ UNCHANGED <<raftVars, lost, local>>
  BY DEF Start, histVars
<1>3. Step(s, r)
  BY DEF Start
<1> HIDE DEF r
<1>4. req' = [req EXCEPT ![s] = r]
  BY <1>1, <1>3 DEF Step
<1>5. req'[s] = r /\ \A t \in Server \ {s} : req'[t] = req[t]
  BY <1>4 DEF ClusterTypeOK, RequestTypeOK
<1>6. ClusterTypeOK' /\ Behind'
  <2>1. RequestTypeOK'
    BY <1>1, <1>2, <1>4 DEF ClusterTypeOK, RequestTypeOK
  <2> QED BY <2>1, <1>2 DEF ClusterTypeOK, LogTypeOK, NodeTypeOK, Behind, raftVars
<1>7. Entries' = Entries /\ UNCHANGED chosen /\ Entries \subseteq Entry
  BY <1>2 DEF Entries, raftVars, ClusterTypeOK, LogTypeOK
<1>8. \A m \in Entries : m.id[2] \in Nat /\ m.id[2] < ops
  BY <1>7 DEF Numbered, Entry
<1>9. Numbered'
  BY <1>2, <1>7, <1>8 DEF Numbered, ClusterTypeOK, RequestTypeOK
<1>10. Own'
  <2> SUFFICES ASSUME NEW t \in Server, Active(req'[t])
               PROVE  /\ req'[t].id \in {t} \X Nat /\ req'[t].id[2] < ops'
                      /\ \A m \in Entries : m.id = req'[t].id =>
                           m.op = req'[t].op /\ m.bucket = req'[t].bucket
    BY <1>7 DEF Own
  <2>1. CASE t = s
    <3>1. req'[t].id = <<s, ops>> /\ ops \in Nat
      BY <2>1, <1>1, <1>5 DEF ClusterTypeOK, RequestTypeOK
    <3>2. \A m \in Entries : m.id # <<s, ops>>
      BY <1>8, <3>1
    <3> QED BY <2>1, <3>1, <3>2, <1>2
  <2>2. CASE t # s
    <3>1. req'[t] = req[t] /\ req[t].id \in {t} \X Nat /\ req[t].id[2] < ops
      BY <2>2, <1>5 DEF Own
    <3> QED BY <3>1, <1>2 DEF Own, ClusterTypeOK, RequestTypeOK
  <2> QED BY <2>1, <2>2
<1>11. Addressed' /\ Agreed' /\ LocalAfterCommit'
  BY <1>1, <1>2, <1>5, <1>7 DEF Addressed, Agreed, LocalAfterCommit
<1> QED BY <1>6, <1>9, <1>10, <1>11

LEMMA FindLeaderKeeps == ASSUME ClusterInv, NEW s \in Server, FindLeader(s) PROVE ClusterInv'
<1> DEFINE r == req[s]
           p == Peers[r.i]
<1>1. r \in Request /\ r.pc = "find" /\ UNCHANGED <<raftVars, lost, local, ops>>
  BY DEF FindLeader, histVars, ClusterInv, ClusterTypeOK, RequestTypeOK
<1>2. CASE /\ r.i > Len(Peers)
           /\ Step(s, IF r.hint = NoNode THEN [r EXCEPT !.pc = "failed"]
                      ELSE [r EXCEPT !.to = r.hint, !.pc = "send"])
  <2> DEFINE q == IF r.hint = NoNode THEN [r EXCEPT !.pc = "failed"]
                  ELSE [r EXCEPT !.to = r.hint, !.pc = "send"]
  <2>1. /\ q \in Request /\ q.pc \in {"failed", "send"} /\ (q.pc = "send" => q.to \in Node)
        /\ q.id = r.id /\ q.op = r.op /\ q.bucket = r.bucket
    BY <1>1 DEF Request
  <2>2. Step(s, q)
    BY <1>2
  <2> HIDE DEF q
  <2> QED BY <1>1, <2>1, <2>2, StepKeeps DEF Active
<1>3. ASSUME r.i <= Len(Peers), Answers(p), NEW x \in Names(p),
             Step(s, IF x = p THEN [r EXCEPT !.to = p, !.pc = "send"]
                     ELSE [r EXCEPT !.i = @ + 1, !.hint = IF @ = NoNode THEN x ELSE @])
      PROVE  ClusterInv'
  <2> DEFINE q == IF x = p THEN [r EXCEPT !.to = p, !.pc = "send"]
                  ELSE [r EXCEPT !.i = @ + 1, !.hint = IF @ = NoNode THEN x ELSE @]
  <2>1. r.i \in 1 .. Len(Peers)
    BY <1>1, <1>3, ConstantsOK DEF Request
  <2>2. p \in Node
    BY <2>1, ConstantsOK
  <2>3. x \in Node \union {NoNode}
    BY <2>2, <1>3 DEF Names, ClusterInv, ClusterTypeOK, NodeTypeOK
  <2>4. /\ q \in Request /\ q.pc \in {"find", "send"} /\ (q.pc = "send" => q.to \in Node)
        /\ q.id = r.id /\ q.op = r.op /\ q.bucket = r.bucket
    <3> HIDE DEF p
    <3>1. CASE x = p
      BY <3>1, <1>1, <2>2 DEF Request
    <3>2. CASE x # p
      <4>1. r.i + 1 \in Nat \ {0} /\ (IF r.hint = NoNode THEN x ELSE r.hint) \in Node \union {NoNode}
        BY <1>1, <2>3 DEF Request
      <4>2. q = [r EXCEPT !.i = r.i + 1, !.hint = IF r.hint = NoNode THEN x ELSE r.hint]
        BY <3>2
      <4> QED BY <4>1, <4>2, <1>1 DEF Request
    <3> QED BY <3>1, <3>2
  <2>5. Step(s, q)
    BY <1>3
  <2> HIDE DEF q
  <2> QED BY <1>1, <2>4, <2>5, StepKeeps DEF Active
<1>4. CASE Step(s, [r EXCEPT !.i = @ + 1])
  <2> DEFINE q == [r EXCEPT !.i = @ + 1]
  <2>1. q \in Request /\ q.pc = "find" /\ q.id = r.id /\ q.op = r.op /\ q.bucket = r.bucket
    BY <1>1 DEF Request
  <2>2. Step(s, q)
    BY <1>4
  <2> HIDE DEF q
  <2> QED BY <1>1, <2>1, <2>2, StepKeeps DEF Active
<1> QED BY <1>2, <1>3, <1>4 DEF FindLeader

\* A proposal asks for what its request asks for, and is no other request's.
LEMMA ProposeKeeps == ASSUME ClusterInv, NEW s \in Server, Propose(s) PROVE ClusterInv'
<1> DEFINE r == req[s]
           ok == Reachable(r.to) /\ r.to = leader
           m == [op |-> r.op, bucket |-> r.bucket, id |-> r.id]
           q == [r EXCEPT !.pc = IF ok THEN "wait" ELSE "failed"]
<1> USE DEF ClusterInv, Requests
<1>1. /\ r \in Request /\ r.pc = "send" /\ r.to \in Node
      /\ r.id \in {s} \X Nat /\ r.id[2] < ops
  BY DEF Propose, ClusterTypeOK, RequestTypeOK, Addressed, Own, Active
<1>2. CASE ~ok
  <2>1. q \in Request /\ q.pc = "failed"
    BY <1>1, <1>2 DEF Request
  <2>2. Step(s, q) /\ UNCHANGED <<raftVars, lost, local, ops>>
    BY <1>2 DEF Propose, raftVars, histVars
  <2> HIDE DEF q
  <2> QED BY <2>1, <2>2, StepKeeps DEF Active
<1>3. CASE ok
  <2>1. /\ q \in Request /\ q.pc = "wait" /\ q.to \in Node
        /\ q.id = r.id /\ q.op = r.op /\ q.bucket = r.bucket
    BY <1>1, <1>3 DEF Request
  <2>2. /\ Step(s, q) /\ pending' = pending \union {m}
        /\ UNCHANGED <<chosen, held, applied, machine, snap, doing, lost, up, leader, led>>
        /\ UNCHANGED <<local, ops>>
    BY <1>3 DEF Propose, histVars
  <2>3. m \in Entry /\ m.id = r.id /\ m.op = r.op /\ m.bucket = r.bucket
    BY <1>1 DEF Entry, Request
  <2> HIDE DEF q, m
  <2>4. req' = [req EXCEPT ![s] = q]
    BY <2>1, <2>2 DEF Step
  <2>5. req'[s] = q /\ \A t \in Server \ {s} : req'[t] = req[t]
    BY <2>4 DEF ClusterTypeOK, RequestTypeOK
  <2>6. ClusterTypeOK' /\ Behind'
    <3>1. RequestTypeOK'
      BY <2>1, <2>2, <2>4 DEF ClusterTypeOK, RequestTypeOK
    <3> QED BY <3>1, <2>2, <2>3 DEF ClusterTypeOK, LogTypeOK, NodeTypeOK, Behind
  <2>7. Entries' = Entries \union {m}
    BY <2>2 DEF Entries
  <2>8. Numbered'
    BY <1>1, <2>2, <2>3, <2>7 DEF Numbered
  <2>9. Own'
    <3> SUFFICES ASSUME NEW t \in Server, Active(req'[t])
                 PROVE  /\ req'[t].id \in {t} \X Nat /\ req'[t].id[2] < ops
                        /\ \A e \in Entries \union {m} : e.id = req'[t].id =>
                             e.op = req'[t].op /\ e.bucket = req'[t].bucket
      BY <2>2, <2>7 DEF Own
    <3>1. CASE t = s
      BY <3>1, <1>1, <2>1, <2>3, <2>5 DEF Own, Active
    <3>2. CASE t # s
      <4>1. req'[t] = req[t] /\ req[t].id \in {t} \X Nat /\ req[t].id[2] < ops
        BY <3>2, <2>5 DEF Own
      <4>2. m.id # req[t].id
        BY <4>1, <3>2, <1>1, <2>3
      <4> QED BY <4>1, <4>2 DEF Own
    <3> QED BY <3>1, <3>2
  <2>10. Addressed' /\ Agreed' /\ LocalAfterCommit'
    BY <2>1, <2>2, <2>5 DEF Addressed, Agreed, LocalAfterCommit
  <2> QED BY <2>6, <2>8, <2>9, <2>10
<1> QED BY <1>2, <1>3

LEMMA AnswerKeeps ==
  ASSUME ClusterInv, NEW s \in Server, Accepted(s) \/ GiveUp(s) PROVE ClusterInv'
<1> DEFINE r == req[s]
<1>1. /\ r \in Request /\ r.pc = "wait" /\ r.to \in Node
      /\ UNCHANGED <<raftVars, lost, local, ops>>
  BY DEF Accepted, GiveUp, histVars, ClusterInv, Requests, ClusterTypeOK, RequestTypeOK, Addressed
<1>2. CASE Accepted(s)
  <2> DEFINE q == [r EXCEPT !.pc = "local"]
  <2>1. q \in Request /\ q.pc = "local" /\ q.id = r.id /\ q.op = r.op /\ q.bucket = r.bucket
    BY <1>1 DEF Request
  <2>2. PICK k \in 1 .. Finished(r.to) : chosen[k].id = r.id
    BY <1>2 DEF Accepted
  <2>3. k \in 1 .. Len(chosen)
    <3>1. applied[r.to] \in Nat /\ Len(chosen) \in Nat /\ Finished(r.to) <= Len(chosen)
          /\ Finished(r.to) \in Int
      BY <1>1, LogLength DEF ClusterInv, ClusterTypeOK, NodeTypeOK, Behind, Finished
    <3> QED BY <2>2, <3>1
  <2>4. Step(s, q)
    BY <1>2 DEF Accepted
  <2> HIDE DEF q
  <2> QED BY <1>1, <2>1, <2>2, <2>3, <2>4, StepKeeps DEF Active
<1>3. CASE GiveUp(s)
  <2> DEFINE q == [r EXCEPT !.pc = "failed"]
  <2>1. q \in Request /\ q.pc = "failed"
    BY <1>1 DEF Request
  <2>2. Step(s, q)
    BY <1>3 DEF GiveUp, Abandon
  <2> HIDE DEF q
  <2> QED BY <1>1, <2>1, <2>2, StepKeeps DEF Active
<1> QED BY <1>2, <1>3

\* The server's own filesystem changes as its committed entry says.
LEMMA LocalDoneKeeps ==
  ASSUME ClusterInv, NEW s \in Server, req[s].pc = "local",
         local' = [local EXCEPT ![s] = Change(req[s], @)],
         Step(s, [req[s] EXCEPT !.pc = "done"]), UNCHANGED <<raftVars, lost, ops>>
  PROVE  ClusterInv'
<1> DEFINE r == req[s]
           q == [NoRequest EXCEPT !.pc = "done"]
<1> USE DEF ClusterInv, Requests
<1>1. r \in Request /\ r.pc = "local"
  BY DEF ClusterTypeOK, RequestTypeOK
<1>2. q \in Request /\ q.pc = "done"
  BY NoRequestType DEF Request
<1>3. /\ req' = [req EXCEPT ![s] = q] /\ UNCHANGED <<raftVars, lost, ops>>
      /\ local' = [local EXCEPT ![s] = Change(r, @)]
  BY <1>1 DEF Step, Request
<1> HIDE DEF q
<1>4. Change(r, local[s]) \in SUBSET Bucket /\ Change(r, local[s]) \subseteq local[s] \union {r.bucket}
      /\ (r.op # "create" => Change(r, local[s]) \subseteq local[s])
  BY <1>1 DEF Change, ClusterTypeOK, RequestTypeOK, Request
<1>5. /\ req'[s] = q /\ \A t \in Server \ {s} : req'[t] = req[t] /\ local'[t] = local[t]
      /\ local'[s] = Change(r, local[s])
  BY <1>3 DEF ClusterTypeOK, RequestTypeOK
<1>6. ClusterTypeOK' /\ Behind'
  <2>1. RequestTypeOK'
    BY <1>2, <1>3, <1>4 DEF ClusterTypeOK, RequestTypeOK, raftVars
  <2> QED BY <2>1, <1>3 DEF ClusterTypeOK, LogTypeOK, NodeTypeOK, Behind, raftVars
<1>7. Entries' = Entries /\ UNCHANGED chosen
  BY <1>3 DEF Entries, raftVars
<1>8. Numbered' /\ Own' /\ Addressed' /\ Agreed'
  BY <1>2, <1>3, <1>5, <1>7 DEF Numbered, Own, Addressed, Agreed, Active
<1>9. PICK k \in 1 .. Len(chosen) : chosen[k].id = r.id
  BY <1>1 DEF Agreed
<1>10. chosen[k].op = r.op /\ chosen[k].bucket = r.bucket /\ chosen[k].id[1] = s
  <2>1. chosen[k] \in Entries
    BY <1>9 DEF Entries
  <2>2. r.id \in {s} \X Nat
    BY <1>1 DEF Own, Active
  <2> QED BY <1>1, <1>9, <2>1, <2>2 DEF Own, Active
<1>11. LocalAfterCommit'
  <2> SUFFICES ASSUME NEW t \in Server, NEW b \in local'[t]
               PROVE  \E j \in 1 .. Len(chosen) :
                        chosen[j].op = "create" /\ chosen[j].bucket = b /\ chosen[j].id[1] = t
    BY <1>7 DEF LocalAfterCommit
  <2>1. CASE b \in local[t]
    BY <2>1 DEF LocalAfterCommit
  <2>2. CASE b \notin local[t]
    <3>1. t = s /\ b = r.bucket /\ r.op = "create"
      BY <2>2, <1>4, <1>5
    <3> QED BY <3>1, <1>9, <1>10
  <2> QED BY <2>1, <2>2
<1> QED BY <1>6, <1>8, <1>11

LEMMA LocalKeeps == ASSUME ClusterInv, NEW s \in Server, Local(s) PROVE ClusterInv'
<1> DEFINE q == [req[s] EXCEPT !.pc = "failed"]
<1>1. req[s] \in Request /\ req[s].pc = "local" /\ UNCHANGED <<raftVars, lost, ops>>
  BY DEF Local, histVars, ClusterInv, ClusterTypeOK, RequestTypeOK
<1>2. q \in Request /\ q.pc = "failed"
  BY <1>1 DEF Request
<1>3. CASE Step(s, q) /\ UNCHANGED local
  <2> HIDE DEF q
  <2> QED BY <1>1, <1>2, <1>3, StepKeeps DEF Active
<1> QED BY <1>1, <1>3, LocalDoneKeeps DEF Local

LEMMA NextCluster == ClusterInv /\ [ClusterNext]_clusterVars => ClusterInv'
<1> SUFFICES ASSUME ClusterInv, [ClusterNext]_clusterVars PROVE ClusterInv'
  OBVIOUS
<1>1. CASE UNCHANGED clusterVars
  <2>1. /\ UNCHANGED <<chosen, held, applied, machine, snap, doing, lost, up, leader>>
        /\ UNCHANGED <<led, pending, local, req, ops>>
    BY <1>1 DEF clusterVars, raftVars, histVars
  <2>2. NodeTypeOK' /\ Behind'
    BY <2>1 DEF ClusterInv, ClusterTypeOK, NodeTypeOK, Behind
  <2> QED BY <2>1, <2>2, QuietGroupKeeps
<1>2. CASE ClusterNext
  BY <1>2, NodeKeeps, CommitKeeps, StartKeeps, FindLeaderKeeps, ProposeKeeps, AnswerKeeps,
     LocalKeeps DEF ClusterNext
<1> QED BY <1>1, <1>2

\* Through timeouts, lost leaders, lost proposals and nodes that forget, a bucket
\* is in a server's filesystem only after the storage group committed its creation
\* at that server's request (ClusterMetadataStorage, StorageRaftClient).
THEOREM NoLocalBucketUncommitted == ClusterSpec => []LocalAfterCommit
<1>1. ClusterInv => LocalAfterCommit
  BY DEF ClusterInv, Requests
<1> QED BY <1>1, InitCluster, NextCluster, PTL DEF ClusterSpec

-----------------------------------------------------------------------------
(* What the nodes hold.  A node that runs, or will run again, has the state *)
(* machine its finished entries make, apart from the buckets its snapshot   *)
(* lost; so has every snapshot.  The disk has the directories of the log    *)
(* for every bucket an applied entry is about and the node is not working   *)
(* at, knows no bucket the log does not mention, and lacks a `.bucket.json' *)
(* only where a node is, or was, in the middle of something.                *)

About(b, k) == \E j \in 1 .. k : chosen[j].bucket = b
Working(n) == IF doing[n] = "work" THEN {chosen[applied[n]].bucket} ELSE {}

DiskTypeOK ==
  /\ files \in [Node -> [Bucket -> {"none", "bare", "whole"}]]
  /\ skipped \in [Node -> SUBSET Bucket] /\ cutoff \in [Node -> SUBSET Bucket]
Machines ==
  \A n \in Node : up[n] # "halted" =>
    \A b \in Bucket \ lost[n] : b \in machine[n] <=> b \in After(Finished(n))
Snapshots ==
  \A n \in Node : \A b \in Bucket \ snap[n].lost :
    b \in snap[n].buckets <=> b \in After(snap[n].upto)
InOrder == \A n \in Node : applied[n] <= held[n]
Known == \A n \in Node : \A b \in Bucket : files[n][b] # "none" => About(b, Len(chosen))
Bare ==
  \A n \in Node : \A b \in Bucket :
    files[n][b] = "bare" => b \in cutoff[n] \union Working(n)
Disks ==
  \A n \in Node : \A b \in Bucket :
    up[n] # "halted" /\ b \notin skipped[n] \union Working(n) /\ About(b, applied[n]) =>
      (files[n][b] # "none" <=> b \in After(applied[n]))
StoreInv ==
  ClusterInv /\ DiskTypeOK /\ Machines /\ Snapshots /\ InOrder /\ Known /\ Bare /\ Disks

\* One more entry makes one more change.
LEMMA AfterStep ==
  ASSUME LogTypeOK, NEW k \in Nat, k + 1 <= Len(chosen)
  PROVE  /\ chosen[k + 1] \in Entry
         /\ After(k + 1) = Change(chosen[k + 1], After(k))
<1> DEFINE m == chosen[k + 1]
<1>1. chosen \in Seq(Entry) /\ Len(chosen) \in Nat /\ k + 1 \in 1 .. Len(chosen)
  BY DEF LogTypeOK
<1>2. m \in Entry /\ m.op \in {"create", "delete"} /\ m.bucket \in Bucket
  <2>1. m \in Entry
    BY <1>1
  <2> QED BY <2>1 DEF Entry, Ops
<1>3. 1 .. k + 1 = (1 .. k) \union {k + 1} /\ k + 1 + 1 .. k + 1 = {} /\ k + 1 \notin 1 .. k
  OBVIOUS
<1>4. \A j \in 1 .. k : j + 1 .. k + 1 = (j + 1 .. k) \union {k + 1}
  OBVIOUS
<1> HIDE DEF m
<1>5. CASE m.op = "create"
  <2>1. After(k + 1) = After(k) \union {m.bucket}
    BY <1>2, <1>3, <1>4, <1>5 DEF After, m
  <2> QED BY <2>1, <1>2, <1>5 DEF Change, m
<1>6. CASE m.op = "delete"
  <2>1. After(k + 1) = After(k) \ {m.bucket}
    BY <1>2, <1>3, <1>4, <1>6 DEF After, m
  <2> QED BY <2>1, <1>2, <1>6 DEF Change, m
<1> QED BY <1>2, <1>5, <1>6

\* Committing leaves what the entries before it make.
LEMMA AfterAppend ==
  ASSUME LogTypeOK, NEW m, chosen' = Append(chosen, m), NEW k \in Nat, k <= Len(chosen)
  PROVE  After(k)' = After(k) /\ \A b \in Bucket : About(b, k)' <=> About(b, k)
<1>1. Len(chosen) \in Nat /\ \A j \in 1 .. Len(chosen) : chosen'[j] = chosen[j]
  BY DEF LogTypeOK
<1>2. \A j \in 1 .. k : chosen'[j] = chosen[j]
  BY <1>1
<1>3. \A j \in 1 .. k : \A i \in j + 1 .. k : chosen'[i] = chosen[i]
  BY <1>2
<1> QED BY <1>2, <1>3 DEF After, About

LEMMA AfterNone == After(0) = {} /\ \A b \in Bucket : ~About(b, 0)
BY DEF After, About

\* A bucket that no entry from j + 1 to k is about is where it was after j.
LEMMA AfterQuiet ==
  ASSUME LogTypeOK, NEW j \in Nat, NEW k \in Nat, j <= k, NEW b \in Bucket,
         \A i \in j + 1 .. k : chosen[i].bucket # b
  PROVE  (b \in After(k) <=> b \in After(j)) /\ (About(b, k) => About(b, j))
<1>1. \A i \in 1 .. k : i \in 1 .. j \/ i \in j + 1 .. k
  OBVIOUS
<1>2. \A h \in 1 .. j : \A i \in h + 1 .. k : i \in h + 1 .. j \/ i \in j + 1 .. k
  OBVIOUS
<1>3. 1 .. j \subseteq 1 .. k /\ \A h \in 1 .. j : h + 1 .. j \subseteq h + 1 .. k
  OBVIOUS
<1> QED BY <1>1, <1>2, <1>3 DEF After, About

LEMMA StoreInit == ClusterInit => StoreInv
<1> SUFFICES ASSUME ClusterInit PROVE StoreInv
  OBVIOUS
<1>1. ClusterInv
  BY InitCluster
<1>2. DiskTypeOK /\ Machines /\ InOrder
  BY AfterNone DEF ClusterInit, DiskTypeOK, Machines, InOrder, Finished
<1>3. Snapshots
  BY AfterNone DEF ClusterInit, Snapshots, NoSnapshot
<1>4. Known /\ Bare /\ Disks
  BY AfterNone DEF ClusterInit, Known, Bare, Disks, Working
<1> QED BY <1>1, <1>2, <1>3, <1>4 DEF StoreInv

\* A step that leaves the log, the disks and what was applied.
LEMMA QuietStore ==
  ASSUME StoreInv, ClusterInv',
         UNCHANGED <<chosen, applied, machine, snap, files, doing, skipped, lost, cutoff>>,
         \A n \in Node : held'[n] >= held[n] /\ (up'[n] # "halted" => up[n] # "halted")
  PROVE  StoreInv'
<1> USE DEF StoreInv
<1>1. DiskTypeOK' /\ Machines' /\ Snapshots'
  BY DEF DiskTypeOK, Machines, Snapshots, After, Finished
<1>2. InOrder'
  <2>1. \A n \in Node : applied[n] \in Nat /\ held[n] \in Nat /\ held'[n] \in Nat
    BY DEF ClusterInv, ClusterTypeOK, NodeTypeOK
  <2> QED BY <2>1 DEF InOrder
<1>3. Known' /\ Bare'
  BY DEF Known, Bare, About, Working
<1>4. Disks'
  BY DEF Disks, After, About, Working
<1> QED BY <1>1, <1>2, <1>3, <1>4

\* The parts of the invariant while the log stays as it is, each next to the state
\* it speaks of.
LEMMA SameLog ==
  ASSUME UNCHANGED chosen
  PROVE  /\ Machines' <=> \A n \in Node : up'[n] # "halted" =>
              \A b \in Bucket \ lost'[n] : b \in machine'[n] <=> b \in After(Finished(n)')
         /\ Snapshots' <=> \A n \in Node : \A b \in Bucket \ snap'[n].lost :
              b \in snap'[n].buckets <=> b \in After(snap'[n].upto)
         /\ Known' <=> \A n \in Node : \A b \in Bucket :
              files'[n][b] # "none" => About(b, Len(chosen))
         /\ Disks' <=> \A n \in Node : \A b \in Bucket :
              up'[n] # "halted" /\ b \notin skipped'[n] \union Working(n)'
                /\ About(b, applied'[n]) =>
                (files'[n][b] # "none" <=> b \in After(applied'[n]))
<1>1. \A n \in Node : /\ After(Finished(n))' = After(Finished(n)')
                      /\ After(snap[n].upto)' = After(snap'[n].upto)
                      /\ After(applied[n])' = After(applied'[n])
                      /\ \A b \in Bucket : About(b, applied[n])' <=> About(b, applied'[n])
  BY DEF After, About
<1>2. \A b \in Bucket : About(b, Len(chosen))' <=> About(b, Len(chosen))
  BY DEF About
<1>3. Machines' <=> \A n \in Node : up'[n] # "halted" =>
        \A b \in Bucket \ lost'[n] : b \in machine'[n] <=> b \in After(Finished(n)')
  BY <1>1 DEF Machines
<1>4. Snapshots' <=> \A n \in Node : \A b \in Bucket \ snap'[n].lost :
        b \in snap'[n].buckets <=> b \in After(snap'[n].upto)
  BY <1>1 DEF Snapshots
<1>5. Known' <=> \A n \in Node : \A b \in Bucket :
        files'[n][b] # "none" => About(b, Len(chosen))
  BY <1>2 DEF Known
<1>6. Disks' <=> \A n \in Node : \A b \in Bucket :
        up'[n] # "halted" /\ b \notin skipped'[n] \union Working(n)'
          /\ About(b, applied'[n]) =>
          (files'[n][b] # "none" <=> b \in After(applied'[n]))
  BY <1>1 DEF Disks
<1> QED BY <1>3, <1>4, <1>5, <1>6

\* The types that the steps of a node need.
LEMMA StoreTypes ==
  ASSUME StoreInv
  PROVE  /\ LogTypeOK /\ Len(chosen) \in Nat
         /\ held \in [Node -> Nat] /\ applied \in [Node -> Nat]
         /\ doing \in [Node -> {"idle", "work", "pass"}]
         /\ up \in [Node -> {"up", "down", "cut", "halted"}]
         /\ machine \in [Node -> SUBSET Bucket] /\ lost \in [Node -> SUBSET Bucket]
         /\ snap \in [Node -> Snapshot]
         /\ files \in [Node -> [Bucket -> {"none", "bare", "whole"}]]
         /\ skipped \in [Node -> SUBSET Bucket] /\ cutoff \in [Node -> SUBSET Bucket]
BY LogLength DEF StoreInv, ClusterInv, ClusterTypeOK, NodeTypeOK, DiskTypeOK

\* The entry is counted and the directory, if there is something to do, bare.
LEMMA StoreApplyBegin ==
  ASSUME StoreInv, ClusterInv', NEW n \in Node, ApplyBegin(n) PROVE StoreInv'
<1> USE DEF StoreInv
<1> DEFINE k == applied[n]
           m == chosen[k + 1]
           work == IF m.op = "create" THEN files[n][m.bucket] = "none"
                   ELSE ToDelete(files[n][m.bucket])
           dir == IF work THEN [files[n] EXCEPT ![m.bucket] = "bare"] ELSE files[n]
<1>1. /\ up[n] = "up" /\ k < held[n] /\ doing[n] = "idle"
      /\ UNCHANGED <<chosen, held, snap, machine, up, skipped, lost, cutoff>>
      /\ applied' = [applied EXCEPT ![n] = k + 1]
      /\ files' = IF work THEN [files EXCEPT ![n][m.bucket] = "bare"] ELSE files
      /\ doing' = [doing EXCEPT ![n] = IF work THEN "work" ELSE "pass"]
  BY DEF ApplyBegin, Reachable, histVars
<1>2. /\ k \in Nat /\ held[n] \in Nat /\ Len(chosen) \in Nat /\ m \in Entry
      /\ k + 1 \in 1 .. Len(chosen) /\ m.bucket \in Bucket /\ m.op \in {"create", "delete"}
      /\ k + 1 <= held[n]
  BY <1>1, EntryAt DEF Entry, Ops
<1>3. After(k + 1) = Change(m, After(k))
  BY <1>2, StoreTypes, AfterStep
<1>4. /\ applied'[n] = k + 1 /\ files'[n] = dir /\ doing'[n] = IF work THEN "work" ELSE "pass"
      /\ \A o \in Node \ {n} :
           applied'[o] = applied[o] /\ files'[o] = files[o] /\ doing'[o] = doing[o]
  BY <1>1, StoreTypes
<1>5. /\ \A b \in Bucket \ {m.bucket} : dir[b] = files[n][b]
      /\ dir[m.bucket] = IF work THEN "bare" ELSE files[n][m.bucket]
      /\ dir \in [Bucket -> {"none", "bare", "whole"}]
  BY <1>2, StoreTypes
<1>6. /\ Finished(n)' = k /\ Finished(n) = k
      /\ \A o \in Node \ {n} : Finished(o)' = Finished(o) /\ Working(o)' = Working(o)
      /\ Working(n)' = IF work THEN {m.bucket} ELSE {}
      /\ Working(n) = {}
  <2>1. doing'[n] # "idle" /\ (doing'[n] = "work" <=> work)
    <3> HIDE DEF work
    <3> QED BY <1>4
  <2>2. m = chosen[k + 1]
    OBVIOUS
  <2> HIDE DEF work, m
  <2>3. Finished(n)' = k /\ Finished(n) = k
    BY <1>1, <1>2, <1>4, <2>1 DEF Finished
  <2>4. Working(n)' = (IF work THEN {m.bucket} ELSE {}) /\ Working(n) = {}
    BY <1>1, <1>4, <2>1, <2>2 DEF Working
  <2> QED BY <1>1, <1>4, <2>3, <2>4 DEF Finished, Working
<1>7. ~work => (files[n][m.bucket] # "none" <=> m.bucket \in After(k + 1))
  BY <1>2, <1>3 DEF Change, ToDelete
<1> HIDE DEF k, m, work, dir
<1>8. DiskTypeOK' /\ InOrder'
  <2>1. files' \in [Node -> [Bucket -> {"none", "bare", "whole"}]]
    BY <1>1, <1>2, StoreTypes
  <2> QED BY <2>1, <1>1, <1>2, <1>4 DEF DiskTypeOK, InOrder
<1>9. Machines' /\ Snapshots'
  <2>1. \A o \in Node : Finished(o)' = Finished(o)
    BY <1>6
  <2> QED BY <1>1, <2>1, SameLog DEF Machines, Snapshots
<1>10. Known'
  <2> SUFFICES ASSUME NEW o \in Node, NEW b \in Bucket, files'[o][b] # "none"
               PROVE  About(b, Len(chosen))
    BY <1>1, SameLog
  <2>1. CASE o = n /\ b = m.bucket
    BY <2>1, <1>2 DEF About, m
  <2>2. CASE ~(o = n /\ b = m.bucket)
    BY <2>2, <1>4, <1>5 DEF Known
  <2> QED BY <2>1, <2>2
<1>11. Bare'
  <2> SUFFICES ASSUME NEW o \in Node, NEW b \in Bucket, files'[o][b] = "bare"
               PROVE  b \in cutoff[o] \union Working(o)'
    BY <1>1 DEF Bare
  <2>1. CASE o # n
    BY <2>1, <1>4, <1>6 DEF Bare
  <2>2. CASE o = n
    BY <2>2, <1>4, <1>5, <1>6 DEF Bare
  <2> QED BY <2>1, <2>2
<1>12. Disks'
  <2> SUFFICES ASSUME NEW o \in Node, NEW b \in Bucket, up[o] # "halted",
                      b \notin skipped[o] \union Working(o)', About(b, applied'[o])
               PROVE  files'[o][b] # "none" <=> b \in After(applied'[o])
    BY <1>1, SameLog
  <2>1. CASE o # n
    BY <2>1, <1>4, <1>6 DEF Disks
  <2>2. CASE o = n /\ b = m.bucket
    BY <2>2, <1>4, <1>5, <1>6, <1>7
  <2>3. CASE o = n /\ b # m.bucket
    <3>1. (files'[n][b] # "none" <=> files[n][b] # "none")
          /\ (b \in After(k + 1) <=> b \in After(k))
      BY <2>3, <1>3, <1>4, <1>5 DEF Change
    <3>2. About(b, k + 1) => About(b, k)
      BY <2>3, <1>2 DEF About, m
    <3> QED BY <2>3, <3>1, <3>2, <1>4, <1>6 DEF Disks, k
  <2> QED BY <2>1, <2>2, <2>3
<1> QED BY <1>8, <1>9, <1>10, <1>11, <1>12

\* The directory is what the entry says, and so is the state machine.
LEMMA StoreApplyEnd ==
  ASSUME StoreInv, ClusterInv', NEW n \in Node, ApplyEnd(n) PROVE StoreInv'
<1> USE DEF StoreInv
<1> DEFINE k == applied[n]
           m == chosen[k]
           d == IF m.op = "create" THEN "whole" ELSE "none"
<1>1. /\ up[n] = "up" /\ doing[n] # "idle"
      /\ UNCHANGED <<chosen, held, applied, snap, up, skipped>>
      /\ doing' = [doing EXCEPT ![n] = "idle"]
      /\ machine' = [machine EXCEPT ![n] = Change(m, machine[n])]
      /\ lost' = [lost EXCEPT ![n] = lost[n] \ {m.bucket}]
      /\ IF doing[n] = "work"
         THEN /\ files' = [files EXCEPT ![n][m.bucket] = d]
              /\ cutoff' = [cutoff EXCEPT ![n] = cutoff[n] \ {m.bucket}]
         ELSE UNCHANGED <<files, cutoff>>
  BY DEF ApplyEnd, Reachable
<1>2. /\ k \in Nat /\ k - 1 \in Nat /\ (k - 1) + 1 = k /\ Len(chosen) \in Nat /\ m \in Entry
      /\ k \in 1 .. Len(chosen) /\ m.bucket \in Bucket /\ m.op \in {"create", "delete"}
  BY <1>1, EntryAt DEF Entry, Ops
<1>3. After(k) = Change(m, After(k - 1))
  <2>1. LogTypeOK /\ (k - 1) + 1 <= Len(chosen)
    BY <1>2, StoreTypes
  <2>2. After((k - 1) + 1) = Change(chosen[(k - 1) + 1], After(k - 1))
    BY <1>2, <2>1, AfterStep
  <2> QED BY <1>2, <2>2
<1>4. /\ doing'[n] = "idle" /\ machine'[n] = Change(m, machine[n])
      /\ lost'[n] = lost[n] \ {m.bucket}
      /\ \A o \in Node \ {n} :
           /\ doing'[o] = doing[o] /\ files'[o] = files[o] /\ machine'[o] = machine[o]
           /\ lost'[o] = lost[o] /\ cutoff'[o] = cutoff[o]
  BY <1>1, StoreTypes
<1>5. /\ \A b \in Bucket \ {m.bucket} :
           files'[n][b] = files[n][b] /\ (b \in cutoff[n] => b \in cutoff'[n])
      /\ doing[n] = "work" => files'[n][m.bucket] = d
      /\ doing[n] # "work" => files' = files /\ cutoff' = cutoff
  BY <1>1, <1>2, StoreTypes
<1>6. /\ Finished(n) = k - 1 /\ Finished(n)' = k /\ Working(n)' = {}
      /\ Working(n) = IF doing[n] = "work" THEN {m.bucket} ELSE {}
      /\ \A o \in Node \ {n} : Finished(o)' = Finished(o) /\ Working(o)' = Working(o)
  BY <1>1, <1>2, <1>4 DEF Finished, Working
<1>7. d # "none" <=> m.bucket \in After(k)
  BY <1>2, <1>3 DEF Change
<1>8. files' \in [Node -> [Bucket -> {"none", "bare", "whole"}]]
  <2>1. d \in {"none", "bare", "whole"}
    OBVIOUS
  <2> HIDE DEF d, m
  <2>2. CASE doing[n] = "work"
    <3>1. files' = [files EXCEPT ![n] = [files[n] EXCEPT ![m.bucket] = d]]
      BY <1>1, <2>2
    <3>2. [files[n] EXCEPT ![m.bucket] = d] \in [Bucket -> {"none", "bare", "whole"}]
      BY <1>2, <2>1, StoreTypes
    <3> QED BY <3>1, <3>2, StoreTypes
  <2> QED BY <2>2, <1>5, StoreTypes
<1>9. d # "bare"
  OBVIOUS
<1> HIDE DEF k, m, d
<1>10. DiskTypeOK' /\ InOrder'
  BY <1>1, <1>8 DEF DiskTypeOK, InOrder
<1>11. Snapshots'
  BY <1>1, SameLog DEF Snapshots
<1>12. Machines'
  <2> SUFFICES ASSUME NEW o \in Node, up[o] # "halted", NEW b \in Bucket \ lost'[o]
               PROVE  b \in machine'[o] <=> b \in After(Finished(o)')
    BY <1>1, SameLog
  <2>1. CASE o # n
    BY <2>1, <1>4, <1>6 DEF Machines
  <2>2. CASE o = n
    <3>1. b \in After(Finished(o)') <=> b \in Change(m, After(k - 1))
      BY <2>2, <1>3, <1>6
    <3>2. CASE b = m.bucket
      BY <2>2, <3>1, <3>2, <1>4 DEF Change
    <3>3. CASE b # m.bucket
      <4>1. b \in machine[n] <=> b \in After(k - 1)
        BY <2>2, <3>3, <1>4, <1>6 DEF Machines
      <4> QED BY <2>2, <3>1, <3>3, <4>1, <1>4 DEF Change
    <3> QED BY <3>2, <3>3
  <2> QED BY <2>1, <2>2
<1>13. Known'
  <2> SUFFICES ASSUME NEW o \in Node, NEW b \in Bucket, files'[o][b] # "none"
               PROVE  About(b, Len(chosen))
    BY <1>1, SameLog
  <2>1. CASE o = n /\ b = m.bucket
    BY <2>1, <1>2 DEF About, m
  <2>2. CASE ~(o = n /\ b = m.bucket)
    BY <2>2, <1>4, <1>5 DEF Known
  <2> QED BY <2>1, <2>2
<1>14. Bare'
  <2> SUFFICES ASSUME NEW o \in Node, NEW b \in Bucket, files'[o][b] = "bare"
               PROVE  b \in cutoff'[o] \union Working(o)'
    BY DEF Bare
  <2>1. CASE o # n
    BY <2>1, <1>4, <1>6 DEF Bare
  <2>2. CASE o = n /\ b = m.bucket
    BY <2>2, <1>5, <1>6, <1>9 DEF Bare
  <2>3. CASE o = n /\ b # m.bucket
    BY <2>3, <1>5, <1>6 DEF Bare
  <2> QED BY <2>1, <2>2, <2>3
<1>15. Disks'
  <2> SUFFICES ASSUME NEW o \in Node, NEW b \in Bucket, up[o] # "halted",
                      b \notin skipped[o] \union Working(o)', About(b, applied[o])
               PROVE  files'[o][b] # "none" <=> b \in After(applied[o])
    BY <1>1, SameLog
  <2>1. CASE o # n
    BY <2>1, <1>4, <1>6 DEF Disks
  <2>2. CASE o = n /\ b = m.bucket /\ doing[n] = "work"
    BY <2>2, <1>5, <1>7 DEF k
  <2>3. CASE o = n /\ ~(b = m.bucket /\ doing[n] = "work")
    <3>1. files'[n][b] = files[n][b] /\ b \notin Working(n)
      BY <2>3, <1>5, <1>6
    <3> QED BY <2>3, <3>1 DEF Disks
  <2> QED BY <2>1, <2>2, <2>3
<1> QED BY <1>10, <1>11, <1>12, <1>13, <1>14, <1>15

\* The entry that could not be applied is counted; the node that counts it stops.
LEMMA StoreApplyFails ==
  ASSUME StoreInv, ClusterInv', NEW n \in Node, ApplyFails(n) PROVE StoreInv'
<1> USE DEF StoreInv
<1> DEFINE m == chosen[applied[n]]
<1>1. /\ UNCHANGED <<chosen, held, machine, snap, skipped, lost>>
      /\ up' = [up EXCEPT ![n] = "halted"] /\ doing' = [doing EXCEPT ![n] = "idle"]
  BY DEF ApplyFails
<1>2. \/ /\ doing[n] = "idle" /\ applied[n] < held[n] /\ UNCHANGED <<files, cutoff>>
         /\ applied' = [applied EXCEPT ![n] = @ + 1]
      \/ /\ doing[n] = "work" /\ cutoff' = [cutoff EXCEPT ![n] = @ \union {m.bucket}]
         /\ \E d \in {"none", "bare"} : files' = [files EXCEPT ![n][m.bucket] = d]
         /\ UNCHANGED applied
  BY DEF ApplyFails
<1>3. /\ applied[n] \in Nat /\ held[n] \in Nat
      /\ doing[n] = "work" => m.bucket \in Bucket /\ applied[n] \in 1 .. Len(chosen)
  BY EntryAt
<1>4. /\ up'[n] = "halted" /\ doing'[n] = "idle" /\ applied'[n] <= held[n]
      /\ \A b \in Bucket : /\ \/ files'[n][b] = files[n][b]
                              \/ /\ doing[n] = "work" /\ b = m.bucket
                                 /\ files'[n][b] \in {"none", "bare"}
                           /\ b \in cutoff[n] => b \in cutoff'[n]
      /\ doing[n] = "work" => m.bucket \in cutoff'[n]
      /\ \A o \in Node \ {n} :
           /\ applied'[o] = applied[o] /\ up'[o] = up[o] /\ doing'[o] = doing[o]
           /\ files'[o] = files[o] /\ cutoff'[o] = cutoff[o]
  BY <1>1, <1>2, <1>3, StoreTypes DEF InOrder
<1>5. files' \in [Node -> [Bucket -> {"none", "bare", "whole"}]]
      /\ cutoff' \in [Node -> SUBSET Bucket]
  <2>1. CASE UNCHANGED <<files, cutoff>>
    BY <2>1, StoreTypes
  <2>2. CASE doing[n] = "work" /\ ~UNCHANGED <<files, cutoff>>
    <3> HIDE DEF m
    <3>1. cutoff' \in [Node -> SUBSET Bucket]
      <4>1. cutoff' = [cutoff EXCEPT ![n] = cutoff[n] \union {m.bucket}] /\ m.bucket \in Bucket
        BY <1>2, <1>3, <2>2
      <4>2. cutoff \in [Node -> SUBSET Bucket] /\ cutoff[n] \union {m.bucket} \in SUBSET Bucket
        BY <4>1, StoreTypes
      <4> QED BY <4>1, <4>2
    <3>2. PICK d \in {"none", "bare"} :
            files' = [files EXCEPT ![n] = [files[n] EXCEPT ![m.bucket] = d]]
      BY <1>2, <2>2
    <3>3. [files[n] EXCEPT ![m.bucket] = d] \in [Bucket -> {"none", "bare", "whole"}]
      BY <1>3, <2>2, StoreTypes
    <3> QED BY <3>1, <3>2, <3>3, StoreTypes
  <2> QED BY <1>2, <2>1, <2>2
<1>6. /\ Working(n)' = {} /\ Working(n) \subseteq IF doing[n] = "work" THEN {m.bucket} ELSE {}
      /\ \A o \in Node \ {n} : Finished(o)' = Finished(o) /\ Working(o)' = Working(o)
  BY <1>1, <1>4 DEF Finished, Working
<1> HIDE DEF m
<1>7. DiskTypeOK' /\ InOrder'
  BY <1>1, <1>4, <1>5 DEF DiskTypeOK, InOrder
<1>8. Machines' /\ Snapshots'
  <2>1. Snapshots'
    BY <1>1, SameLog DEF Snapshots
  <2>2. Machines'
    BY <1>1, <1>4, <1>6, SameLog DEF Machines
  <2> QED BY <2>1, <2>2
<1>9. Known'
  <2> SUFFICES ASSUME NEW o \in Node, NEW b \in Bucket, files'[o][b] # "none"
               PROVE  About(b, Len(chosen))
    BY <1>1, SameLog
  <2>1. CASE o = n /\ b = m.bucket /\ doing[n] = "work"
    BY <2>1, <1>3 DEF About, m
  <2>2. CASE ~(o = n /\ b = m.bucket /\ doing[n] = "work")
    BY <2>2, <1>4 DEF Known
  <2> QED BY <2>1, <2>2
<1>10. Bare'
  <2> SUFFICES ASSUME NEW o \in Node, NEW b \in Bucket, files'[o][b] = "bare"
               PROVE  b \in cutoff'[o] \union Working(o)'
    BY DEF Bare
  <2>1. CASE o # n
    BY <2>1, <1>4, <1>6 DEF Bare
  <2>2. CASE o = n
    BY <2>2, <1>4, <1>6 DEF Bare
  <2> QED BY <2>1, <2>2
<1>11. Disks'
  BY <1>1, <1>4, <1>6, SameLog DEF Disks
<1> QED BY <1>7, <1>8, <1>9, <1>10, <1>11

\* A snapshot built during an apply counts an entry whose change it does not contain:
\* that bucket it lost.
LEMMA StoreBuild ==
  ASSUME StoreInv, ClusterInv', NEW n \in Node, BuildSnapshot(n) PROVE StoreInv'
<1> USE DEF StoreInv
<1> DEFINE new == [upto |-> applied[n], buckets |-> machine[n], lost |-> lost[n] \union Applying(n)]
<1>1. /\ up[n] = "up" /\ snap' = [snap EXCEPT ![n] = new]
      /\ UNCHANGED <<chosen, held, applied, machine, files, doing, up, skipped, lost, cutoff>>
  BY DEF BuildSnapshot, Reachable
<1>2. /\ new.upto = applied[n] /\ new.buckets = machine[n] /\ new.lost = lost[n] \union Applying(n)
  OBVIOUS
<1> HIDE DEF new
<1>3. snap'[n] = new /\ \A o \in Node \ {n} : snap'[o] = snap[o]
  BY <1>1, StoreTypes
<1>4. \A b \in Bucket \ new.lost : b \in new.buckets <=> b \in After(new.upto)
  <2> SUFFICES ASSUME NEW b \in Bucket, b \notin lost[n], b \notin Applying(n)
               PROVE  b \in machine[n] <=> b \in After(applied[n])
    BY <1>2
  <2>1. b \in machine[n] <=> b \in After(Finished(n))
    BY <1>1 DEF Machines
  <2>2. CASE doing[n] = "idle"
    BY <2>1, <2>2 DEF Finished
  <2>3. CASE doing[n] # "idle"
    <3> DEFINE k == applied[n]
    <3>1. /\ k \in Nat /\ k - 1 \in Nat /\ (k - 1) + 1 = k /\ k \in 1 .. Len(chosen)
          /\ Len(chosen) \in Nat /\ chosen[k] \in Entry
      BY <2>3, EntryAt
    <3>2. LogTypeOK /\ (k - 1) + 1 <= Len(chosen)
      BY <3>1, StoreTypes
    <3>3. After((k - 1) + 1) = Change(chosen[(k - 1) + 1], After(k - 1))
      BY <3>1, <3>2, AfterStep
    <3>4. After(k) = Change(chosen[k], After(k - 1))
      BY <3>1, <3>3
    <3>5. b # chosen[k].bucket /\ Finished(n) = k - 1
      BY <2>3 DEF Applying, Finished
    <3> HIDE DEF k
    <3> QED BY <2>1, <3>4, <3>5 DEF Change, k
  <2> QED BY <2>2, <2>3
<1>5. Snapshots'
  BY <1>1, <1>3, <1>4, SameLog DEF Snapshots
<1>6. \A o \in Node : Finished(o)' = Finished(o) /\ Working(o)' = Working(o)
  BY <1>1 DEF Finished, Working
<1>7. Machines' /\ Known' /\ Disks'
  BY <1>1, <1>6, SameLog DEF Machines, Known, Disks
<1>8. DiskTypeOK' /\ InOrder' /\ Bare'
  BY <1>1, <1>6 DEF DiskTypeOK, InOrder, Bare
<1> QED BY <1>5, <1>7, <1>8

\* A snapshot moves the state machine and not the disk; the buckets it moves past
\* are those counted as skipped.
LEMMA StoreInstall ==
  ASSUME StoreInv, ClusterInv', NEW n \in Node, InstallSnapshot(n) PROVE StoreInv'
<1> USE DEF StoreInv
<1> DEFINE k == applied[n]
           new == snap[leader]
           jumped == {chosen[j].bucket : j \in k + 1 .. new.upto}
<1>1. /\ leader \in Node /\ up[n] = "up" /\ held[n] < new.upto /\ doing[n] = "idle"
      /\ UNCHANGED <<chosen, files, doing, up, cutoff>>
      /\ held' = [held EXCEPT ![n] = new.upto] /\ applied' = [applied EXCEPT ![n] = new.upto]
      /\ machine' = [machine EXCEPT ![n] = new.buckets] /\ snap' = [snap EXCEPT ![n] = new]
      /\ skipped' = [skipped EXCEPT ![n] = skipped[n] \union jumped]
      /\ lost' = [lost EXCEPT ![n] = new.lost]
  BY DEF InstallSnapshot, Replace, Alive, Reachable
<1>3. /\ k \in Nat /\ new.upto \in Nat /\ k <= new.upto /\ new.upto <= Len(chosen)
      /\ \A b \in Bucket \ new.lost : b \in new.buckets <=> b \in After(new.upto)
      /\ Len(chosen) \in Nat
  BY <1>1, StoreTypes DEF InOrder, ClusterInv, Behind, Snapshots, Snapshot
<1>4. jumped \subseteq Bucket
  <2>1. \A j \in 1 .. Len(chosen) : chosen[j].bucket \in Bucket
    <3>1. \A j \in 1 .. Len(chosen) : chosen[j] \in Entry
      BY StoreTypes DEF LogTypeOK
    <3> QED BY <3>1 DEF Entry
  <2>2. \A j \in k + 1 .. new.upto : j \in 1 .. Len(chosen)
    BY <1>3
  <2> QED BY <2>1, <2>2
<1>5. \A b \in Bucket : b \notin jumped =>
        (b \in After(new.upto) <=> b \in After(k)) /\ (About(b, new.upto) => About(b, k))
  <2> SUFFICES ASSUME NEW b \in Bucket, b \notin jumped
               PROVE  /\ b \in After(new.upto) <=> b \in After(k)
                      /\ About(b, new.upto) => About(b, k)
    OBVIOUS
  <2>1. \A i \in k + 1 .. new.upto : chosen[i].bucket # b
    OBVIOUS
  <2> QED BY <1>3, <2>1, AfterQuiet, StoreTypes
<1> HIDE DEF k, new, jumped
<1>6. /\ held'[n] = new.upto /\ applied'[n] = new.upto /\ machine'[n] = new.buckets
      /\ snap'[n] = new /\ skipped'[n] = skipped[n] \union jumped /\ lost'[n] = new.lost
      /\ \A o \in Node \ {n} : /\ held'[o] = held[o] /\ applied'[o] = applied[o]
                              /\ machine'[o] = machine[o] /\ snap'[o] = snap[o]
                              /\ skipped'[o] = skipped[o] /\ lost'[o] = lost[o]
  BY <1>1, StoreTypes
<1>7. DiskTypeOK' /\ InOrder'
  BY <1>1, <1>3, <1>4, <1>6, StoreTypes DEF DiskTypeOK, InOrder
<1>8. /\ Finished(n)' = new.upto /\ Working(n)' = {} /\ Working(n) = {}
      /\ \A o \in Node \ {n} : Finished(o)' = Finished(o) /\ Working(o)' = Working(o)
  BY <1>1, <1>6 DEF Finished, Working
<1>9. Machines'
  BY <1>1, <1>3, <1>6, <1>8, SameLog DEF Machines
<1>10. Snapshots'
  BY <1>1, <1>3, <1>6, SameLog DEF Snapshots
<1>11. Known'
  BY <1>1, SameLog DEF Known
<1>12. Bare'
  <2>1. \A o \in Node : Working(o)' = Working(o)
    BY <1>8
  <2> QED BY <1>1, <2>1 DEF Bare
<1>13. Disks'
  <2> SUFFICES ASSUME NEW o \in Node, NEW b \in Bucket, up[o] # "halted",
                      b \notin skipped'[o] \union Working(o)', About(b, applied'[o])
               PROVE  files[o][b] # "none" <=> b \in After(applied'[o])
    BY <1>1, SameLog
  <2>1. CASE o # n
    BY <2>1, <1>6, <1>8 DEF Disks
  <2>2. CASE o = n
    BY <2>2, <1>5, <1>6, <1>8 DEF Disks, k
  <2> QED BY <2>1, <2>2
<1> QED BY <1>7, <1>9, <1>10, <1>11, <1>12, <1>13

\* A node that forgot has an empty state machine and has applied nothing; its disk
\* may be anything the log speaks of, with what it was working at left bare.
LEMMA StoreCrash ==
  ASSUME StoreInv, ClusterInv', NEW n \in Node, Crash(n) PROVE StoreInv'
<1> USE DEF StoreInv
<1>1. /\ up' = [up EXCEPT ![n] = "down"] /\ UNCHANGED <<chosen, files, skipped>>
      /\ held' = [held EXCEPT ![n] = 0] /\ applied' = [applied EXCEPT ![n] = 0]
      /\ machine' = [machine EXCEPT ![n] = {}] /\ snap' = [snap EXCEPT ![n] = NoSnapshot]
      /\ doing' = [doing EXCEPT ![n] = "idle"] /\ lost' = [lost EXCEPT ![n] = {}]
      /\ cutoff' = [cutoff EXCEPT ![n] = IF doing[n] = "work" THEN @ \union Applying(n) ELSE @]
  BY DEF Crash
<1>2. Applying(n) \in SUBSET Bucket
  BY BusyType
<1>3. /\ held'[n] = 0 /\ applied'[n] = 0 /\ machine'[n] = {} /\ snap'[n] = NoSnapshot
      /\ doing'[n] = "idle" /\ cutoff[n] \union Working(n) \subseteq cutoff'[n]
      /\ \A o \in Node \ {n} : /\ held'[o] = held[o] /\ applied'[o] = applied[o]
                              /\ machine'[o] = machine[o] /\ snap'[o] = snap[o]
                              /\ up'[o] = up[o] /\ doing'[o] = doing[o]
                              /\ lost'[o] = lost[o] /\ cutoff'[o] = cutoff[o]
  BY <1>1, StoreTypes DEF Working, Applying
<1>4. DiskTypeOK' /\ InOrder'
  BY <1>1, <1>2, <1>3, StoreTypes DEF DiskTypeOK, InOrder
<1>5. /\ Finished(n)' = 0 /\ Working(n)' = {}
      /\ \A o \in Node \ {n} : Finished(o)' = Finished(o) /\ Working(o)' = Working(o)
  BY <1>1, <1>3 DEF Finished, Working
<1>6. Machines'
  BY <1>1, <1>3, <1>5, AfterNone, SameLog DEF Machines
<1>7. Snapshots'
  BY <1>1, <1>3, AfterNone, SameLog DEF Snapshots, NoSnapshot
<1>8. Known'
  BY <1>1, SameLog DEF Known
<1>9. Bare'
  <2> SUFFICES ASSUME NEW o \in Node, NEW b \in Bucket, files[o][b] = "bare"
               PROVE  b \in cutoff'[o] \union Working(o)'
    BY <1>1 DEF Bare
  <2>1. b \in cutoff[o] \union Working(o)
    BY DEF Bare
  <2> QED BY <2>1, <1>3, <1>5
<1>10. Disks'
  BY <1>1, <1>3, <1>5, AfterNone, SameLog DEF Disks
<1> QED BY <1>4, <1>6, <1>7, <1>8, <1>9, <1>10

LEMMA StoreCommit ==
  ASSUME StoreInv, ClusterInv', NEW m \in pending, Commit(m) PROVE StoreInv'
<1> USE DEF StoreInv
<1>1. /\ chosen' = Append(chosen, m)
      /\ UNCHANGED <<applied, machine, snap, files, doing, up, skipped, lost, cutoff>>
  BY DEF Commit, histVars
<1>2. PICK Q \in SUBSET Alive :
        /\ held' = [n \in Node |-> IF n \in Q THEN Len(chosen) + 1 ELSE held[n]]
        /\ \A n \in Q : held[n] = Len(chosen)
  BY DEF Commit
<1>3. /\ LogTypeOK /\ Len(chosen) \in Nat /\ Len(chosen') = Len(chosen) + 1
      /\ \A j \in 1 .. Len(chosen) : chosen'[j] = chosen[j]
      /\ held \in [Node -> Nat] /\ applied \in [Node -> Nat]
      /\ \A n \in Node : applied[n] \in Nat /\ applied[n] <= Len(chosen)
      /\ \A n \in Node : snap[n].upto \in Nat /\ snap[n].upto <= Len(chosen)
  BY <1>1, StoreTypes DEF ClusterInv, LogTypeOK, Behind, Snapshot
<1>4. \A n \in Node : /\ Working(n)' = Working(n) /\ Finished(n)' = Finished(n)
                      /\ Finished(n) \in Nat /\ Finished(n) <= Len(chosen)
  <2> SUFFICES ASSUME NEW n \in Node
               PROVE  /\ Working(n)' = Working(n) /\ Finished(n)' = Finished(n)
                      /\ Finished(n) \in Nat /\ Finished(n) <= Len(chosen)
    OBVIOUS
  <2>1. doing[n] # "idle" => applied[n] \in 1 .. Len(chosen)
    BY EntryAt
  <2>2. Working(n)' = Working(n)
    <3>1. CASE doing[n] = "work"
      BY <1>1, <1>3, <2>1, <3>1 DEF Working
    <3>2. CASE doing[n] # "work"
      BY <1>1, <3>2 DEF Working
    <3> QED BY <3>1, <3>2
  <2>3. Finished(n)' = Finished(n)
    BY <1>1 DEF Finished
  <2>4. Finished(n) \in Nat /\ Finished(n) <= Len(chosen)
    BY <1>3, <2>1 DEF Finished
  <2> QED BY <2>2, <2>3, <2>4
<1>5. \A n \in Node : /\ After(Finished(n))' = After(Finished(n))
                      /\ After(applied[n])' = After(applied[n])
                      /\ After(snap[n].upto)' = After(snap[n].upto)
                      /\ \A b \in Bucket : About(b, applied[n])' <=> About(b, applied[n])
  <2> SUFFICES ASSUME NEW n \in Node
               PROVE  /\ After(Finished(n))' = After(Finished(n))
                      /\ After(applied[n])' = After(applied[n])
                      /\ After(snap[n].upto)' = After(snap[n].upto)
                      /\ \A b \in Bucket : About(b, applied[n])' <=> About(b, applied[n])
    OBVIOUS
  <2> DEFINE made(k) ==
               {b \in Bucket : \E j \in 1 .. k :
                  /\ chosen'[j].op = "create" /\ chosen'[j].bucket = b
                  /\ \A i \in j + 1 .. k : chosen'[i].bucket = b => chosen'[i].op = "create"}
             named(b, k) == \E j \in 1 .. k : chosen'[j].bucket = b
  <2>1. \A k \in Nat : k <= Len(chosen) =>
          made(k) = After(k) /\ \A b \in Bucket : named(b, k) <=> About(b, k)
    BY <1>1, <1>3, AfterAppend DEF After, About
  <2>2. /\ After(applied[n])' = made(applied[n]) /\ After(snap[n].upto)' = made(snap[n].upto)
        /\ \A b \in Bucket : About(b, applied[n])' <=> named(b, applied[n])
    BY <1>1 DEF After, About
  <2>3. After(Finished(n))' = made(Finished(n)')
    BY DEF After
  <2>4. made(Finished(n)') = made(Finished(n))
    BY <1>4
  <2> HIDE DEF made, named
  <2> QED BY <1>3, <1>4, <2>1, <2>2, <2>3, <2>4
<1>6. DiskTypeOK' /\ Machines' /\ Snapshots'
  BY <1>1, <1>5 DEF DiskTypeOK, Machines, Snapshots
<1>7. InOrder'
  BY <1>1, <1>2, <1>3 DEF InOrder
<1>8. Known'
  <2>1. \A b \in Bucket : About(b, Len(chosen)) => About(b, Len(chosen))'
    BY <1>3 DEF About
  <2> QED BY <2>1, <1>1 DEF Known
<1>9. Bare'
  BY <1>1, <1>4 DEF Bare
<1>10. Disks'
  BY <1>1, <1>4, <1>5 DEF Disks
<1> QED BY <1>6, <1>7, <1>8, <1>9, <1>10

LEMMA StoreNext == StoreInv /\ [ClusterNext]_clusterVars => StoreInv'
<1> SUFFICES ASSUME StoreInv, [ClusterNext]_clusterVars PROVE StoreInv'
  OBVIOUS
<1>1. ClusterInv'
  BY NextCluster DEF StoreInv
<1>2. \A n \in Node : held[n] \in Nat /\ up[n] \in {"up", "down", "cut", "halted"}
  BY DEF StoreInv, ClusterInv, ClusterTypeOK, NodeTypeOK
<1>3. ASSUME UNCHANGED <<raftVars, histVars>> PROVE StoreInv'
  BY <1>1, <1>2, <1>3, QuietStore DEF raftVars, histVars
<1>4. CASE UNCHANGED clusterVars
  BY <1>3, <1>4 DEF clusterVars
<1>5. ASSUME NEW n \in Node, Replicate(n) \/ Elect(n) \/ Cut(n) \/ Return(n) PROVE StoreInv'
  <2>1. UNCHANGED <<chosen, applied, machine, snap, files, doing, skipped, lost, cutoff>>
    BY <1>5 DEF histVars, Replicate, Elect, Cut, Return
  <2>2. \A o \in Node : held'[o] >= held[o]
    <3>1. held \in [Node -> Nat]
      BY DEF StoreInv, ClusterInv, ClusterTypeOK, NodeTypeOK
    <3>2. held' = held \/ held' = [held EXCEPT ![n] = held[n] + 1]
      BY <1>5 DEF Replicate, Elect, Cut, Return
    <3> QED BY <3>1, <3>2
  <2>3. \A o \in Node : up'[o] # "halted" => up[o] # "halted"
    <3>1. up \in [Node -> {"up", "down", "cut", "halted"}]
      BY DEF StoreInv, ClusterInv, ClusterTypeOK, NodeTypeOK
    <3> QED BY <3>1, <1>5 DEF Replicate, Elect, Cut, Return
  <2> QED BY <2>1, <2>2, <2>3, <1>1, QuietStore
<1>6. ASSUME NEW s \in Server,
             \/ \E op \in Ops, b \in Bucket : Start(s, op, b)
             \/ FindLeader(s) \/ Propose(s) \/ Accepted(s) \/ GiveUp(s) \/ Local(s)
      PROVE  StoreInv'
  <2>1. /\ UNCHANGED <<chosen, held, applied, machine, snap, files, doing, up>>
        /\ UNCHANGED <<skipped, lost, cutoff>>
    BY <1>6 DEF Start, FindLeader, Propose, Accepted, GiveUp, Local, raftVars, histVars
  <2> QED BY <2>1, <1>1, <1>2, QuietStore
<1> QED BY <1>1, <1>4, <1>5, <1>6, StoreApplyBegin, StoreApplyEnd, StoreApplyFails, StoreBuild,
           StoreInstall, StoreCrash, StoreCommit DEF ClusterNext

\* However often storage nodes forget everything, replay the log or jump ahead by a
\* snapshot, also one built in the middle of an apply, the state machine of a node
\* that runs is what the entries it has finished with make of an empty one, except
\* for the buckets being changed when its snapshot was built (StorageRaftStore).
THEOREM StateMachineFollowsLog == ClusterSpec => []MachineIsLog
<1>1. StoreInv => MachineIsLog
  BY DEF StoreInv, Machines, MachineIsLog
<1> QED BY <1>1, StoreInit, StoreNext, PTL DEF ClusterSpec

\* A node that has applied everything has the directories of the log's buckets on
\* disk, whatever older creations and deletions it replayed over it and wherever in
\* one of them it was stopped, except the buckets a snapshot carried its state machine
\* past; and each has its `.bucket.json' unless its creation or deletion was broken
\* off (apply_mutation, create_bucket, delete_bucket, install_snapshot).
THEOREM DiskConverges == ClusterSpec => []DiskFollowsLog
<1>1. StoreInv => DiskFollowsLog
  <2> SUFFICES ASSUME StoreInv, NEW n \in Node, up[n] = "up", doing[n] = "idle",
                      applied[n] = Len(chosen), NEW b \in Bucket
               PROVE  /\ b \notin skipped[n] => (files[n][b] # "none" <=> b \in After(Len(chosen)))
                      /\ files[n][b] = "bare" => b \in cutoff[n]
    BY DEF DiskFollowsLog
  <2>1. b \in After(Len(chosen)) => About(b, Len(chosen))
    BY DEF After, About
  <2>2. Working(n) = {}
    BY DEF Working
  <2> QED BY <2>1, <2>2 DEF StoreInv, Disks, Known, Bare
<1> QED BY <1>1, StoreInit, StoreNext, PTL DEF ClusterSpec

-----------------------------------------------------------------------------
(* Shards.  Until the last shard is written no scanner runs.  Afterwards,   *)
(* while at most one file was spoilt, there is one shard such that every    *)
(* other is good with a good checksum, scanners repair only that one, and   *)
(* what they gather for it is good.                                         *)

Scan == [pc : {"rest", "verify", "gather", "fill", "sum"}, at : Nat \ {0}, read : Contents,
         next : Nat \ {0}, got : Seq(Contents)]
ShardTypeOK ==
  /\ bytes \in [Shards -> Contents] /\ sum \in [Shards -> Contents]
  /\ writer \in [at : Nat \ {0}, pc : {"open", "fill", "sum"}]
  /\ mapped \in [Holders -> BOOLEAN] /\ scan \in [Holders -> Scan]
  /\ harm \in Nat

Written(i) == bytes[i] = "good" /\ sum[i] = "good"
Writing ==
  writer.at \in Shards =>
    /\ harm = 0 /\ \A n \in Holders : ~mapped[n] /\ scan[n] = Resting
    /\ \A i \in Shards : i < writer.at => Written(i)
    /\ writer.pc = "sum" => bytes[writer.at] = "good"

\* Scanner n touches no shard but those in X.
Careful(n, X) ==
  LET c == scan[n] IN
    /\ c.pc = "verify" /\ c.at \notin X => c.at \in Shards /\ c.read = "good"
    /\ c.pc \in {"gather", "fill", "sum"} => c.at \in X
    /\ c.pc = "fill" => c.read = "good"
    /\ \A j \in 1 .. Len(c.got) : c.got[j] = "good"
Contained(X) ==
  /\ \A i \in Shards \ X : Written(i)
  /\ \A i \in X : bytes[i] # "wrong"
  /\ \A n \in Holders : Careful(n, X)
Spared ==
  writer.at \notin Shards =>
    /\ harm = 0 => Contained({})
    /\ harm = 1 => \E x \in Shards : Contained({x})

ShardInv == ShardTypeOK /\ Writing /\ Spared

LEMMA RestingType ==
  /\ Resting \in Scan /\ Resting.pc = "rest" /\ Resting.got = <<>>
  /\ \A k \in Nat \ {0} :
       LET c == [Resting EXCEPT !.at = k] IN c \in Scan /\ c.pc = "rest" /\ c.got = <<>>
<1>1. Resting \in Scan /\ Resting.pc = "rest" /\ Resting.got = <<>>
  BY DEF Resting, Scan, Contents
<1> QED BY <1>1 DEF Scan

LEMMA ShardInitInv == ShardInit => ShardInv
<1> SUFFICES ASSUME ShardInit PROVE ShardInv
  OBVIOUS
<1>1. 1 \in Shards /\ \A i \in Shards : ~(i < 1)
  BY ShardAssumption DEF Shards
<1>2. ShardTypeOK
  BY RestingType DEF ShardInit, ShardTypeOK, Contents
<1>3. Writing /\ Spared
  BY <1>1 DEF ShardInit, Writing, Spared
<1> QED BY <1>2, <1>3 DEF ShardInv

LEMMA ShardWrite == ASSUME ShardInv, WriteShard PROVE ShardInv'
<1> DEFINE i == writer.at
<1> USE DEF ShardInv
<1>1. /\ i \in Shards /\ i \in Nat /\ harm = 0 /\ UNCHANGED <<mapped, scan, harm>>
      /\ \A n \in Holders : ~mapped[n] /\ scan[n] = Resting
      /\ \A j \in Shards : j < i => Written(j)
  BY DEF WriteShard, Writing, ShardTypeOK
<1>2. \A n \in Holders : Careful(n, {})'
  BY <1>1, RestingType DEF Careful
<1>3. CASE writer.pc = "open"
  <2>1. /\ bytes' = [bytes EXCEPT ![i] = "part"] /\ writer' = [writer EXCEPT !.pc = "fill"]
        /\ UNCHANGED sum
    BY <1>3 DEF WriteShard
  <2>2. ShardTypeOK' /\ writer'.at = i /\ writer'.pc = "fill"
    BY <1>1, <2>1 DEF ShardTypeOK, Contents
  <2>3. \A j \in Shards : j < i => Written(j)'
    BY <1>1, <2>1 DEF Written, ShardTypeOK, Shards
  <2> QED BY <1>1, <2>2, <2>3 DEF Writing, Spared
<1>4. CASE writer.pc = "fill"
  <2>1. /\ bytes' = [bytes EXCEPT ![i] = "good"] /\ writer' = [writer EXCEPT !.pc = "sum"]
        /\ UNCHANGED sum
    BY <1>4 DEF WriteShard
  <2>2. ShardTypeOK' /\ writer'.at = i /\ writer'.pc = "sum" /\ bytes'[i] = "good"
    BY <1>1, <2>1 DEF ShardTypeOK, Contents
  <2>3. \A j \in Shards : j < i => Written(j)'
    BY <1>1, <2>1 DEF Written, ShardTypeOK, Shards
  <2> QED BY <1>1, <2>2, <2>3 DEF Writing, Spared
<1>5. CASE writer.pc = "sum"
  <2>1. /\ sum' = [sum EXCEPT ![i] = "good"] /\ writer' = [at |-> i + 1, pc |-> "open"]
        /\ UNCHANGED bytes /\ bytes[i] = "good"
    BY <1>1, <1>5 DEF WriteShard, Writing
  <2>2. ShardTypeOK' /\ writer'.at = i + 1 /\ writer'.pc = "open"
    BY <1>1, <2>1 DEF ShardTypeOK, Contents
  <2>3. \A j \in Shards : j < i + 1 => Written(j)'
    BY <1>1, <2>1 DEF Written, ShardTypeOK, Shards
  <2>4. Writing'
    BY <1>1, <2>2, <2>3 DEF Writing
  <2>5. Spared'
    <3>1. ASSUME i + 1 \notin Shards PROVE \A j \in Shards : j < i + 1
      BY <1>1, <3>1, ShardAssumption DEF Shards
    <3> QED BY <1>1, <1>2, <2>2, <2>3, <3>1 DEF Spared, Contained
  <2> QED BY <2>2, <2>4, <2>5
<1> QED BY <1>3, <1>4, <1>5 DEF ShardTypeOK

LEMMA ShardsAreNat == Shards \subseteq Nat \ {0} /\ \A i \in Shards : i + 1 \in Nat \ {0}
BY DEF Shards

\* Scanner n goes on to c and the disk stays.
LEMMA ScannerMoves ==
  ASSUME ShardTypeOK, NEW X \in SUBSET Shards, Contained(X), NEW n \in Holders, NEW c \in Scan,
         scan' = [scan EXCEPT ![n] = c], UNCHANGED bytes,
         \A i \in Shards \ X : sum'[i] = sum[i],
         c.pc = "verify" /\ c.at \notin X => c.at \in Shards /\ c.read = "good",
         c.pc \in {"gather", "fill", "sum"} => c.at \in X,
         c.pc = "fill" => c.read = "good",
         \A j \in 1 .. Len(c.got) : c.got[j] = "good"
  PROVE  Contained(X)'
<1>1. scan'[n] = c /\ \A o \in Holders \ {n} : scan'[o] = scan[o]
  BY DEF ShardTypeOK
<1>2. \A o \in Holders : Careful(o, X)'
  BY <1>1 DEF Contained, Careful
<1> QED BY <1>2 DEF Contained, Written

\* On to the next shard.
LEMMA ScannerRests ==
  ASSUME ShardTypeOK, NEW X \in SUBSET Shards, Contained(X), NEW n \in Holders, NextShard(n),
         UNCHANGED bytes, \A i \in Shards \ X : sum'[i] = sum[i]
  PROVE  Contained(X)'
<1> DEFINE k == scan[n].at + 1
           c == [Resting EXCEPT !.at = k]
<1>1. k \in Nat \ {0}
  BY DEF ShardTypeOK, Scan
<1>2. scan' = [scan EXCEPT ![n] = c]
  BY DEF NextShard
<1> HIDE DEF k
<1>3. c \in Scan /\ c.pc = "rest" /\ c.got = <<>>
  BY <1>1, RestingType
<1> HIDE DEF c
<1>4. \A j \in 1 .. Len(c.got) : c.got[j] = "good"
  BY <1>3
<1> QED BY <1>2, <1>3, <1>4, ScannerMoves DEF ShardTypeOK

LEMMA ScanType == ASSUME ShardTypeOK, NEW n \in Holders, ScanStep(n) PROVE ShardTypeOK'
<1> DEFINE c == scan[n]
<1>1. /\ c \in Scan /\ c.at \in Nat \ {0} /\ c.next \in Nat \ {0} /\ c.read \in Contents
      /\ c.got \in Seq(Contents)
      /\ bytes \in [Shards -> Contents] /\ sum \in [Shards -> Contents]
      /\ scan \in [Holders -> Scan]
  BY DEF ShardTypeOK, Scan
<1>2. UNCHANGED <<writer, mapped, harm>>
  BY DEF ScanStep, ReadShard, Verify, Gather, HealCut, HealFill, HealSum
<1>3. ASSUME NextShard(n) PROVE scan' \in [Holders -> Scan]
  <2> DEFINE d == [Resting EXCEPT !.at = c.at + 1]
  <2>1. c.at + 1 \in Nat \ {0}
    BY <1>1
  <2>2. d \in Scan
    BY <2>1, RestingType
  <2> HIDE DEF d
  <2> QED BY <1>1, <1>3, <2>2 DEF NextShard, d
<1>4. bytes' \in [Shards -> Contents]
  BY <1>1 DEF ScanStep, ReadShard, Verify, Gather, HealCut, HealFill, HealSum, diskVars, Contents
<1>5. sum' \in [Shards -> Contents]
  BY <1>1 DEF ScanStep, ReadShard, Verify, Compare, Gather, HealCut, HealFill, HealSum, diskVars
<1>6. scan' \in [Holders -> Scan]
  <2>1. CASE ReadShard(n)
    <3>1. CASE c.at \in Shards /\ scan' = [scan EXCEPT ![n].pc = "verify", ![n].read = bytes[c.at]]
      <4>1. bytes[c.at] \in Contents
        BY <1>1, <3>1
      <4> QED BY <1>1, <3>1, <4>1 DEF Scan
    <3> QED BY <1>1, <1>3, <2>1, <3>1, RestingType DEF ReadShard
  <2>2. CASE Verify(n)
    <3>1. NextShard(n) \/ scan' = [scan EXCEPT ![n].pc = "gather"]
      BY <2>2 DEF Verify, Compare
    <3>2. CASE scan' = [scan EXCEPT ![n].pc = "gather"]
      BY <1>1, <3>2 DEF Scan
    <3> QED BY <1>3, <3>1, <3>2
  <2>3. CASE Gather(n)
    <3> DEFINE j == c.next
               ok == j # c.at /\ bytes[j] # "absent" /\ (OwnerOf(j) = n \/ online[OwnerOf(j)])
               got == IF ok THEN Append(c.got, bytes[j]) ELSE c.got
               d == [c EXCEPT !.next = j + 1, !.got = got]
    <3>1. /\ j \in Shards
          /\ scan' = [scan EXCEPT ![n].next = j + 1,
                                   ![n].got = IF ok THEN Append(@, bytes[j]) ELSE @]
      BY <2>3 DEF Gather
    <3>2. scan' = [scan EXCEPT ![n] = d]
      BY <1>1, <3>1 DEF Scan
    <3>3. got \in Seq(Contents) /\ j + 1 \in Nat \ {0}
      BY <1>1, <3>1
    <3> HIDE DEF got
    <3>4. d \in Scan
      BY <1>1, <3>3 DEF Scan
    <3> HIDE DEF d
    <3> QED BY <1>1, <3>2, <3>4
  <2>4. CASE HealCut(n)
    <3>1. Rebuild(c.got) = "none" \/ Rebuild(c.got) \in Contents
      BY DEF Rebuild, Contents
    <3> DEFINE got == Rebuild(c.got)
    <3>2. \/ NextShard(n)
          \/ got # "none" /\ scan' = [scan EXCEPT ![n].pc = "fill", ![n].read = got]
      BY <2>4 DEF HealCut
    <3> HIDE DEF got
    <3>3. CASE got \in Contents /\ scan' = [scan EXCEPT ![n].pc = "fill", ![n].read = got]
      BY <1>1, <3>3 DEF Scan
    <3> QED BY <1>3, <3>1, <3>2, <3>3 DEF got
  <2>6. CASE HealFill(n)
    BY <1>1, <2>6 DEF HealFill, Scan
  <2>5. CASE HealSum(n)
    BY <1>3, <2>5 DEF HealSum
  <2> QED BY <2>1, <2>2, <2>3, <2>4, <2>5, <2>6 DEF ScanStep
<1> QED BY <1>2, <1>4, <1>5, <1>6 DEF ShardTypeOK

\* Scanner n cuts or fills a shard of X and goes on to c.
LEMMA ShardRewritten ==
  ASSUME ShardTypeOK, NEW X \in SUBSET Shards, Contained(X), NEW n \in Holders, NEW c,
         scan' = [scan EXCEPT ![n] = c], NEW w \in {"part", "good"}, c.at \in X,
         bytes' = [bytes EXCEPT ![c.at] = w], UNCHANGED sum,
         c.pc \in {"fill", "sum"}, c.pc = "fill" => c.read = "good", c.got = scan[n].got
  PROVE  Contained(X)'
<1>1. scan'[n] = c /\ \A o \in Holders \ {n} : scan'[o] = scan[o]
  BY DEF ShardTypeOK
<1>2. \A o \in Holders : Careful(o, X)'
  BY <1>1 DEF Contained, Careful
<1>3. /\ \A i \in Shards \ X : bytes'[i] = bytes[i]
      /\ \A i \in X : bytes'[i] # "wrong"
  BY DEF Contained, ShardTypeOK
<1> QED BY <1>2, <1>3 DEF Contained, Written

LEMMA ScanContained ==
  ASSUME ShardTypeOK, NEW X \in SUBSET Shards, NEW x, X \subseteq {x}, Contained(X),
         NEW n \in Holders, ScanStep(n)
  PROVE  Contained(X)'
<1> DEFINE c == scan[n]
<1>1. /\ c \in Scan /\ c.at \in Nat \ {0} /\ c.next \in Nat \ {0} /\ Careful(n, X)
      /\ bytes \in [Shards -> Contents] /\ sum \in [Shards -> Contents]
      /\ scan \in [Holders -> Scan]
  BY DEF ShardTypeOK, Contained, Scan
<1>4. CASE ReadShard(n)
  <2> DEFINE i == c.at
  <2>1. UNCHANGED <<bytes, sum>>
    BY <1>4 DEF ReadShard, diskVars
  <2>2. CASE i \notin Shards
    <3>1. scan' = [scan EXCEPT ![n] = Resting]
      BY <1>4, <2>2 DEF ReadShard
    <3>2. \A j \in 1 .. Len(Resting.got) : Resting.got[j] = "good"
      BY RestingType
    <3> QED BY <1>1, <2>1, <3>1, <3>2, RestingType, ScannerMoves
  <2>3. CASE i \in Shards /\ (OwnerOf(i) # n \/ bytes[i] = "absent")
    <3>1. NextShard(n)
      BY <1>4, <2>3 DEF ReadShard
    <3> QED BY <1>1, <2>1, <3>1, ScannerRests
  <2>4. CASE i \in Shards /\ ~(OwnerOf(i) # n \/ bytes[i] = "absent")
    <3> DEFINE d == [c EXCEPT !.pc = "verify", !.read = bytes[i]]
    <3>1. scan' = [scan EXCEPT ![n] = d]
      BY <1>1, <1>4, <2>4 DEF ReadShard
    <3>2. bytes[i] \in Contents /\ (i \notin X => bytes[i] = "good")
      BY <1>1, <2>4 DEF Contained, Written
    <3>3. /\ d \in Scan /\ d.pc = "verify" /\ d.at = i /\ d.read = bytes[i] /\ d.got = c.got
      BY <1>1, <3>2 DEF Scan
    <3> HIDE DEF d
    <3> QED BY <1>1, <2>1, <2>4, <3>1, <3>2, <3>3, ScannerMoves DEF Careful
  <2> QED BY <2>2, <2>3, <2>4
<1>5. CASE Verify(n)
  <2> DEFINE i == c.at
  <2>1. c.pc = "verify" /\ i \in Shards /\ UNCHANGED bytes /\ Compare(n, i)
    BY <1>1, <1>5 DEF Verify, Careful
  <2>2. i \notin X => sum[i] = "good" /\ c.read = "good"
    BY <1>1, <2>1 DEF Careful, Contained, Written
  <2>3. CASE sum[i] = "absent"
    <3>1. sum' = [sum EXCEPT ![i] = c.read] /\ NextShard(n)
      BY <2>1, <2>3 DEF Compare
    <3>2. sum' \in [Shards -> Contents] /\ \A j \in Shards \ X : sum'[j] = sum[j]
      BY <1>1, <2>1, <2>2, <2>3, <3>1 DEF Scan
    <3> QED BY <1>1, <2>1, <3>1, <3>2, ScannerRests
  <2>4. CASE sum[i] # "absent" /\ sum[i] = c.read
    <3>1. UNCHANGED sum /\ NextShard(n)
      BY <2>1, <2>4 DEF Compare
    <3> QED BY <1>1, <2>1, <3>1, ScannerRests
  <2>5. CASE sum[i] # "absent" /\ sum[i] # c.read
    <3> DEFINE d == [c EXCEPT !.pc = "gather"]
    <3>1. UNCHANGED sum /\ scan' = [scan EXCEPT ![n] = d]
      BY <1>1, <2>1, <2>5 DEF Compare
    <3>2. d \in Scan /\ d.pc = "gather" /\ d.at = i /\ d.got = c.got
      BY <1>1 DEF Scan
    <3> HIDE DEF d
    <3> QED BY <1>1, <2>1, <2>2, <2>5, <3>1, <3>2, ScannerMoves DEF Careful
  <2> QED BY <2>3, <2>4, <2>5
<1>6. CASE Gather(n)
  <2> DEFINE j == c.next
             ok == j # c.at /\ bytes[j] # "absent" /\ (OwnerOf(j) = n \/ online[OwnerOf(j)])
             got == IF ok THEN Append(c.got, bytes[j]) ELSE c.got
             d == [c EXCEPT !.next = j + 1, !.got = got]
  <2>1. /\ c.pc = "gather" /\ j \in Shards /\ UNCHANGED <<bytes, sum>>
        /\ scan' = [scan EXCEPT ![n].next = j + 1,
                                 ![n].got = IF ok THEN Append(@, bytes[j]) ELSE @]
    BY <1>6 DEF Gather, diskVars
  <2>2. scan' = [scan EXCEPT ![n] = d]
    BY <1>1, <2>1 DEF Scan
  <2>3. c.at \in X /\ c.got \in Seq(Contents) /\ \A k \in 1 .. Len(c.got) : c.got[k] = "good"
    BY <1>1, <2>1 DEF Careful, Scan
  <2>4. got \in Seq(Contents) /\ \A k \in 1 .. Len(got) : got[k] = "good"
    <3>1. CASE ok
      <4>1. bytes[j] = "good" /\ "good" \in Contents
        BY <2>1, <2>3, <3>1 DEF Contained, Written, Contents
      <4>2. got = Append(c.got, "good")
        BY <3>1, <4>1
      <4> QED BY <2>3, <4>1, <4>2
    <3>2. CASE ~ok
      BY <2>3, <3>2
    <3> QED BY <3>1, <3>2
  <2> HIDE DEF got
  <2>5. j + 1 \in Nat \ {0}
    BY <1>1
  <2>6. d \in Scan /\ d.pc = "gather" /\ d.at = c.at /\ d.got = got
    BY <1>1, <2>1, <2>4, <2>5 DEF Scan
  <2>7. \A i \in Shards \ X : sum'[i] = sum[i]
    BY <2>1
  <2> HIDE DEF c, d
  <2>8. d.at \in X /\ \A k \in 1 .. Len(d.got) : d.got[k] = "good"
    BY <2>3, <2>4, <2>6
  <2> QED BY <2>1, <2>2, <2>6, <2>7, <2>8, ScannerMoves
<1>7. CASE HealCut(n)
  <2> DEFINE got == Rebuild(c.got)
  <2>1. /\ c.pc = "gather" /\ UNCHANGED sum
        /\ IF got = "none" THEN NextShard(n) /\ UNCHANGED bytes
           ELSE /\ bytes' = [bytes EXCEPT ![c.at] = "part"]
                /\ scan' = [scan EXCEPT ![n].pc = "fill", ![n].read = got]
    BY <1>7 DEF HealCut
  <2>2. c.at \in X /\ c.at \in Shards /\ c.got \in Seq(Contents)
    BY <1>1, <2>1 DEF Careful, Scan
  <2>3. got \in {"none", "good"}
    <3>1. Len(c.got) >= DataShards => \A k \in 1 .. DataShards : c.got[k] = "good"
      BY <1>1, <2>2, ShardAssumption DEF Careful
    <3> QED BY <2>2, <3>1, ShardAssumption DEF Rebuild
  <2>4. CASE got = "none"
    BY <1>1, <2>1, <2>4, ScannerRests
  <2>5. CASE got = "good"
    <3> DEFINE d == [c EXCEPT !.pc = "fill", !.read = "good"]
    <3>1. bytes' = [bytes EXCEPT ![c.at] = "part"] /\ scan' = [scan EXCEPT ![n] = d]
      BY <1>1, <2>1, <2>5
    <3>2. d.pc = "fill" /\ d.at = c.at /\ d.got = c.got /\ d.read = "good"
      BY <1>1 DEF Scan
    <3> HIDE DEF d
    <3> QED BY <1>1, <2>1, <2>2, <3>1, <3>2, ShardRewritten
  <2> QED BY <2>3, <2>4, <2>5
<1>9. CASE HealFill(n)
  <2> DEFINE d == [c EXCEPT !.pc = "sum"]
  <2>1. /\ c.pc = "fill" /\ UNCHANGED sum /\ bytes' = [bytes EXCEPT ![c.at] = c.read]
        /\ scan' = [scan EXCEPT ![n] = d]
    BY <1>9 DEF HealFill
  <2>2. c.at \in X /\ c.read = "good"
    BY <1>1, <2>1 DEF Careful
  <2>3. d.pc = "sum" /\ d.at = c.at /\ d.got = c.got
    BY <1>1 DEF Scan
  <2> HIDE DEF d
  <2> QED BY <1>1, <2>1, <2>2, <2>3, ShardRewritten
<1>8. CASE HealSum(n)
  <2>1. c.pc = "sum" /\ sum' = [sum EXCEPT ![c.at] = c.read] /\ NextShard(n) /\ UNCHANGED bytes
    BY <1>8 DEF HealSum
  <2>2. c.at \in X
    BY <1>1, <2>1 DEF Careful
  <2>3. sum' \in [Shards -> Contents] /\ \A i \in Shards \ X : sum'[i] = sum[i]
    BY <1>1, <2>1, <2>2 DEF Scan
  <2> QED BY <1>1, <2>1, <2>3, ScannerRests
<1> QED BY <1>4, <1>5, <1>6, <1>7, <1>8, <1>9 DEF ScanStep

LEMMA ShardScan == ASSUME ShardInv, NEW n \in Holders, ScanStep(n) PROVE ShardInv'
<1> USE DEF ShardInv
<1>1. UNCHANGED <<writer, mapped, harm>>
  BY DEF ScanStep, ReadShard, Verify, Gather, HealCut, HealFill, HealSum
<1>2. writer.at \notin Shards
  BY RestingType DEF Writing, ScanStep, ReadShard, Verify, Gather, HealCut, HealFill, HealSum
<1>3. harm = 0 => Contained({})'
  <2>1. {} \in SUBSET Shards /\ {} \subseteq {1}
    OBVIOUS
  <2> QED BY <1>2, <2>1, ScanContained DEF Spared
<1>4. ASSUME NEW x \in Shards, Contained({x}) PROVE Contained({x})'
  BY <1>4, ScanContained
<1>5. ShardTypeOK'
  BY ScanType
<1> QED BY <1>1, <1>2, <1>3, <1>4, <1>5 DEF Writing, Spared

\* The disk spoils its first file: the shard it belongs to is the one.
LEMMA ShardSpoil ==
  ASSUME ShardInv, NEW i \in Shards, NEW what \in {"rot", "absent"}, Spoil(i, what) PROVE ShardInv'
<1> USE DEF ShardInv
<1>1. /\ writer.at \notin Shards /\ harm' = harm + 1 /\ UNCHANGED <<writer, mapped, scan>>
      /\ \/ bytes' = [bytes EXCEPT ![i] = what] /\ UNCHANGED sum
         \/ sum' = [sum EXCEPT ![i] = what] /\ UNCHANGED bytes
  BY DEF Spoil
<1>2. ShardTypeOK'
  BY <1>1 DEF ShardTypeOK, Contents
<1>3. ASSUME harm = 0 PROVE Contained({i})'
  <2>1. Contained({})
    BY <1>1, <1>3 DEF Spared
  <2>2. \A j \in Shards \ {i} : Written(j)'
    BY <1>1, <2>1 DEF Contained, Written, ShardTypeOK
  <2>3. bytes'[i] # "wrong"
    BY <1>1, <2>1 DEF Contained, Written, ShardTypeOK
  <2>4. \A n \in Holders : Careful(n, {i})'
    BY <1>1, <2>1 DEF Contained, Careful
  <2> QED BY <2>2, <2>3, <2>4 DEF Contained
<1>4. harm' # 0 /\ (harm' = 1 => harm = 0)
  BY <1>1 DEF ShardTypeOK
<1> QED BY <1>1, <1>2, <1>3, <1>4 DEF Writing, Spared

\* What happens to a node or the writer leaves the disks.
LEMMA ShardOthers ==
  ASSUME ShardInv, UNCHANGED <<bytes, sum, harm>>, ShardTypeOK',
         writer'.at = writer.at, writer'.pc = "sum" => writer.pc = "sum",
         \A n \in Holders : scan'[n] \in {scan[n], Resting},
         writer.at \in Shards => \A n \in Holders : ~mapped'[n]
  PROVE  ShardInv'
<1> USE DEF ShardInv
<1>1. Writing'
  BY DEF Writing, Written
<1>2. \A n \in Holders, X \in SUBSET Shards : Careful(n, X) => Careful(n, X)'
  BY RestingType DEF Careful
<1>3. \A X \in SUBSET Shards : Contained(X) => Contained(X)'
  BY <1>2 DEF Contained, Written
<1>4. {} \in SUBSET Shards /\ \A x \in Shards : {x} \in SUBSET Shards
  OBVIOUS
<1>5. Spared'
  BY <1>3, <1>4 DEF Spared
<1> QED BY <1>1, <1>5

LEMMA ShardNextInv == ShardInv /\ [ShardNext]_shardVars => ShardInv'
<1> SUFFICES ASSUME ShardInv, [ShardNext]_shardVars PROVE ShardInv'
  OBVIOUS
<1>1. CASE UNCHANGED shardVars
  BY <1>1, ShardOthers DEF shardVars, diskVars, ShardInv, ShardTypeOK, Writing
<1>2. CASE WriterDies
  <2>1. /\ UNCHANGED <<bytes, sum, mapped, scan, harm>> /\ writer' = [writer EXCEPT !.pc = "open"]
    BY <1>2 DEF WriterDies, diskVars
  <2>2. ShardTypeOK' /\ writer'.at = writer.at /\ writer'.pc = "open"
    BY <2>1 DEF ShardInv, ShardTypeOK
  <2> QED BY <2>1, <2>2, ShardOthers DEF ShardInv, Writing
<1>3. ASSUME NEW n \in Holders, LearnMap(n) PROVE ShardInv'
  <2>1. /\ UNCHANGED <<bytes, sum, writer, scan, harm>> /\ writer.at \notin Shards
        /\ mapped' = [mapped EXCEPT ![n] = TRUE]
    BY <1>3 DEF LearnMap, diskVars
  <2>2. ShardTypeOK'
    BY <2>1 DEF ShardInv, ShardTypeOK
  <2> QED BY <2>1, <2>2, ShardOthers
<1>4. ASSUME NEW n \in Holders, Leave(n) PROVE ShardInv'
  <2>1. /\ UNCHANGED <<bytes, sum, writer, harm>>
        /\ mapped' = [mapped EXCEPT ![n] = FALSE] /\ scan' = [scan EXCEPT ![n] = Resting]
    BY <1>4 DEF Leave, diskVars
  <2>2. ShardTypeOK' /\ \A o \in Holders : scan'[o] \in {scan[o], Resting}
    BY <2>1, RestingType DEF ShardInv, ShardTypeOK
  <2>3. writer.at \in Shards => \A o \in Holders : ~mapped'[o]
    BY <2>1 DEF ShardInv, ShardTypeOK, Writing
  <2> QED BY <2>1, <2>2, <2>3, ShardOthers
<1>5. ASSUME NEW n \in Holders, Rejoin(n) PROVE ShardInv'
  <2>1. UNCHANGED <<bytes, sum, writer, mapped, scan, harm>>
    BY <1>5 DEF Rejoin, diskVars
  <2> QED BY <2>1, ShardOthers DEF ShardInv, ShardTypeOK, Writing
<1> QED BY <1>1, <1>2, <1>3, <1>4, <1>5, ShardWrite, ShardScan, ShardSpoil DEF ShardNext, ScanStep

\* While the disk has spoilt no more than one file, no shard holds made-up data and
\* all but one are good, whatever scanners, their crashes and unreachable peers do
\* (scan_placements, heal_local_shard, reconstruct_shard).
THEOREM RepairsDoNoHarm == ShardSpec => []DamageContained
<1>1. ShardInv => DamageContained
  <2> SUFFICES ASSUME ShardInv, harm <= 1, writer.at \notin Shards
               PROVE  /\ \A i \in Shards : bytes[i] # "wrong"
                      /\ Cardinality({i \in Shards : bytes[i] # "good"}) <= 1
    BY DEF DamageContained
  <2> DEFINE bad == {i \in Shards : bytes[i] # "good"}
  <2>1. harm = 0 \/ harm = 1
    BY DEF ShardInv, ShardTypeOK
  <2>2. 1 \in Shards
    BY ShardAssumption DEF Shards
  <2>3. PICK x \in Shards : bytes[x] # "wrong" /\ \A i \in Shards \ {x} : bytes[i] = "good"
    <3>1. CASE harm = 0
      BY <2>2, <3>1 DEF ShardInv, Spared, Contained, Written
    <3>2. CASE harm = 1
      BY <3>2 DEF ShardInv, Spared, Contained, Written
    <3> QED BY <2>1, <3>1, <3>2
  <2>4. bad = {} \/ bad = {x}
    BY <2>3
  <2> HIDE DEF bad
  <2>5. Cardinality(bad) <= 1
    <3>1. CASE bad = {}
      <4>1. Cardinality(bad) = 0
        BY <3>1, FS_EmptySet
      <4> QED BY <4>1
    <3>2. CASE bad = {x}
      <4>1. Cardinality(bad) = 1
        BY <3>2, FS_Singleton
      <4> QED BY <4>1
    <3> QED BY <2>4, <3>1, <3>2
  <2> QED BY <2>3, <2>5 DEF bad
<1> QED BY <1>1, ShardInitInv, ShardNextInv, PTL DEF ShardSpec
=============================================================================
