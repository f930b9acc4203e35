----------------------------- MODULE ShardRepair -----------------------------
(***************************************************************************)
(* The shards of one erasure-coded object in the cluster and the scanners  *)
(* that repair them: DataShards + ParityShards shards, round robin over    *)
(* the nodes, each a file with a checksum beside it.  A shard's content is *)
(* "good", or one of the ways it can be wrong; any DataShards good ones    *)
(* give the others back.                                                   *)
(***************************************************************************)
EXTENDS Naturals, Sequences, FiniteSets

CONSTANTS
  ShardNodes,    \* the nodes, in order
  DataShards, ParityShards,
  MaxHarm,       \* bound on shards or checksums the disk spoils
  MaxOutages     \* bound on nodes going away and on writers that die

ASSUME ShardAssumption ==
  /\ ShardNodes # <<>> /\ DataShards \in Nat \ {0} /\ ParityShards \in Nat
  /\ MaxHarm \in Nat /\ MaxOutages \in Nat

Shards == 1 .. DataShards + ParityShards
Holders == {ShardNodes[i] : i \in 1 .. Len(ShardNodes)}
Contents == {"absent", "part", "good", "rot", "wrong"}

\* place_shards.
OwnerOf(i) == ShardNodes[((i - 1) % Len(ShardNodes)) + 1]

VARIABLES
  bytes, sum,    \* shard -> content of its file; content its checksum is of
  writer,        \* the next shard to write and its step: [at, pc]
  mapped,        \* node -> its state machine has the placement
  online,        \* node -> its peers can fetch from it
  scan,          \* node -> its scanner: [pc, at, read, next, got]
  harm, outages  \* how many so far

diskVars == <<bytes, sum>>
shardVars == <<diskVars, writer, mapped, online, scan, harm, outages>>

Resting == [pc |-> "rest", at |-> 1, read |-> "absent", next |-> 1, got |-> <<>>]

ShardInit ==
  /\ bytes = [i \in Shards |-> "absent"] /\ sum = [i \in Shards |-> "absent"]
  /\ writer = [at |-> 1, pc |-> "open"]
  /\ mapped = [n \in Holders |-> FALSE] /\ online = [n \in Holders |-> TRUE]
  /\ scan = [n \in Holders |-> Resting]
  /\ harm = 0 /\ outages = 0

-----------------------------------------------------------------------------
(* write_shard, one shard after another; then the placement is agreed on    *)
(* and every node hears of it.                                              *)

WriteShard ==
  LET i == writer.at IN
    /\ writer.pc \in {"open", "fill", "sum"} /\ i \in Shards
    /\ \/ /\ writer.pc = "open"
          /\ bytes' = [bytes EXCEPT ![i] = "part"]
          /\ writer' = [writer EXCEPT !.pc = "fill"]
          /\ UNCHANGED sum
       \/ /\ writer.pc = "fill"
          /\ bytes' = [bytes EXCEPT ![i] = "good"]
          /\ writer' = [writer EXCEPT !.pc = "sum"]
          /\ UNCHANGED sum
       \/ /\ writer.pc = "sum"
          /\ sum' = [sum EXCEPT ![i] = "good"]
          /\ writer' = [at |-> i + 1, pc |-> "open"]
          /\ UNCHANGED bytes
    /\ UNCHANGED <<mapped, online, scan, harm, outages>>

\* The writer dies between two steps and begins again with the same shard.
WriterDies ==
  /\ writer.at \in Shards /\ writer.pc # "open" /\ outages < MaxOutages
  /\ outages' = outages + 1
  /\ writer' = [writer EXCEPT !.pc = "open"]
  /\ UNCHANGED <<diskVars, mapped, online, scan, harm>>

LearnMap(n) ==
  /\ writer.at \notin Shards /\ ~mapped[n]
  /\ mapped' = [mapped EXCEPT ![n] = TRUE]
  /\ UNCHANGED <<diskVars, writer, online, scan, harm, outages>>

-----------------------------------------------------------------------------
(* One pass of scan_placements over the shards of a node.                   *)

NextShard(n) == scan' = [scan EXCEPT ![n] = [Resting EXCEPT !.at = scan[n].at + 1]]

\* A shard that cannot be read is counted and passed over.
ReadShard(n) ==
  LET i == scan[n].at IN
    /\ scan[n].pc = "rest" /\ mapped[n]
    /\ IF i \notin Shards THEN scan' = [scan EXCEPT ![n] = Resting]
       ELSE IF OwnerOf(i) # n \/ bytes[i] = "absent" THEN NextShard(n)
       ELSE scan' = [scan EXCEPT ![n].pc = "verify", ![n].read = bytes[i]]
    /\ UNCHANGED <<diskVars, writer, mapped, online, harm, outages>>

\* Mutant: a checksum that does not fit is replaced, as a missing one is.
TrustBytes(n, i) ==
  IF sum[i] # scan[n].read
    THEN sum' = [sum EXCEPT ![i] = scan[n].read] /\ NextShard(n)
    ELSE NextShard(n) /\ UNCHANGED sum

\* verify_shard_checksum: a missing checksum is made up from the bytes.
Compare(n, i) ==
  IF sum[i] = "absent"
    THEN sum' = [sum EXCEPT ![i] = scan[n].read] /\ NextShard(n)
  ELSE /\ UNCHANGED sum
       /\ IF sum[i] = scan[n].read THEN NextShard(n)
          ELSE scan' = [scan EXCEPT ![n].pc = "gather"]

Verify(n) ==
  /\ scan[n].pc = "verify"
  /\ Compare(n, scan[n].at)
  /\ UNCHANGED <<bytes, writer, mapped, online, harm, outages>>

\* gather_shards: what can be read of the other shards, unverified.
Gather(n) ==
  LET c == scan[n]
      j == c.next
      ok == j # c.at /\ bytes[j] # "absent" /\ (OwnerOf(j) = n \/ online[OwnerOf(j)]) IN
    /\ c.pc = "gather" /\ j \in Shards
    /\ scan' = [scan EXCEPT ![n].next = j + 1,
                            ![n].got = IF ok THEN Append(@, bytes[j]) ELSE @]
    /\ UNCHANGED <<diskVars, writer, mapped, online, harm, outages>>

\* Mutant: what is missing counts as zeros.
RebuildFromAny(got) ==
  IF \A j \in 1 .. DataShards : j <= Len(got) /\ got[j] = "good" THEN "good" ELSE "wrong"

\* reconstruct_shard: Reed-Solomon decodes the first DataShards it is given.
Rebuild(got) ==
  IF Len(got) < DataShards THEN "none"
  ELSE IF \A j \in 1 .. DataShards : got[j] = "good" THEN "good" ELSE "wrong"

\* heal_local_shard: the file is cut and filled, then its checksum is written.
HealCut(n) ==
  LET c == scan[n]
      r == Rebuild(c.got) IN
    /\ c.pc = "gather" /\ c.next \notin Shards
    /\ IF r = "none" THEN NextShard(n) /\ UNCHANGED bytes
       ELSE /\ bytes' = [bytes EXCEPT ![c.at] = "part"]
            /\ scan' = [scan EXCEPT ![n].pc = "fill", ![n].read = r]
    /\ UNCHANGED <<sum, writer, mapped, online, harm, outages>>

HealFill(n) ==
  LET c == scan[n] IN
    /\ c.pc = "fill"
    /\ bytes' = [bytes EXCEPT ![c.at] = c.read]
    /\ scan' = [scan EXCEPT ![n].pc = "sum"]
    /\ UNCHANGED <<sum, writer, mapped, online, harm, outages>>

HealSum(n) ==
  LET c == scan[n] IN
    /\ c.pc = "sum"
    /\ sum' = [sum EXCEPT ![c.at] = c.read]
    /\ NextShard(n)
    /\ UNCHANGED <<bytes, writer, mapped, online, harm, outages>>

-----------------------------------------------------------------------------
(* The disk spoils a shard or its checksum, a file is lost, nodes come and  *)
(* go and forget the placement and the scan when they restart.              *)

Spoil(i, what) ==
  /\ harm < MaxHarm /\ writer.at \notin Shards /\ harm' = harm + 1
  /\ \/ bytes[i] # "absent" /\ bytes' = [bytes EXCEPT ![i] = what] /\ UNCHANGED sum
     \/ sum[i] # "absent" /\ sum' = [sum EXCEPT ![i] = what] /\ UNCHANGED bytes
  /\ UNCHANGED <<writer, mapped, online, scan, outages>>

Leave(n) ==
  /\ online[n] /\ outages < MaxOutages /\ outages' = outages + 1
  /\ online' = [online EXCEPT ![n] = FALSE]
  /\ mapped' = [mapped EXCEPT ![n] = FALSE]
  /\ scan' = [scan EXCEPT ![n] = Resting]
  /\ UNCHANGED <<diskVars, writer, harm>>

Rejoin(n) ==
  /\ ~online[n]
  /\ online' = [online EXCEPT ![n] = TRUE]
  /\ UNCHANGED <<diskVars, writer, mapped, scan, harm, outages>>

ScanStep(n) ==
  \/ ReadShard(n) \/ Verify(n) \/ Gather(n) \/ HealCut(n) \/ HealFill(n) \/ HealSum(n)

ShardNext ==
  \/ WriteShard \/ WriterDies
  \/ \E n \in Holders :
       \/ LearnMap(n) \/ ReadShard(n) \/ Verify(n) \/ Gather(n) \/ HealCut(n)
       \/ HealFill(n) \/ HealSum(n) \/ Leave(n) \/ Rejoin(n)
  \/ \E i \in Shards : \E what \in {"rot", "absent"} : Spoil(i, what)

ShardSpec == ShardInit /\ [][ShardNext]_shardVars

-----------------------------------------------------------------------------
(* Properties.                                                              *)

\* As long as the disk has spoilt no more than one file, no shard holds made-up
\* data, and every shard but one is good: repairs, their crashes and the
\* unreachable peers in between never turn a damaged shard into a wrong one
\* that passes its checksum, or damage another.
DamageContained ==
  harm <= 1 /\ writer.at \notin Shards =>
    /\ \A i \in Shards : bytes[i] # "wrong"
    /\ Cardinality({i \in Shards : bytes[i] # "good"}) <= 1

\* A shard that rotted under a good checksum is good again in the end, if from
\* some time on all nodes are up and nothing else is ever spoilt.  (A second spoilt
\* shard may be used unverified to rebuild the first, which is then wrong under a
\* checksum that fits and stays so.)
Rotten(i) == bytes[i] = "rot" /\ sum[i] = "good"
AllUp == \A n \in Holders : online[n]
Repaired(i) == bytes[i] = "good"
RotHealed ==
  \A i \in Shards : <>[]AllUp /\ [](harm <= 1) => (Rotten(i) ~> Repaired(i))
=============================================================================
