---------------------------- MODULE MCBackground ----------------------------
(***************************************************************************)
(* Small instances of the tasks that run beside the requests, one in focus *)
(* in a behaviour, as in MCServices, with the fairness of their timers.    *)
(***************************************************************************)
EXTENDS ShardRepair, EventSpool, AccessLog, ClusterRouting

VARIABLE focus

vars ==
  <<focus, shardVars, spoolVars, logVars, routingVars>>

Focus == {"shards", "spool", "log", "routing"}

Init ==
  /\ focus \in Focus
  /\ ShardInit /\ SpoolInit /\ LogInit /\ RoutingInit

Still(c, v) == IF focus = c THEN TRUE ELSE UNCHANGED v

\* Component c takes a step and no other does.
Only(c) ==
  /\ focus = c /\ UNCHANGED focus
  /\ Still("shards", shardVars)
  /\ Still("spool", spoolVars)
  /\ Still("log", logVars)
  /\ Still("routing", routingVars)

Next ==
  \/ Only("shards") /\ ShardNext
  \/ Only("spool") /\ SpoolNext
  \/ Only("log") /\ LogNext
  \/ Only("routing") /\ RoutingNext

\* Each scanner, the drain task and the status loop run on timers and are never
\* switched off; a committed placement reaches every node in the end.
Fairness ==
  /\ \A n \in Holders : /\ WF_vars(Only("shards") /\ ScanStep(n))
                        /\ WF_vars(Only("shards") /\ LearnMap(n))
  /\ WF_vars(Only("spool") /\ DrainStep)
  /\ WF_vars(Only("routing") /\ (PollPeer \/ Publish))

Spec == Init /\ [][Next]_vars /\ Fairness

-----------------------------------------------------------------------------
(* Values of the constants that a configuration file cannot write.          *)

MCNodes == <<"n1", "n2", "n3">>
=============================================================================
