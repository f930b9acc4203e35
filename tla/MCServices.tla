----------------------------- MODULE MCServices -----------------------------
(***************************************************************************)
(* Small instances of the components around the object store that serve    *)
(* requests, side by side.  They share no state, so one behaviour follows  *)
(* one of them, the one in focus, and leaves the others where they start.  *)
(***************************************************************************)
EXTENDS ClusterBuckets, Keyring, FrameRead, ObjectApi, Listing, ConsoleSession,
        ConsoleFolders

VARIABLE focus

vars ==
  <<focus, clusterVars, keyVars, readVars, apiVars, listVars, sessionVars, folderVars>>

Focus == {"cluster", "keys", "read", "api", "list", "session", "folder"}

\* Out of focus, a component with several initial states has one.
Init ==
  /\ focus \in Focus
  /\ ClusterInit /\ KeyInit /\ ReadInit /\ ApiInit /\ ListInit /\ SessionInit /\ FolderInit
  /\ focus # "keys" => ~env /\ ~kms
  /\ focus # "read" => layout = "frames" /\ size = 0
  /\ focus # "list" => present = ListedEntry /\ ~indexed
  /\ focus # "folder" => objects = {}

Still(c, v) == IF focus = c THEN TRUE ELSE UNCHANGED v

\* Component c takes a step and no other does.
Only(c) ==
  /\ focus = c /\ UNCHANGED focus
  /\ Still("cluster", clusterVars)
  /\ Still("keys", keyVars)
  /\ Still("read", readVars)
  /\ Still("api", apiVars)
  /\ Still("list", listVars)
  /\ Still("session", sessionVars)
  /\ Still("folder", folderVars)

Next ==
  \/ Only("cluster") /\ ClusterNext
  \/ Only("keys") /\ KeyNext
  \/ Only("read") /\ ReadNext
  \/ Only("api") /\ ApiNext
  \/ Only("list") /\ ListNext
  \/ Only("session") /\ SessionNext
  \/ Only("folder") /\ FolderNext

Spec == Init /\ [][Next]_vars

-----------------------------------------------------------------------------
(* Values of the constants that a configuration file cannot write.          *)

MCPeers == <<"n1", "n2", "n3">>

\* Content 2 has two parts, content 3 one empty part, content 4 is over the limit.
MCSizes == <<1, 2, 0, 3>>
MCPartSizes == << <<>>, <<1, 1>>, <<0>>, <<>> >>
MCModified == <<1, 2, 2, 3>>
MCRanges ==
  {[kind |-> k, from |-> f, to |-> t] : k \in {"explicit"}, f \in {0, 1}, t \in {0, 1}}
    \union {[kind |-> k, from |-> 1, to |-> t] : k \in {"suffix"}, t \in {0, 1, 3}}
    \union {[kind |-> k, from |-> 1, to |-> 0] : k \in {"open", "part"}}
MCConditions ==
  LET none == NoCondition
  IN  {none, [none EXCEPT !.match = 1], [none EXCEPT !.none = 1], [none EXCEPT !.since = 1],
       [none EXCEPT !.unsince = 1]}

\* Entries 2 and 3 are the two formats of one key, which shares a common prefix with
\* the last; the first differs from the prefix asked for in case.
MCKeyOf == <<1, 2, 2, 3>>
MCGroups == <<0, 1, 1, 1>>

MCTenants == [x \in {"root", "ann", "ka", "kb"} |-> IF x \in {"ann", "ka"} THEN "ta" ELSE "tb"]
MCKnows == [b \in {"b1", "b2"} |-> IF b = "b1" THEN {<<"root", 1>>} ELSE {<<"ann", 1>>}]
=============================================================================
