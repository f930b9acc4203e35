-------------------------- MODULE MultipartProofs --------------------------
(***************************************************************************)
(* A completed multipart object consists of the parts its request named,   *)
(* for any number of parts, uploads, completions and aborts and any        *)
(* failures, as long as no part number is sent twice.                      *)
(***************************************************************************)
EXTENDS Multipart, TLAPS

USE DEF Actor, Client, InFlight, Ended, Goto, Exists, Empty

Writing == {"create", "stream", "describe", "fill", "ok"}

\* A request has a part number from its first step on, and so have the parts a
\* completion lists.
PartSet ==
  /\ \A u \in Uploads :
       /\ pc[u] = "idle" => part[u] = None
       /\ pc[u] \in Writing => part[u] \in Parts
  /\ \A c \in Completes :
       \A u \in named[c] \union todo[c] : part[u] \in Parts

TypeInv == TypeOK /\ PartSet

LEMMA TypeInit == Init => TypeInv
<1> SUFFICES ASSUME Init PROVE TypeInv
  OBVIOUS
<1>1. object.named = {} /\ object.bytes = {}
  BY DEF Init, NoObject
<1>2. crashes \in 0 .. MaxCrashes
  BY SetupAssumption DEF Init
<1>3. TypeOK
  BY <1>1, <1>2 DEF Init, TypeOK, Label
<1>4. PartSet
  BY DEF Init, PartSet, Writing
<1> QED BY <1>3, <1>4 DEF TypeInv

LEMMA RemoveFilesType ==
  ASSUME TypeInv, NEW r \in Actor \ Uploads, RemoveFiles(r)
  PROVE  TypeInv'
<1>1. TypeOK'
  BY ActorAssumption
  DEF TypeInv, TypeOK, RemoveFiles, AfterFailure, Label, request, store, system,
      upload
<1>2. PartSet'
  BY DEF TypeInv, TypeOK, PartSet, RemoveFiles, request
<1> QED BY <1>1, <1>2 DEF TypeInv

LEMMA TypeNext == TypeInv /\ [Next]_vars => TypeInv'
<1> SUFFICES ASSUME TypeInv, [Next]_vars PROVE TypeInv'
  OBVIOUS
<1> USE DEF TypeInv
<1>1. CASE CreateDir
  BY <1>1, ActorAssumption
  DEF CreateDir, TypeOK, PartSet, Writing, Label, request, store, system
<1>2. CASE CreateMeta
  BY <1>2, ActorAssumption
  DEF CreateMeta, TypeOK, PartSet, Writing, Label, request, store, system
<1>3. ASSUME NEW u \in Uploads, UploadStart(u) PROVE TypeInv'
  <2>1. PICK p \in Parts : part' = [part EXCEPT ![u] = p]
    BY <1>3 DEF UploadStart
  <2>2. part[u] = None /\ None \notin Parts
    BY <1>3, ActorAssumption DEF UploadStart, PartSet
  <2>3. \A v \in Uploads, q \in Parts : part[v] = q => part'[v] = q
    BY <2>1, <2>2 DEF TypeOK
  <2>4. TypeOK'
    BY <1>3, <2>1, <2>3
    DEF UploadStart, TypeOK, Label, upload, store, system
  <2>5. PartSet'
    BY <1>3, <2>1, <2>3 DEF UploadStart, TypeOK, PartSet, Writing
  <2> QED BY <2>4, <2>5
<1>4. ASSUME NEW u \in Uploads, UploadCreate(u) PROVE TypeInv'
  <2>1. part[u] \in Parts
    BY <1>4 DEF UploadCreate, PartSet, Writing
  <2>2. TypeOK'
    BY <1>4, <2>1 DEF UploadCreate, TypeOK, Label, request, store, system
  <2>3. PartSet'
    BY <1>4, <2>1 DEF UploadCreate, TypeOK, PartSet, Writing, request
  <2> QED BY <2>2, <2>3
<1>5. ASSUME NEW u \in Uploads, UploadStream(u) PROVE TypeInv'
  <2>1. part[u] \in Parts
    BY <1>5 DEF UploadStream, PartSet, Writing
  <2>2. TypeOK'
    BY <1>5, <2>1, ActorAssumption
    DEF UploadStream, TypeOK, Label, request, store, system
  <2>3. PartSet'
    BY <1>5, <2>1 DEF UploadStream, TypeOK, PartSet, Writing, request
  <2> QED BY <2>2, <2>3
<1>6. ASSUME NEW u \in Uploads, UploadDescribe(u) PROVE TypeInv'
  <2>1. part[u] \in Parts
    BY <1>6 DEF UploadDescribe, PartSet, Writing
  <2>2. TypeOK'
    BY <1>6, <2>1 DEF UploadDescribe, TypeOK, Label, request, store, system
  <2>3. PartSet'
    BY <1>6, <2>1 DEF UploadDescribe, TypeOK, PartSet, Writing, request
  <2> QED BY <2>2, <2>3
<1>7. ASSUME NEW u \in Uploads, UploadFill(u) PROVE TypeInv'
  <2>1. part[u] \in Parts
    BY <1>7 DEF UploadFill, PartSet, Writing
  <2>2. TypeOK'
    BY <1>7, <2>1, ActorAssumption
    DEF UploadFill, TypeOK, Label, request, store, system
  <2>3. PartSet'
    BY <1>7, <2>1 DEF UploadFill, TypeOK, PartSet, Writing, request
  <2> QED BY <2>2, <2>3
<1>8. ASSUME NEW c \in Completes,
             CompleteStart(c) \/ CompleteCheck(c) \/ CompleteCopy(c)
               \/ CompletePublish(c) \/ CompleteIndex(c)
      PROVE  TypeInv'
  <2>0. c \notin Uploads
    BY ActorAssumption
  <2>1. CASE CompleteStart(c)
    BY <2>0, <2>1
    DEF CompleteStart, Listable, TypeOK, PartSet, Writing, Label, upload, store, system
  <2>2. CASE CompleteCheck(c)
    BY <2>0, <2>2
    DEF CompleteCheck, TypeOK, PartSet, Writing, Label, upload, store, system
  <2>3. CASE CompleteCopy(c)
    <3>1. PICK u \in todo[c] :
            \/ /\ data[part[u]] # None
               /\ copied' = [copied EXCEPT ![c] = @ \union {data[part[u]]}]
               /\ todo' = [todo EXCEPT ![c] = @ \ {u}]
               /\ Goto(c, IF todo[c] = {u} THEN "publish" ELSE "copy")
            \/ /\ Goto(c, "err")
               /\ UNCHANGED <<todo, copied>>
      BY <2>3 DEF CompleteCopy
    <3>2. u \in Uploads /\ copied[c] \subseteq Uploads \union {Torn}
      BY <3>1 DEF TypeOK
    <3>3. data[part[u]] \in Uploads \union {None, Torn}
      BY <3>1 DEF TypeOK, PartSet
    <3> QED
      BY <2>0, <2>3, <3>1, <3>2, <3>3
      DEF CompleteCopy, TypeOK, PartSet, Writing, Label, upload, store, system
  <2>4. CASE CompletePublish(c)
    BY <2>0, <2>4
    DEF CompletePublish, TypeOK, PartSet, Writing, Label, upload, request, system
  <2>5. CASE CompleteIndex(c)
    BY <2>0, <2>5
    DEF CompleteIndex, TypeOK, PartSet, Writing, Label, upload, request, system
  <2> QED BY <1>8, <2>1, <2>2, <2>3, <2>4, <2>5
<1>9. ASSUME NEW r \in Actor \ Uploads, RemoveFiles(r) PROVE TypeInv'
  BY <1>9, RemoveFilesType
<1>10. ASSUME NEW r \in Remover, RemoveDir(r) PROVE TypeInv'
  <2>1. TypeOK'
    BY <1>10
    DEF RemoveDir, TypeOK, AfterRemoval, AfterFailure, Label, request, store,
        system, Remover
  <2>2. PartSet'
    BY <1>10, ActorAssumption
    DEF RemoveDir, TypeOK, PartSet, request, Remover
  <2> QED BY <2>1, <2>2
<1>11. ASSUME NEW r \in Client, Cancel(r) PROVE TypeInv'
  BY <1>11
  DEF Cancel, TypeOK, PartSet, Writing, Label, upload, request, store, system
<1>12. CASE Age
  BY <1>12 DEF Age, TypeOK, PartSet, upload, request, store
<1>13. CASE Crash
  <2>1. crashes' \in 0 .. MaxCrashes
    BY <1>13, SetupAssumption DEF Crash, TypeOK
  <2>2. pc' \in [Actor -> Label]
    BY <1>13 DEF Crash, TypeOK, Label
  <2>3. TypeOK'
    BY <1>13, <2>1, <2>2 DEF Crash, TypeOK, upload, request, store
  <2>4. PartSet'
    BY <1>13, ActorAssumption
    DEF Crash, TypeOK, PartSet, Writing, request
  <2> QED BY <2>3, <2>4
<1>14. CASE Restart
  BY <1>14 DEF Restart, TypeOK, PartSet, upload, request, store
<1>15. CASE UNCHANGED vars
  BY <1>15 DEF vars, TypeOK, PartSet, upload, request, store, system
<1> QED
  BY <1>1, <1>2, <1>3, <1>4, <1>5, <1>6, <1>7, <1>8, <1>9, <1>10, <1>11, <1>12,
     <1>13, <1>14, <1>15, ActorAssumption
  DEF Next, CompleteRemove, Abort, Sweep

\* Part files and sidecars hold only what was sent for their part number and
\* exist only inside the upload's directory, for any requests and failures.
THEOREM TypeCorrect == Spec => []TypeOK
<1>1. Init => TypeInv
  BY TypeInit
<1>2. TypeInv /\ [Next]_vars => TypeInv'
  BY TypeNext
<1>3. TypeInv => TypeOK
  BY DEF TypeInv
<1> QED BY <1>1, <1>2, <1>3, PTL DEF Spec

-----------------------------------------------------------------------------
(* The bytes of a completed object.                                         *)

\* No two requests are for one part number.
OwnPart ==
  \A u, v \in Uploads : part[u] \in Parts /\ part[u] = part[v] => u = v

\* Once a request has written its part, its file holds that part or is gone.
Holds(u) == part[u] \in Parts => data[part[u]] \in {u, None}
Written ==
  \A u \in Uploads : pc[u] \in {"describe", "fill", "ok"} => Holds(u)

\* A filled sidecar: its request has nothing left to write.
Described ==
  \A u \in Uploads : part[u] \in Parts /\ desc[part[u]] = u => pc[u] = "ok"

\* What the two loops of a completion have established so far.
Loops ==
  \A c \in Completes :
    /\ pc[c] \in {"idle", "check"} => copied[c] = {}
    /\ pc[c] = "check" =>
         todo[c] \subseteq named[c] /\ \A u \in named[c] \ todo[c] : pc[u] = "ok"
    /\ pc[c] = "copy" =>
         /\ todo[c] \subseteq named[c]
         /\ \A u \in named[c] : pc[u] = "ok"
         /\ copied[c] = named[c] \ todo[c]
    /\ pc[c] = "publish" => copied[c] = named[c]

AssemblyInv ==
  /\ TypeInv
  /\ OwnPart
  /\ Written
  /\ Described
  /\ Loops
  /\ AssembledAsNamed

LEMMA AssemblyInit == Init => AssemblyInv
BY TypeInit, ActorAssumption
DEF Init, AssemblyInv, OwnPart, Written, Described, Loops, AssembledAsNamed,
    NoObject

\* A step of an upload leaves every answered upload answered and the
\* completions alone.
LEMMA UploadKeepsLoops ==
  ASSUME AssemblyInv, NEW u \in Uploads, pc[u] # "ok",
         UNCHANGED <<named, todo, copied, store>>,
         NEW label, pc' = [pc EXCEPT ![u] = label]
  PROVE  Loops' /\ AssembledAsNamed'
BY ActorAssumption
DEF AssemblyInv, TypeInv, TypeOK, Loops, AssembledAsNamed, store

\* A removal, which no upload and no loop takes part in.
LEMMA RemoveFilesAssembly ==
  ASSUME AssemblyInv, NEW r \in Remover, RemoveFiles(r),
         pc[r] \in {"idle", "remove"}
  PROVE  OwnPart' /\ Written' /\ Described' /\ Loops' /\ AssembledAsNamed'
<1>1. r \notin Uploads /\ \A u \in Uploads : pc'[u] = pc[u]
  BY ActorAssumption DEF RemoveFiles, Remover, AssemblyInv, TypeInv, TypeOK
<1>2. \A c \in Completes : pc'[c] # pc[c] => pc'[c] \in {"rmdir", "err", "idle"}
  BY DEF RemoveFiles, AfterFailure, Remover, AssemblyInv, TypeInv, TypeOK
<1>3. \A c \in Completes : pc'[c] = "idle" => pc[c] = "idle"
  BY ActorAssumption
  DEF RemoveFiles, AfterFailure, Remover, AssemblyInv, TypeInv, TypeOK
<1>4. OwnPart' /\ Written' /\ Described'
  BY <1>1, ActorAssumption
  DEF RemoveFiles, AssemblyInv, TypeInv, TypeOK, OwnPart, Written, Holds,
      Described, request, upload
<1>5. UNCHANGED <<named, todo, copied, object>>
  BY DEF RemoveFiles, request, store
<1>6. Loops'
  BY <1>1, <1>2, <1>3, <1>5 DEF AssemblyInv, TypeInv, TypeOK, Loops
<1> QED BY <1>4, <1>5, <1>6 DEF AssemblyInv, AssembledAsNamed

LEMMA AssemblyNext ==
  ~Reupload => (AssemblyInv /\ [Next]_vars => AssemblyInv')
<1> SUFFICES ASSUME ~Reupload, AssemblyInv, [Next]_vars PROVE AssemblyInv'
  OBVIOUS
<1> DEFINE Goal == OwnPart' /\ Written' /\ Described' /\ Loops'
                     /\ AssembledAsNamed'
<1>0. TypeInv /\ TypeInv' /\ TypeOK /\ PartSet
  BY TypeNext DEF AssemblyInv, TypeInv
<1>1. ASSUME CreateDir \/ CreateMeta PROVE Goal
  <2>1. \A r \in Uploads \union Completes : pc'[r] = pc[r]
    BY <1>0, <1>1, ActorAssumption DEF CreateDir, CreateMeta, TypeOK
  <2> QED
    BY <1>0, <1>1, <2>1
    DEF CreateDir, CreateMeta, AssemblyInv, TypeOK, OwnPart, Written, Holds,
        Described, Loops, AssembledAsNamed, request, store
<1>2. ASSUME NEW u \in Uploads, UploadStart(u) PROVE Goal
  <2>1. PICK p \in Parts : MaySend(p) /\ part' = [part EXCEPT ![u] = p]
    BY <1>2 DEF UploadStart
  <2>2. \A v \in Uploads : part[v] # p
    BY <2>1 DEF MaySend
  <2>3. pc[u] = "idle" /\ UNCHANGED <<data, desc, named, todo, copied, store>>
    BY <1>2 DEF UploadStart, upload
  <2>4. PICK label \in {"create", "err"} : pc' = [pc EXCEPT ![u] = label]
    BY <1>2 DEF UploadStart
  <2>5. OwnPart'
    BY <1>0, <2>1, <2>2 DEF AssemblyInv, OwnPart, TypeOK
  <2>6. Written'
    BY <1>0, <2>1, <2>3, <2>4 DEF AssemblyInv, Written, Holds, TypeOK
  <2>7. desc[p] # u
    BY <1>0, <2>3, ActorAssumption DEF TypeOK, PartSet
  <2>8. Described'
    BY <1>0, <2>1, <2>3, <2>4, <2>7 DEF AssemblyInv, Described, TypeOK
  <2> QED BY <2>3, <2>4, <2>5, <2>6, <2>8, UploadKeepsLoops
<1>3. ASSUME NEW u \in Uploads,
             UploadCreate(u) \/ UploadStream(u) \/ UploadDescribe(u)
               \/ UploadFill(u)
      PROVE  Goal
  <2>1. /\ part[u] \in Parts
        /\ pc[u] \in {"create", "stream", "describe", "fill"}
        /\ UNCHANGED <<part, named, todo, copied, store>>
    BY <1>0, <1>3
    DEF UploadCreate, UploadStream, UploadDescribe, UploadFill, PartSet, Writing,
        request
  <2>2. PICK label \in Label : pc' = [pc EXCEPT ![u] = label]
    BY <1>3
    DEF UploadCreate, UploadStream, UploadDescribe, UploadFill, Label
  <2>3. \A v \in Uploads \ {u} :
          /\ pc'[v] = pc[v]
          /\ part[v] \in Parts => /\ part[v] # part[u]
                                  /\ data'[part[v]] = data[part[v]]
                                  /\ desc'[part[v]] = desc[part[v]]
    BY <1>0, <1>3, <2>1, <2>2
    DEF UploadCreate, UploadStream, UploadDescribe, UploadFill, AssemblyInv,
        OwnPart, TypeOK
  <2>4. desc[part[u]] # u
    BY <2>1 DEF AssemblyInv, Described
  <2>5. /\ pc'[u] \in {"describe", "fill", "ok"} => data'[part[u]] \in {u, None}
        /\ desc'[part[u]] = u => pc'[u] = "ok"
    <3>1. data[part[u]] \in {u, None, Torn}
      BY <1>0, <2>1 DEF TypeOK, AssemblyInv, OwnPart
    <3>2. CASE UploadCreate(u)
      BY <1>0, <2>1, <2>4, <3>2 DEF UploadCreate, TypeOK
    <3>3. CASE UploadStream(u)
      BY <1>0, <2>1, <2>4, <3>1, <3>3 DEF UploadStream, TypeOK
    <3>4. CASE UploadDescribe(u)
      BY <1>0, <2>1, <2>4, <3>4, ActorAssumption
      DEF UploadDescribe, TypeOK, AssemblyInv, Written, Holds
    <3>5. CASE UploadFill(u)
      BY <1>0, <2>1, <2>4, <3>5
      DEF UploadFill, TypeOK, AssemblyInv, Written, Holds
    <3> QED BY <1>3, <3>2, <3>3, <3>4, <3>5
  <2>6. OwnPart' /\ Written' /\ Described'
    BY <2>1, <2>3, <2>5 DEF AssemblyInv, OwnPart, Written, Holds, Described
  <2>7. Loops' /\ AssembledAsNamed'
    BY <2>1, <2>2, UploadKeepsLoops
  <2> QED BY <2>6, <2>7
<1>4. ASSUME NEW c \in Completes,
             CompleteStart(c) \/ CompleteCheck(c) \/ CompleteCopy(c)
               \/ CompletePublish(c) \/ CompleteIndex(c)
      PROVE  Goal
  <2>1. /\ UNCHANGED <<data, desc, part>>
        /\ pc' = [pc EXCEPT ![c] = pc'[c]]
    BY <1>0, <1>4
    DEF CompleteStart, CompleteCheck, CompleteCopy, CompletePublish,
        CompleteIndex, TypeOK, upload, request
  <2>2. \A u \in Uploads : pc'[u] = pc[u]
    BY <1>0, <2>1, ActorAssumption DEF TypeOK
  <2>3. OwnPart' /\ Written' /\ Described'
    BY <2>1, <2>2 DEF AssemblyInv, OwnPart, Written, Holds, Described
  <2>4. \A d \in Completes \ {c} :
          /\ pc'[d] = pc[d] /\ named'[d] = named[d] /\ todo'[d] = todo[d]
          /\ copied'[d] = copied[d]
    BY <1>0, <1>4
    DEF CompleteStart, CompleteCheck, CompleteCopy, CompletePublish,
        CompleteIndex, TypeOK, request
  <2> DEFINE Loop(d) ==
        /\ pc[d] \in {"idle", "check"} => copied[d] = {}
        /\ pc[d] = "check" =>
             /\ todo[d] \subseteq named[d]
             /\ \A u \in named[d] \ todo[d] : pc[u] = "ok"
        /\ pc[d] = "copy" =>
             /\ todo[d] \subseteq named[d]
             /\ \A u \in named[d] : pc[u] = "ok"
             /\ copied[d] = named[d] \ todo[d]
        /\ pc[d] = "publish" => copied[d] = named[d]
  <2>5. Loop(c)
    BY DEF AssemblyInv, Loops
  <2>6. Loop(c)'
    <3>1. CASE CompleteStart(c)
      BY <1>0, <2>5, <3>1 DEF CompleteStart, TypeOK
    <3>2. CASE CompleteCheck(c)
      <4>1. PICK u \in todo[c] :
              \/ /\ PartMatches(u)
                 /\ IF todo[c] = {u}
                    THEN /\ todo' = [todo EXCEPT ![c] = named[c]]
                         /\ Goto(c, "copy")
                    ELSE /\ todo' = [todo EXCEPT ![c] = @ \ {u}]
                         /\ UNCHANGED pc
              \/ Goto(c, "err") /\ UNCHANGED todo
        BY <3>2 DEF CompleteCheck
      <4>2. u \in Uploads /\ u \in named[c] /\ part[u] \in Parts
        BY <1>0, <2>5, <3>2, <4>1 DEF CompleteCheck, TypeOK, PartSet
      <4>3. PartMatches(u) => pc[u] = "ok"
        BY <4>2 DEF PartMatches, AssemblyInv, Described
      <4>4. named[c] \subseteq Uploads /\ named' = named /\ copied' = copied
        BY <1>0, <3>2 DEF CompleteCheck, TypeOK
      <4> QED
        BY <1>0, <2>2, <2>5, <3>2, <4>1, <4>2, <4>3, <4>4
        DEF CompleteCheck, TypeOK
    <3>3. CASE CompleteCopy(c)
      <4>1. PICK u \in todo[c] :
              \/ /\ data[part[u]] # None
                 /\ copied' = [copied EXCEPT ![c] = @ \union {data[part[u]]}]
                 /\ todo' = [todo EXCEPT ![c] = @ \ {u}]
                 /\ Goto(c, IF todo[c] = {u} THEN "publish" ELSE "copy")
              \/ Goto(c, "err") /\ UNCHANGED <<todo, copied>>
        BY <3>3 DEF CompleteCopy
      <4>2. /\ u \in Uploads /\ u \in named[c] /\ part[u] \in Parts
            /\ pc[u] = "ok"
        BY <1>0, <2>5, <3>3, <4>1 DEF CompleteCopy, TypeOK, PartSet
      <4>3. data[part[u]] \in {u, None}
        BY <4>2 DEF AssemblyInv, Written, Holds
      <4>4. named[c] \subseteq Uploads /\ named' = named
        BY <1>0, <3>3 DEF CompleteCopy, TypeOK
      <4>5. CASE Goto(c, "err")
        BY <1>0, <4>5 DEF TypeOK
      <4>6. CASE /\ copied' = [copied EXCEPT ![c] = @ \union {u}]
                 /\ todo' = [todo EXCEPT ![c] = @ \ {u}]
                 /\ Goto(c, IF todo[c] = {u} THEN "publish" ELSE "copy")
        <5>1. /\ copied'[c] = copied[c] \union {u}
              /\ todo'[c] = todo[c] \ {u}
              /\ pc'[c] = IF todo[c] = {u} THEN "publish" ELSE "copy"
          BY <1>0, <4>6 DEF TypeOK
        <5>2. /\ todo[c] \subseteq named[c]
              /\ \A v \in named[c] : pc[v] = "ok"
              /\ copied[c] = named[c] \ todo[c]
          BY <2>5, <3>3 DEF CompleteCopy
        <5> QED BY <2>2, <4>1, <4>2, <4>4, <5>1, <5>2
      <4> QED BY <4>1, <4>3, <4>5, <4>6
    <3>4. CASE CompletePublish(c) \/ CompleteIndex(c)
      BY <1>0, <3>4 DEF CompletePublish, CompleteIndex, TypeOK
    <3> QED BY <1>4, <3>1, <3>2, <3>3, <3>4
  <2>7. Loops'
    BY <1>0, <2>2, <2>4, <2>6 DEF AssemblyInv, Loops, TypeOK
  <2>8. AssembledAsNamed'
    BY <1>4, <2>5
    DEF CompleteStart, CompleteCheck, CompleteCopy, CompletePublish,
        CompleteIndex, AssemblyInv, AssembledAsNamed, store
  <2> QED BY <2>3, <2>7, <2>8
<1>5. ASSUME NEW r \in Remover, RemoveFiles(r), pc[r] \in {"idle", "remove"}
      PROVE  Goal
  BY <1>5, RemoveFilesAssembly
<1>6. ASSUME NEW r \in Remover, RemoveDir(r) PROVE Goal
  <2>1. \A u \in Uploads : pc'[u] = pc[u]
    BY <1>0, <1>6, ActorAssumption DEF RemoveDir, Remover, TypeOK
  <2>2. \A c \in Completes : pc'[c] = pc[c] \/ pc'[c] \in {"index", "err"}
    BY <1>0, <1>6, ActorAssumption
    DEF RemoveDir, Remover, AfterRemoval, AfterFailure, TypeOK
  <2> QED
    BY <1>0, <1>6, <2>1, <2>2
    DEF RemoveDir, AssemblyInv, TypeOK, OwnPart, Written, Holds, Described, Loops,
        AssembledAsNamed, request, store
<1>7. ASSUME UNCHANGED <<data, desc, part, named, todo, copied, object>>,
             \A r \in Actor :
               \/ pc'[r] = pc[r]
               \/ /\ pc[r] # "ok" /\ pc'[r] \notin {"check", "copy", "publish",
                                                 "describe", "fill", "ok"}
                  /\ pc'[r] = "idle" => r = Sweeper
      PROVE  Goal
  BY <1>0, <1>7, ActorAssumption
  DEF AssemblyInv, TypeOK, OwnPart, Written, Holds, Described, Loops,
      AssembledAsNamed
<1>8. ASSUME NEW r \in Client, Cancel(r) PROVE Goal
  BY <1>0, <1>7, <1>8 DEF Cancel, TypeOK, upload, request, store
<1>9. ASSUME Crash PROVE Goal
  <2>1. UNCHANGED <<data, desc, part, named, todo, copied, object>>
    BY <1>9 DEF Crash, upload, request, store
  <2>2. \A r \in Actor : pc[r] = "ok" /\ r # Sweeper => pc'[r] = pc[r]
    BY <1>9 DEF Crash
  <2>3. \A r \in Actor : pc'[r] = pc[r] \/ pc'[r] = "gone" \/ r = Sweeper
    BY <1>9 DEF Crash
  <2> QED
    BY <1>0, <2>1, <2>2, <2>3, ActorAssumption
    DEF AssemblyInv, TypeOK, OwnPart, Written, Holds, Described, Loops,
        AssembledAsNamed
<1>10. ASSUME Age \/ Restart \/ UNCHANGED vars PROVE Goal
  BY <1>0, <1>7, <1>10 DEF Age, Restart, vars, TypeOK, upload, request, store
<1>11. ASSUME NEW c \in Completes, CompleteRemove(c) PROVE Goal
  BY <1>5, <1>11 DEF CompleteRemove, Remover
<1>12. ASSUME NEW a \in Aborts, Abort(a) PROVE Goal
  BY <1>5, <1>12 DEF Abort, Remover
<1>13. ASSUME Sweep PROVE Goal
  BY <1>5, <1>13 DEF Sweep, Remover
<1>14. Goal
  BY <1>1, <1>2, <1>3, <1>4, <1>6, <1>8, <1>9, <1>10, <1>11, <1>12, <1>13
  DEF Next
<1> QED BY <1>0, <1>14 DEF AssemblyInv

\* A completed object consists of exactly the parts whose ETags the request
\* listed, for any number of requests and any failures, if clients do not send a
\* part number twice.
THEOREM CompletedObject == ~Reupload => (Spec => []AssembledAsNamed)
<1> SUFFICES ASSUME ~Reupload PROVE Spec => []AssembledAsNamed
  OBVIOUS
<1>1. Init => AssemblyInv
  BY AssemblyInit
<1>2. AssemblyInv /\ [Next]_vars => AssemblyInv'
  BY AssemblyNext
<1>3. AssemblyInv => AssembledAsNamed
  BY DEF AssemblyInv
<1> QED BY <1>1, <1>2, <1>3, PTL DEF Spec
=============================================================================
