----------------------------- MODULE Multipart -----------------------------
(***************************************************************************)
(* One multipart upload (filesystem/multipart.rs): its directory under     *)
(* `.uploads/', the part files and their sidecars, and the requests that   *)
(* create the upload, add parts, complete it and abort it, running beside  *)
(* the housekeeping sweep of stale uploads, with dropped request futures   *)
(* and crashes in between.                                                 *)
(*                                                                         *)
(* A part's bytes are named by the UploadPart request that sent them; that *)
(* name is also the ETag, which a client can compute before the answer.    *)
(***************************************************************************)
EXTENDS Naturals

CONSTANTS
  Parts,       \* part numbers
  Uploads,     \* UploadPart requests; each runs once
  Completes,   \* CompleteMultipartUpload requests; each runs once
  Aborts,      \* AbortMultipartUpload requests; each runs once
  Creator,     \* the CreateMultipartUpload request
  Sweeper,     \* the housekeeping task
  None,        \* no file
  Torn,        \* a file that is being written or was left half written
  Reupload,    \* TRUE: clients send a part number again, one after the other
  Faults,      \* kinds of failure that may happen: a subset of FaultKinds
  MaxCrashes   \* bound on the number of crashes of the process

FaultKinds == {"stream", "checksum", "sidecar", "check", "publish", "cancel"}
Client == Uploads \union Completes \union Aborts \union {Creator}
Actor == Client \union {Sweeper}
Remover == Completes \union Aborts \union {Sweeper}

ASSUME ActorAssumption ==
  /\ Creator \notin Uploads \union Completes \union Aborts
  /\ Sweeper \notin Client
  /\ Uploads \intersect (Completes \union Aborts) = {}
  /\ Completes \intersect Aborts = {}
  /\ {None, Torn} \intersect Uploads = {}
  /\ None # Torn
  /\ None \notin Parts
ASSUME SetupAssumption ==
  /\ Reupload \in BOOLEAN
  /\ Faults \subseteq FaultKinds
  /\ MaxCrashes \in Nat

VARIABLES
  dir,       \* the upload directory: new, bare (no `.meta.json'), open or gone
  old,       \* the upload is older than the sweep's limit
  data,      \* per part number: the part file
  desc,      \* per part number: the part's sidecar, holding its ETag
  part,      \* per UploadPart: the part number it is for
  named,     \* per Complete: the ETags its request lists, one per part number
  todo,      \* per Complete: the listed parts its loop has not reached
  copied,    \* per Complete: the bytes in its temporary object
  object,    \* the key's object: ETags its sidecar was made from, and its bytes
  index,     \* the Complete whose row is in the metadata index
  pc,        \* per actor: the next step
  up,        \* the process is running
  crashes    \* number of crashes so far

upload == <<dir, data, desc>>
request == <<part, named, todo, copied>>
store == <<object, index>>
system == <<old, up, crashes>>
vars == <<upload, request, store, system, pc>>

NoObject == [named |-> {}, bytes |-> {}]

Ended == {"idle", "ok", "err", "gone"}
InFlight(r) == pc[r] \notin Ended
Goto(r, label) == pc' = [pc EXCEPT ![r] = label]
Exists == dir \in {"bare", "open"}
Empty == \A p \in Parts : data[p] = None /\ desc[p] = None

Init ==
  /\ dir = "new"
  /\ old = FALSE
  /\ data = [p \in Parts |-> None]
  /\ desc = [p \in Parts |-> None]
  /\ part = [u \in Uploads |-> None]
  /\ named = [c \in Completes |-> {}]
  /\ todo = [c \in Completes |-> {}]
  /\ copied = [c \in Completes |-> {}]
  /\ object = NoObject
  /\ index = None
  /\ pc = [r \in Actor |-> "idle"]
  /\ up = TRUE
  /\ crashes = 0

-----------------------------------------------------------------------------
(* CreateMultipartUpload: the directory, then `.meta.json' in it.           *)

CreateDir ==
  /\ up
  /\ pc[Creator] = "idle"
  /\ dir' = "bare"
  /\ Goto(Creator, "meta")
  /\ UNCHANGED <<data, desc, request, store, system>>

\* The write fails when the sweep has taken the directory, which looks stale to
\* it as long as there is no `.meta.json'.
CreateMeta ==
  /\ pc[Creator] = "meta"
  /\ \/ dir = "bare" /\ dir' = "open" /\ Goto(Creator, "ok")
     \/ dir = "gone" /\ dir' = dir /\ Goto(Creator, "err")
  /\ UNCHANGED <<data, desc, request, store, system>>

-----------------------------------------------------------------------------
(* UploadPart.                                                              *)

\* A part number is sent once, or again after the request before has ended.
MaySend(p) ==
  \A v \in Uploads : part[v] = p => Reupload /\ ~InFlight(v)

\* The upload is looked up: its directory, then its `.meta.json'.
UploadStart(u) ==
  /\ up
  /\ pc[u] = "idle"
  /\ pc[Creator] = "ok"
  /\ \E p \in Parts :
       /\ MaySend(p)
       /\ part' = [part EXCEPT ![u] = p]
  /\ Goto(u, IF dir = "open" THEN "create" ELSE "err")
  /\ UNCHANGED <<upload, named, todo, copied, store, system>>

\* Mutant: missing directories are created on the way.
UploadCreateAnyway(u) ==
  /\ pc[u] = "create"
  /\ data' = [data EXCEPT ![part[u]] = Torn]
  /\ Goto(u, "stream")
  /\ UNCHANGED <<dir, desc, request, store, system>>

\* File::create under the part's own name cuts what was there.
UploadCreate(u) ==
  /\ pc[u] = "create"
  /\ \/ /\ Exists
        /\ data' = [data EXCEPT ![part[u]] = Torn]
        /\ Goto(u, "stream")
     \/ /\ ~Exists
        /\ Goto(u, "err")
        /\ UNCHANGED data
  /\ UNCHANGED <<dir, desc, request, store, system>>

\* The body is written, unseen if the file was unlinked since.  A broken body
\* or an exhausted quota leaves the file half written; a checksum mismatch
\* removes it.
UploadStream(u) ==
  /\ pc[u] = "stream"
  /\ \/ /\ data' = [data EXCEPT ![part[u]] = IF @ = Torn THEN u ELSE @]
        /\ Goto(u, "describe")
     \/ /\ "stream" \in Faults
        /\ Goto(u, "err")
        /\ UNCHANGED data
     \/ /\ "checksum" \in Faults
        /\ data' = [data EXCEPT ![part[u]] = None]
        /\ Goto(u, "err")
  /\ UNCHANGED <<dir, desc, request, store, system>>

\* fs::write of the part's sidecar: created or cut, then filled.
UploadDescribe(u) ==
  /\ pc[u] = "describe"
  /\ \/ /\ Exists
        /\ desc' = [desc EXCEPT ![part[u]] = Torn]
        /\ Goto(u, "fill")
        /\ UNCHANGED data
     \/ /\ ~Exists \/ "sidecar" \in Faults
        /\ data' = [data EXCEPT ![part[u]] = None]
        /\ Goto(u, "err")
        /\ UNCHANGED desc
  /\ UNCHANGED <<dir, request, store, system>>

UploadFill(u) ==
  /\ pc[u] = "fill"
  /\ \/ /\ desc' = [desc EXCEPT ![part[u]] = IF @ = Torn THEN u ELSE @]
        /\ Goto(u, "ok")
        /\ UNCHANGED data
     \/ /\ "sidecar" \in Faults
        /\ data' = [data EXCEPT ![part[u]] = None]
        /\ Goto(u, "err")
        /\ UNCHANGED desc
  /\ UNCHANGED <<dir, request, store, system>>

-----------------------------------------------------------------------------
(* CompleteMultipartUpload.                                                 *)

\* The ETags a request may list: parts that were at least begun, one for each
\* part number it lists.
Listable(s) ==
  /\ s # {}
  /\ \A u \in s : part[u] # None
  /\ \A u, v \in s : part[u] = part[v] => u = v

CompleteStart(c) ==
  /\ up
  /\ pc[c] = "idle"
  /\ pc[Creator] = "ok"
  /\ \E s \in SUBSET Uploads :
       /\ Listable(s)
       /\ named' = [named EXCEPT ![c] = s]
       /\ todo' = [todo EXCEPT ![c] = s]
  /\ \/ dir = "open" /\ Goto(c, "check")
     \/ /\ dir # "open" \/ "check" \in Faults
        /\ Goto(c, "err")
  /\ UNCHANGED <<upload, part, copied, store, system>>

\* Mutant: a part file is enough.
PartPresent(u) == data[part[u]] # None

\* read_part_meta finds a readable sidecar with the ETag of the request.
PartMatches(u) == desc[part[u]] = u

\* The first loop, in the order of the request's list.
CompleteCheck(c) ==
  /\ pc[c] = "check"
  /\ \E u \in todo[c] :
       \/ /\ PartMatches(u)
          /\ IF todo[c] = {u}
             THEN /\ todo' = [todo EXCEPT ![c] = named[c]]
                  /\ Goto(c, "copy")
             ELSE /\ todo' = [todo EXCEPT ![c] = @ \ {u}]
                  /\ UNCHANGED pc
       \/ /\ ~PartMatches(u) \/ "check" \in Faults
          /\ Goto(c, "err")
          /\ UNCHANGED todo
  /\ UNCHANGED <<upload, part, named, copied, store, system>>

\* The second loop opens the part files by number and copies them.
CompleteCopy(c) ==
  /\ pc[c] = "copy"
  /\ \E u \in todo[c] :
       \/ /\ data[part[u]] # None
          /\ copied' = [copied EXCEPT ![c] = @ \union {data[part[u]]}]
          /\ todo' = [todo EXCEPT ![c] = @ \ {u}]
          /\ Goto(c, IF todo[c] = {u} THEN "publish" ELSE "copy")
       \/ /\ data[part[u]] = None
          /\ Goto(c, "err")
          /\ UNCHANGED <<todo, copied>>
  /\ UNCHANGED <<upload, part, named, store, system>>

\* publish_temp_payload_and_meta, taken as one step: ObjectPublish has the rest.
CompletePublish(c) ==
  /\ pc[c] = "publish"
  /\ \/ /\ object' = [named |-> named[c], bytes |-> copied[c]]
        /\ Goto(c, "remove")
     \/ /\ "publish" \in Faults
        /\ Goto(c, "err")
        /\ UNCHANGED object
  /\ UNCHANGED <<upload, request, index, system>>

CompleteIndex(c) ==
  /\ pc[c] = "index"
  /\ index' = c
  /\ Goto(c, "ok")
  /\ UNCHANGED <<upload, request, object, system>>

-----------------------------------------------------------------------------
(* remove_dir_all: everything found inside goes, then the directory itself, *)
(* unless something new has appeared in it.                                 *)

AfterRemoval(r) ==
  IF r \in Completes THEN "index" ELSE IF r \in Aborts THEN "ok" ELSE "idle"
AfterFailure(r) == IF r = Sweeper THEN "idle" ELSE "err"

RemoveFiles(r) ==
  /\ \/ /\ Exists
        /\ dir' = "bare"
        /\ data' = [p \in Parts |-> None]
        /\ desc' = [p \in Parts |-> None]
        /\ Goto(r, "rmdir")
     \/ /\ ~Exists
        /\ Goto(r, AfterFailure(r))
        /\ UNCHANGED upload
  /\ UNCHANGED <<request, store, system>>

\* One that another removal has taken in the meantime counts as removed.
RemoveDir(r) ==
  /\ pc[r] = "rmdir"
  /\ \/ /\ dir = "bare" /\ Empty
        /\ dir' = "gone"
        /\ Goto(r, AfterRemoval(r))
     \/ /\ dir = "gone"
        /\ Goto(r, AfterRemoval(r))
        /\ UNCHANGED dir
     \/ /\ dir = "open" \/ ~Empty
        /\ Goto(r, AfterFailure(r))
        /\ UNCHANGED dir
  /\ UNCHANGED <<data, desc, request, store, system>>

\* The Complete is answered with an error when the directory is gone, although
\* its object is in place.
CompleteRemove(c) == pc[c] = "remove" /\ RemoveFiles(c)

Abort(a) ==
  /\ up
  /\ pc[a] = "idle"
  /\ pc[Creator] = "ok"
  /\ RemoveFiles(a)

\* Mutant: a directory without readable `.meta.json' is not stale.
StaleByDate == dir = "open" /\ old

\* housekeeping_sweep: an upload without readable `.meta.json' has no date and
\* counts as stale.
Stale == dir = "bare" \/ (dir = "open" /\ old)

Sweep ==
  /\ up
  /\ pc[Sweeper] = "idle"
  /\ Stale
  /\ RemoveFiles(Sweeper)

-----------------------------------------------------------------------------
(* The environment.                                                         *)

\* The upload passes the age limit of the sweep.
Age ==
  /\ ~old
  /\ dir # "new"
  /\ old' = TRUE
  /\ UNCHANGED <<upload, request, store, up, crashes, pc>>

\* The future of a request is dropped.
Cancel(r) ==
  /\ "cancel" \in Faults
  /\ InFlight(r)
  /\ Goto(r, "gone")
  /\ UNCHANGED <<upload, request, store, system>>

Crash ==
  /\ up
  /\ crashes < MaxCrashes
  /\ up' = FALSE
  /\ crashes' = crashes + 1
  /\ pc' = [r \in Actor |->
              IF r = Sweeper THEN "idle"
              ELSE IF InFlight(r) THEN "gone" ELSE pc[r]]
  /\ UNCHANGED <<upload, request, store, old>>

Restart ==
  /\ ~up
  /\ up' = TRUE
  /\ UNCHANGED <<upload, request, store, old, crashes, pc>>

Next ==
  \/ CreateDir \/ CreateMeta
  \/ \E u \in Uploads :
       \/ UploadStart(u) \/ UploadCreate(u) \/ UploadStream(u)
       \/ UploadDescribe(u) \/ UploadFill(u)
  \/ \E c \in Completes :
       \/ CompleteStart(c) \/ CompleteCheck(c) \/ CompleteCopy(c)
       \/ CompletePublish(c) \/ CompleteRemove(c) \/ CompleteIndex(c)
  \/ \E a \in Aborts : Abort(a)
  \/ Sweep
  \/ \E r \in Remover : RemoveDir(r)
  \/ \E r \in Client : Cancel(r)
  \/ Age \/ Crash \/ Restart

Spec == Init /\ [][Next]_vars

\* The sweep runs at start and then hourly while the process is up (main.rs);
\* time passes; a dead process is started again.
Fairness ==
  /\ WF_vars(Sweep)
  /\ WF_vars(RemoveDir(Sweeper))
  /\ WF_vars(Age)
  /\ WF_vars(Restart)

FairSpec == Spec /\ Fairness

-----------------------------------------------------------------------------
(* Properties.                                                              *)

Label == {"idle", "meta", "create", "stream", "describe", "fill", "check",
          "copy", "publish", "remove", "rmdir", "index", "ok", "err", "gone"}

\* Part files and sidecars hold what was sent for their own part number, and
\* there is none outside an existing directory.
TypeOK ==
  /\ dir \in {"new", "bare", "open", "gone"}
  /\ old \in BOOLEAN
  /\ data \in [Parts -> Uploads \union {None, Torn}]
  /\ desc \in [Parts -> Uploads \union {None, Torn}]
  /\ part \in [Uploads -> Parts \union {None}]
  /\ named \in [Completes -> SUBSET Uploads]
  /\ todo \in [Completes -> SUBSET Uploads]
  /\ copied \in [Completes -> SUBSET (Uploads \union {Torn})]
  /\ object.named \in SUBSET Uploads
  /\ object.bytes \in SUBSET (Uploads \union {Torn})
  /\ index \in Completes \union {None}
  /\ pc \in [Actor -> Label]
  /\ up \in BOOLEAN
  /\ crashes \in 0 .. MaxCrashes
  /\ \A p \in Parts : {data[p], desc[p]} \subseteq
                        {u \in Uploads : part[u] = p} \union {None, Torn}
  /\ ~Exists => Empty

\* A completed object consists of exactly the parts whose ETags its sidecar was
\* made from, whole and each its own bytes, however uploads, other completions,
\* aborts and the sweep overlap with the two loops of
\* complete_multipart_upload, as long as no part number is sent twice.
AssembledAsNamed == object.bytes = object.named

\* Every upload ends: completed, aborted or, when its clients or the process
\* died at any step, swept.
UploadsEnd == Exists ~> (dir = "gone")
=============================================================================
