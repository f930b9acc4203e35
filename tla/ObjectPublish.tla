--------------------------- MODULE ObjectPublish ---------------------------
(***************************************************************************)
(* The files of ONE object key of an unversioned bucket without object     *)
(* lock, as FilesystemStorage handles them (maxio-storage/src/filesystem): *)
(* PUT, DELETE and GET requests running concurrently, one file-system call *)
(* per step, with I/O failures, dropped request futures, process crashes   *)
(* and the housekeeping sweep of `.maxio-tmp-*' files in between.          *)
(*                                                                         *)
(* Nothing in FilesystemStorage locks a key.  A PUT writes its payload and *)
(* its `.meta.json' sidecar under temporary names; then                    *)
(* publish_temp_payload_and_meta moves the old pair aside and the new pair *)
(* into place, four renames in all, undoing them when one fails.           *)
(*                                                                         *)
(* A body is named by the PUT that carries it: the payload of request w    *)
(* and the sidecar that describes it are both written as w.                *)
(***************************************************************************)
EXTENDS Naturals

CONSTANTS
  Puts,        \* PUT requests; each runs once
  Deletes,     \* DELETE requests; each runs once
  Gets,        \* GET requests; each runs once
  Old,         \* the body that may be stored already when the model starts
  None,        \* no such file
  Paths,       \* write paths PUTs may take: a subset of WritePaths
  Serial,      \* TRUE: clients have at most one PUT or DELETE in flight
  Depths,      \* values of nested: TRUE is a key with a `/' in it
  Faults,      \* kinds of failure that may happen: a subset of FaultKinds
  MaxCrashes   \* bound on the number of crashes of the process

WritePaths == {"flat", "ec", "ec_enc"}
Format == {"flat", "ec"}
FaultKinds == {"stream", "backup", "rename", "restore", "cancel"}
Body == Puts \union {Old}
Request == Puts \union Deletes \union Gets

ASSUME RequestAssumption ==
  /\ None \notin Body
  /\ Old \notin Request
  /\ Puts \intersect (Deletes \union Gets) = {}
  /\ Deletes \intersect Gets = {}
ASSUME ModeAssumption ==
  /\ Paths \subseteq WritePaths
  /\ Paths # {}
  /\ Serial \in BOOLEAN
  /\ Depths \subseteq BOOLEAN
  /\ Depths # {}
  /\ Faults \subseteq FaultKinds
  /\ MaxCrashes \in Nat

VARIABLES
  payload,     \* the object file ("flat") and the `<key>.ec' directory ("ec")
  meta,        \* the sidecar `<key>.meta.json'
  tmpPayload,  \* per PUT: its temporary payload file or directory
  tmpMeta,     \* per PUT: its temporary sidecar
  bakPayload,  \* per PUT: the file backup_existing renamed the payload to
  bakMeta,     \* per PUT: the file backup_existing renamed the sidecar to
  gotPayload,  \* per PUT: payload_backup is Some (its file may be gone)
  gotMeta,     \* per PUT: meta_backup is Some
  route,       \* per body: the write path it was stored by
  good,        \* per PUT: the body matches the checksum the client declared
  nested,      \* the key's files are in a subdirectory of the bucket; constant
  index,       \* the key's row in the SQLite metadata index
  pc,          \* per request: the next step
  view,        \* per GET: the sidecar it has read
  layout,      \* per GET: the payload format it has decided to open
  got,         \* per GET: the payload it returned
  up,          \* the process is running
  crashes,     \* number of crashes so far
  last         \* history: the body published last, None once deleted

files == <<payload, meta, tmpPayload, tmpMeta, bakPayload, bakMeta>>
putVars == <<gotPayload, gotMeta, route, good>>
getVars == <<view, layout, got>>
sysVars == <<nested, up, crashes>>
vars == <<files, putVars, getVars, sysVars, index, pc, last>>

Ended == {"idle", "ok", "err", "gone"}
InFlight(r) == pc[r] \notin Ended

\* The payload path a body is stored under: obj_path or ec_dir.
FormatOf(path) == IF path = "flat" THEN "flat" ELSE "ec"
FormatAt(b) == FormatOf(route[b])

\* A client that serialises its writes issues one only when none is in flight.
MayIssue == Serial => \A r \in Puts \union Deletes : ~InFlight(r)

Goto(r, label) == pc' = [pc EXCEPT ![r] = label]

Init ==
  /\ \E p \in Paths, b \in {Old, None} :
       /\ route = [x \in Body |-> p]
       /\ payload = [f \in Format |-> IF f = FormatOf(p) THEN b ELSE None]
       /\ meta = b
       /\ index = b
       /\ last = b
  /\ tmpPayload = [w \in Puts |-> None]
  /\ tmpMeta = [w \in Puts |-> None]
  /\ bakPayload = [w \in Puts |-> None]
  /\ bakMeta = [w \in Puts |-> None]
  /\ gotPayload = [w \in Puts |-> FALSE]
  /\ gotMeta = [w \in Puts |-> FALSE]
  /\ good = [w \in Puts |-> TRUE]
  /\ pc = [r \in Request |-> "idle"]
  /\ view = [g \in Gets |-> None]
  /\ layout = [g \in Gets |-> "flat"]
  /\ got = [g \in Gets |-> None]
  /\ nested \in Depths
  /\ up = TRUE
  /\ crashes = 0

-----------------------------------------------------------------------------
(* PUT: staging the payload and the sidecar under temporary names.         *)

\* TempPathGuard::drop: an armed guard removes its temporary file, so a PUT
\* that returns an error takes its own temporaries with it.
DropGuards(w) ==
  /\ tmpPayload' = [tmpPayload EXCEPT ![w] = None]
  /\ tmpMeta' = [tmpMeta EXCEPT ![w] = None]

\* The PUT returns an error without touching the published files.
Fail(w) ==
  /\ Goto(w, "err")
  /\ DropGuards(w)
  /\ UNCHANGED <<payload, meta, bakPayload, bakMeta>>

\* Mutant: one temporary name per key instead of one per request.
SharedTempSlot(w) == CHOOSE x \in Puts : TRUE

\* temp_sibling_path: a fresh UUID in the name, so a file of this request alone.
TempSlot(w) == w

\* put_object: validation passes, the effective policy of the bucket picks the
\* write path, the temporary payload is created.
PutStart(w) ==
  /\ up
  /\ pc[w] = "idle"
  /\ MayIssue
  /\ \E p \in Paths, g \in BOOLEAN :
       /\ route' = [route EXCEPT ![w] = p]
       /\ good' = [good EXCEPT ![w] = g]
  /\ tmpPayload' = [tmpPayload EXCEPT ![TempSlot(w)] = w]
  /\ Goto(w, "body")
  /\ UNCHANGED <<payload, meta, tmpMeta, bakPayload, bakMeta, gotPayload,
                 gotMeta, getVars, index, sysVars, last>>

\* put_object compares the declared checksum.
FlatAccepts(w) == good[w]

\* put_object_chunked is handed the algorithm only.  It still writes parity and
\* manifest into its temporary directory and fails when that has been removed.
ChunkedAccepts(w) == tmpPayload[w] # None

\* put_object_chunked_encrypted does both.
EncryptedAccepts(w) == good[w] /\ tmpPayload[w] # None

\* Mutant: the declared checksum is compared nowhere.
AnyBodyAccepted(w) == FormatAt(w) = "ec" => tmpPayload[w] # None

BodyAccepted(w) ==
  \/ route[w] = "flat" /\ FlatAccepts(w)
  \/ route[w] = "ec" /\ ChunkedAccepts(w)
  \/ route[w] = "ec_enc" /\ EncryptedAccepts(w)

\* The body has been streamed into the temporary payload and is checked.
PutBody(w) ==
  /\ pc[w] = "body"
  /\ \/ /\ BodyAccepted(w)
        /\ Goto(w, "sidecar")
        /\ UNCHANGED files
     \/ /\ ~BodyAccepted(w) \/ "stream" \in Faults
        /\ Fail(w)
  /\ UNCHANGED <<putVars, getVars, index, sysVars, last>>

\* The temporary sidecar is written.
PutSidecar(w) ==
  /\ pc[w] = "sidecar"
  /\ \/ /\ tmpMeta' = [tmpMeta EXCEPT ![TempSlot(w)] = w]
        /\ Goto(w, "probePayload")
        /\ UNCHANGED <<payload, meta, tmpPayload, bakPayload, bakMeta>>
     \/ /\ "stream" \in Faults
        /\ Fail(w)
  /\ UNCHANGED <<putVars, getVars, index, sysVars, last>>

-----------------------------------------------------------------------------
(* PUT: publish_temp_payload_and_meta.  backup_existing first asks whether  *)
(* the file exists and then renames it: two calls, hence two steps.         *)

ProbePayload(w) ==
  /\ pc[w] = "probePayload"
  /\ Goto(w, IF payload[FormatAt(w)] # None
             THEN "savePayload" ELSE "probeMeta")
  /\ UNCHANGED <<files, putVars, getVars, index, sysVars, last>>

\* Mutant: the old payload is removed instead of moved aside.
RemovePayload(w) ==
  /\ pc[w] = "savePayload"
  /\ payload' = [payload EXCEPT ![FormatAt(w)] = None]
  /\ gotPayload' = [gotPayload EXCEPT ![w] = TRUE]
  /\ Goto(w, "probeMeta")
  /\ UNCHANGED <<meta, tmpPayload, tmpMeta, bakPayload, bakMeta, gotMeta, route,
                 good, getVars, index, sysVars, last>>

\* The rename fails when another request has moved the file since the probe.
SavePayload(w) ==
  /\ pc[w] = "savePayload"
  /\ \/ /\ payload[FormatAt(w)] # None
        /\ bakPayload' = [bakPayload EXCEPT ![w] = payload[FormatAt(w)]]
        /\ payload' = [payload EXCEPT ![FormatAt(w)] = None]
        /\ gotPayload' = [gotPayload EXCEPT ![w] = TRUE]
        /\ Goto(w, "probeMeta")
        /\ UNCHANGED <<meta, tmpPayload, tmpMeta, bakMeta>>
     \/ /\ payload[FormatAt(w)] = None \/ "backup" \in Faults
        /\ Fail(w)
        /\ UNCHANGED gotPayload
  /\ UNCHANGED <<gotMeta, route, good, getVars, index, sysVars, last>>

ProbeMeta(w) ==
  /\ pc[w] = "probeMeta"
  /\ Goto(w, IF meta # None THEN "saveMeta" ELSE "movePayload")
  /\ UNCHANGED <<files, putVars, getVars, index, sysVars, last>>

\* Mutant: a failure here undoes the first backup.
SaveMetaOrUndo(w) ==
  /\ pc[w] = "saveMeta"
  /\ IF meta # None
     THEN /\ bakMeta' = [bakMeta EXCEPT ![w] = meta]
          /\ meta' = None
          /\ gotMeta' = [gotMeta EXCEPT ![w] = TRUE]
          /\ Goto(w, "movePayload")
     ELSE /\ Goto(w, "clearPayload")
          /\ UNCHANGED <<meta, bakMeta, gotMeta>>
  /\ UNCHANGED <<payload, tmpPayload, tmpMeta, bakPayload, gotPayload, route,
                 good, getVars, index, sysVars, last>>

\* A failure here returns at once: the payload moved aside stays aside.
SaveMeta(w) ==
  /\ pc[w] = "saveMeta"
  /\ \/ /\ meta # None
        /\ bakMeta' = [bakMeta EXCEPT ![w] = meta]
        /\ meta' = None
        /\ gotMeta' = [gotMeta EXCEPT ![w] = TRUE]
        /\ Goto(w, "movePayload")
        /\ UNCHANGED <<payload, tmpPayload, tmpMeta, bakPayload>>
     \/ /\ meta = None \/ "backup" \in Faults
        /\ Fail(w)
        /\ UNCHANGED gotMeta
  /\ UNCHANGED <<gotPayload, route, good, getVars, index, sysVars, last>>

\* A file replaces a file; a directory is not renamed onto another one.
PayloadMovable(w) ==
  /\ tmpPayload[w] # None
  /\ FormatAt(w) = "ec" => payload["ec"] = None

MovePayload(w) ==
  /\ pc[w] = "movePayload"
  /\ \/ /\ PayloadMovable(w)
        /\ payload' = [payload EXCEPT ![FormatAt(w)] = tmpPayload[w]]
        /\ tmpPayload' = [tmpPayload EXCEPT ![w] = None]
        /\ Goto(w, "moveMeta")
     \/ /\ ~PayloadMovable(w) \/ "rename" \in Faults
        /\ Goto(w, "clearMeta")
        /\ UNCHANGED <<payload, tmpPayload>>
  /\ UNCHANGED <<meta, tmpMeta, bakPayload, bakMeta, putVars, getVars, index,
                 sysVars, last>>

MoveMeta(w) ==
  /\ pc[w] = "moveMeta"
  /\ \/ /\ tmpMeta[w] # None
        /\ meta' = tmpMeta[w]
        /\ tmpMeta' = [tmpMeta EXCEPT ![w] = None]
        /\ last' = w
        /\ Goto(w, "cleanPayload")
     \/ /\ tmpMeta[w] = None \/ "rename" \in Faults
        /\ Goto(w, "dropPayload")
        /\ UNCHANGED <<meta, tmpMeta, last>>
  /\ UNCHANGED <<payload, tmpPayload, bakPayload, bakMeta, putVars, getVars,
                 index, sysVars>>

-----------------------------------------------------------------------------
(* PUT: undoing a publish whose second half failed.  restore_backup does    *)
(* nothing for a backup that is None; otherwise it removes what is at the   *)
(* final path and renames the backup there, ignoring a failure.             *)

\* Mutant: the new payload is left in place when its sidecar was refused.
KeepPayload(w) ==
  /\ pc[w] = "dropPayload"
  /\ Goto(w, "clearMeta")
  /\ UNCHANGED <<files, putVars, getVars, index, sysVars, last>>

\* remove_path_if_exists(final_payload) after the sidecar's rename failed.
DropPayload(w) ==
  /\ pc[w] = "dropPayload"
  /\ payload' = [payload EXCEPT ![FormatAt(w)] = None]
  /\ Goto(w, "clearMeta")
  /\ UNCHANGED <<meta, tmpPayload, tmpMeta, bakPayload, bakMeta, putVars,
                 getVars, index, sysVars, last>>

\* Mutant: the sidecar's backup is not restored.
ForgetMeta(w) ==
  /\ pc[w] = "clearMeta"
  /\ Goto(w, "clearPayload")
  /\ UNCHANGED <<files, putVars, getVars, index, sysVars, last>>

ClearMeta(w) ==
  /\ pc[w] = "clearMeta"
  /\ IF gotMeta[w]
     THEN meta' = None /\ Goto(w, "backMeta")
     ELSE meta' = meta /\ Goto(w, "clearPayload")
  /\ UNCHANGED <<payload, tmpPayload, tmpMeta, bakPayload, bakMeta, putVars,
                 getVars, index, sysVars, last>>

BackMeta(w) ==
  /\ pc[w] = "backMeta"
  /\ Goto(w, "clearPayload")
  /\ \/ /\ bakMeta[w] # None
        /\ meta' = bakMeta[w]
        /\ bakMeta' = [bakMeta EXCEPT ![w] = None]
     \/ /\ bakMeta[w] = None \/ "restore" \in Faults
        /\ UNCHANGED <<meta, bakMeta>>
  /\ UNCHANGED <<payload, tmpPayload, tmpMeta, bakPayload, putVars, getVars,
                 index, sysVars, last>>

ClearPayload(w) ==
  /\ pc[w] = "clearPayload"
  /\ IF gotPayload[w]
     THEN /\ payload' = [payload EXCEPT ![FormatAt(w)] = None]
          /\ Goto(w, "backPayload")
          /\ UNCHANGED <<meta, tmpPayload, tmpMeta, bakPayload, bakMeta>>
     ELSE Fail(w)
  /\ UNCHANGED <<putVars, getVars, index, sysVars, last>>

\* Mutant: the undo ends before the payload's backup is moved back.
SkipBackPayload(w) ==
  /\ pc[w] = "backPayload"
  /\ Fail(w)
  /\ UNCHANGED <<putVars, getVars, index, sysVars, last>>

\* The last step of the undo: the error is returned and the guards drop.
BackPayload(w) ==
  /\ pc[w] = "backPayload"
  /\ Goto(w, "err")
  /\ DropGuards(w)
  /\ \/ /\ bakPayload[w] # None
        /\ FormatAt(w) = "ec" => payload["ec"] = None
        /\ payload' = [payload EXCEPT ![FormatAt(w)] = bakPayload[w]]
        /\ bakPayload' = [bakPayload EXCEPT ![w] = None]
     \/ /\ \/ bakPayload[w] = None
           \/ "restore" \in Faults
           \/ FormatAt(w) = "ec" /\ payload["ec"] # None
        /\ UNCHANGED <<payload, bakPayload>>
  /\ UNCHANGED <<meta, bakMeta, putVars, getVars, index, sysVars, last>>

-----------------------------------------------------------------------------
(* PUT: after both renames.  cleanup_backup, then the index row.            *)

CleanPayload(w) ==
  /\ pc[w] = "cleanPayload"
  /\ bakPayload' = [bakPayload EXCEPT ![w] = None]
  /\ Goto(w, "cleanMeta")
  /\ UNCHANGED <<payload, meta, tmpPayload, tmpMeta, bakMeta, putVars, getVars,
                 index, sysVars, last>>

CleanMeta(w) ==
  /\ pc[w] = "cleanMeta"
  /\ bakMeta' = [bakMeta EXCEPT ![w] = None]
  /\ Goto(w, "index")
  /\ UNCHANGED <<payload, meta, tmpPayload, tmpMeta, bakPayload, putVars,
                 getVars, index, sysVars, last>>

\* index_upsert and the reply.
PutIndex(w) ==
  /\ pc[w] = "index"
  /\ index' = w
  /\ Goto(w, "ok")
  /\ UNCHANGED <<files, putVars, getVars, sysVars, last>>

PutStep(w) ==
  \/ PutBody(w) \/ PutSidecar(w)
  \/ ProbePayload(w) \/ SavePayload(w) \/ ProbeMeta(w) \/ SaveMeta(w)
  \/ MovePayload(w) \/ MoveMeta(w)
  \/ DropPayload(w) \/ ClearMeta(w) \/ BackMeta(w)
  \/ ClearPayload(w) \/ BackPayload(w)
  \/ CleanPayload(w) \/ CleanMeta(w) \/ PutIndex(w)

-----------------------------------------------------------------------------
(* DELETE of an unversioned object: object file, sidecar, `.ec' directory,  *)
(* index row, in this order.                                                *)

Absent == meta = None /\ \A f \in Format : payload[f] = None

DeleteStart(d) ==
  /\ up
  /\ pc[d] = "idle"
  /\ MayIssue
  /\ Goto(d, IF Absent THEN "ok" ELSE "removeObject")
  /\ UNCHANGED <<files, putVars, getVars, index, sysVars, last>>

DeleteFlat(d) ==
  /\ pc[d] = "removeObject"
  /\ payload' = [payload EXCEPT !["flat"] = None]
  /\ last' = None
  /\ Goto(d, "removeMeta")
  /\ UNCHANGED <<meta, tmpPayload, tmpMeta, bakPayload, bakMeta, putVars,
                 getVars, index, sysVars>>

DeleteMeta(d) ==
  /\ pc[d] = "removeMeta"
  /\ meta' = None
  /\ Goto(d, "removeChunks")
  /\ UNCHANGED <<payload, tmpPayload, tmpMeta, bakPayload, bakMeta, putVars,
                 getVars, index, sysVars, last>>

DeleteChunks(d) ==
  /\ pc[d] = "removeChunks"
  /\ payload' = [payload EXCEPT !["ec"] = None]
  /\ index' = None
  /\ Goto(d, "ok")
  /\ UNCHANGED <<meta, tmpPayload, tmpMeta, bakPayload, bakMeta, putVars,
                 getVars, sysVars, last>>

DeleteStep(d) == DeleteFlat(d) \/ DeleteMeta(d) \/ DeleteChunks(d)

-----------------------------------------------------------------------------
(* GET: the sidecar is read first, then the layout is chosen by whether the *)
(* `.ec' directory exists, then the payload is opened.                      *)

GetMeta(g) ==
  /\ up
  /\ pc[g] = "idle"
  /\ view' = [view EXCEPT ![g] = meta]
  /\ Goto(g, IF meta = None THEN "err" ELSE "layout")
  /\ UNCHANGED <<files, putVars, layout, got, index, sysVars, last>>

\* is_chunked_path: the `.ec' directory wins whenever it exists, whatever the
\* sidecar says.
LayoutNow == IF payload["ec"] # None THEN "ec" ELSE "flat"

GetLayout(g) ==
  /\ pc[g] = "layout"
  /\ layout' = [layout EXCEPT ![g] = LayoutNow]
  /\ Goto(g, "open")
  /\ UNCHANGED <<files, putVars, view, got, index, sysVars, last>>

GetOpen(g) ==
  /\ pc[g] = "open"
  /\ got' = [got EXCEPT ![g] = payload[layout[g]]]
  /\ Goto(g, IF payload[layout[g]] = None THEN "err" ELSE "ok")
  /\ UNCHANGED <<files, putVars, view, layout, index, sysVars, last>>

GetStep(g) == GetLayout(g) \/ GetOpen(g)

-----------------------------------------------------------------------------
(* The environment of the requests.                                         *)

\* The server drops the future of a request whose client went away: the
\* temporaries go with their guards, the backups are plain paths and stay.
Cancel(r) ==
  /\ "cancel" \in Faults
  /\ InFlight(r)
  /\ Goto(r, "gone")
  /\ IF r \in Puts THEN DropGuards(r) ELSE UNCHANGED <<tmpPayload, tmpMeta>>
  /\ UNCHANGED <<payload, meta, bakPayload, bakMeta, putVars, getVars, index,
                 sysVars, last>>

\* The process dies: no destructor runs, every file stays where it is.
Crash ==
  /\ up
  /\ crashes < MaxCrashes
  /\ up' = FALSE
  /\ crashes' = crashes + 1
  /\ pc' = [r \in Request |-> IF InFlight(r) THEN "gone" ELSE pc[r]]
  /\ UNCHANGED <<files, putVars, getVars, nested, index, last>>

\* list_objects_walk yields the key once for each payload it meets beside a
\* readable sidecar.
WalkedFormats == IF meta = None THEN {} ELSE {f \in Format : payload[f] # None}

\* rebuild_bucket inserts one row per walked entry and fails on a duplicate.
IndexRebuildable == WalkedFormats # Format

\* FilesystemStorage::new: the index is rebuilt from a walk before serving.
Restart ==
  /\ ~up
  /\ IndexRebuildable
  /\ index' = IF WalkedFormats = {} THEN None ELSE meta
  /\ up' = TRUE
  /\ UNCHANGED <<files, putVars, getVars, nested, pc, crashes, last>>

\* Mutant: only the payload temporaries are recognised.
SweepPayloads(w) ==
  /\ up
  /\ ~nested
  /\ tmpPayload[w] # None
  /\ tmpPayload' = [tmpPayload EXCEPT ![w] = None]
  /\ UNCHANGED <<payload, meta, tmpMeta, bakPayload, bakMeta, putVars, getVars,
                 index, pc, sysVars, last>>

\* sweep_temp_files removes, one call each, every `.maxio-tmp-*' entry that is
\* directly inside the bucket directory, of whatever age and owner.
Sweep(w) ==
  /\ up
  /\ ~nested
  /\ \/ /\ tmpPayload[w] # None
        /\ tmpPayload' = [tmpPayload EXCEPT ![w] = None]
        /\ UNCHANGED <<tmpMeta, bakPayload, bakMeta>>
     \/ /\ tmpMeta[w] # None
        /\ tmpMeta' = [tmpMeta EXCEPT ![w] = None]
        /\ UNCHANGED <<tmpPayload, bakPayload, bakMeta>>
     \/ /\ bakPayload[w] # None
        /\ bakPayload' = [bakPayload EXCEPT ![w] = None]
        /\ UNCHANGED <<tmpPayload, tmpMeta, bakMeta>>
     \/ /\ bakMeta[w] # None
        /\ bakMeta' = [bakMeta EXCEPT ![w] = None]
        /\ UNCHANGED <<tmpPayload, tmpMeta, bakPayload>>
  /\ UNCHANGED <<payload, meta, putVars, getVars, index, pc, sysVars, last>>

Next ==
  \/ \E w \in Puts : PutStart(w) \/ PutStep(w) \/ Sweep(w)
  \/ \E d \in Deletes : DeleteStart(d) \/ DeleteStep(d)
  \/ \E g \in Gets : GetMeta(g) \/ GetStep(g)
  \/ \E r \in Request : Cancel(r)
  \/ Crash
  \/ Restart

Spec == Init /\ [][Next]_vars

\* Housekeeping runs at start-up and then hourly for as long as the process is
\* up (main.rs spawns it once), and an operator restarts a dead process.
Fairness ==
  /\ WF_vars(Restart)
  /\ \A w \in Puts : WF_vars(Sweep(w))

FairSpec == Spec /\ Fairness

-----------------------------------------------------------------------------
(* Properties.                                                              *)

Label ==
  {"idle", "body", "sidecar", "probePayload", "savePayload", "probeMeta",
   "saveMeta", "movePayload", "moveMeta", "dropPayload", "clearMeta",
   "backMeta", "clearPayload", "backPayload", "cleanPayload", "cleanMeta",
   "index", "removeObject", "removeMeta", "removeChunks", "layout", "open",
   "ok", "err", "gone"}

Slot == Body \union {None}

\* Every file holds a body or is absent, and a temporary file holds nothing but
\* the body of the one request that named it (temp_sibling_path's UUID).
TypeOK ==
  /\ payload \in [Format -> Slot]
  /\ meta \in Slot
  /\ tmpPayload \in [Puts -> Slot]
  /\ tmpMeta \in [Puts -> Slot]
  /\ \A w \in Puts : {tmpPayload[w], tmpMeta[w]} \subseteq {w, None}
  /\ bakPayload \in [Puts -> Slot]
  /\ bakMeta \in [Puts -> Slot]
  /\ gotPayload \in [Puts -> BOOLEAN]
  /\ gotMeta \in [Puts -> BOOLEAN]
  /\ route \in [Body -> WritePaths]
  /\ good \in [Puts -> BOOLEAN]
  /\ nested \in BOOLEAN
  /\ index \in Slot
  /\ pc \in [Request -> Label]
  /\ view \in [Gets -> Slot]
  /\ layout \in [Gets -> Format]
  /\ got \in [Gets -> Slot]
  /\ up \in BOOLEAN
  /\ crashes \in 0 .. MaxCrashes
  /\ last \in Slot

Quiet == \A r \in Request : ~InFlight(r)

\* What a GET opens beside the sidecar is the body the sidecar describes: through
\* every failure, undo, dropped future, crash and sweep between the four renames
\* of publish_temp_payload_and_meta, while the key has one writer at a time.  The
\* one exception are bytes in the format the sidecar's body is not stored in: a
\* PUT after a change of the erasure-coding policy leaves the other format's
\* payload behind, and GET may open that one.
SidecarMatchesPayload ==
  LET served == payload[LayoutNow] IN
    meta # None /\ served # None =>
      served = meta \/ FormatAt(served) # FormatAt(meta)

\* Bytes that failed the declared checksum are neither published nor returned
\* on the paths that check it (object_io.rs, flat and encrypted chunked PUT).
Rejected(b) == b \in Puts /\ ~good[b] /\ route[b] # "ec"
NoRejectedBytes ==
  /\ \A f \in Format : ~Rejected(payload[f])
  /\ \A g \in Gets : ~Rejected(got[g])

\* A body whose PUT was published is still on disk, payload and sidecar each at
\* the final path or in a backup, whatever fails in a later overwrite; stated
\* for the keys whose files the sweep does not reach.
Recoverable ==
  nested /\ last # None =>
    /\ last \in {meta} \union {bakMeta[w] : w \in Puts}
    /\ last \in {payload[FormatAt(last)]} \union {bakPayload[w] : w \in Puts}

Leftover(w) ==
  /\ ~InFlight(w)
  /\ {tmpPayload[w], tmpMeta[w], bakPayload[w], bakMeta[w]} # {None}

\* What a crashed, failed or abandoned PUT left behind in the bucket directory is
\* removed by a later sweep, unless the process can no longer be started because
\* the index rebuild refuses the two payload formats it finds.
LeftoversSwept ==
  \A w \in Puts :
    (Leftover(w) /\ ~nested) ~> (~Leftover(w) \/ ~IndexRebuildable)

\* With failures of the body and of the two final renames only, a PUT is all or
\* nothing: between requests the payload, the sidecar and the index row agree
\* and no temporary or backup file is left.
RestIntact ==
  Quiet =>
    /\ \A f \in Format : payload[f] # None => payload[f] = meta
    /\ meta # None => payload[FormatAt(meta)] = meta
    /\ index = meta
    /\ \A w \in Puts : ~Leftover(w)

\* Overlapping flat PUTs that no failure disturbs: whatever files they take from
\* under one another, once all have ended an object is there, and payload and
\* sidecar were each written by a PUT that was answered with success.
RaceHasWinner ==
  LET winners == {w \in Puts : pc[w] = "ok"} IN
    Quiet /\ (\E w \in Puts : good[w] /\ pc[w] # "idle") =>
      payload["flat"] \in winners /\ meta \in winners
=============================================================================
