-------------------------- MODULE VersionedObject --------------------------
(***************************************************************************)
(* One key of a bucket with object lock, whose versioning is switched on   *)
(* and off: the current object (the files at the key's own path), the      *)
(* version store `.versions/<key>/', retention dates and legal holds, and  *)
(* the housekeeping sweep that expires noncurrent versions.                *)
(*                                                                         *)
(* Each handler is one step: requests on the key follow one another.  The  *)
(* sweep is the exception, it deletes from a list it made earlier.         *)
(*                                                                         *)
(* A lock is a field of a sidecar, and the current version has two         *)
(* sidecars: its own under `.versions/' and the copy beside the object.    *)
(***************************************************************************)
EXTENDS Integers

CONSTANTS
  MaxId,       \* bound on the number of PUTs and delete markers
  MaxTime,     \* bound on the clock
  Retention    \* the bucket's default retention period

ASSUME BoundsAssumption ==
  /\ MaxId \in Nat
  /\ MaxTime \in Nat
  /\ Retention \in Nat

Id == 1 .. MaxId
Date == 0 .. MaxTime + Retention

\* A sidecar.  vid is 0 where version_id is None; body names the PUT that wrote
\* the bytes, 0 for a delete marker; until is 0 where there is no retention.
Meta == [vid : Id \union {0}, body : Id \union {0}, until : Date,
         hold : BOOLEAN]

\* No files at the key's path.
NoObject == [vid |-> 0, body |-> 0, until |-> 0, hold |-> FALSE]

VARIABLES
  versioning,  \* the bucket's flag in `.bucket.json'
  versions,    \* the sidecars of the version store, markers included
  top,         \* the sidecar of the current object, or NoObject
  next,        \* the next version id: time ordered, so larger is newer
  now,         \* the clock
  doomed,      \* version ids the running sweep has listed and not yet handled
  pledge       \* history: per version id, the lock its own sidecar was given

vars == <<versioning, versions, top, next, now, doomed, pledge>>

Marker(m) == m.body = 0
Live(vs) == {m \in vs : ~Marker(m)}
Newest(ms) == {m \in ms : \A n \in ms : n.vid <= m.vid}

\* is_object_protected.
Protected(m) == m.hold \/ now < m.until

Lock(m) == [until |-> m.until, hold |-> m.hold]
NoPledge == [until |-> 0, hold |-> FALSE]

Init ==
  /\ versioning \in BOOLEAN
  /\ versions = {}
  /\ top = NoObject
  /\ next = 1
  /\ now = 0
  /\ doomed = {}
  /\ pledge = [v \in Id |-> NoPledge]

-----------------------------------------------------------------------------
(* PUT and DELETE of the current object.                                    *)

\* The sidecar of a new object.  resolve_default_object_lock is consulted by the
\* flat path only: lock says whether a default retention applies to this PUT.
NewMeta(lock) ==
  [vid |-> IF versioning THEN next ELSE 0, body |-> next,
   until |-> IF lock THEN now + Retention ELSE 0, hold |-> FALSE]

\* Mutant: the second of two versions written within one clock tick gets the id
\* of the first.
CoarseVersionId(m) ==
  IF versioning
  THEN /\ versions' = versions \union
            {[m EXCEPT !.vid = IF next > 1 THEN next - 1 ELSE next]}
       /\ pledge' = [pledge EXCEPT ![next] = Lock(m)]
  ELSE UNCHANGED <<versions, pledge>>

\* write_version, write_version_chunked: object and sidecar are copied.
WriteVersion(m) ==
  IF versioning
  THEN /\ versions' = versions \union {m}
       /\ pledge' = [pledge EXCEPT ![next] = Lock(m)]
  ELSE UNCHANGED <<versions, pledge>>

\* ensure_can_overwrite looks at the sidecar beside the object.
PutObject(lock) ==
  /\ next <= MaxId
  /\ ~Protected(top)
  /\ top' = NewMeta(lock)
  /\ WriteVersion(NewMeta(lock))
  /\ next' = next + 1
  /\ UNCHANGED <<versioning, now, doomed>>

DeleteMarker(v) == [vid |-> v, body |-> 0, until |-> 0, hold |-> FALSE]

\* delete_object in a versioned bucket: write_delete_marker.
DeleteWithMarker ==
  /\ versioning
  /\ next <= MaxId
  /\ ~Protected(top)
  /\ versions' = versions \union {DeleteMarker(next)}
  /\ top' = NoObject
  /\ next' = next + 1
  /\ UNCHANGED <<versioning, now, doomed, pledge>>

\* delete_object otherwise, by a client or by the expiration of current objects.
DeleteUnversioned ==
  /\ ~versioning
  /\ top # NoObject
  /\ ~Protected(top)
  /\ top' = NoObject
  /\ UNCHANGED <<versioning, versions, next, now, doomed, pledge>>

-----------------------------------------------------------------------------
(* DELETE of one version.                                                   *)

\* Mutant: the directory listing is sorted and not reversed, oldest first.
RestoreOldest(vs, t) ==
  IF vs = {} THEN {t}
  ELSE IF Live(vs) = {} THEN {NoObject}
  ELSE {m \in Live(vs) : \A n \in Live(vs) : m.vid <= n.vid}

\* update_current_version: the newest version that is no marker becomes current,
\* whatever is newer than it.  It returns at once when the version directory is
\* gone, and delete_object_version has just removed it if it was empty.
Restored(vs, t) ==
  IF vs = {} THEN {t}
  ELSE IF Live(vs) = {} THEN {NoObject}
  ELSE Newest(Live(vs))

\* Mutant: the lock is looked up in the sidecar beside the object.
RemoveUnlessTopLocked(v) ==
  \E m \in versions :
    /\ m.vid = v
    /\ ~Protected(top)
    /\ versions' = versions \ {m}
    /\ top' \in Restored(versions \ {m}, top)

\* delete_object_version: the lock is looked up in the version's own sidecar.
RemoveVersion(v) ==
  \E m \in versions :
    /\ m.vid = v
    /\ ~Protected(m)
    /\ versions' = versions \ {m}
    /\ top' \in Restored(versions \ {m}, top)

DeleteVersion(v) ==
  /\ RemoveVersion(v)
  /\ UNCHANGED <<versioning, next, now, doomed, pledge>>

\* versionId=null removes the current files, also those of a numbered version.
DeleteNull ==
  /\ top # NoObject
  /\ ~Protected(top)
  /\ top' \in Restored(versions, NoObject)
  /\ UNCHANGED <<versioning, versions, next, now, doomed, pledge>>

-----------------------------------------------------------------------------
(* Object lock requests: read_meta_at and write_meta_at use one sidecar.    *)

\* put_object_retention or put_object_legal_hold without a version id or with
\* the id null: the sidecar beside the object.
LockTop(m) ==
  /\ top # NoObject
  /\ top' = m
  /\ UNCHANGED <<versioning, versions, next, now, doomed, pledge>>

\* The same with a version id: the sidecar in the version store.
LockVersion(old, m) ==
  /\ versions' = (versions \ {old}) \union {m}
  /\ pledge' = [pledge EXCEPT ![old.vid] = Lock(m)]
  /\ UNCHANGED <<versioning, top, next, now, doomed>>

PutRetention ==
  \E date \in Date :
    \/ LockTop([top EXCEPT !.until = date])
    \/ \E m \in versions : LockVersion(m, [m EXCEPT !.until = date])

PutLegalHold ==
  \E status \in BOOLEAN :
    \/ LockTop([top EXCEPT !.hold = status])
    \/ \E m \in versions : LockVersion(m, [m EXCEPT !.hold = status])

SetVersioning ==
  /\ versioning' = ~versioning
  /\ UNCHANGED <<versions, top, next, now, doomed, pledge>>

-----------------------------------------------------------------------------
(* Lifecycle: sweep_noncurrent_version_expiration lists the versions once,   *)
(* then deletes the listed ones that are old enough, one call each.          *)

\* The newest version that is no marker is skipped as the current one.
Noncurrent == {m.vid : m \in Live(versions) \ Newest(Live(versions))}

\* Ages are left open: any part of the list may be old enough.  A process that
\* dies in the middle of a sweep starts the next one from a new list.
ListNoncurrent ==
  /\ versioning
  /\ doomed' \in SUBSET Noncurrent
  /\ UNCHANGED <<versioning, versions, top, next, now, pledge>>

\* A version that is gone or protected by now is logged and passed over.
ExpireVersion(v) ==
  /\ v \in doomed
  /\ doomed' = doomed \ {v}
  /\ \/ RemoveVersion(v)
     \/ /\ \A m \in versions : m.vid = v => Protected(m)
        /\ UNCHANGED <<versions, top>>
  /\ UNCHANGED <<versioning, next, now, pledge>>

Tick ==
  /\ now < MaxTime
  /\ now' = now + 1
  /\ UNCHANGED <<versioning, versions, top, next, doomed, pledge>>

Next ==
  \/ \E lock \in BOOLEAN : PutObject(lock)
  \/ DeleteWithMarker
  \/ DeleteUnversioned
  \/ \E v \in Id : DeleteVersion(v) \/ ExpireVersion(v)
  \/ DeleteNull
  \/ PutRetention
  \/ PutLegalHold
  \/ SetVersioning
  \/ ListNoncurrent
  \/ Tick

Spec == Init /\ [][Next]_vars

-----------------------------------------------------------------------------
(* Properties.                                                              *)

\* Sidecars are well formed, ids were handed out, one sidecar per version id.
TypeOK ==
  /\ versioning \in BOOLEAN
  /\ versions \subseteq Meta
  /\ top \in Meta
  /\ next \in 1 .. MaxId + 1
  /\ now \in 0 .. MaxTime
  /\ doomed \subseteq Id
  /\ pledge \in [Id -> [until : Date, hold : BOOLEAN]]
  /\ \A m \in versions : m.vid \in 1 .. next - 1
  /\ \A m, n \in versions : m.vid = n.vid => m = n

\* A version whose own sidecar was locked, by the default retention of its PUT
\* or by a request that named its version id, stays in the version store until
\* the lock ends or is lifted: through overwrites, deletes of any kind, a
\* suspended bucket, restored current versions and a sweep that listed the
\* version before it was locked.
VersionLockHolds ==
  \A v \in Id : Protected(pledge[v]) => \E m \in versions : m.vid = v

\* A current object that carries a version id is the newest version that is no
\* delete marker, unless no such version is left.
ShownIsNewest ==
  top.vid # 0 /\ Live(versions) # {} =>
    \E m \in Newest(Live(versions)) : m.vid = top.vid /\ m.body = top.body
=============================================================================
