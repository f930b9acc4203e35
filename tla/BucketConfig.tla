---------------------------- MODULE BucketConfig ----------------------------
(***************************************************************************)
(* One bucket: its directory, its settings in `.bucket.json', and the      *)
(* requests that create it, delete it, change a setting and write objects  *)
(* into it.  Every change reads the whole file, replaces some fields and   *)
(* writes the whole file back in place; no lock is held in between.        *)
(***************************************************************************)
EXTENDS Naturals

CONSTANTS
  Creates,     \* CreateBucket requests; every request runs once
  Deletes,     \* DeleteBucket requests
  Changes,     \* requests that change settings
  Puts,        \* PutObject requests, each for a key of its own
  Copies,      \* CopyObject requests into this bucket, likewise
  Ops,         \* the changes clients ask for: a subset of Change
  Starts,      \* settings that earlier requests may have left
  ServerErasure, \* MAXIO_ERASURE_CODING: objects may be stored in chunks
  Unknown,     \* no request vouches for a value
  Faults,      \* kinds of failure that may happen: a subset of FaultKinds
  MaxCrashes   \* bound on the number of crashes of the process

FaultKinds == {"write", "cancel"}
Writer == Creates \union Changes       \* requests that write `.bucket.json'
Admin == Writer \union Deletes
Upload == Puts \union Copies
Request == Admin \union Upload

Fields == {"versioning", "encryption", "policy", "public", "cors", "lifecycle",
           "logging", "notification", "erasure", "lock", "lock_enabled"}
Value == {"off", "on", "disabled", "public", "rules"}
Settings == [Fields -> Value]
Defaults == [f \in Fields |-> "off"]

-----------------------------------------------------------------------------
(* What a change replaces in the settings: its fields and their new values. *)

OnOff == {"off", "on"}
VersioningChange == [{"versioning"} -> OnOff]
EncryptionChange == [{"encryption"} -> OnOff]
\* A policy that only opens reading to everyone sets the public flags, any other
\* clears them, and so does deleting the policy.
PolicyChange ==
  {[policy |-> "public", public |-> "on"],
   [policy |-> "rules", public |-> "off"],
   [policy |-> "off", public |-> "off"]}
PublicChange == [{"public"} -> OnOff]
CorsChange == [{"cors"} -> OnOff]
LifecycleChange == [{"lifecycle"} -> OnOff]
LoggingChange == [{"logging"} -> OnOff]
NotificationChange == [{"notification"} -> OnOff]
ErasureChange == [{"erasure"} -> {"on", "disabled"}]   \* off: the server decides
LockChange == [{"lock"} -> {"on"}]

Change ==
  VersioningChange \union EncryptionChange \union PolicyChange
    \union PublicChange \union CorsChange \union LifecycleChange
    \union LoggingChange \union NotificationChange \union ErasureChange
    \union LockChange

\* Mutant: fields that the request does not name go back to their defaults.
ApplyToDefaults(o, s) ==
  [f \in Fields |-> IF f \in DOMAIN o THEN o[f] ELSE Defaults[f]]

\* The settings s after the change o.
Apply(o, s) == [f \in Fields |-> IF f \in DOMAIN o THEN o[f] ELSE s[f]]

ASSUME RequestAssumption ==
  /\ Creates \intersect (Changes \union Deletes \union Upload) = {}
  /\ Deletes \intersect (Changes \union Upload) = {}
  /\ Changes \intersect Upload = {}
  /\ Puts \intersect Copies = {}
ASSUME SetupAssumption ==
  /\ Ops \subseteq Change
  /\ Starts \subseteq Settings
  /\ ServerErasure \in BOOLEAN
  /\ Unknown \notin Value
  /\ Faults \subseteq FaultKinds
  /\ MaxCrashes \in Nat

-----------------------------------------------------------------------------
VARIABLES
  dir,         \* the bucket's directory exists
  file,        \* `.bucket.json': none, torn (cut or mixed up) or whole
  conf,        \* its content when it is whole
  files,       \* uploads whose payload or temporary is in the directory
  sidecars,    \* uploads whose sidecar is in the directory
  op,          \* per change: what it asks for
  copy,        \* per writer: the settings in memory
  handle,      \* per writer: none, clean, or mixed (another write came between)
  encrypted,   \* per upload: encrypted by default
  chunked,     \* per upload: stored in chunks
  versioned,   \* per upload: kept as a version
  pc,          \* per request: the next step
  up,          \* the process is running
  crashes,     \* number of crashes so far
  sure,        \* history: per field, the value of the last change, if that
               \* change overlapped with no other
  alone        \* history: per request, no administration overlapped with it

bucket == <<dir, file, conf>>
contents == <<files, sidecars>>
memory == <<op, copy, handle>>
modes == <<encrypted, chunked, versioned>>
process == <<up, crashes>>
history == <<sure, alone>>
vars == <<bucket, contents, memory, modes, pc, process, history>>

Ended == {"idle", "ok", "err", "gone"}
InFlight(r) == pc[r] \notin Ended
Busy(r) == \E a \in Admin \ {r} : InFlight(a)
Goto(r, label) == pc' = [pc EXCEPT ![r] = label]

Init ==
  /\ dir \in BOOLEAN
  /\ file = IF dir THEN "whole" ELSE "none"
  /\ conf \in IF dir THEN Starts ELSE {Defaults}
  /\ files = {}
  /\ sidecars = {}
  /\ op \in [Changes -> Ops]
  /\ copy = [r \in Writer |-> Defaults]
  /\ handle = [r \in Writer |-> "none"]
  /\ encrypted = [w \in Upload |-> FALSE]
  /\ chunked = [w \in Upload |-> FALSE]
  /\ versioned = [w \in Upload |-> FALSE]
  /\ pc = [r \in Request |-> "idle"]
  /\ up = TRUE
  /\ crashes = 0
  /\ sure = conf
  /\ alone = [r \in Request |-> TRUE]

\* A request arrives.  An administration ends the solitude of those in flight.
Arrive(r) ==
  /\ up
  /\ pc[r] = "idle"
  /\ alone' = [q \in Request |->
                 IF q = r THEN ~Busy(r)
                 ELSE alone[q] /\ (r \in Admin => ~InFlight(q))]
  /\ UNCHANGED <<process, sure>>

-----------------------------------------------------------------------------
(* fs::write of `.bucket.json': the file is created or cut, then filled.    *)

Open(r) ==
  /\ pc[r] = "open"
  /\ dir
  /\ file' = "torn"
  /\ handle' = [handle EXCEPT ![r] = "clean"]
  /\ Goto(r, "fill")
  /\ UNCHANGED <<dir, conf, contents, op, copy, modes, process, history>>

\* create_bucket removes the directory again if that was all it had made.
OpenFails(r) ==
  /\ pc[r] = "open"
  /\ ~dir \/ "write" \in Faults
  /\ dir' = (dir /\ ~(r \in Creates /\ file = "none" /\ files = {} /\ sidecars = {}))
  /\ Goto(r, "err")
  /\ UNCHANGED <<file, conf, contents, memory, modes, process, history>>

\* What a completed write vouches for.
Vouched(r) ==
  [f \in Fields |->
     IF r \in Changes /\ f \notin DOMAIN op[r] THEN sure[f]
     ELSE IF alone[r] THEN copy[r][f] ELSE Unknown]

\* Two writers that opened the file both write from its start: when the shorter
\* content comes second, the tail of the longer one stays behind it.  A file that
\* was unlinked since it was opened is filled unseen.
Fill(r) ==
  /\ pc[r] = "fill"
  /\ \/ handle[r] = "none" /\ UNCHANGED <<file, conf>>
     \/ handle[r] # "none" /\ file' = "whole" /\ conf' = copy[r]
     \/ handle[r] = "mixed" /\ file' = "torn" /\ UNCHANGED conf
  /\ handle' = [q \in Writer |->
                  IF q = r THEN "none"
                  ELSE IF handle[r] # "none" /\ handle[q] = "clean" THEN "mixed"
                  ELSE handle[q]]
  /\ sure' = Vouched(r)
  /\ Goto(r, "ok")
  /\ UNCHANGED <<dir, contents, op, copy, modes, process, alone>>

FillFails(r) ==
  /\ pc[r] = "fill"
  /\ "write" \in Faults
  /\ handle' = [handle EXCEPT ![r] = "none"]
  /\ Goto(r, "err")
  /\ UNCHANGED <<bucket, contents, op, copy, modes, process, history>>

-----------------------------------------------------------------------------
(* CreateBucket: mkdir decides, then the settings are written.              *)

CreateDir(r) ==
  /\ Arrive(r)
  /\ \/ /\ ~dir
        /\ dir' = TRUE
        /\ \E lock \in OnOff :
             copy' = [copy EXCEPT ![r] = [Defaults EXCEPT !["lock_enabled"] = lock]]
        /\ Goto(r, "open")
     \/ /\ dir
        /\ Goto(r, "err")
        /\ UNCHANGED <<dir, copy>>
  /\ UNCHANGED <<file, conf, contents, op, handle, modes>>

-----------------------------------------------------------------------------
(* A change of the settings.                                                *)

\* Settings that a change deletes and that must be there for it.
Required(o) == {f \in {"policy", "lifecycle"} \intersect DOMAIN o : o[f] = "off"}

\* Erasure coding cannot be switched on for a bucket of a server without it.
Permitted(o) == "erasure" \in DOMAIN o /\ o["erasure"] = "on" => ServerErasure

\* The handler looks for the file and, for some deletions, for the setting.
ChangeStart(r) ==
  /\ Arrive(r)
  /\ Goto(r, IF /\ file # "none"
                /\ \A f \in Required(op[r]) : file = "whole" /\ conf[f] # "off"
                /\ Permitted(op[r])
             THEN "read" ELSE "err")
  /\ UNCHANGED <<bucket, contents, memory, modes>>

\* Object lock must have been enabled when the bucket was created.
ChangeRead(r) ==
  /\ pc[r] = "read"
  /\ \/ /\ file = "whole"
        /\ "lock" \in DOMAIN op[r] => conf["lock_enabled"] = "on"
        /\ copy' = [copy EXCEPT ![r] = Apply(op[r], conf)]
        /\ Goto(r, "open")
     \/ /\ file # "whole" \/ ("lock" \in DOMAIN op[r] /\ conf["lock_enabled"] = "off")
        /\ Goto(r, "err")
        /\ UNCHANGED copy
  /\ UNCHANGED <<bucket, contents, op, handle, modes, process, history>>

-----------------------------------------------------------------------------
(* DeleteBucket: look for objects, purge the rest, remove the directory.    *)

DeleteScan(r) ==
  /\ Arrive(r)
  /\ Goto(r, IF dir /\ files = {} THEN "purge" ELSE "err")
  /\ UNCHANGED <<bucket, contents, memory, modes>>

\* purge_empty_bucket takes `.bucket.json' and every sidecar, and leaves other
\* files alone.
DeletePurge(r) ==
  /\ pc[r] = "purge"
  /\ \/ /\ dir
        /\ file' = "none"
        /\ sidecars' = {}
        /\ handle' = [q \in Writer |-> "none"]
        /\ Goto(r, "rmdir")
     \/ /\ ~dir
        /\ Goto(r, "err")
        /\ UNCHANGED <<file, sidecars, handle>>
  /\ UNCHANGED <<dir, conf, files, op, copy, modes, process, history>>

\* Mutant: the directory goes with all that is in it.
DeleteDirAll(r) ==
  /\ pc[r] = "rmdir"
  /\ dir' = FALSE
  /\ file' = "none"
  /\ files' = {}
  /\ sidecars' = {}
  /\ Goto(r, "ok")
  /\ UNCHANGED <<conf, memory, modes, process, history>>

DeleteDir(r) ==
  /\ pc[r] = "rmdir"
  /\ \/ /\ dir /\ file = "none" /\ files = {} /\ sidecars = {}
        /\ dir' = FALSE
        /\ Goto(r, "ok")
     \/ /\ ~dir \/ file # "none" \/ files # {} \/ sidecars # {}
        /\ Goto(r, "err")
        /\ UNCHANGED dir
  /\ UNCHANGED <<file, conf, contents, memory, modes, process, history>>

-----------------------------------------------------------------------------
(* Uploads: every setting is read by itself, just before it is needed.  An  *)
(* upload in chunks learns late whether it is a version; a flat one looks   *)
(* for a default retention when its bytes are already there.                *)

UploadStart(w) ==
  /\ Arrive(w)
  /\ Goto(w, IF file # "none" THEN "encryption" ELSE "err")
  /\ UNCHANGED <<bucket, contents, memory, modes>>

\* PutObject fails when the settings cannot be read; CopyObject then writes the
\* object without default encryption.
ReadEncryption(w) ==
  /\ pc[w] = "encryption"
  /\ \/ /\ file = "whole"
        /\ encrypted' = [encrypted EXCEPT ![w] = conf["encryption"] = "on"]
        /\ Goto(w, "erasure")
     \/ /\ file # "whole"
        /\ Goto(w, IF w \in Copies THEN "erasure" ELSE "err")
        /\ UNCHANGED encrypted
  /\ UNCHANGED <<bucket, contents, memory, chunked, versioned, process, history>>

\* effective_erasure_coding reads the settings only on a server with erasure
\* coding.
ReadErasure(w) ==
  /\ pc[w] = "erasure"
  /\ \/ /\ ServerErasure => file = "whole"
        /\ chunked' = [chunked EXCEPT ![w] =
                         ServerErasure /\ conf["erasure"] # "disabled"]
        /\ Goto(w, IF chunked'[w] THEN "stage" ELSE "versioning")
     \/ /\ ServerErasure
        /\ file # "whole"
        /\ Goto(w, "err")
        /\ UNCHANGED chunked
  /\ UNCHANGED <<bucket, contents, memory, encrypted, versioned, process, history>>

\* Mutant: the wrong way round.
ReadSuspended(w) ==
  /\ pc[w] = "versioning"
  /\ versioned' = [versioned EXCEPT ![w] =
                     file = "whole" /\ conf["versioning"] = "off"]
  /\ Goto(w, IF chunked[w] THEN "publish" ELSE "stage")
  /\ UNCHANGED <<bucket, contents, memory, encrypted, chunked, process, history>>

\* is_versioned(..).unwrap_or(false).
ReadVersioning(w) ==
  /\ pc[w] = "versioning"
  /\ versioned' = [versioned EXCEPT ![w] =
                     file = "whole" /\ conf["versioning"] = "on"]
  /\ Goto(w, IF chunked[w] THEN "publish" ELSE "stage")
  /\ UNCHANGED <<bucket, contents, memory, encrypted, chunked, process, history>>

\* Mutant: missing directories are not created.
StageInPlace(w) ==
  /\ pc[w] = "stage"
  /\ files' = files \union {w}
  /\ Goto(w, IF chunked[w] THEN "versioning" ELSE "lock")
  /\ UNCHANGED <<bucket, sidecars, memory, modes, process, history>>

\* Missing directories are created on the way, the bucket's too.
Stage(w) ==
  /\ pc[w] = "stage"
  /\ dir' = TRUE
  /\ files' = files \union {w}
  /\ Goto(w, IF chunked[w] THEN "versioning" ELSE "lock")
  /\ UNCHANGED <<file, conf, sidecars, memory, modes, process, history>>

\* resolve_default_object_lock; if it fails, the guard removes the temporary.
ReadLock(w) ==
  /\ pc[w] = "lock"
  /\ \/ /\ file = "whole"
        /\ Goto(w, "publish")
        /\ UNCHANGED files
     \/ /\ file # "whole"
        /\ files' = files \ {w}
        /\ Goto(w, "err")
  /\ UNCHANGED <<bucket, sidecars, memory, modes, process, history>>

Publish(w) ==
  /\ pc[w] = "publish"
  /\ sidecars' = sidecars \union {w}
  /\ Goto(w, "ok")
  /\ UNCHANGED <<bucket, files, memory, modes, process, history>>

-----------------------------------------------------------------------------
(* The environment.                                                         *)

\* A request's future is dropped: the guard removes its temporary.  A write of
\* `.bucket.json' that has begun runs to its end on the blocking pool.
Cancel(r) ==
  /\ "cancel" \in Faults
  /\ InFlight(r)
  /\ pc[r] # "fill"
  /\ files' = files \ {r}
  /\ Goto(r, "gone")
  /\ UNCHANGED <<bucket, sidecars, memory, modes, process, history>>

Crash ==
  /\ up
  /\ crashes < MaxCrashes
  /\ up' = FALSE
  /\ crashes' = crashes + 1
  /\ handle' = [r \in Writer |-> "none"]
  /\ pc' = [r \in Request |-> IF InFlight(r) THEN "gone" ELSE pc[r]]
  /\ UNCHANGED <<bucket, contents, op, copy, modes, history>>

Restart ==
  /\ ~up
  /\ up' = TRUE
  /\ UNCHANGED <<bucket, contents, memory, modes, pc, crashes, history>>

Next ==
  \/ \E r \in Creates : CreateDir(r)
  \/ \E r \in Changes : ChangeStart(r) \/ ChangeRead(r)
  \/ \E r \in Writer : Open(r) \/ OpenFails(r) \/ Fill(r) \/ FillFails(r)
  \/ \E r \in Deletes : DeleteScan(r) \/ DeletePurge(r) \/ DeleteDir(r)
  \/ \E w \in Upload :
       \/ UploadStart(w) \/ ReadEncryption(w) \/ ReadErasure(w)
       \/ ReadVersioning(w) \/ Stage(w) \/ ReadLock(w) \/ Publish(w)
  \/ \E r \in Request : Cancel(r)
  \/ Crash \/ Restart

Spec == Init /\ [][Next]_vars

-----------------------------------------------------------------------------
(* Properties.                                                              *)

Label == {"idle", "read", "open", "fill", "purge", "rmdir", "encryption",
          "erasure", "versioning", "stage", "lock", "publish", "ok", "err",
          "gone"}

\* The type of every variable; nothing is in a directory that does not exist,
\* and an open `.bucket.json' is there.
TypeOK ==
  /\ dir \in BOOLEAN
  /\ file \in {"none", "torn", "whole"}
  /\ conf \in Settings
  /\ files \subseteq Upload
  /\ sidecars \subseteq Upload
  /\ op \in [Changes -> Ops]
  /\ copy \in [Writer -> Settings]
  /\ handle \in [Writer -> {"none", "clean", "mixed"}]
  /\ encrypted \in [Upload -> BOOLEAN]
  /\ chunked \in [Upload -> BOOLEAN]
  /\ versioned \in [Upload -> BOOLEAN]
  /\ pc \in [Request -> Label]
  /\ up \in BOOLEAN
  /\ crashes \in 0 .. MaxCrashes
  /\ sure \in [Fields -> Value \union {Unknown}]
  /\ alone \in [Request -> BOOLEAN]
  /\ ~dir => file = "none" /\ files = {} /\ sidecars = {}
  /\ \A r \in Writer : handle[r] # "none" => file # "none"

\* A setting survives everything but a change that overlaps with its own: however
\* the other requests interleave their reads and writes of the whole file, fail,
\* are dropped or crash, readable settings hold the value of the last change of
\* the field if no other administration ran beside that change.
UncontestedSettingKept ==
  file = "whole" => \A f \in Fields : sure[f] \in {conf[f], Unknown}

\* An upload that no administration overlaps with is stored as the settings say,
\* if they can be read, though it reads them one at a time.
SettledUploadFollows ==
  \A w \in Upload :
    pc[w] = "publish" /\ alone[w] /\ file = "whole" =>
      /\ encrypted[w] = (conf["encryption"] = "on")
      /\ versioned[w] = (conf["versioning"] = "on")
      /\ chunked[w] = (ServerErasure /\ conf["erasure"] # "disabled")

\* The bytes of an acknowledged upload, which no request here deletes or replaces,
\* are never taken by DeleteBucket, whatever slips in between its scan, its purge
\* and the removal of the directory.
PayloadKept == \A w \in Upload : pc[w] = "ok" => w \in files
=============================================================================
