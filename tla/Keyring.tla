------------------------------- MODULE Keyring -------------------------------
(***************************************************************************)
(* The master keys that wrap the data keys of encrypted objects: the       *)
(* keyring file, its rotation by administrators, the keyring a running     *)
(* server has loaded, and which objects can be decrypted.                  *)
(***************************************************************************)
EXTENDS Naturals, FiniteSets

CONSTANTS
  Rotator,       \* rotations, each run once
  Sealed,        \* encrypted objects and multipart uploads
  Customers,     \* customers, each with a key to bring
  MaxStarts      \* bound on starts of the server

\* Keys are told apart by where they come from.
NoId == <<"none", 0>>
EnvKey == <<"MAXIO_MASTER_KEY", 0>>
KmsKey == <<"MAXIO_KMS_MASTER_KEY", 0>>
FirstKey(i) == <<"first", i>>
NewKey(r) == <<"new", r>>
CustomerKey(c) == <<"customer", c>>

NoRing == [keys |-> {}, active |-> NoId]     \* no keyring file, no server

ASSUME KeyringAssumption == MaxStarts \in Nat

VARIABLES
  keyFile,       \* the keyring file: [keys, active], or NoRing
  keyTmp,        \* the temporary file all rotations share
  rotation,      \* rotator -> [pc, ring]
  boot,          \* a server that is starting: [pc, ring]
  ring,          \* the keyring of the running server, or NoRing
  env, kms,      \* whether the two environment keys are set
  sealed,        \* object -> how it was encrypted: [stage, mode, key]
  starts,
  raced          \* history: two writers of the file overlapped, or it was misread

keyVars == <<keyFile, keyTmp, rotation, boot, ring, env, kms, sealed, starts, raced>>

Plain == [stage |-> "none", mode |-> "none", key |-> NoId]
Off == [pc |-> "off", ring |-> NoRing]

KeyInit ==
  /\ keyFile = NoRing /\ keyTmp = NoRing
  /\ rotation = [r \in Rotator |-> Off]
  /\ boot = Off /\ ring = NoRing
  /\ env \in BOOLEAN /\ kms \in BOOLEAN
  /\ sealed = [o \in Sealed |-> Plain]
  /\ starts = 0 /\ raced = FALSE

Busy == boot.pc = "create" \/ \E r \in Rotator : rotation[r].pc \in {"write", "rename"}

-----------------------------------------------------------------------------
(* rotate: read, demote, add a key, write the temporary file, rename it.    *)

\* Mutant: the old keys are forgotten, not demoted.
OnlyNewKey(f, k) == [keys |-> {k}, active |-> k]

WithNewKey(f, k) == [keys |-> f.keys \union {k}, active |-> k]

\* A file that cannot be read counts as no file.
RotateRead(r, misread) ==
  LET f == IF misread THEN NoRing ELSE keyFile IN
    /\ rotation[r].pc = "off"
    /\ rotation' = [rotation EXCEPT ![r] = [pc |-> "write", ring |-> WithNewKey(f, NewKey(r))]]
    /\ raced' = (raced \/ Busy \/ f # keyFile)
    /\ UNCHANGED <<keyFile, keyTmp, boot, ring, env, kms, sealed, starts>>

RotateWrite(r) ==
  /\ rotation[r].pc = "write"
  /\ keyTmp' = rotation[r].ring
  /\ rotation' = [rotation EXCEPT ![r].pc = "rename"]
  /\ UNCHANGED <<keyFile, boot, ring, env, kms, sealed, starts, raced>>

\* The rename fails if another rotation has taken the file away.
RotateRename(r) ==
  /\ rotation[r].pc = "rename"
  /\ keyFile' = IF keyTmp = NoRing THEN keyFile ELSE keyTmp
  /\ keyTmp' = NoRing
  /\ rotation' = [rotation EXCEPT ![r].pc = IF keyTmp = NoRing THEN "failed" ELSE "done"]
  /\ UNCHANGED <<boot, ring, env, kms, sealed, starts, raced>>

\* The administrator's process ends between two steps.
RotateDies(r) ==
  /\ rotation[r].pc \in {"write", "rename"}
  /\ rotation' = [rotation EXCEPT ![r].pc = "failed"]
  /\ UNCHANGED <<keyFile, keyTmp, boot, ring, env, kms, sealed, starts, raced>>

-----------------------------------------------------------------------------
(* Keyring::load.                                                           *)

\* The environment's key is active, the file's keys are there to read with.
MergedRing(f) == [keys |-> {EnvKey} \union f.keys, active |-> EnvKey]

\* A file that cannot be read counts as no file here, too.
LoadRing(misread) ==
  LET f == IF misread THEN NoRing ELSE keyFile IN
    /\ ring = NoRing /\ boot.pc = "off" /\ starts < MaxStarts
    /\ starts' = starts + 1
    /\ \/ env /\ ring' = MergedRing(f) /\ UNCHANGED boot
       \/ ~env /\ f # NoRing /\ ring' = f /\ UNCHANGED boot
       \/ /\ ~env /\ f = NoRing
          /\ boot' = [pc |-> "create", ring |-> WithNewKey(NoRing, FirstKey(starts + 1))]
          /\ UNCHANGED ring
    /\ raced' = (raced \/ f # keyFile \/ (~env /\ f = NoRing /\ Busy))
    /\ UNCHANGED <<keyFile, keyTmp, rotation, env, kms, sealed>>

\* The first keyring, renamed into place.
CreateRing ==
  /\ boot.pc = "create"
  /\ keyFile' = boot.ring
  /\ ring' = boot.ring
  /\ boot' = Off
  /\ UNCHANGED <<keyTmp, rotation, env, kms, sealed, starts, raced>>

StopServer ==
  /\ ring # NoRing \/ boot.pc # "off"
  /\ ring' = NoRing /\ boot' = Off
  /\ UNCHANGED <<keyFile, keyTmp, rotation, env, kms, sealed, starts, raced>>

-----------------------------------------------------------------------------
(* Objects, and multipart uploads that become objects.                      *)

Sealing(stage, mode, c) ==
  [stage |-> stage, mode |-> mode,
   key |-> CASE mode = "SseS3" -> ring.active
             [] mode = "SseKms" -> KmsKey
             [] OTHER -> CustomerKey(c)]

\* prepare_encryption: the data key of a new object is wrapped under the active
\* master key, the KMS key or the customer's key.
Encrypt(o, mode, c) ==
  /\ ring # NoRing /\ sealed[o] = Plain
  /\ mode = "SseKms" => kms
  /\ sealed' = [sealed EXCEPT ![o] = Sealing("object", mode, c)]
  /\ UNCHANGED <<keyFile, keyTmp, rotation, boot, ring, env, kms, starts, raced>>

\* create_multipart_upload: the upload has a data key of its own.
CreateUpload(o, mode, c) ==
  /\ ring # NoRing /\ sealed[o] = Plain
  /\ mode = "SseKms" => kms
  /\ sealed' = [sealed EXCEPT ![o] = Sealing("upload", mode, c)]
  /\ UNCHANGED <<keyFile, keyTmp, rotation, boot, ring, env, kms, starts, raced>>

\* resolve_dek and resolve_upload_dek: whether a server with keyring k can decrypt,
\* for a caller who brings a key.
Opens(s, k, key) ==
  CASE s.mode = "SseS3" -> s.key \in k.keys
    [] s.mode = "SseKms" -> kms
    [] s.mode = "SseC" -> s.key = key
    [] OTHER -> TRUE

UploadOpens(s, k, key) == Opens(s, k, key)

\* The parts are decrypted with the upload's key and encrypted as a new object.
CompleteUpload(o, c) ==
  /\ ring # NoRing /\ sealed[o].stage = "upload"
  /\ UploadOpens(sealed[o], ring, CustomerKey(c))
  /\ sealed' = [sealed EXCEPT ![o] = Sealing("object", sealed[o].mode, c)]
  /\ UNCHANGED <<keyFile, keyTmp, rotation, boot, ring, env, kms, starts, raced>>

KeyNext ==
  \/ \E r \in Rotator :
       \/ \E misread \in BOOLEAN : RotateRead(r, misread)
       \/ RotateWrite(r) \/ RotateRename(r) \/ RotateDies(r)
  \/ \E misread \in BOOLEAN : LoadRing(misread)
  \/ CreateRing \/ StopServer
  \/ \E o \in Sealed, mode \in {"SseS3", "SseKms", "SseC"}, c \in Customers :
       Encrypt(o, mode, c) \/ CreateUpload(o, mode, c) \/ CompleteUpload(o, c)

KeySpec == KeyInit /\ [][KeyNext]_keyVars

-----------------------------------------------------------------------------
(* Properties.                                                              *)

\* What was encrypted stays readable.  The running server can decrypt every object
\* and upload as long as it runs, whatever rotations do to the file, and no rotation,
\* crash of a rotation or restart takes that away: a server started now could, too.
\* It holds unless two writers of the keyring file overlapped or the file could
\* not be read (load and rotate take that for an empty one).
KeysSurvive ==
  LET next == IF env THEN MergedRing(keyFile) ELSE keyFile IN
    ~raced => \A o \in Sealed :
      /\ ring # NoRing => Opens(sealed[o], ring, sealed[o].key)
      /\ env \/ keyFile # NoRing => Opens(sealed[o], next, sealed[o].key)
=============================================================================
