------------------------- MODULE BucketConfigProofs -------------------------
(***************************************************************************)
(* Which settings survive concurrent changes of `.bucket.json', and that   *)
(* DeleteBucket never takes the bytes of an acknowledged upload, for any   *)
(* number of requests and crashes and any failures.                        *)
(***************************************************************************)
EXTENDS BucketConfig, TLAPS

USE DEF Request, Admin, Writer, Upload, InFlight, Ended, Goto

\* Every change writes values of the settings' type.
LEMMA ChangeValue == \A o \in Change : \A f \in DOMAIN o : o[f] \in Value
<1> SUFFICES ASSUME NEW o \in Change, NEW f \in DOMAIN o PROVE o[f] \in Value
  OBVIOUS
<1>1. CASE o \in PolicyChange
  BY <1>1 DEF PolicyChange, Value
<1>2. CASE o \notin PolicyChange
  BY <1>2 DEF Change, OnOff, Value, VersioningChange, EncryptionChange,
     PublicChange, CorsChange, LifecycleChange, LoggingChange,
     NotificationChange, ErasureChange, LockChange
<1> QED BY <1>1, <1>2

LEMMA ApplySettings ==
  \A o \in Change, s \in Settings : Apply(o, s) \in Settings
  BY ChangeValue DEF Apply, Settings

LEMMA DefaultSettings ==
  \A f \in Fields, v \in OnOff :
    Defaults \in Settings /\ [Defaults EXCEPT ![f] = v] \in Settings
  BY DEF Defaults, Settings, Value, OnOff

\* An upload's bytes are in the directory from its staging on.
Staged ==
  \A w \in Upload :
    \/ pc[w] \in {"lock", "publish", "ok"}
    \/ pc[w] = "versioning" /\ chunked[w]
    => w \in files

PayloadInv == TypeOK /\ Staged

LEMMA TypeInit == Init => TypeOK
<1> SUFFICES ASSUME Init PROVE TypeOK
  OBVIOUS
<1>1. conf \in Settings
  BY DefaultSettings, SetupAssumption DEF Init, Fields, OnOff
<1>2. copy \in [Writer -> Settings]
  BY DefaultSettings DEF Init, Fields, OnOff
<1>3. crashes \in 0 .. MaxCrashes
  BY SetupAssumption DEF Init
<1>4. sure \in [Fields -> Value \union {Unknown}]
  BY <1>1 DEF Init, Settings
<1> QED BY <1>1, <1>2, <1>3, <1>4 DEF Init, TypeOK, Label

LEMMA ArriveType ==
  ASSUME TypeOK, NEW r \in Request, Arrive(r)
  PROVE  alone' \in [Request -> BOOLEAN]
  BY DEF TypeOK, Arrive, Busy

LEMMA TypeNext == PayloadInv /\ [Next]_vars => TypeOK'
<1> SUFFICES ASSUME TypeOK, Staged, [Next]_vars PROVE TypeOK'
  BY DEF PayloadInv
<1> USE DEF bucket, contents, memory, modes, process, history
<1>1. ASSUME NEW r \in Creates, CreateDir(r) PROVE TypeOK'
  <2>1. copy' \in [Writer -> Settings]
    BY <1>1, DefaultSettings DEF CreateDir, TypeOK, Fields
  <2>2. alone' \in [Request -> BOOLEAN]
    BY <1>1, ArriveType DEF CreateDir
  <2>3. pc' \in [Request -> Label] /\ dir' \in BOOLEAN
    BY <1>1 DEF CreateDir, TypeOK, Label
  <2>4. UNCHANGED <<file, conf, contents, op, handle, modes, process, sure>>
    BY <1>1 DEF CreateDir, Arrive
  <2>5. dir => dir'
    BY <1>1 DEF CreateDir
  <2> QED BY <2>1, <2>2, <2>3, <2>4, <2>5 DEF TypeOK
<1>2. ASSUME NEW r \in Changes, ChangeStart(r) PROVE TypeOK'
  BY <1>2, ArriveType DEF ChangeStart, Arrive, TypeOK, Label
<1>3. ASSUME NEW r \in Changes, ChangeRead(r) PROVE TypeOK'
  <2>1. copy' \in [Writer -> Settings]
    BY <1>3, ApplySettings, SetupAssumption DEF ChangeRead, TypeOK
  <2> QED BY <1>3, <2>1 DEF ChangeRead, TypeOK, Label
<1>4. ASSUME NEW r \in Writer, Open(r) PROVE TypeOK'
  BY <1>4 DEF Open, TypeOK, Label
<1>5. ASSUME NEW r \in Writer, OpenFails(r) PROVE TypeOK'
  BY <1>5 DEF OpenFails, TypeOK, Label
<1>6. ASSUME NEW r \in Writer, Fill(r) PROVE TypeOK'
  <2>1. sure' \in [Fields -> Value \union {Unknown}]
    BY <1>6 DEF Fill, Vouched, TypeOK, Settings
  <2>2. handle' \in [Writer -> {"none", "clean", "mixed"}]
    BY <1>6 DEF Fill, TypeOK, Writer
  <2>3. conf' \in Settings /\ file' \in {"none", "torn", "whole"}
    BY <1>6 DEF Fill, TypeOK
  <2>4. ~dir' => file' = "none" /\ files' = {} /\ sidecars' = {}
    BY <1>6 DEF Fill, TypeOK
  <2> QED BY <1>6, <2>1, <2>2, <2>3, <2>4 DEF Fill, TypeOK, Label
<1>7. ASSUME NEW r \in Writer, FillFails(r) PROVE TypeOK'
  BY <1>7 DEF FillFails, TypeOK, Label
<1>8. ASSUME NEW r \in Deletes, DeleteScan(r) PROVE TypeOK'
  BY <1>8, ArriveType DEF DeleteScan, Arrive, TypeOK, Label
<1>9. ASSUME NEW r \in Deletes, DeletePurge(r) PROVE TypeOK'
  BY <1>9 DEF DeletePurge, TypeOK, Label
<1>10. ASSUME NEW r \in Deletes, DeleteDir(r) PROVE TypeOK'
  BY <1>10 DEF DeleteDir, TypeOK, Label
<1>11. ASSUME NEW w \in Upload, UploadStart(w) PROVE TypeOK'
  BY <1>11, ArriveType DEF UploadStart, Arrive, TypeOK, Label
<1>12. ASSUME NEW w \in Upload, ReadEncryption(w) PROVE TypeOK'
  <2> DEFINE b == conf["encryption"] = "on"
  <2>0. b \in BOOLEAN /\ (encrypted' = [encrypted EXCEPT ![w] = b] \/ encrypted' = encrypted)
    BY <1>12 DEF ReadEncryption
  <2> HIDE DEF b
  <2>1. encrypted' \in [Upload -> BOOLEAN]
    BY <2>0 DEF TypeOK
  <2> QED BY <1>12, <2>1 DEF ReadEncryption, TypeOK, Label
<1>20. ASSUME NEW w \in Upload, ReadErasure(w) PROVE TypeOK'
  <2> DEFINE b == ServerErasure /\ conf["erasure"] # "disabled"
  <2>0. b \in BOOLEAN /\ (chunked' = [chunked EXCEPT ![w] = b] \/ chunked' = chunked)
    BY <1>20 DEF ReadErasure
  <2> HIDE DEF b
  <2>1. chunked' \in [Upload -> BOOLEAN]
    BY <2>0 DEF TypeOK
  <2>2. pc' \in [Request -> Label]
    BY <1>20 DEF ReadErasure, TypeOK, Label
  <2> QED BY <1>20, <2>1, <2>2 DEF ReadErasure, TypeOK
<1>21. ASSUME NEW w \in Upload, ReadLock(w) PROVE TypeOK'
  BY <1>21 DEF ReadLock, TypeOK, Label
<1>13. ASSUME NEW w \in Upload, ReadVersioning(w) PROVE TypeOK'
  <2> DEFINE b == file = "whole" /\ conf["versioning"] = "on"
  <2>0. b \in BOOLEAN /\ versioned' = [versioned EXCEPT ![w] = b]
    BY <1>13 DEF ReadVersioning
  <2> HIDE DEF b
  <2>1. versioned' \in [Upload -> BOOLEAN]
    BY <2>0 DEF TypeOK
  <2> QED BY <1>13, <2>1 DEF ReadVersioning, TypeOK, Label
<1>14. ASSUME NEW w \in Upload, Stage(w) PROVE TypeOK'
  BY <1>14 DEF Stage, TypeOK, Label
<1>15. ASSUME NEW w \in Upload, Publish(w) PROVE TypeOK'
  BY <1>15 DEF Publish, TypeOK, Staged, Label
<1>16. ASSUME NEW r \in Request, Cancel(r) PROVE TypeOK'
  BY <1>16 DEF Cancel, TypeOK, Label
<1>17. CASE Crash
  <2>1. crashes' \in 0 .. MaxCrashes
    BY <1>17, SetupAssumption DEF Crash, TypeOK
  <2>2. pc' \in [Request -> Label]
    BY <1>17 DEF Crash, TypeOK, Label
  <2> QED BY <1>17, <2>1, <2>2 DEF Crash, TypeOK
<1>18. CASE Restart
  BY <1>18 DEF Restart, TypeOK
<1>19. CASE UNCHANGED vars
  BY <1>19 DEF vars, TypeOK
<1> QED
  BY <1>1, <1>2, <1>3, <1>4, <1>5, <1>6, <1>7, <1>8, <1>9, <1>10, <1>11, <1>12,
     <1>13, <1>14, <1>15, <1>16, <1>17, <1>18, <1>19, <1>20, <1>21 DEF Next

LEMMA StagedNext == PayloadInv /\ [Next]_vars => Staged'
<1> SUFFICES ASSUME TypeOK, Staged, [Next]_vars PROVE Staged'
  BY DEF PayloadInv
<1> USE DEF bucket, contents, memory, modes, process, history, TypeOK
<1>1. ASSUME NEW r \in Admin, pc' = [pc EXCEPT ![r] = pc'[r]],
             UNCHANGED <<files, chunked>>
      PROVE  Staged'
  BY <1>1, RequestAssumption DEF Staged
<1>2. ASSUME NEW r \in Deletes, DeleteScan(r) \/ DeletePurge(r) \/ DeleteDir(r)
      PROVE  Staged'
  BY <1>1, <1>2 DEF DeleteScan, DeletePurge, DeleteDir
<1>3. ASSUME NEW r \in Creates, CreateDir(r) PROVE Staged'
  BY <1>1, <1>3 DEF CreateDir
<1>4. ASSUME NEW r \in Changes, ChangeStart(r) \/ ChangeRead(r) PROVE Staged'
  BY <1>1, <1>4 DEF ChangeStart, ChangeRead
<1>5. ASSUME NEW r \in Writer, Open(r) \/ OpenFails(r) \/ Fill(r) \/ FillFails(r)
      PROVE  Staged'
  BY <1>1, <1>5 DEF Open, OpenFails, Fill, FillFails
<1>6. ASSUME NEW w \in Upload,
             UploadStart(w) \/ ReadEncryption(w) \/ ReadVersioning(w)
      PROVE  Staged'
  BY <1>6 DEF UploadStart, ReadEncryption, ReadVersioning, Staged
<1>7. ASSUME NEW w \in Upload, Stage(w) \/ ReadLock(w) \/ Publish(w) PROVE Staged'
  BY <1>7 DEF Stage, ReadLock, Publish, Staged
<1>11. ASSUME NEW w \in Upload, ReadErasure(w) PROVE Staged'
  <2> SUFFICES ASSUME NEW v \in Upload,
                      \/ pc'[v] \in {"lock", "publish", "ok"}
                      \/ pc'[v] = "versioning" /\ chunked'[v]
               PROVE  v \in files
    BY <1>11 DEF ReadErasure, Staged
  <2>1. v # w
    BY <1>11 DEF ReadErasure
  <2>2. pc'[v] = pc[v] /\ chunked'[v] = chunked[v]
    BY <1>11, <2>1 DEF ReadErasure
  <2> QED BY <2>2 DEF Staged
<1>8. ASSUME NEW r \in Request, Cancel(r) PROVE Staged'
  BY <1>8 DEF Cancel, Staged
<1>9. CASE Crash
  BY <1>9 DEF Crash, Staged
<1>10. CASE Restart \/ UNCHANGED vars
  BY <1>10 DEF Restart, vars, Staged
<1> QED
  BY <1>2, <1>3, <1>4, <1>5, <1>6, <1>7, <1>8, <1>9, <1>10, <1>11 DEF Next

LEMMA PayloadInvariant == Spec => []PayloadInv
<1>1. Init => PayloadInv
  BY TypeInit DEF Init, PayloadInv, Staged
<1>2. PayloadInv /\ [Next]_vars => PayloadInv'
  BY TypeNext, StagedNext DEF PayloadInv
<1> QED BY <1>1, <1>2, PTL DEF Spec

\* Every variable has its type, and a bucket without a directory has neither
\* settings nor objects.
THEOREM TypeCorrect == Spec => []TypeOK
<1>1. PayloadInv => TypeOK
  BY DEF PayloadInv
<1> QED BY <1>1, PayloadInvariant, PTL

\* DeleteBucket, whose scan, purge and removal of the directory are separate,
\* never takes the bytes of an acknowledged upload.
THEOREM AcknowledgedBytesKept == Spec => []PayloadKept
<1>1. PayloadInv => PayloadKept
  BY DEF PayloadInv, Staged, PayloadKept
<1> QED BY <1>1, PayloadInvariant, PTL

-----------------------------------------------------------------------------
(* The settings.  A request is vouched for only while no administration is  *)
(* beside it, an undisturbed write owns the file it opened, and what a      *)
(* change copied from the file still agrees with what is vouched for.       *)

Solitude ==
  \A q \in Request, a \in Admin :
    q # a /\ InFlight(q) /\ InFlight(a) => ~alone[q]

OwnHandle ==
  \A r \in Writer : pc[r] = "fill" /\ alone[r] => handle[r] = "clean"

CopyAgrees ==
  \A r \in Changes :
    pc[r] \in {"open", "fill"} =>
      \A f \in Fields \ DOMAIN op[r] : sure[f] \in {copy[r][f], Unknown}

\* What an upload has read so far is what the settings say.
Follows(w) ==
  /\ pc[w] \in {"erasure", "versioning", "stage", "lock", "publish"} =>
       encrypted[w] = (conf["encryption"] = "on")
  /\ pc[w] \in {"versioning", "stage", "lock", "publish"} =>
       chunked[w] = (ServerErasure /\ conf["erasure"] # "disabled")
  /\ pc[w] \in {"lock", "publish"} \/ (pc[w] = "stage" /\ ~chunked[w]) =>
       versioned[w] = (conf["versioning"] = "on")

ModesFollow == \A w \in Upload : alone[w] /\ file = "whole" => Follows(w)

ConfigInv ==
  TypeOK /\ Solitude /\ OwnHandle /\ CopyAgrees /\ UncontestedSettingKept
    /\ ModesFollow

\* Steps of a request that is in flight, and steps of no request.
Moves(r) ==
  /\ InFlight(r)
  /\ alone' = alone
  /\ pc' = [pc EXCEPT ![r] = pc'[r]]
Arrives(r) ==
  /\ Arrive(r)
  /\ pc' = [pc EXCEPT ![r] = pc'[r]]
  /\ pc'[r] \in {"open", "read", "purge", "encryption", "err"}
  /\ pc'[r] = "open" => r \in Creates
Rests ==
  /\ alone' = alone
  /\ pc' \in [Request -> Label]
  /\ \A q \in Request : pc'[q] = pc[q] \/ pc'[q] = "gone"

LEMMA StepKinds ==
  ASSUME TypeOK, [Next]_vars
  PROVE  Rests \/ (\E r \in Request : Moves(r)) \/ (\E r \in Request : Arrives(r))
<1> USE DEF bucket, contents, memory, modes, process, history, TypeOK
<1>1. ASSUME NEW r \in Creates, CreateDir(r) PROVE Arrives(r)
  BY <1>1 DEF CreateDir, Arrives
<1>2. ASSUME NEW r \in Changes, ChangeStart(r) PROVE Arrives(r)
  BY <1>2 DEF ChangeStart, Arrives
<1>3. ASSUME NEW r \in Deletes, DeleteScan(r) PROVE Arrives(r)
  BY <1>3 DEF DeleteScan, Arrives
<1>4. ASSUME NEW w \in Upload, UploadStart(w) PROVE Arrives(w)
  BY <1>4 DEF UploadStart, Arrives
<1>5. ASSUME NEW r \in Changes, ChangeRead(r) PROVE Moves(r)
  BY <1>5 DEF ChangeRead, Moves
<1>6. ASSUME NEW r \in Writer, Open(r) \/ OpenFails(r) \/ Fill(r) \/ FillFails(r)
      PROVE  Moves(r)
  BY <1>6 DEF Open, OpenFails, Fill, FillFails, Moves
<1>7. ASSUME NEW r \in Deletes, DeletePurge(r) \/ DeleteDir(r) PROVE Moves(r)
  BY <1>7 DEF DeletePurge, DeleteDir, Moves
<1>8. ASSUME NEW w \in Upload,
             \/ ReadEncryption(w) \/ ReadErasure(w) \/ ReadVersioning(w)
             \/ Stage(w) \/ ReadLock(w) \/ Publish(w)
      PROVE  Moves(w)
  BY <1>8 DEF ReadEncryption, ReadErasure, ReadVersioning, Stage, ReadLock, Publish,
     Moves
<1>9. ASSUME NEW r \in Request, Cancel(r) PROVE Moves(r)
  BY <1>9 DEF Cancel, Moves
<1>10. CASE Crash
  BY <1>10 DEF Crash, Rests, Label
<1>11. CASE Restart \/ UNCHANGED vars
  BY <1>11 DEF Restart, vars, Rests
<1> QED
  BY <1>1, <1>2, <1>3, <1>4, <1>5, <1>6, <1>7, <1>8, <1>9, <1>10, <1>11 DEF Next

\* What an arrival makes of the solitude of every request.
LEMMA ArriveAlone ==
  ASSUME NEW r \in Request, Arrive(r), NEW q \in Request
  PROVE  /\ q = r => (alone'[q] <=> ~Busy(r))
         /\ q # r => (alone'[q] <=> alone[q] /\ (r \in Admin => ~InFlight(q)))
<1>1. alone'[q] = IF q = r THEN ~Busy(r)
                  ELSE alone[q] /\ (r \in Admin => ~InFlight(q))
  BY Zenon DEF Arrive
<1> QED BY <1>1, Zenon

LEMMA SolitudeNext == TypeOK /\ Solitude /\ [Next]_vars => Solitude'
<1> SUFFICES ASSUME TypeOK, Solitude, [Next]_vars PROVE Solitude'
  OBVIOUS
<1>1. CASE Rests
  BY <1>1 DEF Rests, Solitude, TypeOK
<1>2. ASSUME NEW r \in Request, Moves(r) PROVE Solitude'
  BY <1>2 DEF Moves, Solitude, TypeOK
<1>3. ASSUME NEW r \in Request, Arrives(r) PROVE Solitude'
  <2> SUFFICES ASSUME NEW q \in Request, NEW a \in Admin, q # a,
                      InFlight(q)', InFlight(a)', alone'[q]
               PROVE  FALSE
    BY DEF Solitude
  <2>1. Arrive(r) /\ pc[r] = "idle" /\ pc' = [pc EXCEPT ![r] = pc'[r]]
    BY <1>3 DEF Arrives, Arrive
  <2>2. \A p \in Request : p # r => pc'[p] = pc[p]
    BY <2>1 DEF TypeOK
  <2>3. CASE q = r
    <3>1. ~Busy(r)
      BY <2>1, <2>3, ArriveAlone
    <3> QED BY <2>2, <2>3, <3>1 DEF Busy
  <2>4. CASE q # r
    <3>1. alone[q] /\ (r \in Admin => ~InFlight(q))
      BY <2>1, <2>4, ArriveAlone
    <3> QED BY <2>2, <2>4, <3>1 DEF Solitude
  <2> QED BY <2>3, <2>4
<1> QED BY <1>1, <1>2, <1>3, StepKinds

LEMMA OwnHandleNext ==
  TypeOK /\ Solitude /\ OwnHandle /\ [Next]_vars => OwnHandle'
<1> SUFFICES ASSUME TypeOK, Solitude, OwnHandle, [Next]_vars PROVE OwnHandle'
  OBVIOUS
<1> USE DEF bucket, contents, memory, modes, process, history
<1>1. ASSUME NEW r \in Request, Arrives(r), handle' = handle PROVE OwnHandle'
  <2> SUFFICES ASSUME NEW q \in Writer, pc'[q] = "fill", alone'[q]
               PROVE  handle[q] = "clean"
    BY <1>1 DEF OwnHandle
  <2>1. q # r /\ pc[q] = "fill"
    BY <1>1 DEF Arrives, TypeOK
  <2>2. alone[q]
    BY <1>1, <2>1, ArriveAlone DEF Arrives
  <2> QED BY <2>1, <2>2 DEF OwnHandle
<1>2. ASSUME NEW r \in Creates, CreateDir(r) PROVE OwnHandle'
  <2>1. Arrives(r)
    BY <1>2 DEF CreateDir, Arrives, TypeOK
  <2> QED BY <1>1, <1>2, <2>1 DEF CreateDir
<1>3. ASSUME NEW r \in Changes, ChangeStart(r) PROVE OwnHandle'
  <2>1. Arrives(r)
    BY <1>3 DEF ChangeStart, Arrives, TypeOK
  <2> QED BY <1>1, <1>3, <2>1 DEF ChangeStart
<1>4. ASSUME NEW r \in Deletes, DeleteScan(r) PROVE OwnHandle'
  <2>1. Arrives(r)
    BY <1>4 DEF DeleteScan, Arrives, TypeOK
  <2> QED BY <1>1, <1>4, <2>1 DEF DeleteScan
<1>5. ASSUME NEW w \in Upload, UploadStart(w) PROVE OwnHandle'
  <2>1. Arrives(w)
    BY <1>5 DEF UploadStart, Arrives, TypeOK
  <2> QED BY <1>1, <1>5, <2>1 DEF UploadStart
<1>6. ASSUME NEW r \in Changes, ChangeRead(r) PROVE OwnHandle'
  BY <1>6 DEF ChangeRead, OwnHandle, TypeOK
<1>7. ASSUME NEW r \in Writer, Open(r) PROVE OwnHandle'
  BY <1>7 DEF Open, OwnHandle, TypeOK
<1>8. ASSUME NEW r \in Writer, OpenFails(r) PROVE OwnHandle'
  BY <1>8 DEF OpenFails, OwnHandle, TypeOK
<1>9. ASSUME NEW r \in Writer, Fill(r) PROVE OwnHandle'
  \* A write that another write of the file disturbs is not alone.
  <2> SUFFICES ASSUME NEW q \in Writer, pc'[q] = "fill", alone'[q]
               PROVE  FALSE
    BY DEF OwnHandle
  <2>1. q # r /\ pc[q] = "fill" /\ pc[r] = "fill" /\ alone[q]
    BY <1>9 DEF Fill, TypeOK
  <2> QED BY <2>1 DEF Solitude
<1>10. ASSUME NEW r \in Writer, FillFails(r) PROVE OwnHandle'
  BY <1>10 DEF FillFails, OwnHandle, TypeOK
<1>11. ASSUME NEW r \in Deletes, DeletePurge(r) PROVE OwnHandle'
  <2> SUFFICES ASSUME NEW q \in Writer, pc'[q] = "fill", alone'[q]
               PROVE  FALSE
    BY DEF OwnHandle
  <2>1. q # r /\ pc[q] = "fill" /\ pc[r] = "purge" /\ alone[q]
    BY <1>11, RequestAssumption DEF DeletePurge, TypeOK
  <2> QED BY <2>1 DEF Solitude
<1>12. ASSUME NEW r \in Deletes, DeleteDir(r) PROVE OwnHandle'
  BY <1>12 DEF DeleteDir, OwnHandle, TypeOK
<1>13. ASSUME NEW w \in Upload,
              \/ ReadEncryption(w) \/ ReadErasure(w) \/ ReadVersioning(w)
              \/ Stage(w) \/ ReadLock(w) \/ Publish(w)
       PROVE  OwnHandle'
  BY <1>13 DEF ReadEncryption, ReadErasure, ReadVersioning, Stage, ReadLock,
     Publish, OwnHandle, TypeOK
<1>14. ASSUME NEW r \in Request, Cancel(r) PROVE OwnHandle'
  BY <1>14 DEF Cancel, OwnHandle, TypeOK
<1>15. CASE Crash
  BY <1>15 DEF Crash, OwnHandle, TypeOK
<1>16. CASE Restart \/ UNCHANGED vars
  BY <1>16 DEF Restart, vars, OwnHandle
<1> QED
  BY <1>2, <1>3, <1>4, <1>5, <1>6, <1>7, <1>8, <1>9, <1>10, <1>11, <1>12, <1>13,
     <1>14, <1>15, <1>16 DEF Next

LEMMA CopyAgreesNext ==
  /\ TypeOK /\ Solitude /\ CopyAgrees /\ UncontestedSettingKept
  /\ [Next]_vars
  => CopyAgrees'
<1> SUFFICES ASSUME TypeOK, Solitude, CopyAgrees, UncontestedSettingKept,
                    [Next]_vars
             PROVE  CopyAgrees'
  OBVIOUS
<1> USE DEF bucket, contents, memory, modes, process, history
<1>1. ASSUME UNCHANGED <<sure, op>>,
             \A r \in Changes :
               pc'[r] \in {"open", "fill"} =>
                 pc[r] \in {"open", "fill"} /\ copy'[r] = copy[r]
      PROVE  CopyAgrees'
  BY <1>1 DEF CopyAgrees
<1>2. ASSUME NEW r \in Creates, CreateDir(r) PROVE CopyAgrees'
  BY <1>1, <1>2, RequestAssumption DEF CreateDir, Arrive, TypeOK
<1>3. ASSUME NEW r \in Changes, ChangeStart(r) PROVE CopyAgrees'
  BY <1>1, <1>3 DEF ChangeStart, Arrive, TypeOK
<1>4. ASSUME NEW r \in Changes, ChangeRead(r) PROVE CopyAgrees'
  <2> SUFFICES ASSUME NEW q \in Changes, pc'[q] \in {"open", "fill"},
                      NEW f \in Fields, f \notin DOMAIN op[q]
               PROVE  sure[f] \in {copy'[q][f], Unknown}
    BY <1>4 DEF ChangeRead, CopyAgrees
  <2>1. CASE q = r
    <3>1. file = "whole" /\ copy'[q] = Apply(op[q], conf)
      BY <1>4, <2>1 DEF ChangeRead, TypeOK
    <3>2. copy'[q][f] = conf[f]
      BY <3>1 DEF Apply
    <3> QED BY <3>1, <3>2 DEF UncontestedSettingKept
  <2>2. CASE q # r
    BY <1>4, <2>2 DEF ChangeRead, CopyAgrees, TypeOK
  <2> QED BY <2>1, <2>2
<1>5. ASSUME NEW r \in Writer, Open(r) \/ OpenFails(r) \/ FillFails(r)
      PROVE  CopyAgrees'
  BY <1>1, <1>5 DEF Open, OpenFails, FillFails, TypeOK
<1>6. ASSUME NEW r \in Writer, Fill(r) PROVE CopyAgrees'
  \* Another change is in flight, so this write vouches for no value of its own.
  <2> SUFFICES ASSUME NEW q \in Changes, pc'[q] \in {"open", "fill"},
                      NEW f \in Fields, f \notin DOMAIN op[q]
               PROVE  sure'[f] \in {copy[q][f], Unknown}
    BY <1>6 DEF Fill, CopyAgrees
  <2>1. q # r /\ pc[q] \in {"open", "fill"} /\ pc[r] = "fill"
    BY <1>6 DEF Fill, TypeOK
  <2>2. ~alone[r]
    BY <2>1 DEF Solitude
  <2>3. sure'[f] \in {sure[f], Unknown}
    BY <1>6, <2>2 DEF Fill, Vouched
  <2> QED BY <2>1, <2>3 DEF CopyAgrees
<1>7. ASSUME NEW r \in Deletes, DeleteScan(r) \/ DeletePurge(r) \/ DeleteDir(r)
      PROVE  CopyAgrees'
  BY <1>1, <1>7, RequestAssumption
     DEF DeleteScan, Arrive, DeletePurge, DeleteDir, TypeOK
<1>8. ASSUME NEW w \in Upload,
             \/ UploadStart(w) \/ ReadEncryption(w) \/ ReadErasure(w)
             \/ ReadVersioning(w) \/ Stage(w) \/ ReadLock(w) \/ Publish(w)
      PROVE  CopyAgrees'
  BY <1>1, <1>8, RequestAssumption
     DEF UploadStart, Arrive, ReadEncryption, ReadErasure, ReadVersioning, Stage,
         ReadLock, Publish, TypeOK
<1>9. ASSUME NEW r \in Request, Cancel(r) PROVE CopyAgrees'
  BY <1>1, <1>9 DEF Cancel, TypeOK
<1>10. CASE Crash
  BY <1>1, <1>10 DEF Crash, TypeOK
<1>11. CASE Restart \/ UNCHANGED vars
  BY <1>1, <1>11 DEF Restart, vars
<1> QED
  BY <1>2, <1>3, <1>4, <1>5, <1>6, <1>7, <1>8, <1>9, <1>10, <1>11 DEF Next

LEMMA SettingNext ==
  /\ TypeOK /\ OwnHandle /\ CopyAgrees /\ UncontestedSettingKept
  /\ [Next]_vars
  => UncontestedSettingKept'
<1> SUFFICES ASSUME TypeOK, OwnHandle, CopyAgrees, UncontestedSettingKept,
                    [Next]_vars, file' = "whole"
             PROVE  \A f \in Fields : sure'[f] \in {conf'[f], Unknown}
  BY DEF UncontestedSettingKept
<1> USE DEF bucket, contents, memory, modes, process, history
<1>1. ASSUME NEW r \in Writer, Fill(r), NEW f \in Fields
      PROVE  sure'[f] \in {conf'[f], Unknown}
  <2>1. sure'[f] = IF r \in Changes /\ f \notin DOMAIN op[r] THEN sure[f]
                   ELSE IF alone[r] THEN copy[r][f] ELSE Unknown
    BY <1>1 DEF Fill, Vouched
  <2>2. CASE UNCHANGED <<file, conf>>
    \* The file this write opened is gone: a deletion came between.
    <3>1. handle[r] # "clean" \/ (file' = "whole" /\ conf' = copy[r])
      BY <1>1 DEF Fill
    <3>2. CASE handle[r] # "clean"
      <4>1. ~alone[r]
        BY <1>1, <3>2 DEF Fill, OwnHandle
      <4> QED BY <2>1, <2>2, <4>1 DEF UncontestedSettingKept
    <3>3. CASE conf' = copy[r]
      BY <1>1, <2>1, <3>3 DEF Fill, CopyAgrees
    <3> QED BY <3>1, <3>2, <3>3
  <2>3. CASE conf' = copy[r]
    BY <1>1, <2>1, <2>3 DEF Fill, CopyAgrees
  <2> QED BY <1>1, <2>2, <2>3 DEF Fill
<1>2. ASSUME UNCHANGED <<file, conf, sure>>
      PROVE  \A f \in Fields : sure'[f] \in {conf'[f], Unknown}
  BY <1>2 DEF UncontestedSettingKept
<1>3. ASSUME NEW r \in Creates, CreateDir(r) PROVE UNCHANGED <<file, conf, sure>>
  BY <1>3 DEF CreateDir, Arrive
<1>4. ASSUME NEW r \in Changes, ChangeStart(r) \/ ChangeRead(r)
      PROVE  UNCHANGED <<file, conf, sure>>
  BY <1>4 DEF ChangeStart, ChangeRead, Arrive
<1>5. ASSUME NEW r \in Writer, Open(r) PROVE FALSE
  BY <1>5 DEF Open
<1>6. ASSUME NEW r \in Writer, OpenFails(r) \/ FillFails(r)
      PROVE  UNCHANGED <<file, conf, sure>>
  BY <1>6 DEF OpenFails, FillFails
<1>7. ASSUME NEW r \in Deletes, DeleteScan(r) \/ DeletePurge(r) \/ DeleteDir(r)
      PROVE  UNCHANGED <<file, conf, sure>>
  BY <1>7 DEF DeleteScan, Arrive, DeletePurge, DeleteDir
<1>8. ASSUME NEW w \in Upload,
             \/ UploadStart(w) \/ ReadEncryption(w) \/ ReadErasure(w)
             \/ ReadVersioning(w) \/ Stage(w) \/ ReadLock(w) \/ Publish(w)
      PROVE  UNCHANGED <<file, conf, sure>>
  BY <1>8 DEF UploadStart, Arrive, ReadEncryption, ReadErasure, ReadVersioning,
     Stage, ReadLock, Publish
<1>9. CASE Crash \/ Restart \/ UNCHANGED vars
  BY <1>2, <1>9 DEF Crash, Restart, vars
<1>10. ASSUME NEW r \in Request, Cancel(r) PROVE UNCHANGED <<file, conf, sure>>
  BY <1>10 DEF Cancel
<1> QED
  BY <1>1, <1>2, <1>3, <1>4, <1>5, <1>6, <1>7, <1>8, <1>9, <1>10 DEF Next

LEMMA ModesNext ==
  TypeOK /\ Solitude /\ ModesFollow /\ [Next]_vars => ModesFollow'
<1> SUFFICES ASSUME TypeOK, Solitude, ModesFollow, [Next]_vars,
                    NEW w \in Upload, alone'[w], file' = "whole"
             PROVE  Follows(w)'
  BY DEF ModesFollow
<1> USE DEF bucket, contents, memory, modes, process, history
<1>1. ASSUME UNCHANGED <<file, conf>>, pc'[w] = pc[w] \/ pc'[w] \in Ended, alone[w],
             encrypted'[w] = encrypted[w], versioned'[w] = versioned[w],
             chunked'[w] = chunked[w]
      PROVE  Follows(w)'
  BY <1>1 DEF ModesFollow, Follows
<1>2. ASSUME NEW r \in Request, Arrives(r), UNCHANGED <<file, conf, modes>>
      PROVE  Follows(w)'
  <2>1. CASE r = w
    BY <1>2, <2>1 DEF Arrives, Follows, TypeOK
  <2>2. CASE r # w
    <3>1. pc'[w] = pc[w]
      BY <1>2, <2>2 DEF Arrives, TypeOK
    <3>2. alone[w]
      BY <1>2, <2>2, ArriveAlone DEF Arrives
    <3> QED BY <1>1, <1>2, <3>1, <3>2
  <2> QED BY <2>1, <2>2
<1>3. ASSUME NEW r \in Creates, CreateDir(r) PROVE Follows(w)'
  <2>1. Arrives(r)
    BY <1>3 DEF CreateDir, Arrives, TypeOK
  <2> QED BY <1>2, <1>3, <2>1 DEF CreateDir
<1>4. ASSUME NEW r \in Changes, ChangeStart(r) PROVE Follows(w)'
  <2>1. Arrives(r)
    BY <1>4 DEF ChangeStart, Arrives, TypeOK
  <2> QED BY <1>2, <1>4, <2>1 DEF ChangeStart
<1>5. ASSUME NEW r \in Deletes, DeleteScan(r) PROVE Follows(w)'
  <2>1. Arrives(r)
    BY <1>5 DEF DeleteScan, Arrives, TypeOK
  <2> QED BY <1>2, <1>5, <2>1 DEF DeleteScan
<1>6. ASSUME NEW v \in Upload, UploadStart(v) PROVE Follows(w)'
  <2>1. Arrives(v)
    BY <1>6 DEF UploadStart, Arrives, TypeOK
  <2> QED BY <1>2, <1>6, <2>1 DEF UploadStart
<1>7. ASSUME NEW r \in Changes, ChangeRead(r) PROVE Follows(w)'
  BY <1>1, <1>7, RequestAssumption DEF ChangeRead, TypeOK
<1>8. ASSUME NEW r \in Writer, Open(r) \/ OpenFails(r) \/ FillFails(r)
      PROVE  Follows(w)'
  BY <1>1, <1>8, RequestAssumption DEF Open, OpenFails, FillFails, TypeOK
<1>9. ASSUME NEW r \in Writer, Fill(r) PROVE Follows(w)'
  \* The file is written beside the upload, which is therefore not alone.
  <2>1. r # w /\ pc[r] = "fill" /\ pc'[w] = pc[w] /\ alone[w]
    BY <1>9, RequestAssumption DEF Fill, TypeOK
  <2>2. ~InFlight(w)
    BY <2>1 DEF Solitude
  <2> QED BY <2>1, <2>2 DEF Follows
<1>10. ASSUME NEW r \in Deletes, DeletePurge(r) \/ DeleteDir(r) PROVE Follows(w)'
  BY <1>1, <1>10, RequestAssumption DEF DeletePurge, DeleteDir, TypeOK
<1>11. ASSUME NEW v \in Upload, ReadEncryption(v) PROVE Follows(w)'
  <2>1. CASE v = w /\ file = "whole"
    <3> DEFINE b == conf["encryption"] = "on"
    <3>1. /\ encrypted' = [encrypted EXCEPT ![w] = b]
          /\ pc'[w] = "erasure" /\ conf' = conf
      BY <1>11, <2>1 DEF ReadEncryption, TypeOK
    <3> HIDE DEF b
    <3>2. encrypted'[w] = b
      BY <3>1 DEF TypeOK
    <3> QED BY <3>1, <3>2 DEF b, Follows
  <2>2. CASE v # w
    BY <1>1, <1>11, <2>2 DEF ReadEncryption, TypeOK
  <2>3. CASE file # "whole"
    BY <1>11, <2>3 DEF ReadEncryption
  <2> QED BY <2>1, <2>2, <2>3
<1>12. ASSUME NEW v \in Upload, ReadErasure(v) PROVE Follows(w)'
  <2>1. CASE v = w
    <3> DEFINE b == ServerErasure /\ conf["erasure"] # "disabled"
    <3>1. /\ chunked' = [chunked EXCEPT ![w] = b]
          /\ pc' = [pc EXCEPT ![w] = IF chunked'[w] THEN "stage" ELSE "versioning"]
          /\ UNCHANGED <<file, conf, encrypted, alone>> /\ pc[w] = "erasure"
      BY <1>12, <2>1 DEF ReadErasure
    <3> HIDE DEF b
    <3>2. chunked'[w] = b
      BY <3>1 DEF TypeOK
    <3>3. pc'[w] = IF chunked'[w] THEN "stage" ELSE "versioning"
      BY <3>1 DEF TypeOK
    <3>4. encrypted'[w] = (conf'["encryption"] = "on")
      BY <3>1 DEF ModesFollow, Follows
    <3>5. chunked'[w] = (ServerErasure /\ conf'["erasure"] # "disabled")
      BY <3>1, <3>2 DEF b
    <3> QED BY <3>3, <3>4, <3>5 DEF Follows
  <2>2. CASE v # w
    BY <1>1, <1>12, <2>2 DEF ReadErasure, TypeOK
  <2> QED BY <2>1, <2>2
<1>13. ASSUME NEW v \in Upload, ReadVersioning(v) PROVE Follows(w)'
  <2>1. CASE v = w
    <3> DEFINE b == file = "whole" /\ conf["versioning"] = "on"
    <3>1. /\ versioned' = [versioned EXCEPT ![w] = b]
          /\ UNCHANGED <<file, conf, encrypted, chunked, alone>>
          /\ pc[w] = "versioning"
      BY <1>13, <2>1 DEF ReadVersioning
    <3> HIDE DEF b
    <3>2. versioned'[w] = b
      BY <3>1 DEF TypeOK
    <3>3. versioned'[w] = (conf'["versioning"] = "on")
      BY <3>1, <3>2 DEF b
    <3> QED BY <3>1, <3>3 DEF ModesFollow, Follows
  <2>2. CASE v # w
    BY <1>1, <1>13, <2>2 DEF ReadVersioning, TypeOK
  <2> QED BY <2>1, <2>2
<1>14. ASSUME NEW v \in Upload, Stage(v) \/ ReadLock(v) \/ Publish(v)
       PROVE  Follows(w)'
  <2>1. CASE v = w
    BY <1>14, <2>1 DEF Stage, ReadLock, Publish, ModesFollow, Follows, TypeOK
  <2>2. CASE v # w
    BY <1>1, <1>14, <2>2 DEF Stage, ReadLock, Publish, TypeOK
  <2> QED BY <2>1, <2>2
<1>15. ASSUME NEW r \in Request, Cancel(r) PROVE Follows(w)'
  BY <1>1, <1>15 DEF Cancel, TypeOK
<1>16. CASE Crash
  BY <1>1, <1>16 DEF Crash, TypeOK
<1>17. CASE Restart \/ UNCHANGED vars
  BY <1>1, <1>17 DEF Restart, vars
<1> QED
  BY <1>3, <1>4, <1>5, <1>6, <1>7, <1>8, <1>9, <1>10, <1>11, <1>12, <1>13,
     <1>14, <1>15, <1>16, <1>17 DEF Next

LEMMA ConfigInvariant == Spec => []ConfigInv
<1>1. Init => ConfigInv
  <2> SUFFICES ASSUME Init PROVE ConfigInv
    OBVIOUS
  <2>1. Solitude /\ OwnHandle /\ CopyAgrees /\ ModesFollow
    BY DEF Init, Solitude, OwnHandle, CopyAgrees, ModesFollow, Follows
  <2>2. UncontestedSettingKept
    BY DEF Init, UncontestedSettingKept
  <2> QED BY <2>1, <2>2, TypeInit DEF ConfigInv
<1>2. ConfigInv /\ PayloadInv /\ [Next]_vars => ConfigInv'
  BY TypeNext, SolitudeNext, OwnHandleNext, CopyAgreesNext, SettingNext, ModesNext
     DEF ConfigInv
<1> QED BY <1>1, <1>2, PayloadInvariant, PTL DEF Spec

\* Every request rewrites the whole file from what it read, yet a setting whose
\* last change no other administration overlapped keeps its value.
THEOREM SettingKept == Spec => []UncontestedSettingKept
<1>1. ConfigInv => UncontestedSettingKept
  BY DEF ConfigInv
<1> QED BY <1>1, ConfigInvariant, PTL

\* PutObject and CopyObject follow readable settings that nobody is changing.
THEOREM UploadFollows == Spec => []SettledUploadFollows
<1>1. ConfigInv => SettledUploadFollows
  BY DEF ConfigInv, ModesFollow, Follows, SettledUploadFollows
<1> QED BY <1>1, ConfigInvariant, PTL
=============================================================================
