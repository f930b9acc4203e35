------------------------ MODULE ObjectPublishProofs ------------------------
(***************************************************************************)
(* Proofs about ObjectPublish for any number of PUTs, DELETEs and GETs, any *)
(* set of failures, key depth, mix of write paths and number of crashes.    *)
(***************************************************************************)
EXTENDS PublishRefinement, TLAPS

USE DEF Request, Body

-----------------------------------------------------------------------------
(* Type correctness.                                                        *)

LEMMA InitType == Init => TypeOK
BY RequestAssumption, ModeAssumption
   DEF Init, TypeOK, Slot, Format, FormatOf, Label, WritePaths

LEMMA PutType ==
  ASSUME TypeOK, NEW w \in Puts, PutStart(w) \/ PutStep(w)
  PROVE  TypeOK'
<1> USE RequestAssumption, ModeAssumption DEF TypeOK, Slot, Label, Goto,
        putVars, getVars, sysVars, files, Fail, DropGuards, TempSlot
<1>0. FormatAt(w) \in Format
  BY DEF FormatAt, FormatOf, Format
<1>1. CASE PutStart(w)
  BY <1>1 DEF PutStart
<1>2. CASE PutBody(w)
  BY <1>2 DEF PutBody
<1>3. CASE PutSidecar(w)
  BY <1>3 DEF PutSidecar
<1>4. CASE ProbePayload(w) \/ ProbeMeta(w)
  BY <1>4 DEF ProbePayload, ProbeMeta
<1>5. CASE SavePayload(w)
  <2>1. gotPayload' \in [Puts -> BOOLEAN]
    BY <1>5 DEF SavePayload
  <2> QED BY <1>0, <1>5, <2>1 DEF SavePayload
<1>6. CASE SaveMeta(w)
  <2>1. gotMeta' \in [Puts -> BOOLEAN]
    BY <1>6 DEF SaveMeta
  <2> QED BY <1>6, <2>1 DEF SaveMeta
<1>7. CASE MovePayload(w)
  BY <1>0, <1>7 DEF MovePayload, PayloadMovable
<1>8. CASE MoveMeta(w)
  BY <1>8 DEF MoveMeta
<1>9. CASE DropPayload(w)
  BY <1>0, <1>9 DEF DropPayload
<1>10. CASE ClearMeta(w)
  BY <1>10 DEF ClearMeta
<1>11. CASE BackMeta(w)
  BY <1>11 DEF BackMeta
<1>12. CASE ClearPayload(w)
  BY <1>0, <1>12 DEF ClearPayload
<1>13. CASE BackPayload(w)
  BY <1>0, <1>13 DEF BackPayload
<1>14. CASE CleanPayload(w) \/ CleanMeta(w) \/ PutIndex(w)
  BY <1>14 DEF CleanPayload, CleanMeta, PutIndex
<1> QED
  BY <1>1, <1>2, <1>3, <1>4, <1>5, <1>6, <1>7, <1>8, <1>9, <1>10, <1>11,
     <1>12, <1>13, <1>14 DEF PutStep

LEMMA ReadDeleteType ==
  ASSUME TypeOK,
         \/ \E d \in Deletes : DeleteStart(d) \/ DeleteStep(d)
         \/ \E g \in Gets : GetMeta(g) \/ GetStep(g)
  PROVE  TypeOK'
<1> USE RequestAssumption DEF TypeOK, Slot, Label, Goto, putVars, getVars,
        sysVars, files, Format
<1>1. CASE \E d \in Deletes : DeleteStart(d) \/ DeleteStep(d)
  BY <1>1 DEF DeleteStart, DeleteStep, DeleteFlat, DeleteMeta, DeleteChunks
<1>2. ASSUME NEW g \in Gets, GetMeta(g) PROVE TypeOK'
  BY <1>2 DEF GetMeta
<1>3. ASSUME NEW g \in Gets, GetLayout(g) PROVE TypeOK'
  BY <1>3 DEF GetLayout, LayoutNow
<1>4. ASSUME NEW g \in Gets, GetOpen(g) PROVE TypeOK'
  BY <1>4 DEF GetOpen
<1> QED BY <1>1, <1>2, <1>3, <1>4 DEF GetStep

LEMMA EnvironmentType ==
  ASSUME TypeOK,
         \/ \E r \in Request : Cancel(r)
         \/ Crash
         \/ Restart
         \/ \E w \in Puts : Sweep(w)
  PROVE  TypeOK'
<1> USE RequestAssumption, ModeAssumption DEF TypeOK, Slot, Label, Goto,
        putVars, getVars, sysVars, files, DropGuards
<1>1. CASE \E r \in Request : Cancel(r)
  BY <1>1 DEF Cancel
<1>2. CASE Crash
  <2>1. pc' \in [Request -> Label]
    BY <1>2 DEF Crash
  <2>2. crashes' \in 0 .. MaxCrashes
    BY <1>2 DEF Crash
  <2> QED BY <1>2, <2>1, <2>2 DEF Crash
<1>3. CASE Restart
  BY <1>3 DEF Restart
<1>4. CASE \E w \in Puts : Sweep(w)
  BY <1>4 DEF Sweep
<1> QED BY <1>1, <1>2, <1>3, <1>4

LEMMA NextType == TypeOK /\ [Next]_vars => TypeOK'
<1> SUFFICES ASSUME TypeOK, [Next]_vars PROVE TypeOK'
  OBVIOUS
<1>1. CASE UNCHANGED vars
  BY <1>1 DEF vars, files, putVars, getVars, sysVars, TypeOK
<1> QED
  BY <1>1, PutType, ReadDeleteType, EnvironmentType DEF Next

\* Every file of the key holds a whole body or nothing, and the temporary files
\* of a PUT hold no other request's body, in every reachable state.
THEOREM TypeCorrect == Spec => []TypeOK
BY InitType, NextType, PTL DEF Spec

-----------------------------------------------------------------------------
(* The sidecar and the payload.                                             *)
(*                                                                          *)
(* SidecarMatchesPayload is not inductive: whether a restored pair agrees   *)
(* depends on what was moved aside, and by which step.                      *)

Writers == Puts \union Deletes

\* The client's discipline, kept by MayIssue.
OneWriter == \A r, s \in Writers : InFlight(r) /\ InFlight(s) => r = s

\* No file holds the body of a PUT that has not started.
Unstarted ==
  \A w \in Puts : pc[w] = "idle" =>
    /\ \A f \in Format : payload[f] # w
    /\ meta # w
    /\ \A x \in Puts : bakPayload[x] # w /\ bakMeta[x] # w

\* Payloads are found under the path of their own format, backups included.
StoredFormat ==
  /\ \A f \in Format : payload[f] # None => FormatAt(payload[f]) = f
  /\ \A w \in Puts :
       bakPayload[w] # None => FormatAt(bakPayload[w]) = FormatAt(w)

PayloadAway == {"probeMeta", "saveMeta", "movePayload", "clearMeta",
                "backMeta", "clearPayload", "backPayload"}
MetaAway == {"movePayload", "moveMeta", "dropPayload", "clearMeta", "backMeta"}
MetaThere == {"probeMeta", "saveMeta", "clearPayload", "backPayload"}

\* What is where while PUT w runs.  The last two conjuncts say that the payload
\* and the sidecar moved aside, or about to be joined again, were a pair.
Where(w) ==
  /\ pc[w] \in {"idle", "body", "sidecar", "probePayload", "savePayload"}
       => bakPayload[w] = None
  /\ pc[w] \in {"idle", "body", "sidecar", "probePayload", "savePayload",
                "probeMeta", "saveMeta"} => bakMeta[w] = None
  /\ pc[w] \in PayloadAway => payload[FormatAt(w)] = None
  /\ pc[w] \in {"moveMeta", "dropPayload"} => payload[FormatAt(w)] = w
  /\ pc[w] \in MetaAway => meta = None
  /\ pc[w] \in MetaAway /\ bakMeta[w] # None =>
       IF FormatAt(bakMeta[w]) = FormatAt(w)
       THEN bakPayload[w] \in {None, bakMeta[w]}
       ELSE payload[FormatAt(bakMeta[w])] \in {None, bakMeta[w]}
  /\ pc[w] \in MetaThere /\ meta # None /\ FormatAt(meta) = FormatAt(w) =>
       bakPayload[w] \in {None, meta}

\* At the path of the sidecar's own format lies its body or nothing.
OwnFormatMatches ==
  meta # None => payload[FormatAt(meta)] \in {None, meta}

PairInv ==
  /\ TypeOK
  /\ OneWriter
  /\ Unstarted
  /\ StoredFormat
  /\ \A w \in Puts : Where(w)
  /\ OwnFormatMatches

LEMMA PairInit == Init => PairInv
<1> SUFFICES ASSUME Init PROVE PairInv
  OBVIOUS
<1>1. TypeOK
  BY InitType
<1>2. OneWriter /\ Unstarted /\ StoredFormat /\ OwnFormatMatches
  BY RequestAssumption DEF Init, OneWriter, InFlight, Ended, Unstarted,
     StoredFormat, OwnFormatMatches, FormatAt, Format, FormatOf, Writers
<1>3. \A w \in Puts : Where(w)
  BY RequestAssumption DEF Init, Where, PayloadAway, MetaAway, MetaThere
<1> QED BY <1>1, <1>2, <1>3 DEF PairInv

\* While PUT w runs no other PUT does, and a step of w starts none.
LEMMA Alone ==
  ASSUME PairInv, NEW w \in Puts, InFlight(w), NEW l \in Label, l # "idle",
         pc' = [pc EXCEPT ![w] = l]
  PROVE  /\ OneWriter'
         /\ \A x \in Puts : x # w => pc'[x] = pc[x] /\ pc[x] \in Ended
BY RequestAssumption
   DEF PairInv, TypeOK, OneWriter, InFlight, Ended, Writers

\* One step per action; the actions that move a payload are split by conjunct.
LEMMA PairPut ==
  ASSUME PairInv, NEW w \in Puts, PutStep(w)
  PROVE  PairInv'
<1> USE RequestAssumption DEF Goto, Fail, DropGuards, files, putVars, getVars,
        sysVars
<1>1. TypeOK /\ TypeOK'
  BY PutType DEF PairInv
<1>2. /\ InFlight(w)
      /\ \E l \in Label \ {"idle"} : pc' = [pc EXCEPT ![w] = l]
  BY <1>1 DEF InFlight, Ended, Label, PutStep, PutBody, PutSidecar,
     ProbePayload, SavePayload, ProbeMeta, SaveMeta, MovePayload, MoveMeta,
     DropPayload, ClearMeta, BackMeta, ClearPayload, BackPayload,
     CleanPayload, CleanMeta, PutIndex
<1>3. /\ OneWriter'
      /\ \A x \in Puts : x # w => pc'[x] = pc[x] /\ pc[x] \in Ended
      /\ pc'[w] # "idle" /\ pc[w] # "idle"
  BY <1>1, <1>2, Alone DEF TypeOK, InFlight, Ended
<1>4. (\A b \in Body : FormatAt(b) \in Format) /\ route' = route
  BY <1>1 DEF TypeOK, FormatAt, FormatOf, Format, PutStep, PutBody, PutSidecar,
     ProbePayload, SavePayload, ProbeMeta, SaveMeta, MovePayload, MoveMeta,
     DropPayload, ClearMeta, BackMeta, ClearPayload, BackPayload,
     CleanPayload, CleanMeta, PutIndex
<1>10. CASE SavePayload(w)
  <2> USE <1>1, <1>3, <1>4, <1>10 DEF SavePayload, PairInv, TypeOK
  <2>1. Unstarted'
    BY DEF Unstarted
  <2>2. StoredFormat'
    BY DEF StoredFormat, Where, FormatAt, Slot, PayloadAway
  <2>3. Where(w)'
    BY DEF Where, StoredFormat, OwnFormatMatches, FormatAt, PayloadAway,
           MetaAway, MetaThere, Slot
  <2>4. \A x \in Puts : x # w => Where(x)'
    BY DEF Where, Ended, PayloadAway, MetaAway, MetaThere
  <2>5. OwnFormatMatches'
    BY DEF OwnFormatMatches, Where, FormatAt, PayloadAway, MetaAway,
           MetaThere, Slot
  <2> QED BY <2>1, <2>2, <2>3, <2>4, <2>5
<1>11. CASE MovePayload(w)
  <2> USE <1>1, <1>3, <1>4, <1>11 DEF MovePayload, PairInv, TypeOK,
          PayloadMovable
  <2>1. Unstarted'
    BY DEF Unstarted
  <2>2. StoredFormat'
    BY DEF StoredFormat, Where, FormatAt, Slot, PayloadAway
  <2>3. Where(w)'
    BY DEF Where, StoredFormat, OwnFormatMatches, FormatAt, PayloadAway,
           MetaAway, MetaThere, Slot
  <2>4. \A x \in Puts : x # w => Where(x)'
    BY DEF Where, Ended, PayloadAway, MetaAway, MetaThere
  <2>5. OwnFormatMatches'
    BY DEF OwnFormatMatches, Where, FormatAt, PayloadAway, MetaAway,
           MetaThere, Slot
  <2> QED BY <2>1, <2>2, <2>3, <2>4, <2>5
<1>12. CASE BackPayload(w)
  <2> USE <1>1, <1>3, <1>4, <1>12 DEF BackPayload, PairInv, TypeOK
  <2>1. Unstarted'
    BY DEF Unstarted
  <2>2. StoredFormat'
    BY DEF StoredFormat, Where, FormatAt, Slot, PayloadAway
  <2>3. Where(w)'
    BY DEF Where, StoredFormat, OwnFormatMatches, FormatAt, PayloadAway,
           MetaAway, MetaThere, Slot
  <2>4. \A x \in Puts : x # w => Where(x)'
    BY DEF Where, Ended, PayloadAway, MetaAway, MetaThere
  <2>5. OwnFormatMatches'
    BY DEF OwnFormatMatches, Where, FormatAt, PayloadAway, MetaAway,
           MetaThere, Slot
  <2> QED BY <2>1, <2>2, <2>3, <2>4, <2>5
<1> USE <1>1, <1>3, <1>4 DEF PairInv, TypeOK, Unstarted, StoredFormat, Where,
        OwnFormatMatches, FormatAt, PayloadAway, MetaAway, MetaThere,
        Ended, Slot
<1>13. CASE PutBody(w)
  BY <1>13 DEF PutBody
<1>14. CASE PutSidecar(w)
  BY <1>14 DEF PutSidecar, TempSlot
<1>15. CASE ProbePayload(w)
  BY <1>15 DEF ProbePayload
<1>16. CASE ProbeMeta(w)
  BY <1>16 DEF ProbeMeta
<1>17. CASE SaveMeta(w)
  BY <1>17 DEF SaveMeta
<1>18. CASE MoveMeta(w)
  BY <1>18 DEF MoveMeta
<1>19. CASE DropPayload(w)
  BY <1>19 DEF DropPayload
<1>20. CASE ClearMeta(w)
  BY <1>20 DEF ClearMeta
<1>21. CASE BackMeta(w)
  BY <1>21 DEF BackMeta
<1>22. CASE ClearPayload(w)
  BY <1>22 DEF ClearPayload
<1>23. CASE CleanPayload(w)
  BY <1>23 DEF CleanPayload
<1>24. CASE CleanMeta(w)
  BY <1>24 DEF CleanMeta
<1>25. CASE PutIndex(w)
  BY <1>25 DEF PutIndex
<1> QED
  BY <1>10, <1>11, <1>12, <1>13, <1>14, <1>15, <1>16, <1>17, <1>18, <1>19,
     <1>20, <1>21, <1>22, <1>23, <1>24, <1>25 DEF PutStep

\* A PUT starts only when no writer runs, and nothing on disk changes format with
\* its choice of a write path because nothing on disk is its body yet.
LEMMA PairStart ==
  ASSUME PairInv, Serial, NEW w \in Puts, PutStart(w)
  PROVE  PairInv'
<1> USE RequestAssumption DEF PairInv, Goto, PutStart, getVars, sysVars
<1>1. TypeOK /\ TypeOK'
  BY PutType
<1>2. \A r \in Writers : pc[r] \in Ended
  BY DEF MayIssue, InFlight, Writers
<1>3. /\ \A r \in Request : pc'[r] = IF r = w THEN "body" ELSE pc[r]
      /\ pc[w] = "idle"
  BY <1>1 DEF TypeOK
<1>4. \A b \in Body : b # w => FormatAt(b)' = FormatAt(b)
  BY <1>1 DEF FormatAt, TypeOK
<1>5. OneWriter'
  BY <1>2, <1>3 DEF OneWriter, InFlight, Ended, Writers
<1>6. Unstarted'
  BY <1>3 DEF Unstarted
<1>7. StoredFormat'
  BY <1>1, <1>3, <1>4 DEF StoredFormat, Unstarted, TypeOK, Slot, Where
<1>8. \A x \in Puts : Where(x)'
  BY <1>2, <1>3 DEF Where, Ended, Writers, PayloadAway, MetaAway, MetaThere
<1>9. OwnFormatMatches'
  BY <1>1, <1>3, <1>4 DEF OwnFormatMatches, Unstarted, TypeOK, Slot
<1> QED BY <1>1, <1>5, <1>6, <1>7, <1>8, <1>9

\* A DELETE runs alone and only removes.
LEMMA PairDelete ==
  ASSUME PairInv, Serial, NEW d \in Deletes, DeleteStart(d) \/ DeleteStep(d)
  PROVE  PairInv'
<1> USE RequestAssumption DEF PairInv, Goto, files, putVars, getVars, sysVars,
        DeleteStart, DeleteStep, DeleteFlat, DeleteMeta, DeleteChunks
<1>1. TypeOK /\ TypeOK'
  BY ReadDeleteType
<1>2. /\ \A r \in Writers : r # d => pc[r] \in Ended /\ pc'[r] = pc[r]
      /\ route' = route
  BY <1>1 DEF MayIssue, OneWriter, InFlight, Ended, Writers, TypeOK
<1>3. \A f \in Format : payload'[f] \in {payload[f], None}
  BY <1>1 DEF TypeOK, Format
<1>4. /\ meta' \in {meta, None}
      /\ bakPayload' = bakPayload /\ bakMeta' = bakMeta
  OBVIOUS
<1>5. OneWriter'
  BY <1>2 DEF OneWriter, InFlight
<1>6. Unstarted' /\ StoredFormat'
  BY <1>1, <1>2, <1>3, <1>4
     DEF Unstarted, StoredFormat, FormatAt, TypeOK, Writers, Slot
<1>7. \A x \in Puts : Where(x)'
  BY <1>2, <1>4
     DEF Where, Ended, Writers, PayloadAway, MetaAway, MetaThere
<1>8. OwnFormatMatches'
  BY <1>1, <1>2, <1>3, <1>4 DEF OwnFormatMatches, FormatAt, FormatOf,
     Format, TypeOK, Slot
<1> QED BY <1>1, <1>5, <1>6, <1>7, <1>8

\* What the environment and the readers do leaves the final paths alone, drops
\* backups at most, and starts no writer.
LEMMA PairOther ==
  ASSUME PairInv,
         \/ \E g \in Gets : GetMeta(g) \/ GetStep(g)
         \/ \E r \in Request : Cancel(r)
         \/ Crash
         \/ Restart
         \/ \E w \in Puts : Sweep(w)
         \/ UNCHANGED vars
  PROVE  PairInv'
<1> USE RequestAssumption DEF PairInv
<1>1. TypeOK /\ TypeOK'
  BY ReadDeleteType, EnvironmentType
     DEF vars, files, putVars, getVars, sysVars, TypeOK
<1>2. /\ payload' = payload /\ meta' = meta /\ route' = route
      /\ \A w \in Puts : /\ bakPayload'[w] \in {bakPayload[w], None}
                          /\ bakMeta'[w] \in {bakMeta[w], None}
  BY <1>1 DEF vars, files, putVars, getVars, sysVars, Goto, TypeOK, GetMeta,
     GetStep, GetLayout, GetOpen, Cancel, Crash, Restart, Sweep
<1>3. \A r \in Writers : pc'[r] \in {pc[r], "gone"}
  BY <1>1 DEF vars, files, putVars, getVars, sysVars, Goto, TypeOK, GetMeta,
     GetStep, GetLayout, GetOpen, Cancel, Crash, Restart, Sweep, Writers
<1>4. OneWriter'
  BY <1>3 DEF OneWriter, InFlight, Ended
<1>5. Unstarted'
  <2>1. \A w \in Puts : w # None /\ (pc'[w] = "idle" => pc[w] = "idle")
    BY <1>3 DEF Writers
  <2> QED BY <1>2, <2>1 DEF Unstarted
<1>6. StoredFormat'
  BY <1>2 DEF StoredFormat, FormatAt
<1>7. \A x \in Puts : Where(x)'
  BY <1>1, <1>2, <1>3 DEF Where, FormatAt, Writers, PayloadAway, MetaAway,
     MetaThere
<1>8. OwnFormatMatches'
  BY <1>2 DEF OwnFormatMatches, FormatAt
<1> QED BY <1>1, <1>4, <1>5, <1>6, <1>7, <1>8

LEMMA PairAlways == Serial => (Spec => []PairInv)
<1> SUFFICES ASSUME Serial PROVE Spec => []PairInv
  OBVIOUS
<1>1. PairInv /\ [Next]_vars => PairInv'
  BY PairPut, PairStart, PairDelete, PairOther DEF Next
<1> QED BY PairInit, <1>1, PTL DEF Spec

\* While a key has one writer at a time, the payload a GET opens is the one its
\* sidecar describes or a leftover in the other format, whatever fails, is
\* dropped, crashes or is swept between the renames of
\* publish_temp_payload_and_meta.
THEOREM SidecarIntegrity == Serial => (Spec => []SidecarMatchesPayload)
<1> SUFFICES ASSUME Serial PROVE Spec => []SidecarMatchesPayload
  OBVIOUS
<1>1. PairInv => SidecarMatchesPayload
  BY DEF PairInv, OwnFormatMatches, StoredFormat, SidecarMatchesPayload,
     LayoutNow, Format
<1> QED BY PairAlways, <1>1, PTL

\* The write paths a bucket's policy may select all store in one format.
SingleFormat == \A p, q \in Paths : FormatOf(p) = FormatOf(q)

\* As long as the erasure-coding policy keeps to one format there is no leftover
\* to open: what a GET opens is the body its sidecar describes, or nothing.
THEOREM OneFormatServed ==
  Serial /\ SingleFormat =>
    (Spec => [](meta # None => payload[LayoutNow] \in {None, meta}))
<1> SUFFICES ASSUME Serial, SingleFormat
             PROVE Spec => [](meta # None => payload[LayoutNow] \in {None, meta})
  OBVIOUS
<1> DEFINE Routed == route \in [Body -> Paths]
<1>1. Init => Routed
  BY DEF Init
<1>2. Routed /\ [Next]_vars => Routed'
  <2> SUFFICES ASSUME Routed, [Next]_vars PROVE Routed'
    OBVIOUS
  <2>1. CASE route' = route
    BY <2>1
  <2>2. ASSUME NEW w \in Puts, PutStart(w) PROVE Routed'
    BY <2>2 DEF PutStart, Body
  <2> QED BY <2>1, <2>2
    DEF Next, PutStep, DeleteStep, GetStep, PutBody, PutSidecar, ProbePayload,
        SavePayload, ProbeMeta, SaveMeta, MovePayload, MoveMeta, DropPayload,
        ClearMeta, BackMeta, ClearPayload, BackPayload, CleanPayload, CleanMeta,
        PutIndex, Sweep, DeleteStart, DeleteFlat, DeleteMeta, DeleteChunks,
        GetMeta, GetLayout, GetOpen, Cancel, Crash, Restart, vars, putVars
<1>3. PairInv /\ Routed => (meta # None => payload[LayoutNow] \in {None, meta})
  <2> SUFFICES ASSUME PairInv, Routed, meta # None, payload[LayoutNow] # None
               PROVE payload[LayoutNow] = meta
    OBVIOUS
  <2>1. meta \in Body /\ payload[LayoutNow] \in Body
    BY DEF PairInv, TypeOK, Slot, LayoutNow, Format
  <2>2. FormatAt(meta) = FormatAt(payload[LayoutNow])
    BY <2>1 DEF SingleFormat, FormatAt
  <2> QED BY <2>2 DEF PairInv, OwnFormatMatches, StoredFormat, LayoutNow, Format
<1> QED BY PairAlways, <1>1, <1>2, <1>3, PTL DEF Spec
-----------------------------------------------------------------------------
(* Bodies that failed their checksum.                                       *)
(*                                                                          *)
(* NoRejectedBytes is not inductive: a payload comes from a temporary file  *)
(* or a backup, so neither may hold rejected bytes past the check.          *)

\* The body of w is in no file but its own temporary one and in no answer.
Nowhere(w) ==
  /\ \A f \in Format : payload[f] # w
  /\ \A x \in Puts : bakPayload[x] # w
  /\ \A g \in Gets : got[g] # w

Unchecked == {"idle", "body"}

CheckInv ==
  /\ TypeOK
  /\ \A w \in Puts : pc[w] \in Unchecked \/ Rejected(w) => Nowhere(w)
  /\ \A w \in Puts : Rejected(w) => pc[w] \in Unchecked \union {"err", "gone"}

\* A step after the check keeps rejected bytes where they are: out of every file.
LEMMA CheckPut ==
  ASSUME CheckInv, NEW w \in Puts, PutStart(w) \/ PutStep(w)
  PROVE  CheckInv'
<1> USE RequestAssumption DEF CheckInv, Unchecked
<1>1. TypeOK /\ TypeOK'
  BY PutType
<1>2. FormatAt(w) \in Format
  BY <1>1 DEF TypeOK, FormatAt, FormatOf, Format
<1>3. CASE PutStart(w)
  BY <1>1, <1>3 DEF PutStart, Goto, getVars, sysVars, Nowhere, Rejected, TypeOK
<1>4. CASE PutBody(w)
  BY <1>1, <1>4 DEF PutBody, BodyAccepted, FlatAccepts, EncryptedAccepts, Fail,
     DropGuards, Goto, files, putVars, getVars, sysVars, Nowhere, Rejected,
     TypeOK, WritePaths
<1>5. CASE /\ PutStep(w)
           /\ ~PutBody(w)
  <2>1. /\ route' = route /\ good' = good /\ got' = got
        /\ pc[w] \notin Unchecked \union {"err", "gone"}
        /\ pc'[w] \notin Unchecked
        /\ \A x \in Puts : x # w => pc'[x] = pc[x]
    BY <1>1, <1>5 DEF TypeOK, Goto, Fail, DropGuards, files, putVars, getVars,
       sysVars, PutStep, PutSidecar, ProbePayload, SavePayload, ProbeMeta,
       SaveMeta, MovePayload, MoveMeta, DropPayload, ClearMeta, BackMeta,
       ClearPayload, BackPayload, CleanPayload, CleanMeta, PutIndex
  <2>2. ~Rejected(w)
    BY <2>1
  <2>3. ASSUME NEW x \in Puts, x # w, Nowhere(x) PROVE Nowhere(x)'
    <3>1. \A f \in Format : payload'[f] # x
      BY <1>1, <1>2, <1>5, <2>3 DEF Nowhere, TypeOK, Goto, Fail, DropGuards,
         files, putVars, getVars,
         sysVars, PutStep, PutSidecar, ProbePayload, SavePayload, ProbeMeta,
         SaveMeta, MovePayload, MoveMeta, DropPayload, ClearMeta, BackMeta,
         ClearPayload, BackPayload, CleanPayload, CleanMeta, PutIndex
    <3>2. \A y \in Puts : bakPayload'[y] # x
      BY <1>1, <1>2, <1>5, <2>3 DEF Nowhere, TypeOK, Goto, Fail, DropGuards,
         files, putVars, getVars,
         sysVars, PutStep, PutSidecar, ProbePayload, SavePayload, ProbeMeta,
         SaveMeta, MovePayload, MoveMeta, DropPayload, ClearMeta, BackMeta,
         ClearPayload, BackPayload, CleanPayload, CleanMeta, PutIndex
    <3> QED BY <2>1, <2>3, <3>1, <3>2 DEF Nowhere
  <2> QED BY <1>1, <2>1, <2>2, <2>3 DEF Rejected
<1> QED BY <1>3, <1>4, <1>5

\* Removals, reads and the environment bring no body to a new file.
LEMMA CheckOther ==
  ASSUME CheckInv,
         \/ \E d \in Deletes : DeleteStart(d) \/ DeleteStep(d)
         \/ \E g \in Gets : GetMeta(g) \/ GetStep(g)
         \/ \E r \in Request : Cancel(r)
         \/ Crash
         \/ Restart
         \/ \E w \in Puts : Sweep(w)
         \/ UNCHANGED vars
  PROVE  CheckInv'
<1> USE RequestAssumption DEF CheckInv, Unchecked
<1>1. TypeOK /\ TypeOK'
  BY ReadDeleteType, EnvironmentType
     DEF vars, files, putVars, getVars, sysVars, TypeOK
<1>2. /\ route' = route /\ good' = good
      /\ \A w \in Puts : pc'[w] \in {pc[w], "gone"}
  BY <1>1 DEF vars, files, putVars, getVars, sysVars, Goto, TypeOK, DeleteStart,
     DeleteStep, DeleteFlat, DeleteMeta, DeleteChunks, GetMeta, GetStep,
     GetLayout, GetOpen, Cancel, Crash, Restart, Sweep
<1>3. /\ \A f \in Format : payload'[f] \in {payload[f], None}
      /\ \A w \in Puts : bakPayload'[w] \in {bakPayload[w], None}
  BY <1>1 DEF vars, files, putVars, getVars, sysVars, Goto, TypeOK, DeleteStart,
     DeleteStep, DeleteFlat, DeleteMeta, DeleteChunks, GetMeta, GetStep,
     GetLayout, GetOpen, Cancel, Crash, Restart, Sweep, Format
<1>4. \A g \in Gets : \/ got'[g] = got[g]
                      \/ \E f \in Format : got'[g] = payload[f]
  BY <1>1 DEF vars, files, putVars, getVars, sysVars, Goto, TypeOK, DeleteStart,
     DeleteStep, DeleteFlat, DeleteMeta, DeleteChunks, GetMeta, GetStep,
     GetLayout, GetOpen, Cancel, Crash, Restart, Sweep
<1>5. \A w \in Puts : Nowhere(w) => Nowhere(w)'
  BY <1>3, <1>4 DEF Nowhere
<1> QED BY <1>1, <1>2, <1>5 DEF Rejected

\* No file at a final path and no answer of a GET ever holds bytes whose declared
\* checksum put_object or put_object_chunked_encrypted found wrong, however many
\* requests overlap and whatever fails or is swept.
THEOREM ChecksumsGuard == Spec => []NoRejectedBytes
<1>1. Init => CheckInv
  <2> SUFFICES ASSUME Init PROVE CheckInv
    OBVIOUS
  <2>1. TypeOK
    BY InitType
  <2>2. \A w \in Puts : ~Rejected(w) /\ Nowhere(w)
    BY RequestAssumption DEF Init, Rejected, Nowhere
  <2> QED BY <2>1, <2>2 DEF CheckInv
<1>2. CheckInv /\ [Next]_vars => CheckInv'
  BY CheckPut, CheckOther DEF Next
<1>3. CheckInv => NoRejectedBytes
  BY DEF CheckInv, NoRejectedBytes, Rejected, Nowhere
<1> QED BY <1>1, <1>2, <1>3, PTL DEF Spec

-----------------------------------------------------------------------------
(* What was published stays on disk.                                        *)
(*                                                                          *)
(* Recoverable needs to know which PUT was published last at the steps that *)
(* remove a file: the undo of a publish and the clean-up after one.         *)

Publishing == {"cleanPayload", "cleanMeta", "index"}

LastInv ==
  /\ PairInv
  /\ \A w \in Puts : last = w => pc[w] \in Publishing \union {"ok", "gone"}
  /\ \A w \in Puts : pc[w] \in Publishing =>
       last = w /\ meta = w /\ payload[FormatAt(w)] = w
  /\ \A d \in Deletes : pc[d] \in {"removeMeta", "removeChunks"} => last = None
  /\ Recoverable

\* A PUT's steps: a file that holds the last body is only ever renamed.
LEMMA LastPut ==
  ASSUME LastInv, Serial, NEW w \in Puts, PutStep(w)
  PROVE  LastInv'
<1> USE RequestAssumption DEF LastInv
<1>1. TypeOK /\ PairInv'
  BY PairPut DEF PairInv
<1>2. /\ InFlight(w)
      /\ \E l \in Label \ {"idle"} : pc' = [pc EXCEPT ![w] = l]
      /\ route' = route /\ nested' = nested
  BY <1>1 DEF InFlight, Ended, Label, PutStep, PutBody, PutSidecar,
     ProbePayload, SavePayload, ProbeMeta, SaveMeta, MovePayload, MoveMeta,
     DropPayload, ClearMeta, BackMeta, ClearPayload, BackPayload,
     CleanPayload, CleanMeta, PutIndex, Goto, Fail, DropGuards, files, putVars,
     getVars, sysVars
<1>3. /\ \A x \in Puts : x # w => pc'[x] = pc[x] /\ pc[x] \in Ended
      /\ \A d \in Deletes : pc'[d] = pc[d] /\ pc[d] \in Ended
  BY <1>1, <1>2 DEF PairInv, OneWriter, InFlight, Ended, Writers, TypeOK
<1>4. \A b \in Body : FormatAt(b) \in Format /\ FormatAt(b)' = FormatAt(b)
  BY <1>1, <1>2 DEF TypeOK, FormatAt, FormatOf, Format
<1>5. Where(w) /\ StoredFormat
  BY DEF PairInv
<1>6. /\ last \in Slot /\ last' \in Slot
      /\ meta \in Slot /\ payload \in [Format -> Slot]
      /\ bakPayload \in [Puts -> Slot] /\ bakMeta \in [Puts -> Slot]
      /\ pc \in [Request -> Label]
  BY <1>1 DEF PairInv, TypeOK
<1> DEFINE Kept ==
      /\ \A x \in Puts : last' = x => pc'[x] \in Publishing \union {"ok", "gone"}
      /\ \A x \in Puts : pc'[x] \in Publishing =>
           last' = x /\ meta' = x /\ payload'[FormatAt(x)] = x
      /\ nested /\ last' # None =>
           /\ last' = meta' \/ \E x \in Puts : last' = bakMeta'[x]
           /\ \/ last' = payload'[FormatAt(last')]
              \/ \E x \in Puts : last' = bakPayload'[x]
<1>7. SUFFICES Kept
  <2>1. FormatAt(last)' = FormatAt(last')
    BY <1>2 DEF FormatAt
  <2>2. \A x \in Puts : FormatAt(x)' = FormatAt(x)
    BY <1>4
  <2> QED BY <1>1, <1>2, <1>3, <2>1, <2>2 DEF Recoverable, Publishing, Ended
<1>8. nested /\ last # None =>
        /\ last = meta \/ \E x \in Puts : last = bakMeta[x]
        /\ \/ last = payload[FormatAt(last)]
           \/ \E x \in Puts : last = bakPayload[x]
  BY DEF Recoverable
<1> USE <1>3, <1>4, <1>5, <1>6, <1>8 DEF Publishing, Slot, Goto, Fail,
        DropGuards, files, putVars, getVars, sysVars, Where, StoredFormat,
        PayloadAway, MetaAway, MetaThere, Ended, Format
<1>13. CASE PutBody(w)
  BY <1>13 DEF PutBody
<1>14. CASE PutSidecar(w)
  BY <1>14 DEF PutSidecar, TempSlot
<1>15. CASE ProbePayload(w)
  BY <1>15 DEF ProbePayload
<1>16. CASE ProbeMeta(w)
  BY <1>16 DEF ProbeMeta
<1>10. CASE SavePayload(w)
  BY <1>10 DEF SavePayload
<1>17. CASE SaveMeta(w)
  BY <1>17 DEF SaveMeta
<1>11. CASE MovePayload(w)
  BY <1>11 DEF MovePayload
<1>18. CASE MoveMeta(w)
  BY <1>18, <1>1 DEF MoveMeta, TypeOK
<1>19. CASE DropPayload(w)
  BY <1>19 DEF DropPayload
<1>20. CASE ClearMeta(w)
  BY <1>20 DEF ClearMeta
<1>21. CASE BackMeta(w)
  BY <1>21 DEF BackMeta
<1>22. CASE ClearPayload(w)
  BY <1>22 DEF ClearPayload
<1>12. CASE BackPayload(w)
  BY <1>12 DEF BackPayload
<1>23. CASE CleanPayload(w)
  BY <1>23 DEF CleanPayload
<1>24. CASE CleanMeta(w)
  BY <1>24 DEF CleanMeta
<1>25. CASE PutIndex(w)
  BY <1>25 DEF PutIndex
<1> QED
  BY <1>10, <1>11, <1>12, <1>13, <1>14, <1>15, <1>16, <1>17, <1>18, <1>19,
     <1>20, <1>21, <1>22, <1>23, <1>24, <1>25 DEF PutStep

\* A request that starts finds the last body published by another one, a DELETE
\* forgets it with its first removal, and the sweep does not reach a nested key.
LEMMA LastOther ==
  ASSUME LastInv, Serial,
         \/ \E w \in Puts : PutStart(w) \/ Sweep(w)
         \/ \E d \in Deletes : DeleteStart(d) \/ DeleteStep(d)
         \/ \E g \in Gets : GetMeta(g) \/ GetStep(g)
         \/ \E r \in Request : Cancel(r)
         \/ Crash
         \/ Restart
         \/ UNCHANGED vars
  PROVE  LastInv'
<1> USE RequestAssumption DEF LastInv
<1>1. TypeOK /\ PairInv'
  BY PairStart, PairDelete, PairOther DEF PairInv
<1>2. ASSUME NEW w \in Puts, PutStart(w) PROVE LastInv'
  <2>1. /\ \A r \in Writers : r # w => pc[r] \in Ended /\ pc'[r] = pc[r]
        /\ pc[w] = "idle" /\ pc'[w] = "body"
    BY <1>1, <1>2 DEF PutStart, MayIssue, InFlight, Writers, TypeOK, Goto
  <2>2. last # w /\ last' = last
    BY <2>1, <1>2 DEF PutStart, Publishing
  <2>3. last # None => FormatAt(last)' = FormatAt(last)
    BY <1>1, <1>2, <2>2 DEF PutStart, FormatAt, TypeOK, Slot
  <2>4. Recoverable'
    BY <1>2, <2>2, <2>3 DEF Recoverable, PutStart, sysVars
  <2> QED BY <1>1, <2>1, <2>2, <2>4 DEF Publishing, Ended, Writers
<1>3. ASSUME NEW w \in Puts, Sweep(w) PROVE LastInv'
  BY <1>1, <1>3 DEF Sweep, Recoverable, FormatAt, putVars, sysVars
<1>4. ASSUME NEW d \in Deletes, DeleteStart(d) PROVE LastInv'
  BY <1>1, <1>4 DEF DeleteStart, Goto, Recoverable, FormatAt, files, putVars,
     sysVars, Publishing, TypeOK
<1>5. ASSUME NEW d \in Deletes, DeleteStep(d) PROVE LastInv'
  <2>1. last' = None
    BY <1>5 DEF DeleteStep, DeleteFlat, DeleteMeta, DeleteChunks
  <2>2. \A w \in Puts : pc'[w] = pc[w] /\ pc[w] \in Ended
    <3>1. pc[d] \notin Ended /\ \A w \in Puts : pc'[w] = pc[w]
      BY <1>1, <1>5 DEF DeleteStep, DeleteFlat, DeleteMeta, DeleteChunks, Goto,
         TypeOK, Ended
    <3> QED BY <3>1 DEF PairInv, OneWriter, InFlight, Writers
  <2> QED BY <1>1, <2>1, <2>2 DEF Recoverable, Publishing, Ended
<1>6. CASE \/ \E g \in Gets : GetMeta(g) \/ GetStep(g)
           \/ \E r \in Request : Cancel(r)
           \/ Crash
           \/ Restart
           \/ UNCHANGED vars
  <2>1. /\ payload' = payload /\ meta' = meta /\ route' = route
        /\ bakPayload' = bakPayload /\ bakMeta' = bakMeta
        /\ last' = last /\ nested' = nested
    BY <1>6 DEF vars, files, putVars, getVars, sysVars, GetMeta, GetStep,
       GetLayout, GetOpen, Cancel, Crash, Restart
  <2>2. \A r \in Writers : pc'[r] \in {pc[r], "gone"}
    BY <1>1, <1>6 DEF vars, files, putVars, getVars, sysVars, Goto, TypeOK,
       GetMeta, GetStep, GetLayout, GetOpen, Cancel, Crash, Restart, Writers
  <2> QED BY <1>1, <2>1, <2>2 DEF Recoverable, FormatAt, Publishing, Writers
<1> QED BY <1>2, <1>3, <1>4, <1>5, <1>6

\* On a nested key with one writer at a time, the body published last is on disk
\* with its sidecar, in place or in a backup, until a DELETE removes it: no
\* failed or interrupted overwrite loses acknowledged data.
THEOREM NothingLost == Serial => (Spec => []Recoverable)
<1> SUFFICES ASSUME Serial PROVE Spec => []Recoverable
  OBVIOUS
<1>1. Init => LastInv
  <2> SUFFICES ASSUME Init PROVE LastInv
    OBVIOUS
  <2>1. PairInv
    BY PairInit
  <2>2. Recoverable
    BY RequestAssumption DEF Init, Recoverable, FormatAt, FormatOf, Format
  <2> QED BY <2>1, <2>2, RequestAssumption DEF LastInv, Init, Publishing
<1>2. LastInv /\ [Next]_vars => LastInv'
  BY LastPut, LastOther DEF Next
<1>3. LastInv => Recoverable
  BY DEF LastInv
<1> QED BY <1>1, <1>2, <1>3, PTL DEF Spec

-----------------------------------------------------------------------------
(* All or nothing.                                                          *)
(*                                                                          *)
(* RestIntact and the refinement of AtomicObject hold where the sweep, the  *)
(* crash, the dropped future and the failing backup or restore are kept out *)
(* and the bucket keeps one payload format; then every step of a PUT knows  *)
(* exactly which body is in which of its files.                             *)

Calm ==
  /\ Serial
  /\ Depths = {TRUE}
  /\ Faults \subseteq {"stream", "rename"}
  /\ MaxCrashes = 0
  /\ \A p, q \in Paths : FormatOf(p) = FormatOf(q)

Staging == {"body", "sidecar", "probePayload", "savePayload"}

\* The payload, the sidecar and the index row are those of one body.
Agree == payload[OnlyFormat] = meta /\ index = meta

\* Which temporary files and backups PUT w has.
OwnFiles(w) ==
  /\ pc[w] \in {"idle", "ok", "err"} =>
       {tmpPayload[w], tmpMeta[w], bakPayload[w], bakMeta[w]} = {None}
  /\ pc[w] \in Staging \union {"probeMeta", "saveMeta", "movePayload"} =>
       tmpPayload[w] = w
  /\ pc[w] \in {"probePayload", "savePayload", "probeMeta", "saveMeta",
                "movePayload", "moveMeta"} => tmpMeta[w] = w
  /\ pc[w] \in Publishing \union {"moveMeta"} => tmpPayload[w] = None
  /\ pc[w] \in Publishing => tmpMeta[w] = None
  /\ pc[w] \in Staging \union {"idle"} => bakPayload[w] = None /\ ~gotPayload[w]
  /\ pc[w] \in Staging \union {"idle", "probeMeta", "saveMeta"} =>
       bakMeta[w] = None /\ ~gotMeta[w]
  /\ pc[w] \in Swapping => (gotPayload[w] <=> bakPayload[w] # None)
  /\ pc[w] \in MetaAway => (gotMeta[w] <=> bakMeta[w] # None)
  /\ pc[w] \in {"clearPayload", "backPayload", "index"} => bakMeta[w] = None
  /\ pc[w] \in {"cleanMeta", "index"} => bakPayload[w] = None
  /\ pc[w] = "backMeta" => gotMeta[w]
  /\ pc[w] = "backPayload" => gotPayload[w]

\* Which body is at the final paths, in the index and aside while PUT w runs.
FinalFiles(w) ==
  /\ pc[w] \in Staging => Agree
  /\ pc[w] \in {"savePayload", "saveMeta"} => meta # None
  /\ pc[w] \in PayloadAway => payload[OnlyFormat] = None
  /\ pc[w] \in MetaThere => bakPayload[w] = meta /\ index = meta
  /\ pc[w] \in MetaAway =>
       meta = None /\ bakPayload[w] = index /\ bakMeta[w] = index
  /\ pc[w] \in Publishing \union {"moveMeta", "dropPayload"} =>
       payload[OnlyFormat] = w
  /\ pc[w] \in Publishing => meta = w

\* What DELETE d has removed.
Removed(d) ==
  /\ pc[d] = "removeObject" => Agree
  /\ pc[d] \in {"removeMeta", "removeChunks"} => payload["flat"] = None
  /\ pc[d] = "removeChunks" => meta = None

CalmInv ==
  /\ TypeOK
  /\ nested /\ up
  /\ OneWriter
  /\ \A r \in Writers : pc[r] # "gone"
  /\ \A b \in Body : FormatAt(b) = OnlyFormat
  /\ \A f \in Format : f # OnlyFormat => payload[f] = None
  /\ (\A r \in Writers : ~InFlight(r)) => Agree
  /\ \A w \in Puts : OwnFiles(w) /\ FinalFiles(w)
  /\ \A d \in Deletes : Removed(d)

LEMMA OneFormat ==
  ASSUME Calm
  PROVE  /\ OnlyFormat \in Format
         /\ \A p \in Paths : FormatOf(p) = OnlyFormat
<1>1. (CHOOSE p \in Paths : TRUE) \in Paths
  BY ModeAssumption
<1> QED BY <1>1 DEF Calm, OnlyFormat, Format, FormatOf

LEMMA CalmInit == Calm /\ Init => CalmInv
<1> SUFFICES ASSUME Calm, Init PROVE CalmInv
  OBVIOUS
<1>1. TypeOK
  BY InitType
<1>2. PICK p \in Paths, b \in {Old, None} :
        /\ route = [x \in Body |-> p]
        /\ payload = [f \in Format |-> IF f = FormatOf(p) THEN b ELSE None]
        /\ meta = b
        /\ index = b
  BY DEF Init
<1>3. FormatOf(p) = OnlyFormat /\ OnlyFormat \in Format
  BY OneFormat
<1>4. \A r \in Request : pc[r] = "idle"
  BY DEF Init
<1>5. OneWriter /\ \A r \in Writers : pc[r] # "gone"
  BY <1>4 DEF OneWriter, InFlight, Ended, Writers
<1>6. Agree /\ \A f \in Format : f # OnlyFormat => payload[f] = None
  BY <1>2, <1>3 DEF Agree
<1>7. \A x \in Body : FormatAt(x) = OnlyFormat
  BY <1>2, <1>3 DEF FormatAt
<1>8. \A w \in Puts : OwnFiles(w) /\ FinalFiles(w)
  BY <1>4 DEF Init, OwnFiles, FinalFiles, Staging, Publishing, Swapping,
     PayloadAway, MetaAway, MetaThere
<1>9. \A d \in Deletes : Removed(d)
  BY <1>4 DEF Removed
<1>10. nested /\ up
  BY DEF Init, Calm
<1> QED BY <1>1, <1>5, <1>6, <1>7, <1>8, <1>9, <1>10 DEF CalmInv

\* One step per action; each moves one file of w's.
LEMMA CalmPut ==
  ASSUME CalmInv, Calm, NEW w \in Puts, PutStep(w)
  PROVE  CalmInv'
<1> USE RequestAssumption
<1>1. TypeOK /\ TypeOK'
  BY PutType DEF CalmInv
<1>2. /\ pc[w] \notin Ended
      /\ \E l \in Label \ {"idle", "gone"} : pc' = [pc EXCEPT ![w] = l]
      /\ UNCHANGED <<route, nested, up>>
  BY <1>1 DEF Ended, Label, PutStep, PutBody, PutSidecar,
     ProbePayload, SavePayload, ProbeMeta, SaveMeta, MovePayload, MoveMeta,
     DropPayload, ClearMeta, BackMeta, ClearPayload, BackPayload,
     CleanPayload, CleanMeta, PutIndex, Goto, Fail, DropGuards, files, putVars,
     getVars, sysVars
<1>3. \A r \in Writers : r # w => pc'[r] = pc[r] /\ pc[r] \in Ended \ {"gone"}
  BY <1>1, <1>2 DEF CalmInv, OneWriter, InFlight, Writers, TypeOK
<1>4. OneWriter' /\ \A r \in Writers : pc'[r] # "gone"
  BY <1>1, <1>2, <1>3 DEF OneWriter, InFlight, Writers, TypeOK
<1>5. \A b \in Body : FormatAt(b) = OnlyFormat /\ FormatAt(b)' = OnlyFormat
  BY <1>2 DEF CalmInv, FormatAt
<1>6. OnlyFormat \in Format
  BY OneFormat
<1>7. \A d \in Deletes : Removed(d)'
  BY <1>3 DEF Removed, Ended, Writers
<1>8. \A x \in Puts : x # w => FinalFiles(x)'
  BY <1>3 DEF FinalFiles, Ended, Writers, Staging, Publishing, PayloadAway,
     MetaAway, MetaThere
<1> DEFINE Rest(x) ==
      /\ pc'[x] \in {"idle", "ok", "err"}
      /\ OwnFiles(x)
      /\ tmpPayload'[x] = tmpPayload[x] /\ tmpMeta'[x] = tmpMeta[x]
      /\ bakPayload'[x] = bakPayload[x] /\ bakMeta'[x] = bakMeta[x]
      /\ gotPayload'[x] = gotPayload[x] /\ gotMeta'[x] = gotMeta[x]
<1>9. \A x \in Puts : x # w => OwnFiles(x)'
  <2>1. ASSUME NEW x \in Puts, x # w PROVE Rest(x)
    <3>1. pc'[x] \in {"idle", "ok", "err"} /\ OwnFiles(x)
      BY <1>3, <2>1 DEF Ended, Writers, CalmInv
    <3>2. /\ tmpPayload'[x] = tmpPayload[x] /\ tmpMeta'[x] = tmpMeta[x]
          /\ bakPayload'[x] = bakPayload[x] /\ bakMeta'[x] = bakMeta[x]
          /\ gotPayload'[x] = gotPayload[x] /\ gotMeta'[x] = gotMeta[x]
      BY <1>1, <2>1 DEF PutStep, PutBody, PutSidecar,
         ProbePayload, SavePayload, ProbeMeta, SaveMeta, MovePayload, MoveMeta,
         DropPayload, ClearMeta, BackMeta, ClearPayload, BackPayload,
         CleanPayload, CleanMeta, PutIndex, Goto, Fail, DropGuards, files,
         putVars, getVars, sysVars, TypeOK, TempSlot
    <3> QED BY <3>1, <3>2
  <2>2. ASSUME NEW x \in Puts, Rest(x), pc[x] = pc'[x] PROVE OwnFiles(x)'
    BY <2>2 DEF OwnFiles, Staging, Publishing, Swapping, MetaAway
  <2> QED BY <1>3, <2>1, <2>2 DEF Writers
<1> DEFINE Mine ==
      /\ OwnFiles(w)' /\ FinalFiles(w)'
      /\ \A f \in Format : f # OnlyFormat => payload'[f] = None
      /\ pc'[w] \in Ended => Agree'
<1>10. SUFFICES Mine
  <2>1. (\A r \in Writers : ~InFlight(r))' => Agree'
    BY <1>10 DEF InFlight, Writers
  <2>2. \A x \in Puts : OwnFiles(x)' /\ FinalFiles(x)'
    BY <1>8, <1>9, <1>10
  <2>3. nested' /\ up'
    BY <1>2 DEF CalmInv
  <2> QED BY <1>1, <1>4, <1>5, <1>7, <1>10, <2>1, <2>2, <2>3 DEF CalmInv
<1>11. /\ OwnFiles(w) /\ FinalFiles(w) /\ FormatAt(w) = OnlyFormat
       /\ \A f \in Format : f # OnlyFormat => payload[f] = None
       /\ Faults \subseteq {"stream", "rename"}
  BY <1>5 DEF CalmInv, Calm
<1> HIDE DEF Mine
<1> USE <1>1, <1>6, <1>11 DEF TypeOK, Mine, Goto, Fail, DropGuards, files, putVars,
        getVars, sysVars, OwnFiles, FinalFiles, Agree, Staging, Publishing,
        Swapping, PayloadAway, MetaAway, MetaThere, Ended
<1>21. CASE PutBody(w)
  BY <1>21 DEF PutBody
<1>22. CASE PutSidecar(w)
  BY <1>22 DEF PutSidecar, TempSlot
<1>23. CASE ProbePayload(w)
  BY <1>23 DEF ProbePayload
<1>24. CASE SavePayload(w)
  BY <1>24 DEF SavePayload
<1>25. CASE ProbeMeta(w)
  BY <1>25 DEF ProbeMeta
<1>26. CASE SaveMeta(w)
  BY <1>26 DEF SaveMeta
<1>27. CASE MovePayload(w)
  BY <1>27 DEF MovePayload, PayloadMovable
<1>28. CASE MoveMeta(w)
  BY <1>28 DEF MoveMeta
<1>29. CASE DropPayload(w)
  BY <1>29 DEF DropPayload
<1>30. CASE ClearMeta(w)
  BY <1>30 DEF ClearMeta
<1>31. CASE BackMeta(w)
  BY <1>31 DEF BackMeta
<1>32. CASE ClearPayload(w)
  BY <1>32 DEF ClearPayload
<1>33. CASE BackPayload(w)
  BY <1>33 DEF BackPayload
<1>34. CASE CleanPayload(w)
  BY <1>34 DEF CleanPayload
<1>35. CASE CleanMeta(w)
  BY <1>35 DEF CleanMeta
<1>36. CASE PutIndex(w)
  BY <1>36 DEF PutIndex
<1> QED
  BY <1>21, <1>22, <1>23, <1>24, <1>25, <1>26, <1>27, <1>28, <1>29, <1>30,
     <1>31, <1>32, <1>33, <1>34, <1>35, <1>36 DEF PutStep

\* A PUT starts, or a DELETE runs, with nothing of another writer's aside.
LEMMA CalmStart ==
  ASSUME CalmInv, Calm, NEW w \in Puts, PutStart(w)
  PROVE  CalmInv'
<1> USE RequestAssumption
<1>1. TypeOK /\ TypeOK'
  BY PutType DEF CalmInv
<1>2. /\ pc[w] = "idle" /\ pc'[w] = "body"
      /\ \A r \in Writers : r # w => pc'[r] = pc[r]
      /\ \A r \in Writers : pc[r] \in Ended \ {"gone"}
  BY <1>1 DEF PutStart, MayIssue, InFlight, Calm, CalmInv, Goto, Writers, TypeOK
<1>3. OneWriter' /\ \A r \in Writers : pc'[r] # "gone"
  BY <1>2 DEF OneWriter, InFlight, Writers
<1>4. Agree /\ Agree'
  BY <1>2 DEF CalmInv, InFlight, Agree, PutStart
<1>5. \A b \in Body : FormatAt(b)' = OnlyFormat
  BY <1>1, OneFormat DEF PutStart, CalmInv, FormatAt, TypeOK
<1>6. \A d \in Deletes : Removed(d)'
  BY <1>2 DEF Removed, Ended, Writers
<1>7. \A x \in Puts : FinalFiles(x)'
  BY <1>2, <1>4 DEF FinalFiles, Ended, Writers, Staging, Publishing,
     PayloadAway, MetaAway, MetaThere
<1>8. \A x \in Puts : OwnFiles(x)'
  BY <1>1, <1>2 DEF CalmInv, PutStart, OwnFiles, TypeOK, TempSlot, Ended,
     Writers, Staging, Publishing, Swapping, MetaAway
<1>9. UNCHANGED <<payload, nested, up>>
  BY DEF PutStart, sysVars
<1> QED BY <1>1, <1>3, <1>4, <1>5, <1>6, <1>7, <1>8, <1>9 DEF CalmInv

LEMMA CalmDelete ==
  ASSUME CalmInv, Calm, NEW d \in Deletes, DeleteStart(d) \/ DeleteStep(d)
  PROVE  CalmInv'
<1> USE RequestAssumption DEF Goto, files, putVars, getVars, sysVars,
        DeleteStart, DeleteStep, DeleteFlat, DeleteMeta, DeleteChunks
<1>1. TypeOK /\ TypeOK'
  BY ReadDeleteType DEF CalmInv
<1>2. /\ \A r \in Writers : r # d => pc[r] \in Ended \ {"gone"} /\ pc'[r] = pc[r]
      /\ pc'[d] # "gone"
  BY <1>1 DEF CalmInv, Calm, MayIssue, OneWriter, InFlight, Ended, Writers,
     TypeOK
<1>3. OneWriter'
  BY <1>2 DEF OneWriter, InFlight, Writers
<1>4. UNCHANGED <<route, tmpPayload, tmpMeta, bakPayload, bakMeta, gotPayload,
                  gotMeta, nested, up>>
  OBVIOUS
<1>5. \A w \in Puts : pc'[w] = pc[w] /\ pc[w] \in Ended \ {"gone"}
  BY <1>2 DEF Writers
<1>6. \A w \in Puts : OwnFiles(w)'
  BY <1>4, <1>5 DEF CalmInv, OwnFiles
<1>7. \A w \in Puts : FinalFiles(w)'
  BY <1>5 DEF FinalFiles, Ended, Staging, Publishing, PayloadAway, MetaAway,
     MetaThere
<1>8. \A f \in Format : f # OnlyFormat => payload'[f] = None
  <2>1. \A f \in Format : payload'[f] \in {payload[f], None}
    BY <1>1 DEF TypeOK, Format
  <2> QED BY <2>1 DEF CalmInv
<1>9. /\ pc[d] = "idle" => Agree
      /\ pc[d] = "removeObject" => Agree
  BY <1>1, <1>5 DEF CalmInv, Removed, Calm, MayIssue, Writers
<1>10. Removed(d)' /\ (pc'[d] \in Ended => Agree')
  <2>1. OnlyFormat \in {"flat", "ec"} /\ pc \in [Request -> Label]
        /\ payload \in [{"flat", "ec"} -> Slot]
    BY <1>1, OneFormat DEF TypeOK, Format
  <2>2. Removed(d) /\ \A f \in {"flat", "ec"} : f # OnlyFormat => payload[f] = None
    BY DEF CalmInv, Format
  <2>3. CASE DeleteStart(d)
    BY <1>9, <2>1, <2>3 DEF Removed, Agree, Ended
  <2>4. CASE DeleteFlat(d)
    BY <1>9, <2>1, <2>4 DEF Removed, Agree, Ended
  <2>5. CASE DeleteMeta(d)
    BY <2>1, <2>2, <2>5 DEF Removed, Agree, Ended
  <2>6. CASE DeleteChunks(d)
    BY <2>1, <2>2, <2>6 DEF Removed, Agree, Ended
  <2> QED BY <2>3, <2>4, <2>5, <2>6
<1>11. \A x \in Deletes : Removed(x)'
  BY <1>2, <1>10 DEF Removed, Ended, Writers
<1>12. (\A r \in Writers : ~InFlight(r))' => Agree'
  BY <1>10 DEF InFlight, Writers
<1>13. \A b \in Body : FormatAt(b)' = OnlyFormat
  BY <1>4 DEF CalmInv, FormatAt
<1> QED
  BY <1>1, <1>2, <1>3, <1>4, <1>6, <1>7, <1>8, <1>11, <1>12, <1>13
     DEF CalmInv, Writers

\* Readers leave the writers alone; nothing else of the environment happens.
LEMMA CalmOther ==
  ASSUME CalmInv, Calm,
         \/ \E w \in Puts : Sweep(w)
         \/ \E g \in Gets : GetMeta(g) \/ GetStep(g)
         \/ \E r \in Request : Cancel(r)
         \/ Crash
         \/ Restart
         \/ UNCHANGED vars
  PROVE  /\ CalmInv'
         /\ \A r \in Writers : pc'[r] = pc[r]
         /\ UNCHANGED <<payload, bakPayload>>
<1> USE RequestAssumption
<1>1. TypeOK /\ TypeOK'
  BY ReadDeleteType, EnvironmentType
     DEF CalmInv, vars, files, putVars, getVars, sysVars, TypeOK
<1>2. /\ ~\E w \in Puts : Sweep(w)
      /\ ~\E r \in Request : Cancel(r)
      /\ ~Crash
      /\ ~Restart
  BY <1>1 DEF CalmInv, Calm, Sweep, Cancel, Crash, Restart, TypeOK
<1>3. /\ \A r \in Writers : pc'[r] = pc[r]
      /\ UNCHANGED <<files, putVars, sysVars, index>>
  BY <1>1, <1>2 DEF vars, GetMeta, GetStep, GetLayout, GetOpen, Goto, TypeOK,
     Writers, files, putVars, sysVars
<1>4. UNCHANGED <<payload, meta, tmpPayload, tmpMeta, bakPayload, bakMeta, index,
                  gotPayload, gotMeta, route, nested, up>>
  BY <1>3 DEF files, putVars, sysVars
<1>5. OneWriter' /\ ((\A r \in Writers : ~InFlight(r))' => Agree')
  BY <1>3, <1>4 DEF CalmInv, OneWriter, InFlight, Agree
<1>6. \A w \in Puts : OwnFiles(w)' /\ FinalFiles(w)'
  BY <1>3, <1>4 DEF CalmInv, OwnFiles, FinalFiles, Agree, Writers
<1>7. \A d \in Deletes : Removed(d)'
  BY <1>3, <1>4 DEF CalmInv, Removed, Agree, Writers
<1>8. \A b \in Body : FormatAt(b)' = OnlyFormat
  BY <1>4 DEF CalmInv, FormatAt
<1> QED BY <1>1, <1>3, <1>4, <1>5, <1>6, <1>7, <1>8 DEF CalmInv

LEMMA CalmNext == Calm /\ CalmInv /\ [Next]_vars => CalmInv'
BY CalmPut, CalmStart, CalmDelete, CalmOther DEF Next

\* A PUT or DELETE that ended, with success or with an error, leaves payload,
\* sidecar and index row of one body and no temporary file or backup, when only
\* the body and the two final renames of a publish may fail.
THEOREM PublishIsClean == Calm => (Spec => []RestIntact)
<1> SUFFICES ASSUME Calm PROVE Spec => []RestIntact
  OBVIOUS
<1>1. CalmInv => RestIntact
  <2> SUFFICES ASSUME CalmInv, Quiet PROVE
        /\ \A f \in Format : payload[f] # None => payload[f] = meta
        /\ meta # None => payload[FormatAt(meta)] = meta
        /\ index = meta
        /\ \A w \in Puts : ~Leftover(w)
    BY DEF RestIntact
  <2>1. Agree
    BY DEF CalmInv, Quiet, Writers
  <2>2. meta # None => FormatAt(meta) = OnlyFormat
    BY DEF CalmInv, TypeOK, Slot
  <2>3. \A w \in Puts : OwnFiles(w) /\ pc[w] \in {"idle", "ok", "err"}
    BY DEF CalmInv, Quiet, InFlight, Ended, Writers
  <2>4. \A w \in Puts : ~Leftover(w)
    BY <2>3 DEF Leftover, OwnFiles
  <2> QED BY <2>1, <2>2, <2>4 DEF CalmInv, Agree
<1> QED BY CalmInit, CalmNext, <1>1, PTL DEF Spec

-----------------------------------------------------------------------------
(* The refinement of AtomicObject.                                          *)

phase == [r \in Puts \union Deletes |-> RequestPhase(r)]

\* The three arms of StoredBody exclude one another.
LEMMA StoredIs ==
  ASSUME CalmInv
  PROVE  /\ \A d \in Deletes : pc[d] \in {"removeMeta", "removeChunks"} =>
              StoredBody = None
         /\ \A w \in Puts : pc[w] \in Swapping => StoredBody = bakPayload[w]
         /\ ~Deleting /\ InSwap = {} => StoredBody = payload[OnlyFormat]
<1>1. \A w \in Puts : pc[w] \in Swapping => ~Deleting /\ InSwap = {w}
  BY RequestAssumption DEF CalmInv, OneWriter, InFlight, Ended, Writers, Deleting,
     InSwap, Swapping
<1>2. Deleting => InSwap = {}
  BY <1>1 DEF InSwap
<1>3. ASSUME NEW w \in Puts, pc[w] \in Swapping PROVE StoredBody = bakPayload[w]
  <2>1. (CHOOSE x \in InSwap : TRUE) = w
    BY <1>1, <1>3
  <2> QED BY <1>1, <1>3, <2>1 DEF StoredBody
<1>4. ~Deleting /\ InSwap = {} => StoredBody = payload[OnlyFormat]
  BY DEF StoredBody
<1>5. Deleting => StoredBody = None
  BY <1>2 DEF StoredBody
<1> QED BY <1>3, <1>4, <1>5 DEF Deleting

LEMMA StoredWillBe ==
  ASSUME CalmInv'
  PROVE  /\ \A d \in Deletes : pc'[d] \in {"removeMeta", "removeChunks"} =>
              StoredBody' = None
         /\ \A w \in Puts : pc'[w] \in Swapping => StoredBody' = bakPayload'[w]
         /\ ~Deleting' /\ InSwap' = {} => StoredBody' = payload'[OnlyFormat]
<1>1. \A w \in Puts : pc'[w] \in Swapping => ~Deleting' /\ InSwap' = {w}
  BY RequestAssumption DEF CalmInv, OneWriter, InFlight, Ended, Writers, Deleting,
     InSwap, Swapping
<1>2. Deleting' => InSwap' = {}
  BY <1>1 DEF InSwap
<1>3. ASSUME NEW w \in Puts, pc'[w] \in Swapping
      PROVE  StoredBody' = bakPayload'[w]
  <2>1. (CHOOSE x \in InSwap' : TRUE) = w
    BY <1>1, <1>3
  <2> QED BY <1>1, <1>3, <2>1 DEF StoredBody
<1>4. ~Deleting' /\ InSwap' = {} => StoredBody' = payload'[OnlyFormat]
  BY DEF StoredBody
<1>5. Deleting' => StoredBody' = None
  BY <1>2 DEF StoredBody
<1> QED BY <1>3, <1>4, <1>5 DEF Deleting

\* How a step of writer r shows in the phases.
LEMMA PhaseStep ==
  ASSUME TypeOK, NEW r \in Writers, NEW l \in Label, pc' = [pc EXCEPT ![r] = l]
  PROVE  /\ RequestPhase(r)' = RequestPhase(r) => phase' = phase
         /\ phase' = [phase EXCEPT ![r] = RequestPhase(r)']
         /\ phase[r] = RequestPhase(r)
<1>1. \A s \in Writers : s # r => RequestPhase(s)' = RequestPhase(s)
  BY DEF RequestPhase, TypeOK, Writers
<1> QED BY <1>1 DEF phase, Writers

\* The body before the sidecar's rename, and w after it.
LEMMA PutImplements ==
  ASSUME CalmInv, CalmInv', Calm, NEW w \in Puts, PutStart(w) \/ PutStep(w)
  PROVE  [Atomic!Next]_(Atomic!vars)
<1> USE RequestAssumption
<1>1. TypeOK
  BY DEF CalmInv
<1>2. PICK l \in Label : pc' = [pc EXCEPT ![w] = l]
  BY <1>1 DEF Label, PutStart, PutStep, PutBody, PutSidecar,
     ProbePayload, SavePayload, ProbeMeta, SaveMeta, MovePayload, MoveMeta,
     DropPayload, ClearMeta, BackMeta, ClearPayload, BackPayload,
     CleanPayload, CleanMeta, PutIndex, Goto, Fail, DropGuards
<1>3. /\ RequestPhase(w)' = RequestPhase(w) => phase' = phase
      /\ phase' = [phase EXCEPT ![w] = RequestPhase(w)']
      /\ phase[w] = RequestPhase(w)
  BY <1>1, <1>2, PhaseStep DEF Writers
<1>4. \A r \in Writers : r # w => pc'[r] = pc[r] /\ pc[r] \in Ended
  <2>1. CASE PutStart(w)
    BY <1>1, <1>2, <2>1 DEF PutStart, MayIssue, Calm, InFlight, Writers, TypeOK
  <2>2. CASE PutStep(w)
    <3>1. pc[w] \notin Ended
      BY <2>2 DEF Ended, PutStep, PutBody, PutSidecar,
         ProbePayload, SavePayload, ProbeMeta, SaveMeta, MovePayload, MoveMeta,
         DropPayload, ClearMeta, BackMeta, ClearPayload, BackPayload,
         CleanPayload, CleanMeta, PutIndex
    <3> QED BY <1>1, <1>2, <3>1 DEF CalmInv, OneWriter, InFlight, Writers, TypeOK
  <2> QED BY <2>1, <2>2
<1>5. StoredBody = IF pc[w] \in Swapping THEN bakPayload[w] ELSE payload[OnlyFormat]
  BY <1>4, StoredIs DEF Deleting, InSwap, Ended, Writers, Swapping
<1>6. StoredBody' = IF pc'[w] \in Swapping THEN bakPayload'[w]
                    ELSE payload'[OnlyFormat]
  BY <1>4, StoredWillBe DEF Deleting, InSwap, Ended, Writers, Swapping
<1> DEFINE Moved(from, to) ==
      RequestPhase(w) = from /\ RequestPhase(w)' = to
<1>7. SUFFICES \/ StoredBody' = StoredBody /\ RequestPhase(w)' = RequestPhase(w)
               \/ StoredBody' = StoredBody /\ Moved("idle", "pending")
               \/ StoredBody' = StoredBody /\ Moved("pending", "err")
               \/ StoredBody' = w /\ Moved("pending", "applied")
               \/ StoredBody' = StoredBody /\ Moved("applied", "ok")
  BY <1>3, <1>7 DEF phase, Atomic!vars, Atomic!Next, Atomic!Issue, Atomic!Put,
     Atomic!Reject, Atomic!Answer, Atomic!Become
<1>8. /\ OnlyFormat \in Format
      /\ FormatAt(w) = OnlyFormat
      /\ OwnFiles(w) /\ FinalFiles(w) /\ OwnFiles(w)' /\ FinalFiles(w)'
      /\ Faults \subseteq {"stream", "rename"}
  BY OneFormat DEF CalmInv, Calm
<1>9. /\ payload \in [Format -> Slot]
      /\ bakPayload \in [Puts -> Slot]
      /\ pc \in [Request -> Label]
  BY <1>1 DEF TypeOK
<1> HIDE <1>1
<1> USE <1>5, <1>6, <1>8, <1>9 DEF RequestPhase, Goto, Fail, DropGuards, files,
        putVars, getVars, sysVars, OwnFiles, FinalFiles, Agree, Staging,
        Publishing, Swapping, PayloadAway, MetaAway, MetaThere
<1>20. CASE PutStart(w)
  BY <1>20 DEF PutStart
<1>21. CASE PutBody(w)
  BY <1>21 DEF PutBody
<1>22. CASE PutSidecar(w)
  BY <1>22 DEF PutSidecar
<1>23. CASE ProbePayload(w)
  BY <1>23 DEF ProbePayload
<1>24. CASE SavePayload(w)
  BY <1>24 DEF SavePayload
<1>25. CASE ProbeMeta(w)
  BY <1>25 DEF ProbeMeta
<1>26. CASE SaveMeta(w)
  BY <1>26 DEF SaveMeta
<1>27. CASE MovePayload(w)
  BY <1>27 DEF MovePayload
<1>28. CASE MoveMeta(w)
  BY <1>28 DEF MoveMeta
<1>29. CASE DropPayload(w)
  BY <1>29 DEF DropPayload
<1>30. CASE ClearMeta(w)
  BY <1>30 DEF ClearMeta
<1>31. CASE BackMeta(w)
  BY <1>31 DEF BackMeta
<1>32. CASE ClearPayload(w)
  BY <1>32 DEF ClearPayload
<1>33. CASE BackPayload(w)
  BY <1>33 DEF BackPayload
<1>34. CASE CleanPayload(w)
  BY <1>34 DEF CleanPayload
<1>35. CASE CleanMeta(w)
  BY <1>35 DEF CleanMeta
<1>36. CASE PutIndex(w)
  BY <1>36 DEF PutIndex
<1> QED
  BY <1>20, <1>21, <1>22, <1>23, <1>24, <1>25, <1>26, <1>27, <1>28, <1>29, <1>30,
     <1>31, <1>32, <1>33, <1>34, <1>35, <1>36 DEF PutStep

\* A DELETE takes effect with its first removal.
LEMMA DeleteImplements ==
  ASSUME CalmInv, CalmInv', Calm, NEW d \in Deletes,
         DeleteStart(d) \/ DeleteStep(d)
  PROVE  [Atomic!Next]_(Atomic!vars)
<1> USE RequestAssumption DEF Goto, files, putVars, getVars, sysVars,
        DeleteStart, DeleteStep, DeleteFlat, DeleteMeta, DeleteChunks
<1>1. TypeOK
  BY DEF CalmInv
<1>2. PICK l \in Label : pc' = [pc EXCEPT ![d] = l]
  BY <1>1 DEF Label
<1>3. /\ RequestPhase(d)' = RequestPhase(d) => phase' = phase
      /\ phase' = [phase EXCEPT ![d] = RequestPhase(d)']
      /\ phase[d] = RequestPhase(d)
  BY <1>1, <1>2, PhaseStep DEF Writers
<1>4. \A r \in Writers : r # d => pc'[r] = pc[r] /\ pc[r] \in Ended
  BY <1>1 DEF CalmInv, Calm, MayIssue, OneWriter, InFlight, Ended, Writers,
     TypeOK
<1>5. StoredBody = IF pc[d] \in {"removeMeta", "removeChunks"} THEN None
                   ELSE payload[OnlyFormat]
  BY <1>4, StoredIs DEF Deleting, InSwap, Ended, Writers, Swapping
<1>6. StoredBody' = IF pc'[d] \in {"removeMeta", "removeChunks"} THEN None
                    ELSE payload'[OnlyFormat]
  BY <1>4, StoredWillBe DEF Deleting, InSwap, Ended, Writers, Swapping
<1> DEFINE Moved(from, to) ==
      RequestPhase(d) = from /\ RequestPhase(d)' = to
<1>7. SUFFICES \/ StoredBody' = StoredBody /\ RequestPhase(d)' = RequestPhase(d)
               \/ StoredBody' = StoredBody /\ Moved("idle", "pending")
               \/ StoredBody' = None /\ Moved("pending", "applied")
               \/ /\ StoredBody' = StoredBody /\ StoredBody = None
                  /\ Moved("idle", "ok")
               \/ StoredBody' = StoredBody /\ Moved("applied", "ok")
  BY <1>3, <1>7 DEF phase, Atomic!vars, Atomic!Next, Atomic!Issue,
     Atomic!Delete, Atomic!DeleteAbsent, Atomic!Answer, Atomic!Become
<1>8. /\ OnlyFormat \in {"flat", "ec"}
      /\ Removed(d)
      /\ \A f \in {"flat", "ec"} : f # OnlyFormat => payload[f] = None
      /\ payload \in [{"flat", "ec"} -> Slot]
      /\ pc \in [Request -> Label]
  BY <1>1, OneFormat DEF CalmInv, Format, TypeOK
<1> USE <1>5, <1>6, <1>8 DEF RequestPhase, Removed
<1>9. CASE DeleteStart(d)
  BY <1>9 DEF Absent, Format
<1>10. CASE DeleteFlat(d)
  BY <1>10
<1>11. CASE DeleteMeta(d)
  BY <1>11
<1>12. CASE DeleteChunks(d)
  BY <1>12
<1> QED BY <1>9, <1>10, <1>11, <1>12

LEMMA OtherImplements ==
  ASSUME CalmInv, CalmInv', Calm,
         \A r \in Writers : pc'[r] = pc[r], UNCHANGED <<payload, bakPayload>>
  PROVE  UNCHANGED Atomic!vars
<1>1. InSwap' = InSwap /\ Deleting' = Deleting
  BY DEF InSwap, Deleting, Writers
<1>2. StoredBody' = StoredBody
  <2>1. CASE Deleting
    BY <1>1, <2>1, StoredIs, StoredWillBe DEF Deleting
  <2>2. CASE InSwap # {}
    BY <1>1, <2>2, StoredIs, StoredWillBe DEF InSwap
  <2>3. CASE ~Deleting /\ InSwap = {}
    BY <1>1, <2>3, StoredIs, StoredWillBe
  <2> QED BY <2>1, <2>2, <2>3
<1>3. phase' = phase
  BY DEF phase, RequestPhase, Writers
<1> QED BY <1>2, <1>3 DEF phase, Atomic!vars

\* Where one writer is in flight at a time, the bucket keeps one payload format
\* and only the body and the two final renames may fail, the staged, undoable
\* four-rename publish and the three-removal DELETE are atomic: every request
\* takes effect at one instant or, answered with an error, not at all.
THEOREM PublishIsAtomic == Calm => (Spec => ImplementsAtomicObject)
<1> SUFFICES ASSUME Calm PROVE Spec => ImplementsAtomicObject
  OBVIOUS
<1>1. Init => Atomic!Init
  <2> SUFFICES ASSUME Init PROVE Atomic!Init
    OBVIOUS
  <2>1. CalmInv
    BY CalmInit
  <2>2. \A r \in Request : pc[r] = "idle"
    BY DEF Init
  <2>3. StoredBody = payload[OnlyFormat]
    BY <2>1, <2>2, StoredIs DEF Deleting, InSwap, Swapping
  <2>4. payload[OnlyFormat] \in {Old, None}
    BY OneFormat DEF Init
  <2>5. phase = [r \in Puts \union Deletes |-> "idle"]
    BY <2>2 DEF phase, RequestPhase
  <2> QED BY <2>3, <2>4, <2>5 DEF Atomic!Init, phase
<1>2. CalmInv /\ CalmInv' /\ [Next]_vars => [Atomic!Next]_(Atomic!vars)
  BY PutImplements, DeleteImplements, CalmOther, OtherImplements DEF Next
<1> QED
  BY <1>1, <1>2, CalmInit, CalmNext, PTL
     DEF Spec, ImplementsAtomicObject, Atomic!Spec

-----------------------------------------------------------------------------
(* Overlapping PUTs.                                                        *)

\* Any number of flat PUTs at once, beside GETs, on a key the sweep does not reach;
\* no call fails but those that find a file taken by another PUT.
Race ==
  /\ Paths = {"flat"} /\ Deletes = {} /\ Depths = {TRUE}
  /\ Faults = {} /\ MaxCrashes = 0

Early == {"idle", "body", "sidecar", "probePayload"}
Committed == {"moveMeta", "cleanPayload", "cleanMeta", "index", "ok"}
RaceLabels ==
  Early \union {"savePayload", "probeMeta", "saveMeta", "movePayload", "err"} \union Committed

\* A PUT that went on to the published files.
Came(w) == good[w] /\ pc[w] \notin Early

\* Bad bodies go no further, and what a PUT has staged stays until it moves it.
Staged(w) ==
  /\ pc[w] \in RaceLabels
  /\ pc[w] \notin {"idle", "body", "err"} => good[w]
  /\ pc[w] \in {"body", "sidecar", "probePayload", "savePayload", "probeMeta", "saveMeta",
                "movePayload"} => tmpPayload[w] = w
  /\ pc[w] \in {"probePayload", "savePayload", "probeMeta", "saveMeta", "movePayload",
                "moveMeta"} => tmpMeta[w] = w

Object == payload["flat"]

\* Whoever takes the payload away moves its own in, or finds the sidecar gone; but
\* whoever took that one moves both in.
SomeoneBrings ==
  (\E w \in Puts : Came(w)) =>
    /\ Object = None => \/ \E w \in Puts : pc[w] \in {"probeMeta", "movePayload"}
                        \/ \E w \in Puts : pc[w] = "saveMeta" /\ meta # None
    /\ meta = None => \E w \in Puts : pc[w] \in {"probeMeta", "movePayload", "moveMeta"}

\* Who is at the final paths will be answered with success.
OwnersSucceed ==
  /\ Object \in Puts => pc[Object] \in Committed
  /\ meta \in Puts => pc[meta] \in Committed \ {"moveMeta"}

\* The old object is there as long as no one has touched it, and only then.
OldUntouched ==
  /\ (\A w \in Puts : ~Came(w)) => Object = meta /\ meta \in {Old, None}
  /\ Object = Old => \A w \in Puts : Came(w) => pc[w] = "savePayload"
  /\ meta = Old => \A w \in Puts : pc[w] \notin Committed \union {"movePayload"}

RaceInv ==
  /\ TypeOK /\ nested /\ \A b \in Body : route[b] = "flat"
  /\ \A w \in Puts : Staged(w)
  /\ SomeoneBrings /\ OwnersSucceed /\ OldUntouched

LEMMA RaceInit == Race /\ Init => RaceInv
<1> SUFFICES ASSUME Race, Init PROVE RaceInv
  OBVIOUS
<1>1. TypeOK /\ nested /\ \A b \in Body : route[b] = "flat"
  BY InitType DEF Race, Init
<1>2. /\ Object = meta /\ meta \in {Old, None}
      /\ \A w \in Puts : pc[w] = "idle"
  BY DEF Race, Init, Object, Format, FormatOf
<1>3. \A w \in Puts : Staged(w) /\ ~Came(w)
  BY <1>2 DEF Staged, Came, Early, RaceLabels
<1>4. SomeoneBrings /\ OwnersSucceed /\ OldUntouched
  BY <1>2, <1>3, RequestAssumption
  DEF SomeoneBrings, OwnersSucceed, OldUntouched, Committed
<1> QED BY <1>1, <1>3, <1>4 DEF RaceInv

\* How a PUT goes on: what it finds at the final paths and what it leaves there.
Moved(w) ==
  \/ /\ UNCHANGED <<Object, meta>>
     /\ \/ pc[w] \in Early /\ pc'[w] \in Early \union {"err"} /\ ~Came(w)'
        \/ pc[w] = "probePayload" /\ pc'[w] = "savePayload" /\ Object # None
        \/ pc[w] = "probePayload" /\ pc'[w] = "probeMeta" /\ Object = None
        \/ pc[w] = "savePayload" /\ pc'[w] = "err" /\ Object = None
        \/ pc[w] = "probeMeta" /\ pc'[w] = "saveMeta" /\ meta # None
        \/ pc[w] = "probeMeta" /\ pc'[w] = "movePayload" /\ meta = None
        \/ pc[w] = "saveMeta" /\ pc'[w] = "err" /\ meta = None
        \/ pc[w] = "cleanPayload" /\ pc'[w] = "cleanMeta"
        \/ pc[w] = "cleanMeta" /\ pc'[w] = "index"
        \/ pc[w] = "index" /\ pc'[w] = "ok"
  \/ /\ UNCHANGED meta /\ pc[w] = "savePayload" /\ pc'[w] = "probeMeta"
     /\ Object # None /\ Object' = None
  \/ /\ UNCHANGED Object /\ pc[w] = "saveMeta" /\ pc'[w] = "movePayload"
     /\ meta # None /\ meta' = None
  \/ /\ UNCHANGED meta /\ pc[w] = "movePayload" /\ pc'[w] = "moveMeta"
     /\ Object' = w
  \/ /\ UNCHANGED Object /\ pc[w] = "moveMeta" /\ pc'[w] = "cleanPayload"
     /\ meta' = w

\* What a step of one PUT changes, as far as the race is concerned.
LEMMA RaceMoves ==
  ASSUME Race, RaceInv, NEW w \in Puts, PutStart(w) \/ PutStep(w)
  PROVE  /\ TypeOK' /\ nested' /\ \A b \in Body : route'[b] = "flat"
         /\ \A q \in Puts \ {w} : /\ pc'[q] = pc[q] /\ good'[q] = good[q]
                                  /\ tmpPayload'[q] = tmpPayload[q]
                                  /\ tmpMeta'[q] = tmpMeta[q]
         /\ Staged(w)'
         /\ Moved(w)
<1>1. TypeOK' /\ TypeOK /\ nested /\ Staged(w) /\ \A b \in Body : route[b] = "flat"
  BY PutType DEF RaceInv
<1>2. FormatAt(w) = "flat" /\ w # None /\ "flat" \in Format /\ pc[w] \in RaceLabels
  BY <1>1, RequestAssumption DEF FormatAt, FormatOf, Format, Staged
<1> USE <1>1, <1>2 DEF TypeOK, Goto, files, putVars, getVars, sysVars, Object, Early,
        Committed, RaceLabels, Came, Moved
<1>3. CASE PutStart(w)
  <2>1. \A b \in Body : route'[b] = "flat"
    BY <1>3 DEF PutStart, Race
  <2>2. tmpPayload'[w] = w /\ pc[w] = "idle" /\ pc'[w] = "body"
    BY <1>3 DEF PutStart, TempSlot
  <2>3. Staged(w)'
    BY <2>2 DEF Staged
  <2> QED BY <1>3, <2>1, <2>2, <2>3 DEF PutStart, TempSlot
<1>4. CASE PutBody(w)
  <2>1. /\ pc[w] = "body" /\ UNCHANGED <<payload, meta, route, good, nested>>
        /\ \/ pc'[w] = "sidecar" /\ good[w] /\ UNCHANGED <<tmpPayload, tmpMeta>>
           \/ pc'[w] = "err" /\ ~good[w]
    BY <1>4 DEF PutBody, BodyAccepted, FlatAccepts, Race, Fail
  <2>2. Staged(w)'
    BY <2>1 DEF Staged
  <2> QED BY <1>4, <2>1, <2>2 DEF PutBody, Fail, DropGuards
<1>5. CASE PutSidecar(w)
  <2>1. /\ pc[w] = "sidecar" /\ UNCHANGED <<payload, meta, route, good, nested, tmpPayload>>
        /\ pc' = [pc EXCEPT ![w] = "probePayload"] /\ tmpMeta' = [tmpMeta EXCEPT ![w] = w]
    BY <1>5 DEF PutSidecar, TempSlot, Race
  <2>2. Staged(w)'
    BY <2>1 DEF Staged
  <2> QED BY <2>1, <2>2
<1>6. CASE ProbePayload(w)
  <2>1. Staged(w)'
    BY <1>6 DEF ProbePayload, Staged
  <2> QED BY <1>6, <2>1 DEF ProbePayload
<1>7. CASE SavePayload(w)
  <2>1. /\ pc[w] = "savePayload" /\ UNCHANGED <<meta, route, good, nested>>
        /\ \/ /\ pc' = [pc EXCEPT ![w] = "probeMeta"] /\ Object # None /\ Object' = None
              /\ UNCHANGED <<tmpPayload, tmpMeta>>
           \/ /\ pc' = [pc EXCEPT ![w] = "err"] /\ Object = None /\ Object' = None
              /\ tmpPayload' = [tmpPayload EXCEPT ![w] = None]
              /\ tmpMeta' = [tmpMeta EXCEPT ![w] = None]
    BY <1>7 DEF SavePayload, Fail, DropGuards, Race
  <2>2. Staged(w)'
    BY <2>1 DEF Staged
  <2> QED BY <2>1, <2>2
<1>8. CASE ProbeMeta(w)
  <2>1. Staged(w)'
    BY <1>8 DEF ProbeMeta, Staged
  <2> QED BY <1>8, <2>1 DEF ProbeMeta
<1>9. CASE SaveMeta(w)
  <2>1. /\ pc[w] = "saveMeta" /\ UNCHANGED <<payload, route, good, nested>>
        /\ \/ /\ pc' = [pc EXCEPT ![w] = "movePayload"] /\ meta # None /\ meta' = None
              /\ UNCHANGED <<tmpPayload, tmpMeta>>
           \/ /\ pc' = [pc EXCEPT ![w] = "err"] /\ meta = None /\ meta' = None
              /\ tmpPayload' = [tmpPayload EXCEPT ![w] = None]
              /\ tmpMeta' = [tmpMeta EXCEPT ![w] = None]
    BY <1>9 DEF SaveMeta, Fail, DropGuards, Race
  <2>2. Staged(w)'
    BY <2>1 DEF Staged
  <2> QED BY <2>1, <2>2
<1>10. CASE MovePayload(w)
  <2>1. PayloadMovable(w) /\ tmpPayload[w] = w
    BY <1>10 DEF MovePayload, PayloadMovable, Staged
  <2>2. /\ pc[w] = "movePayload" /\ UNCHANGED <<meta, route, good, nested, tmpMeta>>
        /\ pc' = [pc EXCEPT ![w] = "moveMeta"] /\ Object' = w
        /\ tmpPayload' = [tmpPayload EXCEPT ![w] = None]
    BY <1>10, <2>1 DEF MovePayload, Race
  <2>3. Staged(w)'
    BY <2>2 DEF Staged
  <2> QED BY <2>2, <2>3
<1>11. CASE MoveMeta(w)
  <2>1. tmpMeta[w] = w
    BY <1>11 DEF MoveMeta, Staged
  <2>2. /\ pc[w] = "moveMeta" /\ UNCHANGED <<payload, route, good, nested, tmpPayload>>
        /\ pc' = [pc EXCEPT ![w] = "cleanPayload"] /\ meta' = w
        /\ tmpMeta' = [tmpMeta EXCEPT ![w] = None]
    BY <1>11, <2>1 DEF MoveMeta, Race
  <2>3. Staged(w)'
    BY <2>2 DEF Staged
  <2> QED BY <2>2, <2>3
<1>12. CASE CleanPayload(w) \/ CleanMeta(w) \/ PutIndex(w)
  <2>1. /\ UNCHANGED <<payload, meta, route, good, nested, tmpPayload, tmpMeta>>
        /\ \/ pc[w] = "cleanPayload" /\ pc' = [pc EXCEPT ![w] = "cleanMeta"]
           \/ pc[w] = "cleanMeta" /\ pc' = [pc EXCEPT ![w] = "index"]
           \/ pc[w] = "index" /\ pc' = [pc EXCEPT ![w] = "ok"]
    BY <1>12 DEF CleanPayload, CleanMeta, PutIndex
  <2>2. Staged(w)'
    BY <2>1 DEF Staged
  <2> QED BY <2>1, <2>2
<1>13. ~(DropPayload(w) \/ ClearMeta(w) \/ BackMeta(w) \/ ClearPayload(w) \/ BackPayload(w))
  BY DEF DropPayload, ClearMeta, BackMeta, ClearPayload, BackPayload
<1> QED
  BY <1>3, <1>4, <1>5, <1>6, <1>7, <1>8, <1>9, <1>10, <1>11, <1>12, <1>13 DEF PutStep

LEMMA RacePut ==
  ASSUME Race, RaceInv, NEW w \in Puts, PutStart(w) \/ PutStep(w)
  PROVE  RaceInv'
<1>1. /\ TypeOK' /\ nested' /\ \A b \in Body : route'[b] = "flat"
      /\ \A q \in Puts \ {w} : /\ pc'[q] = pc[q] /\ good'[q] = good[q]
                               /\ tmpPayload'[q] = tmpPayload[q] /\ tmpMeta'[q] = tmpMeta[q]
      /\ Staged(w)'
  BY RaceMoves
<1>2. \A q \in Puts : Staged(q)'
  BY <1>1 DEF RaceInv, Staged
<1>3. /\ Object \in Slot /\ meta \in Slot /\ w # None /\ w # Old /\ Old # None
      /\ Object' \in Slot /\ None \notin Puts /\ Old \notin Puts
  BY <1>1, RequestAssumption DEF RaceInv, TypeOK, Object, Format, Slot
<1>4. \A q \in Puts : pc[q] \notin {"idle", "body", "err"} => good[q]
  BY DEF RaceInv, Staged
<1>5. good'[w] = good[w] \/ (pc[w] = "idle" /\ pc'[w] = "body")
  BY DEF PutStart, PutStep, PutBody, PutSidecar, ProbePayload, SavePayload, ProbeMeta,
     SaveMeta, MovePayload, MoveMeta, DropPayload, ClearMeta, BackMeta, ClearPayload,
     BackPayload, CleanPayload, CleanMeta, PutIndex, putVars, Goto, RaceInv, TypeOK
<1>6. Moved(w)
  BY RaceMoves
<1>7. SomeoneBrings /\ OwnersSucceed /\ OldUntouched
  BY DEF RaceInv
<1>8. OwnersSucceed'
  BY <1>1, <1>3, <1>6, <1>7 DEF Moved, OwnersSucceed, Committed, Early
<1>9. \A q \in Puts : Came(q) /\ q # w => Came(q)'
  BY <1>1 DEF Came
<1>10. \A q \in Puts : Came(q)' /\ q # w => Came(q)
  BY <1>1 DEF Came
<1>11. /\ pc[w] \notin Early \union {"err"} => Came(w)
       /\ Came(w) => Came(w)'
       /\ pc'[w] = "savePayload" \/ pc'[w] = "probeMeta" => Came(w)'
       /\ Came(w)' => Came(w) \/ (pc[w] = "probePayload" /\ pc'[w] \in {"savePayload", "probeMeta"})
  BY <1>4, <1>5, <1>6, <1>1, <1>2 DEF Moved, Came, Early, Staged
<1>12. SomeoneBrings'
  BY <1>1, <1>3, <1>6, <1>7, <1>9, <1>10, <1>11
  DEF Moved, SomeoneBrings, OldUntouched, Early
<1>13. OldUntouched'
  BY <1>1, <1>3, <1>6, <1>7, <1>9, <1>10, <1>11
  DEF Moved, OldUntouched, OwnersSucceed, Early, Committed
<1> QED BY <1>1, <1>2, <1>8, <1>12, <1>13 DEF RaceInv

LEMMA RaceNext == Race /\ RaceInv /\ [Next]_vars => RaceInv'
<1> SUFFICES ASSUME Race, RaceInv, [Next]_vars PROVE RaceInv'
  OBVIOUS
<1>1. TypeOK'
  BY NextType DEF RaceInv
<1>2. ASSUME UNCHANGED <<payload, meta, tmpPayload, tmpMeta, route, good, nested>>,
             \A w \in Puts : pc'[w] = pc[w]
      PROVE  RaceInv'
  <2>1. \A w \in Puts : Staged(w)' /\ (Came(w)' <=> Came(w))
    BY <1>2 DEF RaceInv, Staged, Came
  <2>2. SomeoneBrings' /\ OldUntouched'
    BY <1>2, <2>1 DEF RaceInv, SomeoneBrings, OldUntouched, Object
  <2>3. OwnersSucceed'
    BY <1>2 DEF RaceInv, OwnersSucceed, Object
  <2> QED BY <1>1, <1>2, <2>1, <2>2, <2>3 DEF RaceInv
<1>3. ASSUME NEW g \in Gets, GetMeta(g) \/ GetStep(g) PROVE RaceInv'
  <2>1. /\ UNCHANGED <<payload, meta, tmpPayload, tmpMeta, route, good, nested>>
        /\ \A w \in Puts : pc'[w] = pc[w]
    BY <1>3, RequestAssumption
    DEF GetMeta, GetStep, GetLayout, GetOpen, Goto, files, putVars, sysVars, RaceInv, TypeOK
  <2> QED BY <1>2, <2>1
<1>4. ~(\E w \in Puts : Sweep(w)) /\ ~(\E r \in Request : Cancel(r)) /\ ~Crash
      /\ ~(\E d \in Deletes : DeleteStart(d) \/ DeleteStep(d))
  BY DEF Race, RaceInv, Sweep, Cancel, Crash, TypeOK
<1>5. CASE Restart \/ UNCHANGED vars
  <2>1. UNCHANGED <<payload, meta, tmpPayload, tmpMeta, route, good, nested, pc>>
    BY <1>5 DEF Restart, vars, files, putVars, sysVars
  <2> QED BY <1>2, <2>1
<1> QED BY <1>3, <1>4, <1>5, RacePut DEF Next

\* However many flat PUTs overlap, and whatever files they take from under one
\* another, once all have ended an object is there, its payload and its sidecar
\* each of a PUT that was answered with success (publish_temp_payload_and_meta).
THEOREM RaceDecided == Race => (Spec => []RaceHasWinner)
<1> SUFFICES ASSUME Race PROVE Spec => []RaceHasWinner
  OBVIOUS
<1>1. ASSUME RaceInv PROVE RaceHasWinner
  <2> SUFFICES ASSUME Quiet, NEW v \in Puts, good[v], pc[v] # "idle"
               PROVE  /\ Object \in Puts /\ pc[Object] = "ok"
                      /\ meta \in Puts /\ pc[meta] = "ok"
    BY DEF RaceHasWinner, Object
  <2>1. \A w \in Puts : pc[w] \in {"idle", "ok", "err"}
    BY <1>1 DEF Quiet, InFlight, Ended, RaceInv, Staged, RaceLabels, Early, Committed
  <2>2. Came(v) /\ Object # None /\ meta # None
    BY <1>1, <2>1 DEF Came, Early, RaceInv, SomeoneBrings
  <2>3. Object # Old
    BY <1>1, <2>1, <2>2 DEF RaceInv, OldUntouched
  <2>4. Object \in Puts /\ pc[Object] = "ok"
    BY <1>1, <2>1, <2>2, <2>3
    DEF RaceInv, TypeOK, Slot, Format, Object, OwnersSucceed, Committed
  <2>5. meta # Old
    BY <1>1, <2>4 DEF RaceInv, OldUntouched, Committed
  <2>6. meta \in Puts /\ pc[meta] = "ok"
    BY <1>1, <2>1, <2>2, <2>5 DEF RaceInv, TypeOK, Slot, OwnersSucceed, Committed
  <2> QED BY <2>4, <2>6
<1>2. Init => RaceInv
  BY RaceInit
<1>3. RaceInv /\ [Next]_vars => RaceInv'
  BY RaceNext
<1> QED BY <1>1, <1>2, <1>3, PTL DEF Spec
=============================================================================
