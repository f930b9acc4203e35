----------------------- MODULE VersionedObjectProofs -----------------------
(***************************************************************************)
(* Proofs about VersionedObject for any number of versions, any clock and  *)
(* any retention period.                                                   *)
(***************************************************************************)
EXTENDS VersionedObject, TLAPS

USE BoundsAssumption DEF Id, Date

-----------------------------------------------------------------------------
(* Type correctness.                                                        *)

LEMMA NoObjectMeta == NoObject \in Meta
BY DEF NoObject, Meta

LEMMA InitType == Init => TypeOK
BY NoObjectMeta DEF Init, TypeOK, NoPledge

\* update_current_version leaves a sidecar of the version store, none, or the
\* one that was there.
LEMMA RestoredMeta ==
  ASSUME NEW vs \in SUBSET Meta, NEW t \in Meta, NEW m \in Restored(vs, t)
  PROVE  m \in Meta
BY NoObjectMeta DEF Restored, Newest, Live

LEMMA NextType == TypeOK /\ [Next]_vars => TypeOK'
<1> SUFFICES ASSUME TypeOK, [Next]_vars PROVE TypeOK'
  OBVIOUS
<1> USE DEF TypeOK
<1>1. ASSUME NEW lock \in BOOLEAN, PutObject(lock) PROVE TypeOK'
  <2> DEFINE m == NewMeta(lock)
  <2>1. /\ m \in Meta /\ Lock(m) \in [until : Date, hold : BOOLEAN]
        /\ next \in Id /\ next' = next + 1
        /\ versioning => m.vid = next
    BY <1>1 DEF PutObject, NewMeta, Meta, Lock
  <2>2. /\ top' = m
        /\ versions' = IF versioning THEN versions \union {m} ELSE versions
        /\ pledge' = IF versioning THEN [pledge EXCEPT ![next] = Lock(m)]
                     ELSE pledge
        /\ UNCHANGED <<versioning, now, doomed>>
    BY <1>1 DEF PutObject, WriteVersion
  <2> HIDE DEF m
  <2>3. pledge' \in [Id -> [until : Date, hold : BOOLEAN]]
    BY <2>1, <2>2
  <2>4. \A x \in versions' : x.vid \in 1 .. next' - 1
    BY <2>1, <2>2
  <2>5. \A x, n \in versions' : x.vid = n.vid => x = n
    BY <2>1, <2>2
  <2> QED BY <2>1, <2>2, <2>3, <2>4, <2>5
<1>2. CASE DeleteWithMarker
  <2> DEFINE m == DeleteMarker(next)
  <2>0. next \in Id /\ next' = next + 1 /\ versions' = versions \union {m}
    BY <1>2 DEF DeleteWithMarker
  <2>1. m \in Meta /\ m.vid = next
    BY <2>0 DEF Meta, DeleteMarker
  <2> HIDE DEF m
  <2>2. \A x \in versions' : x.vid \in 1 .. next' - 1
    BY <2>0, <2>1
  <2>3. \A x, n \in versions' : x.vid = n.vid => x = n
    BY <2>0, <2>1
  <2> QED BY <1>2, <2>0, <2>1, <2>2, <2>3, NoObjectMeta DEF DeleteWithMarker
<1>3. CASE DeleteUnversioned
  BY <1>3, NoObjectMeta DEF DeleteUnversioned
<1>4. ASSUME NEW v \in Id, RemoveVersion(v)
      PROVE  /\ versions' \subseteq versions
             /\ top' \in Meta
  BY <1>4, RestoredMeta DEF RemoveVersion
<1>5. ASSUME NEW v \in Id, DeleteVersion(v) \/ ExpireVersion(v) PROVE TypeOK'
  BY <1>4, <1>5 DEF DeleteVersion, ExpireVersion
<1>6. CASE DeleteNull
  BY <1>6, RestoredMeta, NoObjectMeta DEF DeleteNull
<1>7. ASSUME NEW m \in Meta, LockTop(m) PROVE TypeOK'
  BY <1>7 DEF LockTop
<1>8. ASSUME NEW old \in versions, NEW m \in Meta, m.vid = old.vid,
             LockVersion(old, m)
      PROVE  TypeOK'
  <2>1. Lock(m) \in [until : Date, hold : BOOLEAN]
    BY <1>8 DEF Meta, Lock
  <2> QED BY <1>8, <2>1 DEF LockVersion
<1>9. CASE PutRetention
  BY <1>7, <1>8, <1>9 DEF PutRetention, Meta
<1>10. CASE PutLegalHold
  BY <1>7, <1>8, <1>10 DEF PutLegalHold, Meta
<1>11. CASE SetVersioning \/ UNCHANGED vars
  BY <1>11 DEF SetVersioning, vars
<1>13. CASE Tick
  BY <1>13 DEF Tick
<1>12. CASE ListNoncurrent
  BY <1>12 DEF ListNoncurrent, Noncurrent, Live, Newest, Meta
<1> QED
  BY <1>1, <1>2, <1>3, <1>5, <1>6, <1>9, <1>10, <1>11, <1>12, <1>13
  DEF Next

\* The sidecars of the key are well formed and no version id names two versions,
\* in every reachable state.
THEOREM TypeCorrect == Spec => []TypeOK
BY InitType, NextType, PTL DEF Spec

-----------------------------------------------------------------------------
(* Locks on versions.                                                       *)

\* The history variable agrees with the sidecars that are still stored, and an
\* id that was not handed out carries no lock.  VersionLockHolds needs it: what
\* guards a removal is the stored sidecar.
PledgeStored ==
  /\ \A m \in versions : pledge[m.vid] = Lock(m)
  /\ \A v \in Id : v >= next => pledge[v] = NoPledge

LockInv == TypeOK /\ PledgeStored /\ VersionLockHolds

LEMMA LockInit == Init => LockInv
BY InitType DEF Init, LockInv, TypeOK, PledgeStored, VersionLockHolds, NoPledge,
   Protected

LEMMA LockNext == LockInv /\ [Next]_vars => LockInv'
<1> SUFFICES ASSUME LockInv, [Next]_vars PROVE LockInv'
  OBVIOUS
<1> USE DEF LockInv
<1>0. TypeOK /\ TypeOK'
  BY NextType
<1>1. ASSUME NEW lock \in BOOLEAN, PutObject(lock) PROVE LockInv'
  <2> DEFINE m == NewMeta(lock)
  <2>1. /\ next \in Id /\ next' = next + 1 /\ now' = now
        /\ versions' = IF versioning THEN versions \union {m} ELSE versions
        /\ pledge' = IF versioning THEN [pledge EXCEPT ![next] = Lock(m)]
                     ELSE pledge
    BY <1>0, <1>1 DEF PutObject, WriteVersion, TypeOK
  <2>2. versioning => m.vid = next
    BY DEF NewMeta
  <2> HIDE DEF m
  <2>4. CASE ~versioning
    BY <1>0, <2>1, <2>4 DEF PledgeStored, VersionLockHolds, Protected, TypeOK
  <2>5. CASE versioning
    <3>1. pledge'[next] = Lock(m)
      BY <1>0, <2>1, <2>5 DEF TypeOK
    <3>2. \A v \in Id : v # next => pledge'[v] = pledge[v]
      BY <1>0, <2>1, <2>5 DEF TypeOK
    <3>3. PledgeStored'
      BY <1>0, <2>1, <2>2, <2>5, <3>1, <3>2 DEF PledgeStored, TypeOK
    <3>4. VersionLockHolds'
      BY <2>1, <2>2, <2>5, <3>2 DEF VersionLockHolds, Protected
    <3> QED BY <1>0, <3>3, <3>4
  <2> QED BY <2>4, <2>5
<1>2. CASE DeleteWithMarker
  <2> DEFINE m == DeleteMarker(next)
  <2>1. /\ next \in Id /\ next' = next + 1 /\ now' = now /\ pledge' = pledge
        /\ versions' = versions \union {m}
    BY <1>0, <1>2 DEF DeleteWithMarker, TypeOK
  <2>2. m.vid = next /\ Lock(m) = NoPledge
    BY DEF DeleteMarker, NoPledge, Lock
  <2> HIDE DEF m
  <2>3. PledgeStored'
    BY <1>0, <2>1, <2>2 DEF PledgeStored, TypeOK
  <2>4. VersionLockHolds'
    BY <2>1 DEF VersionLockHolds, Protected
  <2> QED BY <1>0, <2>3, <2>4
<1>3. ASSUME NEW v \in Id, RemoveVersion(v), UNCHANGED <<next, now, pledge>>
      PROVE  LockInv'
  <2>1. PICK m \in versions : /\ m.vid = v /\ ~Protected(m)
                              /\ versions' = versions \ {m}
    BY <1>3 DEF RemoveVersion
  <2>2. ~Protected(pledge[v])
    <3>1. pledge[v] = Lock(m)
      BY <2>1 DEF PledgeStored
    <3>2. Protected(Lock(m)) => Protected(m)
      BY DEF Lock, Protected
    <3> QED BY <2>1, <3>1, <3>2
  <2>3. PledgeStored'
    BY <1>3, <2>1 DEF PledgeStored
  <2>4. VersionLockHolds'
    BY <1>3, <2>1, <2>2 DEF VersionLockHolds, Protected
  <2> QED BY <1>0, <2>3, <2>4
<1>4. CASE UNCHANGED <<versions, next, now, pledge>>
  BY <1>0, <1>4 DEF PledgeStored, VersionLockHolds, Protected
<1>5. ASSUME NEW v \in Id, DeleteVersion(v) \/ ExpireVersion(v) PROVE LockInv'
  BY <1>3, <1>4, <1>5 DEF DeleteVersion, ExpireVersion
<1>6. ASSUME NEW old \in versions, NEW m \in Meta, m.vid = old.vid,
             LockVersion(old, m)
      PROVE  LockInv'
  <2>1. /\ old.vid \in Id
        /\ pledge'[old.vid] = Lock(m)
        /\ \A v \in Id : v # old.vid => pledge'[v] = pledge[v]
        /\ versions' = (versions \ {old}) \union {m}
        /\ next' = next /\ now' = now
    BY <1>0, <1>6 DEF LockVersion, TypeOK
  <2>2. PledgeStored'
    BY <1>0, <1>6, <2>1 DEF PledgeStored, TypeOK
  <2>3. VersionLockHolds'
    BY <1>6, <2>1 DEF VersionLockHolds, Protected
  <2> QED BY <1>0, <2>2, <2>3
<1>7. CASE PutRetention
  BY <1>0, <1>4, <1>6, <1>7 DEF PutRetention, LockTop, TypeOK, Meta
<1>8. CASE PutLegalHold
  BY <1>0, <1>4, <1>6, <1>8 DEF PutLegalHold, LockTop, TypeOK, Meta
<1>9. CASE Tick
  <2>1. now' = now + 1 /\ UNCHANGED <<versions, next, pledge>>
    BY <1>9 DEF Tick
  <2>2. \A v \in Id : Protected(pledge[v])' => Protected(pledge[v])
    BY <1>0, <2>1 DEF Protected, TypeOK
  <2> QED BY <1>0, <2>1, <2>2 DEF PledgeStored, VersionLockHolds
<1> QED
  BY <1>1, <1>2, <1>4, <1>5, <1>7, <1>8, <1>9
  DEF Next, DeleteUnversioned, DeleteNull, SetVersioning, ListNoncurrent, vars

\* A version locked in its own sidecar stays in the version store for as long as
\* the lock lasts, whatever requests and sweeps do in the meantime.
THEOREM LockedVersionKept == Spec => []VersionLockHolds
<1>1. LockInv => VersionLockHolds
  BY DEF LockInv
<1> QED BY LockInit, LockNext, <1>1, PTL DEF Spec

-----------------------------------------------------------------------------
(* The current object.                                                      *)

\* What update_current_version makes current is the newest version that is no
\* marker, as long as there is one.
LEMMA RestoredIsNewest ==
  ASSUME NEW vs, NEW t, NEW m \in Restored(vs, t), Live(vs) # {}
  PROVE  m \in Newest(Live(vs))
BY DEF Restored, Live

ShownInv == TypeOK /\ ShownIsNewest

LEMMA ShownNext == ShownInv /\ [Next]_vars => ShownInv'
<1> SUFFICES ASSUME ShownInv, [Next]_vars PROVE ShownIsNewest'
  BY NextType DEF ShownInv
<1> USE DEF ShownInv
<1>1. ASSUME NEW lock \in BOOLEAN, PutObject(lock) PROVE ShownIsNewest'
  <2> DEFINE m == NewMeta(lock)
  <2>1. /\ next \in Id /\ m.body = next /\ m.vid = IF versioning THEN next ELSE 0
        /\ top' = m
        /\ versioning => versions' = versions \union {m}
    BY <1>1 DEF PutObject, NewMeta, WriteVersion, TypeOK
  <2> HIDE DEF m
  <2>2. CASE versioning
    <3>1. \A n \in Live(versions') : n.vid <= m.vid
      BY <2>1, <2>2 DEF Live, TypeOK
    <3>2. m \in Newest(Live(versions'))
      BY <2>1, <2>2, <3>1 DEF Live, Marker, Newest
    <3> QED BY <2>1, <3>2 DEF ShownIsNewest
  <2>3. CASE ~versioning
    BY <2>1, <2>3 DEF ShownIsNewest
  <2> QED BY <2>2, <2>3
<1>2. CASE top' = NoObject
  BY <1>2 DEF ShownIsNewest, NoObject
<1>3. ASSUME NEW vs, NEW t, top' \in Restored(vs, t), versions' = vs
      PROVE  ShownIsNewest'
  BY <1>3, RestoredIsNewest DEF ShownIsNewest
<1>4. CASE UNCHANGED <<top, versions>>
  BY <1>4 DEF ShownIsNewest
<1>5. ASSUME NEW v \in Id, DeleteVersion(v) \/ ExpireVersion(v)
      PROVE  ShownIsNewest'
  BY <1>3, <1>4, <1>5 DEF DeleteVersion, ExpireVersion, RemoveVersion
<1>6. ASSUME NEW m \in Meta, LockTop(m), m.vid = top.vid, m.body = top.body
      PROVE  ShownIsNewest'
  BY <1>6 DEF LockTop, ShownIsNewest
<1>7. ASSUME NEW old \in versions, NEW m \in Meta, m.vid = old.vid,
             m.body = old.body, LockVersion(old, m)
      PROVE  ShownIsNewest'
  <2>1. versions' = (versions \ {old}) \union {m} /\ top' = top
    BY <1>7 DEF LockVersion
  <2>2. \A n \in Newest(Live(versions)) :
          \E x \in Newest(Live(versions')) : x.vid = n.vid /\ x.body = n.body
    BY <1>7, <2>1 DEF Newest, Live, Marker
  <2>3. Live(versions') # {} => Live(versions) # {}
    BY <1>7, <2>1 DEF Live, Marker
  <2> QED BY <2>1, <2>2, <2>3 DEF ShownIsNewest
<1>8. CASE PutRetention
  BY <1>6, <1>7, <1>8 DEF PutRetention, TypeOK, Meta
<1>9. CASE PutLegalHold
  BY <1>6, <1>7, <1>9 DEF PutLegalHold, TypeOK, Meta
<1> QED
  BY <1>1, <1>2, <1>3, <1>4, <1>5, <1>8, <1>9
  DEF Next, DeleteWithMarker, DeleteUnversioned, DeleteNull, SetVersioning,
      ListNoncurrent, Tick, vars

\* Whatever mix of writes, deletes, locks, sweeps and suspensions came before, a
\* current object with a version id is the newest version that is no marker.
THEOREM NewestShown == Spec => []ShownIsNewest
<1>1. Init => ShownInv
  BY InitType DEF Init, ShownInv, ShownIsNewest, NoObject
<1>2. ShownInv => ShownIsNewest
  BY DEF ShownInv
<1> QED BY <1>1, ShownNext, <1>2, PTL DEF Spec
=============================================================================
