--------------------------- MODULE EncryptionProofs --------------------------
(***************************************************************************)
(* Proofs about Keyring, what was encrypted stays readable for any number  *)
(* of rotations, restarts, objects and customers, and about FrameRead, a   *)
(* damaged object is read correctly or not at all, for any sizes.          *)
(***************************************************************************)
EXTENDS Keyring, FrameRead, FiniteSetTheorems, SequenceTheorems, TLAPS

-----------------------------------------------------------------------------
(* Type correctness.                                                        *)

KeyId ==
  {NoId, EnvKey, KmsKey} \union {FirstKey(i) : i \in Nat}
    \union {NewKey(r) : r \in Rotator} \union {CustomerKey(c) : c \in Customers}
Ring == [keys : SUBSET KeyId, active : KeyId]
Seal == [stage : {"none", "object", "upload"}, mode : {"none", "SseS3", "SseKms", "SseC"},
         key : KeyId]

KeyTypeOK ==
  /\ keyFile \in Ring /\ keyTmp \in Ring /\ ring \in Ring
  /\ rotation \in [Rotator -> [pc : {"off", "write", "rename", "done", "failed"}, ring : Ring]]
  /\ boot \in [pc : {"off", "create"}, ring : Ring]
  /\ env \in BOOLEAN /\ kms \in BOOLEAN
  /\ sealed \in [Sealed -> Seal]
  /\ starts \in Nat

LEMMA KeyIds ==
  /\ {NoId, EnvKey, KmsKey} \subseteq KeyId
  /\ \A i \in Nat : FirstKey(i) \in KeyId
  /\ \A r \in Rotator : NewKey(r) \in KeyId
  /\ \A c \in Customers : CustomerKey(c) \in KeyId
BY DEF KeyId

LEMMA NoRingType == NoRing \in Ring /\ NoRing.keys = {}
BY KeyIds DEF NoRing, Ring

LEMMA NewRingType ==
  ASSUME NEW f \in Ring, NEW k \in KeyId
  PROVE  /\ WithNewKey(f, k) \in Ring /\ f.keys \subseteq WithNewKey(f, k).keys
         /\ WithNewKey(f, k).active \in WithNewKey(f, k).keys
BY DEF WithNewKey, Ring

LEMMA MergedRingType ==
  ASSUME NEW f \in Ring
  PROVE  /\ MergedRing(f) \in Ring /\ MergedRing(f).active = EnvKey
         /\ EnvKey \in MergedRing(f).keys
BY KeyIds DEF MergedRing, Ring

-----------------------------------------------------------------------------
(* What holds as long as no two writers of the file overlapped.             *)

Writing(r) == rotation[r].pc \in {"write", "rename"}
Whole(f) == f.active \in f.keys

OneWriter ==
  \A r \in Rotator : Writing(r) =>
    boot.pc = "off" /\ \A q \in Rotator : Writing(q) => q = r

\* A rotation is about to put a keyring in place that has all of today's keys.
Prepared ==
  \A r \in Rotator : Writing(r) =>
    /\ keyFile.keys \subseteq rotation[r].ring.keys /\ Whole(rotation[r].ring)
    /\ rotation[r].pc = "rename" => keyTmp = rotation[r].ring

FirstStart ==
  boot.pc = "create" => ~env /\ keyFile = NoRing /\ Whole(boot.ring)

FileWhole == keyFile = NoRing \/ Whole(keyFile)

\* The running server's keys are still in the file, or its active key is the
\* environment's.
InMemory ==
  ring # NoRing =>
    IF env THEN ring.active = EnvKey /\ EnvKey \in ring.keys
    ELSE Whole(ring) /\ ring.keys \subseteq keyFile.keys

\* The master key under which a data key is wrapped is there to be read.
Wrapped ==
  \A o \in Sealed :
    /\ sealed[o].mode = "SseKms" => kms
    /\ sealed[o].mode = "SseS3" =>
         IF env THEN sealed[o].key = EnvKey
         ELSE sealed[o].key \in keyFile.keys /\ (ring # NoRing => sealed[o].key \in ring.keys)

KeySafe == OneWriter /\ Prepared /\ FirstStart /\ FileWhole /\ InMemory /\ Wrapped
KeyInv == KeyTypeOK /\ (~raced => KeySafe)

LEMMA WholeIsRing == ASSUME NEW f, Whole(f) PROVE f # NoRing
BY NoRingType DEF Whole

LEMMA InitKeys == KeyInit => KeyInv
<1> SUFFICES ASSUME KeyInit PROVE KeyInv
  OBVIOUS
<1>1. KeyTypeOK
  BY NoRingType, KeyIds DEF KeyInit, KeyTypeOK, Off, Plain, Seal
<1>2. KeySafe
  BY DEF KeyInit, KeySafe, OneWriter, Prepared, FirstStart, FileWhole, InMemory, Wrapped,
     Writing, Off, Plain
<1> QED BY <1>1, <1>2 DEF KeyInv

-----------------------------------------------------------------------------
(* Rotations.                                                               *)

LEMMA ReadKeeps ==
  ASSUME KeyInv, NEW r \in Rotator, NEW misread \in BOOLEAN, RotateRead(r, misread)
  PROVE  KeyInv'
<1> DEFINE f == IF misread THEN NoRing ELSE keyFile
           new == WithNewKey(f, NewKey(r))
<1>1. /\ rotation[r].pc = "off"
      /\ rotation' = [rotation EXCEPT ![r] = [pc |-> "write", ring |-> new]]
      /\ UNCHANGED <<keyFile, keyTmp, boot, ring, env, kms, sealed, starts>>
  BY DEF RotateRead
<1>2. ~raced' => ~raced /\ ~Busy /\ f = keyFile
  BY DEF RotateRead
<1>3. KeyTypeOK /\ f \in Ring
  BY NoRingType DEF KeyInv, KeyTypeOK
<1>4. /\ new \in Ring /\ f.keys \subseteq new.keys /\ Whole(new)
  BY <1>3, KeyIds, NewRingType DEF Whole
<1> HIDE DEF new, f
<1>5. KeyTypeOK'
  BY <1>1, <1>3, <1>4 DEF KeyTypeOK
<1>6. ASSUME ~raced' PROVE KeySafe'
  <2>1. KeySafe /\ f = keyFile
    BY <1>2, <1>6 DEF KeyInv
  <2>2. boot.pc # "create" /\ \A q \in Rotator : ~Writing(q)
    BY <1>2, <1>6 DEF Busy, Writing
  <2>3. /\ rotation'[r] = [pc |-> "write", ring |-> new]
        /\ \A q \in Rotator \ {r} : rotation'[q] = rotation[q]
    BY <1>1, <1>3 DEF KeyTypeOK
  <2>4. \A q \in Rotator : Writing(q)' => q = r
    BY <2>2, <2>3 DEF Writing
  <2>5. OneWriter'
    BY <1>1, <1>3, <2>2, <2>4 DEF OneWriter, KeyTypeOK
  <2>6. Prepared'
    BY <1>1, <1>4, <2>1, <2>3, <2>4 DEF Prepared, Writing
  <2>7. FirstStart' /\ FileWhole' /\ InMemory' /\ Wrapped'
    BY <1>1, <2>1 DEF KeySafe, FirstStart, FileWhole, InMemory, Wrapped
  <2> QED BY <2>5, <2>6, <2>7 DEF KeySafe
<1> QED BY <1>5, <1>6 DEF KeyInv

LEMMA WriteKeeps == ASSUME KeyInv, NEW r \in Rotator, RotateWrite(r) PROVE KeyInv'
<1>1. /\ rotation[r].pc = "write" /\ keyTmp' = rotation[r].ring
      /\ rotation' = [rotation EXCEPT ![r].pc = "rename"]
      /\ UNCHANGED <<keyFile, boot, ring, env, kms, sealed, starts, raced>>
  BY DEF RotateWrite
<1>2. KeyTypeOK /\ KeyTypeOK'
  BY <1>1 DEF KeyInv, KeyTypeOK
<1>3. ASSUME ~raced PROVE KeySafe'
  <2>1. KeySafe
    BY <1>3 DEF KeyInv
  <2>2. /\ rotation'[r].pc = "rename" /\ rotation'[r].ring = rotation[r].ring
        /\ \A q \in Rotator \ {r} : rotation'[q] = rotation[q]
    BY <1>1, <1>2 DEF KeyTypeOK
  <2>3. \A q \in Rotator : Writing(q)' => Writing(q) /\ q = r
    BY <1>1, <2>1, <2>2 DEF KeySafe, OneWriter, Writing
  <2>4. OneWriter' /\ Prepared'
    BY <1>1, <2>1, <2>2, <2>3 DEF KeySafe, OneWriter, Prepared
  <2>5. FirstStart' /\ FileWhole' /\ InMemory' /\ Wrapped'
    BY <1>1, <2>1 DEF KeySafe, FirstStart, FileWhole, InMemory, Wrapped
  <2> QED BY <2>4, <2>5 DEF KeySafe
<1> QED BY <1>1, <1>2, <1>3 DEF KeyInv

\* The file's keys only grow.
LEMMA RenameKeeps == ASSUME KeyInv, NEW r \in Rotator, RotateRename(r) PROVE KeyInv'
<1>1. /\ rotation[r].pc = "rename" /\ keyTmp' = NoRing
      /\ keyFile' = IF keyTmp = NoRing THEN keyFile ELSE keyTmp
      /\ rotation' = [rotation EXCEPT ![r].pc = IF keyTmp = NoRing THEN "failed" ELSE "done"]
      /\ UNCHANGED <<boot, ring, env, kms, sealed, starts, raced>>
  BY DEF RotateRename
<1>2. KeyTypeOK /\ KeyTypeOK'
  BY <1>1, NoRingType DEF KeyInv, KeyTypeOK
<1>3. ASSUME ~raced PROVE KeySafe'
  <2>1. KeySafe
    BY <1>3 DEF KeyInv
  <2>2. /\ rotation'[r].pc \in {"failed", "done"}
        /\ \A q \in Rotator \ {r} : rotation'[q] = rotation[q]
    BY <1>1, <1>2 DEF KeyTypeOK
  <2>3. /\ keyFile.keys \subseteq keyTmp.keys /\ Whole(keyTmp) /\ boot.pc = "off"
        /\ \A q \in Rotator : Writing(q) => q = r
    BY <1>1, <2>1 DEF KeySafe, OneWriter, Prepared, Writing
  <2>4. keyFile' = keyTmp
    BY <1>1, <2>3, WholeIsRing
  <2>5. \A q \in Rotator : ~Writing(q)'
    BY <2>2, <2>3 DEF Writing
  <2>6. OneWriter' /\ Prepared'
    BY <2>5 DEF OneWriter, Prepared
  <2>7. FirstStart' /\ FileWhole'
    BY <1>1, <2>3, <2>4 DEF FirstStart, FileWhole
  <2>8. InMemory'
    BY <1>1, <2>1, <2>3, <2>4 DEF KeySafe, InMemory
  <2>9. Wrapped'
    BY <1>1, <2>1, <2>3, <2>4 DEF KeySafe, Wrapped
  <2> QED BY <2>6, <2>7, <2>8, <2>9 DEF KeySafe
<1> QED BY <1>1, <1>2, <1>3 DEF KeyInv

LEMMA DiesKeeps == ASSUME KeyInv, NEW r \in Rotator, RotateDies(r) PROVE KeyInv'
<1>1. /\ rotation' = [rotation EXCEPT ![r].pc = "failed"]
      /\ UNCHANGED <<keyFile, keyTmp, boot, ring, env, kms, sealed, starts, raced>>
  BY DEF RotateDies
<1>2. KeyTypeOK /\ KeyTypeOK'
  BY <1>1 DEF KeyInv, KeyTypeOK
<1>3. ASSUME ~raced PROVE KeySafe'
  <2>1. KeySafe
    BY <1>3 DEF KeyInv
  <2>2. /\ rotation'[r].pc = "failed"
        /\ \A q \in Rotator \ {r} : rotation'[q] = rotation[q]
    BY <1>1, <1>2 DEF KeyTypeOK
  <2>3. \A q \in Rotator : Writing(q)' => Writing(q) /\ rotation'[q] = rotation[q]
    BY <2>2 DEF Writing
  <2>4. OneWriter' /\ Prepared'
    BY <1>1, <2>1, <2>3 DEF KeySafe, OneWriter, Prepared
  <2>5. FirstStart' /\ FileWhole' /\ InMemory' /\ Wrapped'
    BY <1>1, <2>1 DEF KeySafe, FirstStart, FileWhole, InMemory, Wrapped
  <2> QED BY <2>4, <2>5 DEF KeySafe
<1> QED BY <1>1, <1>2, <1>3 DEF KeyInv

-----------------------------------------------------------------------------
(* The server.                                                              *)

LEMMA LoadKeeps ==
  ASSUME KeyInv, NEW misread \in BOOLEAN, LoadRing(misread) PROVE KeyInv'
<1> DEFINE f == IF misread THEN NoRing ELSE keyFile
           first == WithNewKey(NoRing, FirstKey(starts + 1))
<1>1. /\ ring = NoRing /\ boot.pc = "off" /\ starts' = starts + 1
      /\ UNCHANGED <<keyFile, keyTmp, rotation, env, kms, sealed>>
      /\ \/ env /\ ring' = MergedRing(f) /\ UNCHANGED boot
         \/ ~env /\ f # NoRing /\ ring' = f /\ UNCHANGED boot
         \/ ~env /\ f = NoRing /\ boot' = [pc |-> "create", ring |-> first] /\ UNCHANGED ring
  BY DEF LoadRing
<1>2. ~raced' => ~raced /\ f = keyFile /\ (~env /\ f = NoRing => ~Busy)
  BY DEF LoadRing
<1>3. KeyTypeOK /\ f \in Ring
  BY NoRingType DEF KeyInv, KeyTypeOK
<1>4. first \in Ring /\ Whole(first)
  <2>1. FirstKey(starts + 1) \in KeyId
    BY <1>3, KeyIds DEF KeyTypeOK
  <2> QED BY <2>1, NoRingType, NewRingType DEF Whole
<1>5. MergedRing(f) \in Ring /\ MergedRing(f).active = EnvKey /\ EnvKey \in MergedRing(f).keys
  BY <1>3, MergedRingType
<1> HIDE DEF f, first
<1>6. KeyTypeOK'
  BY <1>1, <1>3, <1>4, <1>5 DEF KeyTypeOK
<1>7. ASSUME ~raced' PROVE KeySafe'
  <2>1. KeySafe /\ f = keyFile /\ (~env /\ f = NoRing => ~Busy)
    BY <1>2, <1>7 DEF KeyInv
  <2>2. OneWriter'
    BY <1>1, <2>1 DEF KeySafe, OneWriter, Writing, Busy
  <2>3. Prepared' /\ FileWhole'
    BY <1>1, <2>1 DEF KeySafe, Prepared, FileWhole, Writing
  <2>4. FirstStart'
    BY <1>1, <1>4, <2>1 DEF FirstStart
  <2>5. InMemory'
    BY <1>1, <1>5, <2>1 DEF KeySafe, InMemory, FileWhole
  <2>6. Wrapped'
    BY <1>1, <2>1 DEF KeySafe, Wrapped
  <2> QED BY <2>2, <2>3, <2>4, <2>5, <2>6 DEF KeySafe
<1> QED BY <1>6, <1>7 DEF KeyInv

LEMMA CreateKeeps == ASSUME KeyInv, CreateRing PROVE KeyInv'
<1>1. /\ boot.pc = "create" /\ keyFile' = boot.ring /\ ring' = boot.ring /\ boot' = Off
      /\ UNCHANGED <<keyTmp, rotation, env, kms, sealed, starts, raced>>
  BY DEF CreateRing
<1>2. KeyTypeOK /\ KeyTypeOK'
  BY <1>1, NoRingType DEF KeyInv, KeyTypeOK, Off
<1>3. ASSUME ~raced PROVE KeySafe'
  <2>1. KeySafe
    BY <1>3 DEF KeyInv
  <2>2. \A r \in Rotator : ~Writing(r) /\ ~Writing(r)'
    BY <1>1, <2>1 DEF KeySafe, OneWriter, Writing
  <2>3. ~env /\ keyFile = NoRing /\ Whole(boot.ring)
    BY <1>1, <2>1 DEF KeySafe, FirstStart
  <2>4. OneWriter' /\ Prepared' /\ FirstStart'
    BY <1>1, <2>2 DEF OneWriter, Prepared, FirstStart, Off
  <2>5. FileWhole' /\ InMemory'
    BY <1>1, <2>3 DEF FileWhole, InMemory
  <2>6. Wrapped'
    BY <1>1, <2>1, <2>3, NoRingType DEF KeySafe, Wrapped
  <2> QED BY <2>4, <2>5, <2>6 DEF KeySafe
<1> QED BY <1>1, <1>2, <1>3 DEF KeyInv

LEMMA StopKeeps == ASSUME KeyInv, StopServer PROVE KeyInv'
<1>1. /\ ring' = NoRing /\ boot' = Off
      /\ UNCHANGED <<keyFile, keyTmp, rotation, env, kms, sealed, starts, raced>>
  BY DEF StopServer
<1>2. KeyTypeOK'
  BY <1>1, NoRingType DEF KeyInv, KeyTypeOK, Off
<1>3. KeySafe => KeySafe'
  BY <1>1 DEF KeySafe, OneWriter, Prepared, FirstStart, FileWhole, InMemory, Wrapped, Writing, Off
<1> QED BY <1>1, <1>2, <1>3 DEF KeyInv

-----------------------------------------------------------------------------
(* Objects.                                                                 *)

\* A running server wraps a data key under a key it can read again.
LEMMA SealingKeeps ==
  ASSUME KeyInv, NEW o \in Sealed, NEW stage \in {"object", "upload"},
         NEW mode \in {"none", "SseS3", "SseKms", "SseC"}, NEW c \in Customers,
         ring # NoRing, ~raced /\ mode = "SseKms" => kms,
         sealed' = [sealed EXCEPT ![o] = Sealing(stage, mode, c)],
         UNCHANGED <<keyFile, keyTmp, rotation, boot, ring, env, kms, starts, raced>>
  PROVE  KeyInv'
<1> DEFINE new == Sealing(stage, mode, c)
<1>1. /\ new \in Seal /\ new.mode = mode /\ (mode = "SseS3" => new.key = ring.active)
  BY KeyIds DEF Sealing, Seal, KeyInv, KeyTypeOK, Ring
<1>2. sealed' = [sealed EXCEPT ![o] = new]
  OBVIOUS
<1> HIDE DEF new
<1>3. KeyTypeOK'
  BY <1>1, <1>2 DEF KeyInv, KeyTypeOK
<1>4. ASSUME ~raced PROVE KeySafe'
  <2>1. KeySafe
    BY <1>4 DEF KeyInv
  <2>2. sealed'[o] = new /\ \A q \in Sealed \ {o} : sealed'[q] = sealed[q]
    BY <1>2 DEF KeyInv, KeyTypeOK
  <2>3. Wrapped'
    BY <1>1, <1>4, <2>1, <2>2 DEF KeySafe, Wrapped, InMemory, Whole
  <2> QED BY <2>1, <2>3
    DEF KeySafe, OneWriter, Prepared, FirstStart, FileWhole, InMemory, Writing
<1> QED BY <1>3, <1>4 DEF KeyInv

LEMMA NextKeys == KeyInv /\ [KeyNext]_keyVars => KeyInv'
<1> SUFFICES ASSUME KeyInv, [KeyNext]_keyVars PROVE KeyInv'
  OBVIOUS
<1>1. ASSUME NEW r \in Rotator,
             \/ \E misread \in BOOLEAN : RotateRead(r, misread)
             \/ RotateWrite(r) \/ RotateRename(r) \/ RotateDies(r)
      PROVE  KeyInv'
  BY <1>1, ReadKeeps, WriteKeeps, RenameKeeps, DiesKeeps
<1>2. CASE (\E misread \in BOOLEAN : LoadRing(misread)) \/ CreateRing \/ StopServer
  BY <1>2, LoadKeeps, CreateKeeps, StopKeeps
<1>3. ASSUME NEW o \in Sealed, NEW mode \in {"SseS3", "SseKms", "SseC"}, NEW c \in Customers,
             Encrypt(o, mode, c) \/ CreateUpload(o, mode, c)
      PROVE  KeyInv'
  BY <1>3, SealingKeeps DEF Encrypt, CreateUpload
<1>4. ASSUME NEW o \in Sealed, NEW c \in Customers, CompleteUpload(o, c) PROVE KeyInv'
  <2>1. sealed[o].mode \in {"none", "SseS3", "SseKms", "SseC"}
    BY DEF KeyInv, KeyTypeOK, Seal
  <2>2. ~raced /\ sealed[o].mode = "SseKms" => kms
    BY DEF KeyInv, KeySafe, Wrapped
  <2> QED BY <1>4, <2>1, <2>2, SealingKeeps DEF CompleteUpload
<1>5. CASE UNCHANGED keyVars
  BY <1>5 DEF keyVars, KeyInv, KeyTypeOK, KeySafe, OneWriter, Prepared, FirstStart, FileWhole,
     InMemory, Wrapped, Writing
<1> QED BY <1>1, <1>2, <1>3, <1>4, <1>5 DEF KeyNext

\* Rotations, their crashes and restarts of the server never make an object or an
\* upload unreadable that was encrypted before, unless two writers of the keyring
\* file overlap or the file cannot be read (keys.rs: load, rotate).
THEOREM EncryptedStaysReadable == KeySpec => []KeysSurvive
<1>1. KeyInv => KeysSurvive
  <2> SUFFICES ASSUME KeyTypeOK, KeySafe, NEW o \in Sealed,
                      NEW next, next = IF env THEN MergedRing(keyFile) ELSE keyFile
               PROVE  /\ ring # NoRing => Opens(sealed[o], ring, sealed[o].key)
                      /\ env \/ keyFile # NoRing => Opens(sealed[o], next, sealed[o].key)
    BY DEF KeyInv, KeysSurvive
  <2>1. sealed[o].mode = "SseS3" =>
          (ring # NoRing => sealed[o].key \in ring.keys) /\ sealed[o].key \in next.keys
    BY MergedRingType DEF KeySafe, Wrapped, InMemory, KeyTypeOK
  <2>2. sealed[o].mode = "SseKms" => kms
    BY DEF KeySafe, Wrapped
  <2> QED BY <2>1, <2>2 DEF Opens
<1> QED BY <1>1, InitKeys, NextKeys, PTL DEF KeySpec
-----------------------------------------------------------------------------
(* Reading an object in pieces: FrameRead.                                  *)

LEMMA DivRest ==
  ASSUME NEW P \in Nat \ {0}, NEW m \in Nat
  PROVE  \E r \in 0 .. P - 1 : m = (m \div P) * P + r
OBVIOUS

LEMMA DivMod ==
  ASSUME NEW m \in Nat, NEW q, NEW x, q = m \div PieceSize, x = m % PieceSize
  PROVE  q \in Nat /\ x \in 0 .. PieceSize - 1 /\ q * PieceSize + x = m
<1>1. PICK P \in Nat \ {0} : P = PieceSize
  BY ReadAssumption
<1> SUFFICES ASSUME q = m \div P, x = m % P
             PROVE  q \in Nat /\ x \in 0 .. P - 1 /\ q * P + x = m
  BY <1>1
<1>2. q \in Nat /\ x \in 0 .. P - 1
  OBVIOUS
<1>3. PICK r \in 0 .. P - 1 : m = q * P + r
  BY DivRest, Zenon
<1>4. ASSUME NEW n \in Nat PROVE (n * P + r) % P = r
  <2>1. (P * n + r) % P = r
    OBVIOUS
  <2> QED BY <2>1
<1>5. x = r
  BY <1>2, <1>3, <1>4
<1> QED BY <1>2, <1>3, <1>5

LEMMA Times ==
  ASSUME NEW a \in Nat
  PROVE  /\ a * PieceSize \in Nat
         /\ (a + 1) * PieceSize = a * PieceSize + PieceSize
BY ReadAssumption

\* The place of piece a is at or before byte m only if a is no later than m's piece.
LEMMA PieceOrder ==
  ASSUME NEW a \in Nat, NEW m \in Nat, a * PieceSize <= m
  PROVE  a <= m \div PieceSize
<1> DEFINE q == m \div PieceSize
<1>1. q \in Nat /\ m < (q + 1) * PieceSize
  <2>1. PICK x : x = m % PieceSize
    OBVIOUS
  <2>2. q \in Nat /\ x \in 0 .. PieceSize - 1 /\ q * PieceSize + x = m
    BY <2>1, DivMod
  <2> HIDE DEF q
  <2> QED BY <2>2, Times, ReadAssumption
<1> HIDE DEF q
<1>2. SUFFICES ASSUME a > q PROVE FALSE
  BY <1>1 DEF q
<1>3. PICK d \in Nat : a = q + 1 + d
  BY <1>1, <1>2
<1>4. a * PieceSize = (q + 1) * PieceSize + d * PieceSize /\ d * PieceSize >= 0
  BY <1>1, <1>3, ReadAssumption
<1> QED BY <1>1, <1>4, Times

-----------------------------------------------------------------------------
PieceState == {"good", "bad", "cut", "gone"}
Pieces == 0 .. PieceCount - 1 + (IF layout = "chunks" THEN ParityPieces ELSE 0)
ReaderPc == {"closed", "try", "load", "serve", "done", "error", "refused"}

ReadTypeOK ==
  /\ layout \in {"frames", "chunks"} /\ size \in Nat
  /\ piece \in [Pieces -> PieceState]
  /\ want \in [off : Nat, len : Nat]
  /\ rd \in [pc : ReaderPc, at : Nat, last : Int, skip : Nat, left : Nat, buf : Seq(Nat)]
  /\ out \in Seq(Nat)

\* The byte the consumer is to get next.
Position == want.off + Len(out)

\* What was served and what is left make the request.
Accounted ==
  /\ want.off + want.len <= size
  /\ rd.left + Len(out) = want.len
  /\ \A j \in 1 .. Len(out) : out[j] = want.off + j - 1
  /\ rd.pc \in {"closed", "try"} => out = <<>>

\* Before a piece is loaded the reader stands at the next byte; a whole decryptor
\* that is tried out stands at the first byte of a frame.
AtPiece ==
  rd.pc \in {"try", "load"} =>
    /\ rd.at * PieceSize + rd.skip = Position
    /\ rd.skip < PieceSize
    /\ rd.pc = "try" /\ layout = "frames" => rd.skip = 0

\* What is loaded is the rest of the piece from the next byte on.
InPiece ==
  rd.pc = "serve" =>
    /\ rd.skip = 0
    /\ rd.at * PieceSize <= Position
    /\ Position + Len(rd.buf) = MinOf(rd.at * PieceSize + PieceSize, size)
    /\ rd.buf # <<>>
    /\ \A j \in 1 .. Len(rd.buf) : rd.buf[j] = Position + j - 1

\* The piece of the last byte asked for.
LastWanted == (want.off + want.len - 1) \div PieceSize

Unfinished ==
  rd.pc \in {"try", "load", "serve"} => rd.left > 0 /\ rd.last = LastWanted

\* Why a stream that ended short did.
Explained ==
  /\ rd.pc = "done" /\ Len(out) < want.len =>
       layout = "frames" /\ \E i \in Pieces : piece[i] = "gone"
  /\ rd.pc \in {"error", "refused"} => Beyond

ReadInv == ReadTypeOK /\ Accounted /\ AtPiece /\ InPiece /\ Unfinished /\ Explained

LEMMA BytesOfPiece ==
  ASSUME ReadTypeOK, NEW i \in Nat, i * PieceSize < size
  PROVE  /\ BytesOf(i) \in Seq(Nat)
         /\ i * PieceSize + Len(BytesOf(i)) = MinOf(i * PieceSize + PieceSize, size)
         /\ Len(BytesOf(i)) > 0
         /\ \A j \in 1 .. Len(BytesOf(i)) : BytesOf(i)[j] = i * PieceSize + j - 1
<1> DEFINE base == i * PieceSize
           n == MinOf(PieceSize, size - base)
<1>1. base \in Nat /\ base < size /\ size \in Nat
  BY Times DEF ReadTypeOK
<1>2. BytesOf(i) = [j \in 1 .. n |-> base + j - 1]
  BY DEF BytesOf
<1> HIDE DEF base
<1>3. n \in Nat /\ n > 0 /\ base + n = MinOf(base + PieceSize, size)
  BY <1>1, ReadAssumption DEF MinOf
<1> HIDE DEF n
<1>4. /\ [j \in 1 .. n |-> base + j - 1] \in Seq(Nat)
      /\ Len([j \in 1 .. n |-> base + j - 1]) = n
      /\ \A j \in 1 .. n : [k \in 1 .. n |-> base + k - 1][j] = base + j - 1
  BY <1>1, <1>3
<1> QED BY <1>2, <1>3, <1>4 DEF base

LEMMA WithoutFirst ==
  ASSUME NEW s \in Seq(Nat), NEW n \in 0 .. Len(s)
  PROVE  /\ Without(s, n) \in Seq(Nat)
         /\ Len(Without(s, n)) = Len(s) - n
         /\ \A j \in 1 .. Len(s) - n : Without(s, n)[j] = s[n + j]
<1>1. \A i \in n + 1 .. Len(s) : s[i] \in Nat
  OBVIOUS
<1> QED BY <1>1, SubSeqProperties DEF Without

LEMMA TakenFirst ==
  ASSUME NEW s \in Seq(Nat), NEW n \in 0 .. Len(s)
  PROVE  /\ SubSeq(s, 1, n) \in Seq(Nat)
         /\ Len(SubSeq(s, 1, n)) = n
         /\ \A j \in 1 .. n : SubSeq(s, 1, n)[j] = s[j]
<1>1. \A i \in 1 .. n : s[i] \in Nat
  OBVIOUS
<1> QED BY <1>1, SubSeqProperties

LEMMA PieceCounts ==
  ASSUME ReadTypeOK
  PROVE  /\ PieceCount \in Nat
         /\ \A a \in Nat : a * PieceSize < size => a < PieceCount /\ a \in Pieces
<1>1. size \in Nat /\ size + PieceSize - 1 \in Nat
  BY ReadAssumption DEF ReadTypeOK
<1>2. PieceCount \in Nat
  <2>1. PICK x : x = (size + PieceSize - 1) % PieceSize
    OBVIOUS
  <2> QED BY <1>1, <2>1, DivMod DEF PieceCount
<1>3. ASSUME NEW a \in Nat, a * PieceSize < size PROVE a < PieceCount
  <2>1. (a + 1) * PieceSize <= size + PieceSize - 1
    BY <1>1, <1>3, Times, ReadAssumption
  <2>2. a + 1 <= PieceCount
    BY <1>1, <2>1, PieceOrder DEF PieceCount
  <2> QED BY <1>2, <2>2
<1>4. \A a \in Nat : a < PieceCount => a \in Pieces
  <2> DEFINE parity == IF layout = "chunks" THEN ParityPieces ELSE 0
  <2>1. parity \in Nat /\ Pieces = 0 .. PieceCount - 1 + parity
    BY ReadAssumption DEF Pieces
  <2> HIDE DEF parity
  <2> QED BY <1>2, <2>1
<1> QED BY <1>2, <1>3, <1>4

\* A loaded piece is the bytes from the next one on.
LEMMA FilledFits ==
  ASSUME ReadInv, rd.pc \in {"try", "load"}
  PROVE  /\ rd.at * PieceSize <= Position /\ Position < size
         /\ rd.at * PieceSize < size /\ rd.at <= rd.last
         /\ LET b == Without(BytesOf(rd.at), rd.skip) IN
              /\ b \in Seq(Nat) /\ b # <<>>
              /\ Position + Len(b) = MinOf(rd.at * PieceSize + PieceSize, size)
              /\ \A j \in 1 .. Len(b) : b[j] = Position + j - 1
<1> DEFINE base == rd.at * PieceSize
           all == BytesOf(rd.at)
           b == Without(all, rd.skip)
           skip == rd.skip
           end == want.off + want.len
           pos == Position
<1>1. rd.at \in Nat /\ skip \in Nat /\ size \in Nat /\ PieceSize \in Nat \ {0}
  BY ReadAssumption DEF ReadInv, ReadTypeOK
<1>2. base \in Nat
  BY <1>1, Times
<1>3. base + skip = pos /\ skip < PieceSize
  BY DEF ReadInv, AtPiece
<1>4. pos < end /\ end <= size /\ pos \in Nat /\ end \in Nat
  <2> DEFINE k == Len(out)
             left == rd.left
             o == want.off
             l == want.len
  <2>1. /\ k \in Nat /\ left \in Nat /\ o \in Nat /\ l \in Nat
        /\ left > 0 /\ left + k = l /\ o + l <= size
        /\ pos = o + k /\ end = o + l
    BY DEF ReadInv, ReadTypeOK, Unfinished, Accounted, Position
  <2> HIDE DEF k, left, o, l, pos, end
  <2> QED BY <2>1
<1> HIDE DEF base, all, b, skip, pos
<1>5. base <= pos /\ pos < size /\ base < size /\ base <= end - 1 /\ end - 1 \in Nat
  <2> HIDE DEF end
  <2> QED BY <1>1, <1>2, <1>3, <1>4
<1>6. rd.at <= rd.last
  <2>0. want.off \in Nat /\ want.len \in Nat
    BY DEF ReadInv, ReadTypeOK
  <2>1. rd.last = LastWanted
    BY DEF ReadInv, Unfinished
  <2>2. LastWanted = (end - 1) \div PieceSize
    BY <1>1, <2>0 DEF LastWanted
  <2> HIDE DEF end
  <2>3. rd.at * PieceSize <= end - 1
    BY <1>5 DEF base
  <2> QED BY <1>1, <1>5, <2>1, <2>2, <2>3, PieceOrder
<1> HIDE DEF end
<1>7. /\ all \in Seq(Nat)
      /\ base + Len(all) = MinOf(base + PieceSize, size)
      /\ \A j \in 1 .. Len(all) : all[j] = base + j - 1
  <2>1. ReadTypeOK /\ rd.at * PieceSize < size
    BY <1>5 DEF base, ReadInv
  <2> QED BY <1>1, <2>1, BytesOfPiece DEF base, all
<1> DEFINE n == Len(all)
<1>8. /\ n \in Nat /\ base + n = MinOf(base + PieceSize, size)
      /\ \A j \in 1 .. n : all[j] = base + j - 1
  BY <1>7
<1> HIDE DEF n
<1>9. skip < n
  BY <1>1, <1>2, <1>3, <1>5, <1>8 DEF MinOf
<1>10. /\ b \in Seq(Nat)
       /\ Len(b) = n - skip
       /\ \A j \in 1 .. n - skip : b[j] = all[skip + j]
  <2>1. rd.skip \in 0 .. Len(all)
    BY <1>1, <1>8, <1>9 DEF n, skip
  <2> QED BY <1>7, <2>1, WithoutFirst DEF n, b, skip
<1>11. pos + Len(b) = MinOf(base + PieceSize, size) /\ b # <<>>
  BY <1>1, <1>2, <1>3, <1>8, <1>9, <1>10
<1>12. \A j \in 1 .. Len(b) : b[j] = pos + j - 1
  <2> SUFFICES ASSUME NEW j \in 1 .. Len(b) PROVE b[j] = pos + j - 1
    OBVIOUS
  <2>1. j \in 1 .. n - skip /\ skip + j \in 1 .. n
    BY <1>1, <1>8, <1>9, <1>10
  <2>2. b[j] = base + (skip + j) - 1
    BY <1>8, <1>10, <2>1
  <2> QED BY <1>1, <1>2, <1>3, <2>1, <2>2
<1> QED
  BY <1>5, <1>6, <1>10, <1>11, <1>12, Zenon DEF base, all, b, pos, skip

LEMMA PiecesFinite == ReadTypeOK => IsFiniteSet(Pieces)
<1> SUFFICES ASSUME ReadTypeOK PROVE IsFiniteSet(Pieces)
  OBVIOUS
<1> DEFINE last == PieceCount - 1 + (IF layout = "chunks" THEN ParityPieces ELSE 0)
<1>1. last \in Int /\ Pieces = 0 .. last
  BY PieceCounts, ReadAssumption DEF Pieces
<1> HIDE DEF last
<1> QED BY <1>1, FS_Interval

LEMMA SomeBad ==
  ASSUME ReadTypeOK, NEW a \in Pieces, a < PieceCount, piece[a] # "good",
         layout = "chunks" => ~Recoverable(a)
  PROVE  Beyond
<1>1. Good \subseteq Pieces /\ a \notin Good /\ DOMAIN piece = Pieces
  BY DEF Good, ReadTypeOK
<1>2. CASE layout = "frames"
  BY <1>1, <1>2 DEF Beyond
<1>3. CASE layout = "chunks" /\ ParityPieces > 0
  <2>1. PieceCount \in Nat /\ IsFiniteSet(Pieces)
    BY PieceCounts, PiecesFinite
  <2>2. Cardinality(Good) \in Nat
    BY <1>1, <2>1, FS_Subset, FS_CardinalityType
  <2> QED BY <1>3, <2>1, <2>2 DEF Beyond, Recoverable
<1>4. CASE layout = "chunks" /\ ParityPieces = 0
  <2>1. PieceCount \in Nat /\ Pieces = 0 .. PieceCount - 1
    BY <1>4, PieceCounts DEF Pieces
  <2>2. IsFiniteSet(Pieces) /\ Cardinality(Pieces) = PieceCount
    <3> DEFINE n == PieceCount - 1
    <3>1. n \in Int /\ Pieces = 0 .. n
      BY <2>1
    <3> HIDE DEF n
    <3>2. IsFiniteSet(0 .. n) /\ Cardinality(0 .. n) = IF 0 > n THEN 0 ELSE n - 0 + 1
      BY <3>1, FS_Interval
    <3> QED BY <2>1, <3>1, <3>2 DEF n
  <2>3. Cardinality(Good) < Cardinality(Pieces)
    <3>1. /\ Cardinality(Good) <= Cardinality(Pieces)
          /\ Cardinality(Pieces) = Cardinality(Good) => Pieces = Good
      BY <1>1, <2>2, FS_Subset
    <3>2. Cardinality(Good) \in Nat /\ Cardinality(Pieces) \in Nat
      BY <1>1, <2>2, FS_Subset, FS_CardinalityType
    <3> QED BY <1>1, <3>1, <3>2
  <2> QED BY <1>4, <2>2, <2>3 DEF Beyond
<1> QED BY <1>2, <1>3, <1>4, ReadAssumption DEF ReadTypeOK

LEMMA LoadResult ==
  ASSUME ReadInv, rd.pc \in {"try", "load"}, NEW r, r = Loaded(rd)
  PROVE  \/ r = Filled(rd)
         \/ /\ r = [rd EXCEPT !.pc = "done"] /\ layout = "frames" /\ Beyond
            /\ \E i \in Pieces : piece[i] = "gone"
         \/ r = [rd EXCEPT !.pc = "error"] /\ Beyond
<1>1. /\ rd.at * PieceSize < size /\ rd.at <= rd.last
      /\ rd.at \in Nat /\ rd.last \in Int /\ rd.left \in Nat /\ rd.left > 0
      /\ rd.at * PieceSize \in Nat /\ size \in Nat
  BY FilledFits, Times DEF ReadInv, ReadTypeOK, Unfinished
<1>2. ReadTypeOK /\ rd.at \in Pieces /\ rd.at < PieceCount
  BY <1>1, PieceCounts DEF ReadInv
<1>3. CASE layout = "chunks"
  BY <1>1, <1>2, <1>3, SomeBad DEF Loaded, LoadChunk, Verified
<1>4. CASE layout = "frames"
  <2>1. ~(rd.left = 0 \/ rd.at * PieceSize >= size)
    BY <1>1
  <2>2. piece[rd.at] # "good" => Beyond
    BY <1>2, <1>4, SomeBad
  <2> QED BY <1>2, <1>4, <2>1, <2>2 DEF Loaded, LoadFrame
<1> QED BY <1>3, <1>4 DEF ReadInv, ReadTypeOK

LEMMA ReadInitInv == ReadInit => ReadInv
<1> SUFFICES ASSUME ReadInit PROVE ReadInv
  OBVIOUS
<1>1. ReadTypeOK
  BY ReadAssumption
     DEF ReadInit, ReadTypeOK, Pieces, PieceState, NoReader, ReaderPc
<1>2. rd.pc = "closed" /\ rd.left = 0 /\ want.off = 0 /\ want.len = 0 /\ out = <<>>
  BY DEF ReadInit, NoReader
<1> QED BY <1>1, <1>2
  DEF ReadInv, ReadTypeOK, Accounted, AtPiece, InPiece, Unfinished, Explained

\* What the parts of the invariant say depends on the disk in few ways.
LEMMA ReadSame ==
  ASSUME ReadTypeOK, UNCHANGED <<layout, size>>
  PROVE  PieceCount' = PieceCount /\ Pieces' = Pieces
BY DEF PieceCount, Pieces

\* Opening for len bytes from off.
LEMMA StartInv ==
  ASSUME ReadInv, rd.pc = "closed", NEW off \in Nat, NEW len \in Nat, off + len <= size,
         NEW pc \in {"try", "load"}, pc = "try" /\ layout = "frames" => off = 0,
         want' = [off |-> off, len |-> len], rd' = Starting(pc, off, len),
         UNCHANGED <<layout, size, piece, out, damage>>
  PROVE  ReadInv'
<1> DEFINE q == off \div PieceSize
           x == off % PieceSize
           l == (off + len - 1) \div PieceSize
<1>1. q \in Nat /\ x \in 0 .. PieceSize - 1 /\ q * PieceSize + x = off
  BY DivMod
<1>2. off = 0 => x = 0
  <2>1. q * PieceSize \in Nat
    BY <1>1, Times
  <2> HIDE DEF q, x
  <2> QED BY <1>1, <2>1
<1>3. l \in Int
  BY ReadAssumption
<1>4. /\ rd' = [pc |-> IF size = 0 \/ len = 0 THEN "done" ELSE pc,
                at |-> q, last |-> l, skip |-> x, left |-> len, buf |-> <<>>]
      /\ LastWanted' = l
  BY DEF Starting, LastWanted
<1>5. x \in Nat /\ x < PieceSize
  BY <1>1, ReadAssumption
<1> HIDE DEF q, x, l
<1>6. out = <<>> /\ Len(out) = 0 /\ size \in Nat /\ ReadTypeOK
  BY DEF ReadInv, Accounted, ReadTypeOK
<1>7. ReadTypeOK'
  <2>1. rd' \in [pc : ReaderPc, at : Nat, last : Int, skip : Nat, left : Nat, buf : Seq(Nat)]
    BY <1>1, <1>3, <1>4, <1>5 DEF ReaderPc
  <2> QED BY <1>6, <2>1, ReadSame DEF ReadTypeOK
<1>8. /\ rd'.left = len /\ rd'.at = q /\ rd'.skip = x /\ rd'.last = l
      /\ rd'.pc = IF size = 0 \/ len = 0 THEN "done" ELSE pc
      /\ want'.off = off /\ want'.len = len /\ out' = <<>> /\ Position' = off
  BY <1>4, <1>6 DEF Position
<1>9. Accounted'
  BY <1>6, <1>8 DEF Accounted
<1>10. AtPiece' /\ InPiece'
  BY <1>1, <1>2, <1>5, <1>8 DEF AtPiece, InPiece
<1>11. Unfinished'
  BY <1>4, <1>8 DEF Unfinished
<1>12. Explained'
  BY <1>6, <1>8 DEF Explained
<1> QED BY <1>7, <1>9, <1>10, <1>11, <1>12 DEF ReadInv

\* A piece that was loaded is there to be served.
LEMMA FilledInv ==
  ASSUME ReadInv, rd.pc \in {"try", "load"}, rd' = Filled(rd),
         UNCHANGED <<layout, size, piece, want, out, damage>>
  PROVE  ReadInv'
<1> DEFINE b == Without(BytesOf(rd.at), rd.skip)
<1>1. /\ b \in Seq(Nat) /\ b # <<>>
      /\ rd.at * PieceSize <= Position
      /\ Position + Len(b) = MinOf(rd.at * PieceSize + PieceSize, size)
      /\ \A j \in 1 .. Len(b) : b[j] = Position + j - 1
  BY FilledFits
<1>2. rd' = [rd EXCEPT !.pc = "serve", !.buf = b, !.skip = 0]
  BY DEF Filled
<1> HIDE DEF b
<1>3. ReadTypeOK /\ rd \in [pc : ReaderPc, at : Nat, last : Int, skip : Nat, left : Nat,
                            buf : Seq(Nat)]
  BY DEF ReadInv, ReadTypeOK
<1>4. /\ rd' \in [pc : ReaderPc, at : Nat, last : Int, skip : Nat, left : Nat, buf : Seq(Nat)]
      /\ rd'.pc = "serve" /\ rd'.buf = b /\ rd'.skip = 0
      /\ rd'.at = rd.at /\ rd'.last = rd.last /\ rd'.left = rd.left
  <2>1. rd' = [pc |-> "serve", at |-> rd.at, last |-> rd.last, skip |-> 0,
               left |-> rd.left, buf |-> b]
    BY <1>2, <1>3
  <2> QED BY <1>1, <1>3, <2>1 DEF ReaderPc
<1>5. ReadTypeOK'
  BY <1>3, <1>4, ReadSame DEF ReadTypeOK
<1>6. Position' = Position /\ LastWanted' = LastWanted
  BY DEF Position, LastWanted
<1>7. Accounted'
  BY <1>4 DEF ReadInv, Accounted
<1>8. InPiece'
  BY <1>1, <1>4, <1>6, Zenon DEF InPiece
<1>9. AtPiece' /\ Explained'
  BY <1>4 DEF AtPiece, Explained
<1>10. Unfinished'
  BY <1>4, <1>6 DEF ReadInv, Unfinished
<1> QED BY <1>5, <1>7, <1>8, <1>9, <1>10 DEF ReadInv

\* A reader that stops keeps its account; the disk explains why it stopped.
LEMMA StopInv ==
  ASSUME ReadInv, NEW pc \in {"done", "error", "refused"}, rd' = [rd EXCEPT !.pc = pc],
         pc = "done" => layout = "frames" /\ \E i \in Pieces : piece[i] = "gone",
         pc \in {"error", "refused"} => Beyond,
         UNCHANGED <<layout, size, piece, want, out, damage>>
  PROVE  ReadInv'
<1>1. ReadTypeOK /\ rd \in [pc : ReaderPc, at : Nat, last : Int, skip : Nat, left : Nat,
                            buf : Seq(Nat)]
  BY DEF ReadInv, ReadTypeOK
<1>2. /\ rd' \in [pc : ReaderPc, at : Nat, last : Int, skip : Nat, left : Nat, buf : Seq(Nat)]
      /\ rd'.pc = pc /\ rd'.left = rd.left
  BY <1>1 DEF ReaderPc
<1>3. ReadTypeOK' /\ Pieces' = Pieces /\ PieceCount' = PieceCount
  BY <1>1, <1>2, ReadSame DEF ReadTypeOK
<1>4. Beyond' <=> Beyond
  BY <1>3 DEF Beyond, Good
<1>5. Accounted'
  BY <1>2 DEF ReadInv, Accounted
<1>6. AtPiece' /\ InPiece' /\ Unfinished'
  BY <1>2 DEF AtPiece, InPiece, Unfinished
<1>7. Explained'
  BY <1>2, <1>3, <1>4 DEF Explained
<1> QED BY <1>3, <1>5, <1>6, <1>7 DEF ReadInv

LEMMA LoadInv == ReadInv /\ LoadPiece => ReadInv'
<1> SUFFICES ASSUME ReadInv, LoadPiece PROVE ReadInv'
  OBVIOUS
<1>1. rd.pc = "load" /\ rd' = Loaded(rd) /\ UNCHANGED <<layout, size, piece, want, out, damage>>
  BY DEF LoadPiece
<1>2. \/ rd' = Filled(rd)
      \/ /\ rd' = [rd EXCEPT !.pc = "done"] /\ layout = "frames"
         /\ \E i \in Pieces : piece[i] = "gone"
      \/ rd' = [rd EXCEPT !.pc = "error"] /\ Beyond
  BY <1>1, LoadResult
<1> QED BY <1>1, <1>2, FilledInv, StopInv

\* A reader of frames that is tried out is set back to where it stood.
LEMMA PreflightInv == ReadInv /\ Preflight => ReadInv'
<1> SUFFICES ASSUME ReadInv, Preflight PROVE ReadInv'
  OBVIOUS
<1> DEFINE r == Loaded(rd)
<1>1. rd.pc = "try" /\ rd' = Rewound(r) /\ UNCHANGED <<layout, size, piece, want, out, damage>>
  BY DEF Preflight
<1>2. \/ r = Filled(rd)
      \/ r = [rd EXCEPT !.pc = "done"] /\ Beyond
      \/ r = [rd EXCEPT !.pc = "error"] /\ Beyond
  BY <1>1, LoadResult
<1> HIDE DEF r
<1>3. rd \in [pc : ReaderPc, at : Nat, last : Int, skip : Nat, left : Nat, buf : Seq(Nat)]
  BY DEF ReadInv, ReadTypeOK
<1>4. CASE r = Filled(rd)
  <2>1. /\ r.pc = "serve" /\ r.at = rd.at
        /\ r.buf = Without(BytesOf(rd.at), rd.skip)
        /\ r \in [pc : {"serve"}, at : {rd.at}, last : {rd.last}, skip : {0}, left : {rd.left},
                  buf : {r.buf}]
    BY <1>3, <1>4 DEF Filled
  <2>2. CASE layout = "frames"
    <3>1. rd.skip = 0
      BY <1>1, <2>2 DEF ReadInv, AtPiece
    <3>2. Without(BytesOf(rd.at), 0) = BytesOf(rd.at)
      <4>1. rd.at * PieceSize < size /\ ReadTypeOK /\ rd.at \in Nat
        BY <1>1, <1>3, FilledFits DEF ReadInv
      <4>2. BytesOf(rd.at) \in Seq(Nat)
        BY <4>1, BytesOfPiece
      <4> QED BY <4>2 DEF Without
    <3>3. rd' = [r EXCEPT !.buf = BytesOf(rd.at)]
      BY <1>1, <2>1, <2>2 DEF Rewound
    <3>4. rd' = r
      BY <2>1, <3>1, <3>2, <3>3
    <3> QED BY <1>1, <1>4, <3>4, FilledInv
  <2>3. CASE layout # "frames"
    <3>1. rd' = r
      BY <1>1, <2>1, <2>3 DEF Rewound
    <3> QED BY <1>1, <1>4, <3>1, FilledInv
  <2> QED BY <2>2, <2>3
<1>5. CASE \E pc \in {"done", "error"} : r = [rd EXCEPT !.pc = pc] /\ Beyond
  <2>1. PICK pc \in {"done", "error"} : r = [rd EXCEPT !.pc = pc] /\ Beyond
    BY <1>5
  <2>2. r.pc = pc /\ [r EXCEPT !.pc = "refused"] = [rd EXCEPT !.pc = "refused"]
    BY <1>3, <2>1
  <2>3. rd' = [rd EXCEPT !.pc = "refused"]
    BY <1>1, <2>2 DEF Rewound
  <2> QED BY <1>1, <2>1, <2>3, StopInv
<1> QED BY <1>2, <1>4, <1>5

\* Serving k bytes moves the reader k bytes on, into the next piece at its end.
LEMMA ServeInv ==
  ASSUME ReadInv, NEW n \in {1, PieceSize}, Serve(n)
  PROVE  ReadInv'
<1> DEFINE k == Taken(n)
           buf == rd.buf
           rest == Without(rd.buf, k)
           base == rd.at * PieceSize
           pos == Position
           left == rd.left
           took == SubSeq(rd.buf, 1, k)
<1>1. /\ ReadTypeOK
      /\ rd \in [pc : ReaderPc, at : Nat, last : Int, skip : Nat, left : Nat, buf : Seq(Nat)]
      /\ want.off \in Nat /\ want.len \in Nat /\ out \in Seq(Nat) /\ size \in Nat
      /\ rd.pc = "serve"
  BY DEF ReadInv, ReadTypeOK, Serve
<1>2. /\ base \in Nat /\ pos \in Nat
  <2>1. base \in Nat
    BY <1>1, Times
  <2> HIDE DEF base
  <2> QED BY <1>1, <2>1 DEF Position
<1>3. /\ rd.skip = 0 /\ base <= pos
      /\ pos + Len(buf) = MinOf(base + PieceSize, size)
      /\ Len(buf) > 0
      /\ \A j \in 1 .. Len(buf) : buf[j] = pos + j - 1
  BY <1>1 DEF ReadInv, InPiece
<1>4. left \in Nat /\ left > 0
  BY <1>1 DEF ReadInv, Unfinished
<1>5. k \in Nat /\ k > 0 /\ k <= Len(buf) /\ k <= left
  <2> HIDE DEF base, pos
  <2> DEFINE m == Len(buf)
  <2>1. m \in Nat /\ m > 0 /\ n \in Nat /\ n > 0 /\ k = MinOf(n, MinOf(m, left))
    BY <1>1, <1>3, ReadAssumption DEF Taken
  <2> HIDE DEF m, k, left
  <2>2. k \in Nat /\ k > 0 /\ k <= m /\ k <= left
    BY <1>4, <2>1 DEF MinOf
  <2> QED BY <2>2 DEF m
<1>6. /\ rest \in Seq(Nat) /\ Len(rest) = Len(buf) - k
      /\ \A j \in 1 .. Len(buf) - k : rest[j] = buf[k + j]
  <2> HIDE DEF k, base, pos, left
  <2> QED BY <1>1, <1>5, WithoutFirst
<1>7. /\ took \in Seq(Nat) /\ Len(took) = k
      /\ \A j \in 1 .. k : took[j] = buf[j]
  <2> HIDE DEF k, base, pos, left
  <2> QED BY <1>1, <1>5, TakenFirst
<1>8. /\ out' = out \o took
      /\ rd' = [rd EXCEPT !.buf = rest, !.left = left - k,
                          !.pc = IF left = k THEN "done" ELSE IF rest = <<>> THEN "load"
                                 ELSE "serve",
                          !.at = IF rest = <<>> THEN rd.at + 1 ELSE rd.at]
      /\ UNCHANGED <<layout, size, piece, want, damage>>
  BY <1>1 DEF Serve
<1> HIDE DEF k, rest, took, base, pos
<1>9. /\ rd' \in [pc : ReaderPc, at : Nat, last : Int, skip : Nat, left : Nat, buf : Seq(Nat)]
      /\ rd'.pc = IF left = k THEN "done" ELSE IF rest = <<>> THEN "load" ELSE "serve"
      /\ rd'.at = IF rest = <<>> THEN rd.at + 1 ELSE rd.at
      /\ rd'.left = left - k /\ rd'.skip = rd.skip /\ rd'.last = rd.last /\ rd'.buf = rest
  <2>1. rd' = [pc |-> IF left = k THEN "done" ELSE IF rest = <<>> THEN "load" ELSE "serve",
               at |-> IF rest = <<>> THEN rd.at + 1 ELSE rd.at,
               last |-> rd.last, skip |-> rd.skip, left |-> left - k, buf |-> rest]
    BY <1>1, <1>8
  <2>2. left - k \in Nat
    BY <1>4, <1>5
  <2> HIDE DEF left
  <2> QED BY <1>1, <1>6, <2>1, <2>2 DEF ReaderPc
<1>10. /\ out' \in Seq(Nat) /\ Len(out') = Len(out) + k
       /\ \A j \in 1 .. Len(out) + k :
            out'[j] = IF j <= Len(out) THEN out[j] ELSE took[j - Len(out)]
  BY <1>1, <1>7, <1>8, ConcatProperties
<1>11. ReadTypeOK'
  BY <1>1, <1>8, <1>9, <1>10, ReadSame DEF ReadTypeOK
<1>12. Position' = pos + k /\ LastWanted' = LastWanted
  <2>1. Position' = want.off + Len(out) + k
    BY <1>1, <1>5, <1>8, <1>10 DEF Position
  <2> QED BY <1>1, <1>5, <1>8, <2>1 DEF Position, pos, LastWanted
<1> DEFINE o == want.off
           c == Len(out)
           l == want.len
           m == Len(buf)
<1>13. /\ o \in Nat /\ c \in Nat /\ l \in Nat /\ m \in Nat /\ pos = o + c
       /\ left + c = l /\ o + l <= size
       /\ \A j \in 1 .. c : out[j] = o + j - 1
       /\ PieceSize \in Nat
  BY <1>1, ReadAssumption DEF ReadInv, Accounted, Position, pos
<1>14. /\ Len(out') = c + k /\ want'.off = o /\ want'.len = l /\ size' = size
       /\ Len(rest) = m - k /\ k <= m /\ rd'.left = left - k
       /\ pos + m = MinOf(base + PieceSize, size)
  BY <1>3, <1>5, <1>6, <1>8, <1>9, <1>10
<1>15. \A j \in 1 .. c + k : out'[j] = o + j - 1
  <2> SUFFICES ASSUME NEW j \in 1 .. c + k PROVE out'[j] = o + j - 1
    OBVIOUS
  <2>1. CASE j <= c
    <3>1. out'[j] = out[j]
      BY <1>5, <1>10, <1>13, <2>1
    <3> HIDE DEF o, c
    <3> QED BY <1>13, <2>1, <3>1
  <2>2. CASE j > c
    <3>1. out'[j] = took[j - c]
      BY <1>5, <1>10, <1>13, <2>2
    <3> HIDE DEF o, c, m
    <3>2. j - c \in 1 .. k /\ j - c \in 1 .. m
      BY <1>5, <1>13, <1>14, <2>2
    <3>3. took[j - c] = pos + (j - c) - 1
      BY <1>3, <1>7, <3>2 DEF m
    <3> QED BY <1>13, <3>1, <3>2, <3>3
  <2> QED BY <1>13, <1>5, <2>1, <2>2
<1> HIDE DEF o, c, l, m, left
<1>16. Accounted'
  <2>1. /\ want'.off + want'.len <= size'
        /\ rd'.left + Len(out') = want'.len
        /\ rd'.pc \notin {"closed", "try"}
    BY <1>4, <1>5, <1>9, <1>13, <1>14
  <2> QED BY <1>14, <1>15, <2>1 DEF Accounted
<1>17. Unfinished'
  <2>1. left # k => left - k > 0
    BY <1>4, <1>5
  <2> QED BY <1>1, <1>9, <1>12, <2>1 DEF ReadInv, Unfinished
<1>18. InPiece'
  <2> SUFFICES ASSUME rd'.pc = "serve"
      PROVE /\ rd'.skip = 0
            /\ rd'.at * PieceSize <= Position'
            /\ Position' + Len(rd'.buf) = MinOf(rd'.at * PieceSize + PieceSize, size')
            /\ rd'.buf # <<>>
            /\ \A j \in 1 .. Len(rd'.buf) : rd'.buf[j] = Position' + j - 1
    BY DEF InPiece
  <2>1. rest # <<>> /\ rd'.at = rd.at /\ rd'.buf = rest /\ rd'.skip = 0
    BY <1>3, <1>9
  <2>2. base <= pos + k /\ (pos + k) + (m - k) = pos + m
    BY <1>2, <1>3, <1>5, <1>13
  <2>3. \A j \in 1 .. m - k : rest[j] = pos + k + j - 1
    <3> SUFFICES ASSUME NEW j \in 1 .. m - k PROVE rest[j] = pos + k + j - 1
      OBVIOUS
    <3>1. k + j \in 1 .. m
      BY <1>5, <1>13, <1>14
    <3>2. rest[j] = pos + (k + j) - 1
      BY <1>3, <1>6, <3>1 DEF m
    <3> QED BY <1>2, <1>5, <1>13, <3>2
  <2>4. rd'.at * PieceSize = base
    BY <2>1 DEF base
  <2> QED BY <1>12, <1>14, <2>1, <2>2, <2>3, <2>4
<1>19. AtPiece'
  <2> SUFFICES ASSUME rd'.pc = "load"
      PROVE rd'.at * PieceSize + rd'.skip = Position' /\ rd'.skip < PieceSize
    BY <1>9 DEF AtPiece
  <2>1. rest = <<>> /\ left # k /\ rd'.at = rd.at + 1 /\ rd'.skip = 0
    BY <1>3, <1>9
  <2>2. m = k
    <3>1. m - k = 0
      BY <1>14, <2>1
    <3> QED BY <1>5, <1>13, <3>1
  <2>3. pos + k < size
    <3>1. size \in Nat /\ k < left
      BY <1>1, <1>4, <1>5, <2>1
    <3> QED BY <1>4, <1>5, <1>13, <3>1
  <2>4. pos + k = base + PieceSize
    BY <1>1, <1>2, <1>13, <1>14, <2>2, <2>3 DEF MinOf
  <2>5. rd'.at * PieceSize = base + PieceSize
    BY <1>1, <2>1, Times DEF base
  <2> QED BY <1>2, <1>12, <1>13, <2>1, <2>4, <2>5, ReadAssumption
<1>20. Explained'
  <2>1. rd'.pc = "done" => Len(out') = want'.len
    BY <1>4, <1>5, <1>9, <1>13, <1>14
  <2>2. rd'.pc \notin {"error", "refused"}
    BY <1>9
  <2> QED BY <1>13, <1>14, <2>1, <2>2 DEF Explained
<1> QED BY <1>11, <1>16, <1>17, <1>18, <1>19, <1>20 DEF ReadInv

\* Damage takes good pieces away and brings none back.
LEMMA DamageInv ==
  ASSUME ReadInv, NEW i \in DOMAIN piece, NEW how \in {"bad", "cut", "gone"}, Damage(i, how)
  PROVE  ReadInv'
<1>1. ReadTypeOK /\ UNCHANGED <<layout, size, want, rd, out>>
  BY DEF ReadInv, Damage
<1>2. Pieces' = Pieces /\ PieceCount' = PieceCount
  BY <1>1, ReadSame
<1>3. /\ piece' \in [Pieces -> PieceState]
      /\ \A j \in Pieces : piece[j] = "gone" => piece'[j] = "gone"
      /\ \A j \in Pieces : piece'[j] = "good" => piece[j] = "good"
  BY <1>1 DEF Damage, ReadTypeOK, PieceState
<1>4. ReadTypeOK'
  BY <1>1, <1>2, <1>3 DEF ReadTypeOK
<1>5. Beyond => Beyond'
  <2>1. Good' \subseteq Good /\ Good \subseteq Pieces /\ DOMAIN piece = Pieces /\ DOMAIN piece' = Pieces
    BY <1>1, <1>3 DEF Good, ReadTypeOK
  <2>2. IsFiniteSet(Pieces) /\ PieceCount \in Nat
    BY <1>1, PiecesFinite, PieceCounts
  <2>3. IsFiniteSet(Good) /\ IsFiniteSet(Good')
    BY <2>1, <2>2, FS_Subset
  <2>4. Cardinality(Good') <= Cardinality(Good)
    BY <2>1, <2>3, FS_Subset
  <2>5. Cardinality(Good') \in Nat /\ Cardinality(Good) \in Nat
    BY <2>3, FS_CardinalityType
  <2>6. CASE layout = "frames"
    BY <1>1, <2>1, <2>6 DEF Beyond
  <2>7. CASE layout # "frames"
    BY <1>1, <1>2, <2>2, <2>4, <2>5, <2>7 DEF Beyond
  <2> QED BY <2>6, <2>7
<1>6. Position' = Position /\ LastWanted' = LastWanted
  BY <1>1 DEF Position, LastWanted
<1>7. Accounted' /\ Unfinished'
  BY <1>1, <1>6 DEF ReadInv, Accounted, Unfinished
<1>8. AtPiece' /\ InPiece'
  BY <1>1, <1>6 DEF ReadInv, AtPiece, InPiece
<1>9. Explained'
  BY <1>1, <1>2, <1>3, <1>5 DEF ReadInv, Explained
<1> QED BY <1>4, <1>7, <1>8, <1>9 DEF ReadInv

LEMMA OpenInv ==
  ASSUME ReadInv,
         \/ \E off \in 0 .. MaxBytes, len \in 0 .. MaxBytes : Open(off, len)
         \/ OpenAll
  PROVE  ReadInv'
<1>1. size \in Nat /\ layout \in {"frames", "chunks"}
  BY DEF ReadInv, ReadTypeOK
<1>2. ASSUME NEW off \in 0 .. MaxBytes, NEW len \in 0 .. MaxBytes, Open(off, len)
      PROVE  ReadInv'
  <2>1. off \in Nat /\ len \in Nat
    BY ReadAssumption
  <2>2. PICK pc \in {"try", "load"} :
          rd' = Starting(pc, off, len) /\ (pc = "try" => layout # "frames")
    BY <1>2 DEF Open, Opened, ForRange
  <2> QED BY <1>2, <2>1, <2>2, StartInv DEF Open
<1>3. CASE OpenAll
  <2>1. rd' = Starting("try", 0, size)
    BY <1>3 DEF OpenAll, Opened
  <2>2. /\ rd.pc = "closed" /\ want' = [off |-> 0, len |-> size]
        /\ UNCHANGED <<layout, size, piece, out, damage>>
    BY <1>3 DEF OpenAll
  <2>3. 0 \in Nat /\ size \in Nat /\ 0 + size <= size
    BY <1>1
  <2> QED BY <2>1, <2>2, <2>3, StartInv
<1> QED BY <1>2, <1>3

LEMMA ReadNextInv == ReadInv /\ [ReadNext]_readVars => ReadInv'
<1> SUFFICES ASSUME ReadInv, [ReadNext]_readVars PROVE ReadInv'
  OBVIOUS
<1>1. CASE UNCHANGED readVars
  <2>1. ReadTypeOK /\ UNCHANGED <<layout, size, piece, want, rd, out>>
    BY <1>1 DEF ReadInv, readVars
  <2>2. Pieces' = Pieces /\ PieceCount' = PieceCount
    BY <2>1, ReadSame
  <2>3. (Beyond' <=> Beyond) /\ Position' = Position /\ LastWanted' = LastWanted
    BY <2>1, <2>2 DEF Beyond, Good, Position, LastWanted
  <2>4. ReadTypeOK'
    BY <2>1, <2>2 DEF ReadTypeOK
  <2>5. Accounted' /\ Unfinished' /\ Explained'
    BY <2>1, <2>2, <2>3 DEF ReadInv, Accounted, Unfinished, Explained
  <2>6. AtPiece' /\ InPiece'
    BY <2>1, <2>3 DEF ReadInv, AtPiece, InPiece
  <2> QED BY <2>4, <2>5, <2>6 DEF ReadInv
<1> QED BY <1>1, OpenInv, LoadInv, PreflightInv, ServeInv, DamageInv DEF ReadNext

\* Whatever the size of the object and of its pieces, the range asked for, the
\* consumer's reads and the damage done meanwhile, FrameDecryptor and
\* VerifiedChunkReader deliver a beginning of the bytes asked for; short streams
\* come from a file cut between two frames, errors from damage beyond repair.
THEOREM StreamsAreSlices == ReadSpec => []StreamIsSlice
<1>1. ReadInv => StreamIsSlice
  <2> SUFFICES ASSUME ReadInv PROVE StreamIsSlice
    OBVIOUS
  <2>1. /\ rd.left \in Nat /\ want.len \in Nat /\ out \in Seq(Nat)
        /\ rd.left + Len(out) = want.len /\ DOMAIN piece = Pieces
    BY DEF ReadInv, ReadTypeOK, Accounted
  <2>2. Len(out) <= want.len
    BY <2>1
  <2> QED BY <2>1, <2>2 DEF ReadInv, Accounted, Explained, StreamIsSlice
<1> QED BY <1>1, ReadInitInv, ReadNextInv, PTL DEF ReadSpec
=============================================================================
