------------------------------ MODULE FrameRead ------------------------------
(***************************************************************************)
(* Reading an object that is stored in pieces: encrypted frames of one     *)
(* file (FrameDecryptor) or chunk files with Reed-Solomon parity           *)
(* (VerifiedChunkReader).  A byte is its position in the object; the disk  *)
(* may be damaged while the reader is at work.                             *)
(***************************************************************************)
EXTENDS Naturals, Sequences, FiniteSets

CONSTANTS
  PieceSize,     \* FRAME_CHUNK_SIZE, or the chunk size of the manifest
  MaxBytes,      \* bound on the size of the object
  ParityPieces,  \* parity shards of a chunked object
  MaxDamage      \* bound on pieces that go bad

ASSUME ReadAssumption ==
  /\ PieceSize \in Nat \ {0} /\ MaxBytes \in Nat
  /\ ParityPieces \in Nat /\ MaxDamage \in Nat

VARIABLES
  layout,        \* "frames" or "chunks"
  size,          \* bytes of the object
  piece,         \* piece -> "good", "bad", "cut" (the file ends in it), "gone"
  want,          \* the request: [off, len]
  rd,            \* the reader: [pc, at, last, skip, left, buf]
  out,           \* bytes given to the consumer
  damage

readVars == <<layout, size, piece, want, rd, out, damage>>

MinOf(a, b) == IF a < b THEN a ELSE b

\* encrypt_current_chunk and the chunk writer: pieces are full, but for the last.
PieceCount == (size + PieceSize - 1) \div PieceSize
BytesOf(i) ==
  [j \in 1 .. MinOf(PieceSize, size - i * PieceSize) |-> i * PieceSize + j - 1]
Good == {i \in DOMAIN piece : piece[i] = "good"}

NoReader == [pc |-> "closed", at |-> 0, last |-> 0, skip |-> 0, left |-> 0, buf |-> <<>>]

ReadInit ==
  /\ layout \in {"frames", "chunks"} /\ size \in 0 .. MaxBytes
  /\ piece = [i \in 0 .. PieceCount - 1 + (IF layout = "chunks" THEN ParityPieces ELSE 0)
                |-> "good"]
  /\ want = [off |-> 0, len |-> 0] /\ rd = NoReader /\ out = <<>> /\ damage = 0

-----------------------------------------------------------------------------
(* Opening: the whole object, or len > 0 bytes from off within it.          *)

Starting(pc, off, len) ==
  [pc |-> IF size = 0 \/ len = 0 THEN "done" ELSE pc,
   at |-> off \div PieceSize, last |-> (off + len - 1) \div PieceSize,
   skip |-> off % PieceSize, left |-> len, buf |-> <<>>]

\* Mutant: a ranged decryptor is tried out before the response as a whole one is.
RangedPreflight(off, len) == Starting("try", off, len)

\* FrameDecryptor::for_range: nothing is read before the response starts.
ForRange(off, len) == Starting("load", off, len)

\* The reader of a response and whether its first piece is tried before.
Opened(off, len, whole) ==
  IF layout = "frames" /\ ~whole THEN ForRange(off, len) ELSE Starting("try", off, len)

Open(off, len) ==
  /\ rd.pc = "closed" /\ off + len <= size
  /\ len > 0 \/ (off = 0 /\ size = 0)
  /\ want' = [off |-> off, len |-> len]
  /\ rd' = Opened(off, len, FALSE)
  /\ UNCHANGED <<layout, size, piece, out, damage>>

OpenAll ==
  /\ rd.pc = "closed"
  /\ want' = [off |-> 0, len |-> size]
  /\ rd' = Opened(0, size, TRUE)
  /\ UNCHANGED <<layout, size, piece, out, damage>>

-----------------------------------------------------------------------------
(* Loading the next piece.                                                  *)

Without(bs, n) == SubSeq(bs, n + 1, Len(bs))

\* load_chunk_sync: what is read has the manifest's size and SHA-256.
Verified(i) == piece[i] = "good"

\* try_reconstruct_data_chunk counts the verified shards.
Recoverable(i) == ParityPieces > 0 /\ Cardinality(Good) >= PieceCount

Filled(r) == [r EXCEPT !.pc = "serve", !.buf = Without(BytesOf(r.at), r.skip), !.skip = 0]

LoadChunk(r) ==
  IF r.at > r.last \/ r.left = 0 THEN [r EXCEPT !.pc = "done"]
  ELSE IF Verified(r.at) \/ Recoverable(r.at) THEN Filled(r)
  ELSE [r EXCEPT !.pc = "error"]

\* A frame is authenticated as a whole; the end of the file between two frames is
\* the end of the stream.
LoadFrame(r) ==
  IF r.left = 0 \/ r.at * PieceSize >= size \/ piece[r.at] = "gone"
  THEN [r EXCEPT !.pc = "done"]
  ELSE IF piece[r.at] = "good" THEN Filled(r)
  ELSE [r EXCEPT !.pc = "error"]

Loaded(r) == IF layout = "chunks" THEN LoadChunk(r) ELSE LoadFrame(r)

LoadPiece ==
  /\ rd.pc = "load"
  /\ rd' = Loaded(rd)
  /\ UNCHANGED <<layout, size, piece, want, out, damage>>

\* preflight: an error, or nothing to read, is answered with an error status.  The
\* frame decryptor gets there by reading a byte and setting its cursor back to the
\* start of the frame.
Rewound(r) ==
  IF r.pc \in {"error", "done"} THEN [r EXCEPT !.pc = "refused"]
  ELSE IF layout = "frames" THEN [r EXCEPT !.buf = BytesOf(r.at)]
  ELSE r

Preflight ==
  /\ rd.pc = "try"
  /\ rd' = Rewound(Loaded(rd))
  /\ UNCHANGED <<layout, size, piece, want, out, damage>>

-----------------------------------------------------------------------------
(* poll_read: the consumer takes up to n bytes of what was loaded.          *)

Taken(n) == MinOf(n, MinOf(Len(rd.buf), rd.left))

Serve(n) ==
  LET k == Taken(n)
      rest == Without(rd.buf, k) IN
    /\ rd.pc = "serve"
    /\ out' = out \o SubSeq(rd.buf, 1, k)
    /\ rd' = [rd EXCEPT !.buf = rest, !.left = @ - k,
                        !.pc = IF rd.left = k THEN "done" ELSE IF rest = <<>> THEN "load" ELSE @,
                        !.at = IF rest = <<>> THEN @ + 1 ELSE @]
    /\ UNCHANGED <<layout, size, piece, want, damage>>

\* The disk loses or changes a piece; a file of frames may end early.
Damage(i, how) ==
  /\ damage < MaxDamage /\ damage' = damage + 1 /\ piece[i] = "good"
  /\ how = "cut" => layout = "frames"
  /\ piece' = [j \in DOMAIN piece |->
                 IF j = i THEN how
                 ELSE IF j > i /\ layout = "frames" /\ how \in {"cut", "gone"} THEN "gone"
                 ELSE piece[j]]
  /\ UNCHANGED <<layout, size, want, rd, out>>

ReadNext ==
  \/ \E off \in 0 .. MaxBytes, len \in 0 .. MaxBytes : Open(off, len)
  \/ OpenAll \/ LoadPiece \/ Preflight
  \/ \E n \in {1, PieceSize} : Serve(n)
  \/ \E i \in DOMAIN piece, how \in {"bad", "cut", "gone"} : Damage(i, how)

ReadSpec == ReadInit /\ [][ReadNext]_readVars

-----------------------------------------------------------------------------
(* Properties.                                                              *)

Beyond == IF layout = "frames" THEN Good # DOMAIN piece ELSE Cardinality(Good) < PieceCount

\* Whatever is damaged and whenever, the consumer is given a beginning of the
\* bytes it asked for and nothing else.  Only the file of frames that ends between two
\* frames makes a stream stop early without an error, and only damage beyond what
\* the parity repairs makes it fail.
StreamIsSlice ==
  /\ Len(out) <= want.len
  /\ \A j \in 1 .. Len(out) : out[j] = want.off + j - 1
  /\ rd.pc = "done" /\ Len(out) < want.len =>
       layout = "frames" /\ \E i \in DOMAIN piece : piece[i] = "gone"
  /\ rd.pc \in {"error", "refused"} => Beyond
=============================================================================
