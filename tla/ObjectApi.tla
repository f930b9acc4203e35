------------------------------ MODULE ObjectApi ------------------------------
(***************************************************************************)
(* The handlers of the S3 object API.  A handler makes several calls of    *)
(* the storage backend and other requests come in between; one call is one *)
(* step here (ObjectPublish looks inside them).  An object is the number   *)
(* of its content, which stands for the ETag, too.  Tags and locks rewrite *)
(* the sidecar in place, which takes two steps: cut to nothing, then fill. *)
(***************************************************************************)
EXTENDS Integers, Sequences, FiniteSets

CONSTANTS
  ApiKey,        \* keys of the bucket
  Reader, Writer,\* requests that look and requests that change, each made once
  Sizes,         \* content -> its size; as many contents as there are
  PartSizes,     \* content -> sizes of the parts it was uploaded in, or <<>>
  Modified,      \* content -> when it was stored
  Ranges,        \* range headers: [kind, from, to]
  Conditions,    \* conditional headers: [match, none, since, unsince], 0 if absent
  Denied,        \* keys the caller may not delete
  DefaultSse,    \* the bucket encrypts by default
  ObjectLimit,   \* MAXIO_MAX_OBJECT_SIZE
  OffsetLimit    \* offsets are below it: 2^64

Content == 1 .. Len(Sizes)
Nothing == 0
NoRange == [kind |-> "none", from |-> 0, to |-> 0]
NoCondition == [match |-> 0, none |-> 0, since |-> 0, unsince |-> 0]

ASSUME ApiAssumption ==
  /\ Sizes \in Seq(Nat) /\ Sizes # <<>>
  /\ Len(PartSizes) = Len(Sizes) /\ Len(Modified) = Len(Sizes)
  /\ Ranges \subseteq [kind : {"explicit", "suffix", "open", "part"}, from : Nat, to : Nat]
  /\ ApiKey # {} /\ Reader \intersect Writer = {} /\ Denied \subseteq ApiKey
  /\ DefaultSse \in BOOLEAN /\ ObjectLimit \in Nat
  /\ OffsetLimit \in Nat /\ \A c \in Content : Sizes[c] < OffsetLimit

VARIABLES
  payload,       \* key -> content of its payload, or Nothing
  sidecar,       \* key -> [etag, tagged, locked, sealed]
  text,          \* key -> its sidecar file is "whole" (or absent), "cut" or "garbled"
  call,          \* request -> what it is doing
  reply,         \* request -> its answer
  orphan,        \* requests that have a sidecar file open which is not the key's any more
  stirred,       \* history: requests whose object changed since they looked at it, or
                 \* that met its sidecar half written
  mixed,         \* history: keys whose sidecar was written back over a newer one
  worn           \* history: keys where two such writes overlapped or one broke off

store == <<payload, sidecar, text, orphan, mixed, worn>>
apiVars == <<store, call, reply, stirred>>

Request == Reader \union Writer
NoSpan == [from |-> 0, length |-> 0]
NoSidecar == [etag |-> Nothing, tagged |-> FALSE, locked |-> FALSE, sealed |-> FALSE]
NoCall == [pc |-> "new", op |-> "none", key |-> CHOOSE k \in ApiKey : TRUE,
           to |-> CHOOSE k \in ApiKey : TRUE, range |-> NoSpan,
           asked |-> NoRange, cond |-> NoCondition, meta |-> NoSidecar, body |-> Nothing, sealed |-> FALSE, left |-> {}]
\* etag: the content the headers name; body: the content that was read; last: the
\* last byte Content-Range names.
NoReply == [status |-> 0, etag |-> Nothing, body |-> Nothing, asked |-> NoRange,
            bytes |-> {}, last |-> 0, keys |-> {}, deleted |-> {}, failed |-> {}]

ApiInit ==
  /\ payload = [k \in ApiKey |-> 1]
  /\ sidecar = [k \in ApiKey |-> [NoSidecar EXCEPT !.etag = 1, !.sealed = DefaultSse]]
  /\ text = [k \in ApiKey |-> "whole"]
  /\ call = [r \in Request |-> NoCall]
  /\ reply = [r \in Request |-> NoReply]
  /\ orphan = {} /\ stirred = {} /\ mixed = {} /\ worn = {}

Exists(k) == sidecar[k].etag # Nothing
Parses(k) == text[k] = "whole"

\* The steps of a request: it goes on, or it is answered.
Goes(r, c) == call' = [call EXCEPT ![r] = c] /\ UNCHANGED reply
Replies(r, a) ==
  /\ call' = [call EXCEPT ![r] = [NoCall EXCEPT !.pc = "done", !.op = call[r].op]]
  /\ reply' = [reply EXCEPT ![r] = a]
Status(r, s) == Replies(r, [NoReply EXCEPT !.status = s])

\* Requests about to rewrite the sidecar of k that have it open.
Filling(k) == {q \in Writer : call[q].pc = "fill" /\ call[q].key = k} \ orphan

\* The two files of k are replaced or removed: an open file is nobody's now.
Stirs(k) ==
  /\ stirred' = stirred \union
       {q \in Request : call[q].pc \in {"open", "source", "amend", "fill"} /\ call[q].key = k}
  /\ orphan' = orphan \union Filling(k)
  /\ text' = [text EXCEPT ![k] = "whole"]
  /\ mixed' = mixed \ {k} /\ worn' = worn \ {k}
Same == UNCHANGED store
Unstirred == Same /\ UNCHANGED stirred
\* A look at a key: the first, when its two files may be mixed already, or another.
Looks(r, k) ==
  Same /\ stirred' = IF k \in mixed \/ ~Parses(k) THEN stirred \union {r} ELSE stirred
LooksAgain(r, k) == Same /\ stirred' = IF Parses(k) THEN stirred ELSE stirred \union {r}

-----------------------------------------------------------------------------
(* Conditional headers and ranges.                                          *)

\* check_conditions: If-Match before If-Unmodified-Since, If-None-Match before
\* If-Modified-Since.
CheckConditions(c, m) ==
  IF c.match # 0 /\ c.match # m.etag THEN 412
  ELSE IF c.match = 0 /\ c.unsince # 0 /\ Modified[m.etag] > c.unsince THEN 412
  ELSE IF c.none # 0 /\ c.none = m.etag THEN 304
  ELSE IF c.none = 0 /\ c.since # 0 /\ Modified[m.etag] <= c.since THEN 304
  ELSE 200

\* The first and last byte, or <<>> if the range cannot be satisfied.
\* Mutant: the last byte is cut to the size, not to the byte before.
ParseRangeToSize(g, size) ==
  IF size = 0 THEN <<>>
  ELSE IF g.kind = "suffix"
    THEN IF g.to = 0 THEN <<>> ELSE <<IF size > g.to THEN size - g.to ELSE 0, size - 1>>
  ELSE IF g.from >= size THEN <<>>
  ELSE IF g.kind = "open" THEN <<g.from, size - 1>>
  ELSE LET last == IF g.to < size THEN g.to ELSE size
       IN  IF g.from > last THEN <<>> ELSE <<g.from, last>>

\* parse_range.
ParseRange(g, size) ==
  IF size = 0 THEN <<>>
  ELSE IF g.kind = "suffix"
    THEN IF g.to = 0 THEN <<>> ELSE <<IF size > g.to THEN size - g.to ELSE 0, size - 1>>
  ELSE IF g.from >= size THEN <<>>
  ELSE IF g.kind = "open" THEN <<g.from, size - 1>>
  ELSE LET last == IF g.to < size - 1 THEN g.to ELSE size - 1
       IN  IF g.from > last THEN <<>> ELSE <<g.from, last>>

\* parse_copy_source_range: only first-last, and within the object.
ParseCopyRange(g, size) ==
  IF g.kind # "explicit" \/ g.from > g.to \/ g.to >= size THEN <<>> ELSE <<g.from, g.to>>

\* Offset and length of a span of bytes, and its last byte: offset + length - 1 wraps
\* at zero (in a debug build the handler panics there).
Measured(span) == IF span = <<>> THEN <<>> ELSE <<span[1], span[2] - span[1] + 1>>
LastByte(offset, length) ==
  IF offset + length = 0 THEN OffsetLimit - 1 ELSE offset + length - 1

\* Offset and length of part p of content c.
PartRange(c, p) ==
  LET ps == PartSizes[c]
      before[i \in 0 .. Len(ps)] == IF i = 0 THEN 0 ELSE before[i - 1] + ps[i]
  IN  IF p \in 1 .. Len(ps) THEN <<before[p - 1], ps[p]>> ELSE <<>>

\* The parts of an upload lie inside the object: complete_multipart_upload stores
\* the sum of their sizes as the object's.
ASSUME PartsAssumption ==
  \A c \in Content, g \in Ranges :
    LET span == PartRange(c, g.from)
    IN  span # <<>> => span[1] \in Nat /\ span[2] \in Nat /\ span[1] + span[2] <= Sizes[c]

-----------------------------------------------------------------------------
(* GetObject and HeadObject.                                                *)

\* A whole object: the sidecar is read, then the payload opened, then the
\* conditional headers are looked at.
GetWhole(r, k, cond) ==
  /\ call[r].pc = "new"
  /\ IF ~Parses(k) THEN Status(r, 500)
     ELSE IF ~Exists(k) THEN Status(r, 404)
     ELSE Goes(r, [call[r] EXCEPT !.pc = "open", !.op = "get", !.key = k, !.cond = cond,
                                  !.meta = sidecar[k]])
  /\ Looks(r, k)

OpenWhole(r) ==
  LET c == call[r]
      b == payload[c.key]
      s == CheckConditions(c.cond, c.meta) IN
    /\ c.pc = "open" /\ c.op = "get"
    /\ IF b = Nothing THEN Status(r, 404)
       ELSE IF s # 200 THEN Status(r, s)
       ELSE Replies(r, [NoReply EXCEPT !.status = 200, !.etag = c.meta.etag, !.body = b,
                                       !.bytes = 0 .. Sizes[b] - 1])
    /\ Unstirred

\* A part of it: what is read is worked out from one look at the sidecar, the
\* bytes come from a second call.  A part number takes no conditional headers.
GetPart(r, k, g, cond) ==
  LET m == sidecar[k]
      s == CheckConditions(cond, m)
      span == IF g.kind = "part" THEN PartRange(m.etag, g.from)
              ELSE Measured(ParseRange(g, Sizes[m.etag])) IN
    /\ call[r].pc = "new"
    /\ g.kind = "part" => cond = NoCondition
    /\ IF ~Parses(k) THEN Status(r, 500)
       ELSE IF ~Exists(k) THEN Status(r, 404)
       ELSE IF g.kind # "part" /\ s # 200 THEN Status(r, s)
       ELSE IF span = <<>>
         THEN Replies(r, [NoReply EXCEPT !.status = IF g.kind = "part" THEN 400 ELSE 416,
                                         !.asked = g, !.body = m.etag])
       ELSE Goes(r, [call[r] EXCEPT !.pc = "open", !.op = "range", !.key = k, !.meta = m,
                       !.asked = g, !.range = [from |-> span[1], length |-> span[2]]])
    /\ Looks(r, k)

\* get_object_range looks at the sidecar again; a small range fails when the payload
\* ends before it.
ReadRange(r) ==
  LET c == call[r]
      b == payload[c.key]
      end == c.range.from + c.range.length IN
    /\ c.pc = "open" /\ c.op = "range"
    /\ IF ~Parses(c.key) THEN Status(r, 500)
       ELSE IF b = Nothing \/ ~Exists(c.key) THEN Status(r, 404)
       ELSE IF c.range.length > 0 /\ end > Sizes[b] THEN Status(r, 500)
       ELSE Replies(r, [NoReply EXCEPT !.status = 206, !.etag = c.meta.etag, !.body = b,
                                       !.asked = c.asked, !.bytes = c.range.from .. end - 1,
                                       !.last = LastByte(c.range.from, c.range.length)])
    /\ LooksAgain(r, c.key)

HeadObject(r, k, cond) ==
  LET m == sidecar[k]
      s == CheckConditions(cond, m) IN
    /\ call[r].pc = "new"
    /\ IF ~Parses(k) THEN Status(r, 500)
       ELSE IF ~Exists(k) THEN Status(r, 404)
       ELSE IF s # 200 THEN Status(r, s)
       ELSE Replies(r, [NoReply EXCEPT !.status = 200, !.etag = m.etag, !.body = m.etag,
                                       !.bytes = 0 .. Sizes[m.etag] - 1])
    /\ LooksAgain(r, k)

-----------------------------------------------------------------------------
(* PutObject and CopyObject.                                                *)

\* Storing content c at a key: a new pair, whatever was there.
Stores(r, k, c, sealed) ==
  /\ payload' = [payload EXCEPT ![k] = c]
  /\ sidecar' = [sidecar EXCEPT ![k] = [NoSidecar EXCEPT !.etag = c, !.sealed = sealed]]
  /\ Stirs(k)

\* The bucket's encryption applies when the request names none.
StartPut(r, k, c, asked) ==
  /\ call[r].pc = "new"
  /\ Goes(r, [call[r] EXCEPT !.pc = "check", !.op = "put", !.key = k, !.to = k, !.body = c,
                             !.sealed = asked \/ DefaultSse])
  /\ Unstirred

\* The declared size is checked first, the bytes as they come.
WithinQuota(c) == Sizes[c] <= ObjectLimit

StartCopy(r, from, to) ==
  /\ call[r].pc = "new"
  /\ IF ~Parses(from) THEN Status(r, 500)
     ELSE IF ~Exists(from) THEN Status(r, 404)
     ELSE Goes(r, [call[r] EXCEPT !.pc = "source", !.op = "copy", !.key = from, !.to = to,
                                  !.meta = sidecar[from]])
  /\ Unstirred

\* The source is opened and stays what it is; the encryption of the destination
\* comes from its bucket.
OpenSource(r) ==
  LET b == payload[call[r].key] IN
    /\ call[r].pc = "source"
    /\ IF b = Nothing THEN Status(r, 404)
       ELSE Goes(r, [call[r] EXCEPT !.pc = "check", !.body = b, !.sealed = DefaultSse])
    /\ Unstirred

\* put_object begins with ensure_can_overwrite, before the bytes come.
CheckOverwrite(r) ==
  LET c == call[r] IN
    /\ c.pc = "check"
    /\ IF ~Parses(c.to) THEN Status(r, 500)
       ELSE IF sidecar[c.to].locked THEN Status(r, 403)
       ELSE Goes(r, [c EXCEPT !.pc = "store"])
    /\ Unstirred

Store(r) ==
  LET c == call[r] IN
    /\ c.pc = "store"
    /\ IF ~WithinQuota(c.body) THEN Status(r, 400) /\ Unstirred
       ELSE /\ Stores(r, c.to, c.body, c.sealed)
            /\ IF c.op = "copy" THEN Goes(r, [c EXCEPT !.pc = "head"])
               ELSE Replies(r, [NoReply EXCEPT !.status = 200, !.etag = c.body, !.body = c.body,
                                               !.bytes = 0 .. Sizes[c.body] - 1])

\* CopyObject looks its result up for the date.
HeadCopy(r) ==
  LET c == call[r] IN
    /\ c.pc = "head"
    /\ IF ~Parses(c.to) \/ ~Exists(c.to) THEN Status(r, 500)
       ELSE Replies(r, [NoReply EXCEPT !.status = 200, !.etag = c.body, !.body = c.body,
                                       !.bytes = 0 .. Sizes[c.body] - 1])
    /\ Unstirred

\* upload_part_copy: the range is checked against one look at the source.  (A
\* range that ends beyond it is an error here, so this 416 names no content.)
StartPartCopy(r, k, g) ==
  LET m == sidecar[k]
      span == Measured(ParseCopyRange(g, Sizes[m.etag])) IN
    /\ call[r].pc = "new"
    /\ IF ~Parses(k) THEN Status(r, 500)
       ELSE IF ~Exists(k) THEN Status(r, 404)
       ELSE IF span = <<>> THEN Status(r, 416)
       ELSE Goes(r, [call[r] EXCEPT !.pc = "open", !.op = "range", !.key = k, !.meta = m,
                       !.asked = g, !.range = [from |-> span[1], length |-> span[2]]])
    /\ Looks(r, k)

-----------------------------------------------------------------------------
(* Tags and locks: the sidecar is read, changed and written back in place.  *)

StartAmend(r, k, what) ==
  /\ call[r].pc = "new"
  /\ IF ~Parses(k) THEN Status(r, 500)
     ELSE IF ~Exists(k) THEN Status(r, 404)
     ELSE Goes(r, [call[r] EXCEPT !.pc = "amend", !.op = what, !.key = k, !.meta = sidecar[k]])
  /\ Looks(r, k)

\* Mutant: the tags are taken to be all the sidecar holds.
OnlyTags(m, what) == [NoSidecar EXCEPT !.tagged = (what = "tag"), !.locked = (what = "lock")]

Amended(m, what) ==
  CASE what = "tag" -> [m EXCEPT !.tagged = TRUE]
    [] what = "untag" -> [m EXCEPT !.tagged = FALSE]
    [] OTHER -> [m EXCEPT !.locked = TRUE]

\* The file is opened, made if it is gone, and cut.
CutSidecar(r) ==
  LET c == call[r] IN
    /\ c.pc = "amend"
    /\ text' = [text EXCEPT ![c.key] = "cut"]
    /\ worn' = IF Filling(c.key) # {} THEN worn \union {c.key} ELSE worn
    /\ Goes(r, [c EXCEPT !.pc = "fill"])
    /\ UNCHANGED <<payload, sidecar, orphan, mixed, stirred>>

\* The new text goes to the file that was opened, over what another request may have
\* filled in: the end of a longer text stays behind it.
FillSidecar(r) ==
  LET c == call[r]
      k == c.key IN
    /\ c.pc = "fill"
    /\ \/ /\ r \in orphan
          /\ UNCHANGED <<sidecar, text, mixed>>
       \/ /\ r \notin orphan
          /\ sidecar' = [sidecar EXCEPT ![k] = Amended(c.meta, c.op)]
          /\ text' = [text EXCEPT ![k] = "whole"]
          /\ mixed' = IF r \in stirred THEN mixed \union {k} ELSE mixed
       \/ /\ r \notin orphan /\ text[k] # "cut"
          /\ text' = [text EXCEPT ![k] = "garbled"]
          /\ UNCHANGED <<sidecar, mixed>>
    /\ orphan' = orphan \ {r}
    /\ Status(r, 200)
    /\ UNCHANGED <<payload, worn, stirred>>

\* The file cannot be opened, or the write breaks off: an I/O error, or the server dies.
AmendFails(r) ==
  LET c == call[r] IN
    /\ c.pc \in {"amend", "fill"}
    /\ IF r \in Filling(c.key)
       THEN /\ text' \in {text, [text EXCEPT ![c.key] = "garbled"]}
            /\ worn' = worn \union {c.key}
       ELSE UNCHANGED <<text, worn>>
    /\ orphan' = orphan \ {r}
    /\ Status(r, 500)
    /\ UNCHANGED <<payload, sidecar, mixed, stirred>>

-----------------------------------------------------------------------------
(* DeleteObject and DeleteObjects.                                          *)

Removes(k) ==
  /\ payload' = [payload EXCEPT ![k] = Nothing]
  /\ sidecar' = [sidecar EXCEPT ![k] = NoSidecar]
  /\ Stirs(k)

DeleteObject(r, k) ==
  /\ call[r].pc = "new"
  /\ IF k \in Denied THEN Status(r, 403) /\ Unstirred
     ELSE IF ~Parses(k) THEN Status(r, 500) /\ Unstirred
     ELSE IF sidecar[k].locked THEN Status(r, 403) /\ Unstirred
     ELSE Status(r, 204) /\ Removes(k)

\* Mutant: the gate of the bucket is taken to be enough.
BucketGateOnly(keys) == TRUE

\* Every key passes the gates before the first is deleted.
AllGated(keys) == keys \intersect Denied = {}

StartBatch(r, keys) ==
  /\ call[r].pc = "new"
  /\ IF ~AllGated(keys) THEN Replies(r, [NoReply EXCEPT !.status = 403, !.keys = keys])
     ELSE /\ call' = [call EXCEPT ![r] = [@ EXCEPT !.pc = "batch", !.op = "batch",
                                                   !.left = keys]]
          /\ reply' = [reply EXCEPT ![r].keys = keys]
  /\ Unstirred

\* The deletions run side by side; each ends up in the answer.
BatchDelete(r, k) ==
  LET ok == Parses(k) /\ ~sidecar[k].locked
      a == reply[r] IN
    /\ call[r].pc = "batch" /\ k \in call[r].left
    /\ IF ok THEN Removes(k) ELSE Unstirred
    /\ call' = [call EXCEPT ![r].left = @ \ {k}]
    /\ reply' = [reply EXCEPT ![r] = IF ok THEN [a EXCEPT !.deleted = a.deleted \union {k}]
                                     ELSE [a EXCEPT !.failed = a.failed \union {k}]]

EndBatch(r) ==
  /\ call[r].pc = "batch" /\ call[r].left = {}
  /\ Replies(r, [reply[r] EXCEPT !.status = 200])
  /\ Unstirred

-----------------------------------------------------------------------------
ApiNext ==
  \/ \E r \in Reader, k \in ApiKey :
       \/ \E cond \in Conditions : GetWhole(r, k, cond) \/ HeadObject(r, k, cond)
       \/ \E g \in Ranges, cond \in Conditions : GetPart(r, k, g, cond)
       \/ \E g \in Ranges : StartPartCopy(r, k, g)
  \/ \E r \in Reader : OpenWhole(r) \/ ReadRange(r)
  \/ \E r \in Writer, k \in ApiKey :
       \/ \E c \in Content, asked \in BOOLEAN : StartPut(r, k, c, asked)
       \/ \E to \in ApiKey : StartCopy(r, k, to)
       \/ \E what \in {"tag", "untag", "lock"} : StartAmend(r, k, what)
       \/ DeleteObject(r, k)
  \/ \E r \in Writer :
       \/ OpenSource(r) \/ CheckOverwrite(r) \/ Store(r) \/ HeadCopy(r) \/ EndBatch(r)
       \/ CutSidecar(r) \/ FillSidecar(r) \/ AmendFails(r)
       \/ \E keys \in SUBSET ApiKey : StartBatch(r, keys)
       \/ \E k \in ApiKey : BatchDelete(r, k)

ApiSpec == ApiInit /\ [][ApiNext]_apiVars

-----------------------------------------------------------------------------
(* Properties.                                                              *)

\* What a range header means for content c, byte by byte.
Selected(g, c) ==
  {b \in 0 .. Sizes[c] - 1 :
     CASE g.kind = "none" -> TRUE
       [] g.kind = "suffix" -> b + g.to >= Sizes[c]
       [] g.kind = "open" -> b >= g.from
       [] g.kind = "part" -> LET p == PartRange(c, g.from)
                             IN  p # <<>> /\ b >= p[1] /\ b < p[1] + p[2]
       [] OTHER -> b >= g.from /\ b <= g.to}

\* Every answer with a body delivers bytes that exist in what it read, and
\* Content-Range names the last of them (an empty first part of an upload has none).
\* Unless a request that came in between replaced the object, or a request for tags
\* or a lock was writing its sidecar when it was read, what was read is what the ETag
\* names, the bytes are those the range header means, a range is unsatisfiable
\* only if it means none, and nothing fails: head and read of a range are two
\* calls, sidecar and payload two files.
ResponseDescribesBody ==
  \A r \in Reader : LET a == reply[r] IN
    /\ a.status \in {200, 206} => a.bytes \subseteq 0 .. Sizes[a.body] - 1
    /\ a.status = 206 /\ a.bytes # {} => a.last \in a.bytes /\ \A b \in a.bytes : b <= a.last
    /\ r \notin stirred =>
         /\ a.status # 500
         /\ a.status \in {200, 206} => a.etag = a.body /\ a.bytes = Selected(a.asked, a.body)
         /\ a.status = 416 /\ a.body # Nothing => Selected(a.asked, a.body) = {}

\* A sidecar that can be read describes the payload beside it and says whether it is
\* encrypted, unless a request for tags or a lock wrote back what it had read before
\* another request replaced or deleted the object.  It cannot be read only while such
\* a request is between cutting and filling it, or after two of them overlapped or
\* one broke off (and then until the object is replaced or removed).
SidecarMatches ==
  \A k \in ApiKey :
    /\ k \notin mixed /\ Parses(k) =>
         /\ sidecar[k].etag = payload[k]
         /\ DefaultSse /\ Exists(k) => sidecar[k].sealed
    /\ ~Parses(k) => k \in worn \/ Filling(k) # {}

\* A multi-object delete is all or nothing as far as permissions go: it deletes no
\* key the caller may not delete and, when refused, none at all.  Carried out, it
\* answers for each key once, however the deletions and other requests interleave.
BatchAccounted ==
  \A r \in Writer : LET a == reply[r] IN
    /\ a.deleted \intersect Denied = {}
    /\ a.status = 403 => a.deleted \union a.failed = {}
    /\ call[r].pc = "done" /\ call[r].op = "batch" =>
         a.deleted \union a.failed = a.keys /\ a.deleted \intersect a.failed = {}
=============================================================================
