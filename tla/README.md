# MaxIO in TLA+

A verification development for MaxIO, an S3-compatible object store (the
repository's `README.md`). Modules are translated from the Rust sources;
`PROJECT.json` maps every definition to the lines it stands for.

- [Inventory](#inventory)
- [Modules and how they correspond to the code](#modules-and-how-they-correspond-to-the-code)
- [Runs](#runs)
- [Proofs](#proofs)
- [What is only model-checked, what is not modelled](#what-is-only-model-checked-what-is-not-modelled)
- [Plan](#plan)

## Inventory

MaxIO is a single binary: an axum server (`crates/maxio-server`) over a storage
library (`crates/maxio-storage`) that keeps buckets as directories and objects
as files, and an optional Raft layer that replicates bucket operations between
servers (`crates/maxio-cluster`). Requests run concurrently on a tokio runtime
and meet in the file system; **no lock per key or per bucket exists** in the
storage library.

| Component | State | Operations | Hard behaviour | What makes it correct |
|---|---|---|---|---|
| Unversioned object store (`filesystem/object_io.rs`, `common.rs`) | object file or `<key>.ec` directory, `<key>.meta.json` sidecar, `.maxio-tmp-*` siblings | PUT (flat, chunked, chunked and encrypted), GET, HEAD, DELETE, tagging | four renames per PUT with an undo, concurrent PUTs, dropped futures, crashes | a sidecar describes the bytes beside it; a PUT is all or nothing; committed bytes are not lost |
| Object versions (`encryption_io.rs`, `listing.rs`) | `.versions/<key>/<id>.{data,ec,meta.json}` and the copy at the key's path | PUT, DELETE with marker, DELETE of a version, of `null` | two copies of one truth, suspended versioning | the current object is the right version; deleted versions are gone |
| Object lock (`object_lock.rs`, `lib.rs`) | retention date and hold in sidecars | put/get retention, legal hold, default retention | two sidecars for the current version; checks and deletes far apart | a locked version is not removed |
| Housekeeping (`housekeeping.rs`, `src/main.rs`) | none of its own | sweeps of temporaries, stale multipart uploads, expired objects and versions | runs beside live requests, works from stale lists | removes leftovers, and only those |
| Metadata index (`metadata_index.rs`) | one SQLite row per key | upsert, remove, list, rebuild at start | a cache written after the files | can be rebuilt; agrees with the files at rest |
| Listing (`listing.rs`, `api/list.rs`) | none | walk or index scan, prefixes, delimiters, paging | files change during the walk | every settled key on one page, in order; pages lose none |
| Multipart uploads (`multipart.rs`) | `.uploads/<id>/` parts and state | create, upload part, copy part, complete, abort | complete races upload and abort | completes from the parts named, once |
| Buckets and configuration (`filesystem/mod.rs`, `api/bucket.rs`) | `.bucket.json` | create, delete, versioning, lock, lifecycle, encryption, CORS, EC, policy | read-modify-write without a lock; readers of a file being rewritten | no change is lost |
| Encryption, keys, KMS (`crypto.rs`, `keys.rs`, `kms.rs`) | keyring, wrapped data keys | load, rotate, wrap, unwrap | rotation and restart | every stored object stays readable |
| Quota (`quota.rs`) | usage | check at start, check while streaming | checks race writes | usage stays within bounds |
| Erasure coding, bitrot (`maxio-cluster/ec`, `chunk_reader.rs`) | shards and manifest | encode, read with missing shards, scan and heal | partial loss, heal beside reads | any k shards give the data back |
| Storage Raft (`maxio-cluster/storage`) | in-memory log, vote, snapshots, state machine; buckets on disk | append, apply, snapshot, install | restart with an empty log over a full disk | replicas agree, disks follow the log |
| Cluster metadata, routing (`metadata.rs`, `routing.rs`, `cluster_sync.rs`) | peers, readiness snapshot | find the leader, propose then apply, poll | stale answers, a proposal that times out and is committed | no local bucket without a committed one; readiness follows the nodes |
| Authentication (`auth/middleware.rs`, `signature_v4.rs`, `credentials.rs`) | credentials | the decision pipeline | order of checks | no request passes that no rule admits |
| Policies, tenants (`policy.rs`, `bucket_policy.rs`, `tenant.rs`) | policy documents | evaluate | deny over allow, wildcards | agrees with the reference definition |
| Console sessions (`console_session.rs`, `keycloak.rs`) | cookies in browsers, cached realm keys | login, refresh, logout | changed secrets, rotated keys | a session does not outlive its secret |
| Rate limiter (`rate_limit.rs`) | window counters | check | window boundary, concurrent counts | bound per window |
| Event notifications (`events.rs`) | spool files | enqueue, deliver, retry, drop | crash in between, retry order | an event is delivered or still spooled |
| S3 object API (`api/object.rs`) | none | conditional and range reads, copy, tags, locks, batch delete | several storage calls per request, others in between | headers, range and body belong together; a batch answers for every key |
| Console API (`api/console.rs`) | none of its own | folders, deletions, uploads | look, then write | a folder does not vanish with its last file |
| Access log (`access_log.rs`, `access_logging.rs`) | the day's log object | one task per response | read, append, write back, side by side | tasks that do not overlap lose nothing |
| Audit, metrics, admin API, XML, web UI | logs | observers, a thin client, formatting | | not object state |

Interactions: a request passes the middleware (`auth/`), then its handler, which
in most cases repeats the tenant and policy checks, and calls `FilesystemStorage`; in a cluster
the bucket operations are proposed to Raft first, applied on every storage node
by `StorageRaftStore`, and then made in the server's own filesystem. Housekeeping is a
background task of the same process that calls the same functions. The index is
written by the storage functions after the files. The hazards of the code, each
at its line, and the properties that watch them are listed in `PROJECT.json`.

## Modules and how they correspond to the code

| Module | Stands for |
|---|---|
| `ObjectPublish` | one key of an unversioned bucket: PUT on the three write paths, DELETE, GET, `publish_temp_payload_and_meta` with its undo, the index row, cancellation, crash, restart, the sweep |
| `AtomicObject` | the abstract register a client expects |
| `PublishRefinement` | the mapping from the first to the second |
| `VersionedObject` | one key of a bucket with object lock: current object, version store, locks, lifecycle sweep |
| `Multipart` | one multipart upload: create, upload part, complete and abort as concurrent requests beside the sweep of stale uploads, cancellation, crash, restart |
| `BucketConfig` | one bucket: create, delete, every change of its settings, and uploads as far as they read them, as concurrent requests over the directory and `.bucket.json` |
| `Policy` | bucket policies: what is accepted, globs, networks, conditions, evaluation |
| `RequestGate` | requests on their way to a handler: limiters, signatures, anonymous bypass, tenants, policies, each check reading the bucket anew |
| `ObjectApi` | the S3 object handlers over a few keys, one storage call per step |
| `Listing` | paged listings of a bucket that changes |
| `FrameRead` | reading an object stored in encrypted frames or in chunks with parity, while it is damaged |
| `Keyring` | master keys: file, rotation, start, and what they wrap |
| `ClusterBuckets` | bucket operations through the storage nodes' Raft group |
| `ClusterRouting` | the loop that decides whether a server is ready |
| `ShardRepair` | shards of one object on several nodes and the scanners that heal them |
| `EventSpool` | event records, the spool directory and the drain task |
| `AccessLog` | the tasks that append to the access log |
| `ConsoleSession` | logins, cookies and requests of the web console |
| `ConsoleFolders` | folders and deletions in the web console |
| `MCObjectPublish`, `MCVersionedObject`, `MCBucketConfig`, `MCRequestGate` | the modules TLC is given, with small worlds and with the statements of documents, comments and tests that the code does not keep |
| `MCServices`, `MCBackground` | small instances of the components that share no state, side by side |
| `ObjectPublishProofs`, `VersionedObjectProofs`, `MultipartProofs`, `BucketConfigProofs`, `RequestGateProofs`, `ApiProofs`, `ClusterProofs`, `EncryptionProofs` | theorems |

### ObjectPublish

A *body* is named by the PUT that carries it, so "the sidecar written by w" and
"the bytes written by w" are both `w`, and a mixture of two requests is visible
as a difference. `payload` has two places because the code has two: the object
file and the `<key>.ec` directory; both may exist at once. `tmpPayload`,
`tmpMeta` are the temporaries of a PUT (guarded by `TempPathGuard`),
`bakPayload`, `bakMeta` the files `backup_existing` renamed the old pair to (not
guarded), `gotPayload`, `gotMeta` the `Option` the function holds in memory,
which stays `Some` when the sweep has removed the file.

A GET opens the `.ec` directory whenever there is one and the flat file otherwise
(`LayoutNow`), whatever the sidecar says. `SidecarMatchesPayload` is about that
payload. Its one exception is a payload in the *other* format: after a change of the
erasure-coding policy a PUT publishes in the new format and nothing removes the old
one, so a flat PUT over an erasure-coded object leaves GET with the new sidecar and
the old chunks. Where the policy never changes format, `OneFormatServed` has no exception.

Every file-system call that matters is a step: `backup_existing` is an existence
probe and a rename (`ProbePayload`, `SavePayload`, ...), `restore_backup` a
removal and a rename (`ClearMeta`, `BackMeta`, ...). Error paths are those of
the code: a failure of the second backup returns at once and leaves the first
one aside (`SaveMeta`); a failure of a final rename runs the undo, whose own
renames ignore their errors (`BackMeta`, `BackPayload`). A directory cannot be
renamed onto a non-empty directory, a file replaces a file (`PayloadMovable`).

`Faults` says which calls may fail without a reason in the model: `stream` (the
body or a temporary), `backup`, `rename`, `restore` (the renames), `cancel` (the
request's future is dropped). `Crash` ends every request and leaves all files;
`Restart` rebuilds the index row from a walk. `Sweep` removes one temporary or
backup directly inside the bucket directory, whoever owns it; `nested` keys, with
a `/`, are in a subdirectory it does not enter. `Paths` are the write paths the
bucket's policy may select; the policy may change between PUTs. `Serial` is a
discipline of the *clients* (one write in flight), not of the code: properties
that need it fail without it, which `publish_torn` shows.

Abstractions, and what they leave out: a write to a temporary is one step and its
content is whole or the PUT fails; files survive a crash as the calls left them
(the code calls no `fsync`, so a power loss is outside the model); removals do
not fail; a call already handed to the blocking pool when the future is dropped
is taken as completed before the drop; a GET opens its payload in one step
(chunks replaced under an open reader are left out). The initial state is an
empty key or an object stored by one of `Paths`.

### VersionedObject

`top` is the sidecar at the key's own path and stands for the files there,
`versions` the sidecars in `.versions/<key>/`. A version id is a number, larger
is newer, as the code's ids sort by time. `body` names the PUT. The lock fields
are in each sidecar separately, and requests read or write *one* of the two
copies, which is where the code's behaviour is interesting. `DeleteVersion`
contains the whole handler: the lock check on the version's own sidecar, removal
of its files, of the emptied directory, and `update_current_version`
(`Restored`), early return included. The lifecycle sweep lists first
(`ListNoncurrent`) and deletes later (`ExpireVersion`); any part of the list may
be old enough. Requests are otherwise single steps: a crash between the publish
of the current object and the copy into the version store is not modelled yet,
and versions of one key share a payload format.

`pledge` is a history variable: the lock the version's own sidecar was last
given, by the default retention of its PUT or by a request that named the id.
The default is applied by the flat write path only, so `PutObject` takes whether
it applies as an argument.

### Multipart

`dir` is the directory `.uploads/<id>`: not yet made, made but without
`.meta.json` (`bare`), usable (`open`) or removed. Each part number has a part
file (`data`) and a sidecar (`desc`) with the part's ETag; both are written in
place under their own names, so both can be `Torn`: begun and not finished. The
bytes of a part are named by the request that sent them, and the ETag is the same
name; a client can compute it before the answer arrives, so a completion may list
a part that is still on its way. `CompleteCheck` is the first loop of
`complete_multipart_upload` (sidecars against the listed ETags), `CompleteCopy`
the second (part files, opened by number); anything may happen in between.
`remove_dir_all` is two steps, `RemoveFiles` and `RemoveDir`: what is in the
directory goes, then the directory, which fails if an upload has created a file
since. A completion that finds the directory gone is answered with an error
although its object is in place.

`Reupload` is, like `Serial`, a discipline of the clients and not of the code.
With `Reupload = TRUE` `AssembledAsNamed` does not hold: a part that is sent again
cuts the old part file while the old sidecar stays, and a completion whose first
loop has passed copies what is there. Left out: overlapping uploads of one part
number, part copy, the encryption of the bytes, the order and sizes of the list
(a request refused for them, or for the quota, is the fault `check`); the
publish of the assembled object is one step here, and `ObjectPublish` has the
rest. The sweep takes a directory that is still `bare` for stale
(`housekeeping.rs:43`), so it can remove an upload that is just being created;
`main.rs:269` speaks of uploads older than seven days.

### BucketConfig

`dir` is the bucket's directory, `file` the state of `.bucket.json` (`torn`: cut
and not yet filled, or with the tail of another write behind it), `conf` the
settings in it. A *change* is a record of the fields a request replaces; the
ten kinds the handlers offer are `VersioningChange`, `PolicyChange`, ...
Every one of them is the same three calls: read and parse the whole file
(`ChangeRead`), then `fs::write`, which opens and cuts (`Open`) and fills
(`Fill`). Two writers that have both opened the file write from its start, so
the second may leave a mixture (`handle` = `mixed`); a write whose file the purge
has unlinked is lost unseen. `DeleteBucket` is three steps, as its comments
describe. Uploads read the settings one at a time where the code does: default
encryption in the handler (an error fails `PutObject`, `CopyObject` ignores it),
erasure coding only on a server that has it, versioning before the temporary is
written on the flat path and after it on the chunked one (`unwrap_or(false)`),
the default retention on the flat path only, after the bytes were written.

`sure` and `alone` are history variables: a request is `alone` while no create,
delete or change is in flight beside it, and `sure[f]` is the value of the last
change of `f` if that change was alone, otherwise `Unknown`. They say exactly how
far the unlocked read-modify-write can be relied on: an uncontested change is
safe from every other change, however they interleave, and a contested one is
not. `public_read` and `public_list` are one field.

Abstractions: the checks of a handler before it reads the settings are one step,
and so are `create_dir_all` with the creation of the temporary, the purge with
all its removals (after a failure inside it fewer files are gone than in the
model, never more), a failed `fs::write` of `create_bucket` with its clean-up,
and the publish of the object (`ObjectPublish` has its steps). Every upload has a key of its own, no
object is deleted, and the archived versions in `.versions` are not counted as
objects, as in `has_real_objects`. Explicit encryption headers, tenants and
policy checks, and the target bucket of the access log are left out, and so is
`CopyObject`'s last look at the object it has stored.

### Policy and RequestGate

`Policy` has no state. Patterns, ARNs and keys are short sequences of characters,
because the matcher works on characters: `GlobMatch` is `glob_match`'s loop with
its one remembered star, written as a recursive function over the four indices
the loop keeps. `Char` is the alphabet, `Statement` what the parser hands over. `EvaluateV2` is the decision (a matching Deny, else a matching
Allow), `V1Accepts` the older form that only opens a bucket to the public,
`V2Accepts` what `PutBucketPolicy` stores.

In `RequestGate` `bucket` is what `.bucket.json` says of one bucket: whether it
exists, its tenant, policy and the two public flags. A request goes through
`Arrive` (PUT limiter, signature or presigned URL), `Bypass` (no signature),
`Tenant`, `CheckPolicy`, and in the handlers that have gates `HandlerTenant` and, for
objects, `HandlerPolicy`; each reads the bucket in its own step and it may have changed.
Not every request meets every check, and the model follows the code in this:

- `TenantExempt`: `plan_tenant_scope` takes any PUT whose query assigns no value for a
  creation, of an object too, and skips the first tenant check;
- `PolicyExempt`: so does the policy check for PUTs of a bucket (`?policy` and all other
  settings), and methods without an action have none;
- `Ungated`: handlers that return before a gate of their own (locks, tags, parts and
  aborts of an object, settings and deletion of a bucket, OPTIONS);
- `TenantOnly`: a handler that reads a bucket checks the tenant alone.

`ServedAsPolicySays` and `ServedWithinTenant` speak of the requests for which the code
asks the policy, or the tenant, at least once (`~PolicyExempt`, `TenantChecked`).
`PutPolicy`, `PutPublic`, `DeletePolicy`, `DeleteBucket`, `CreateBucket` change
it, `EditCredentials` and `Restart` the credentials. The middleware judges
address conditions by `ClientIp` (the peer, or behind a trusted proxy the first
forwarded address), the handler by `HeaderIp`, as in the code. `seen` and
`answered` are history: the states of the bucket while a request ran, and the
failures told to clients.

The reference meaning is stated apart from the matcher: `Fits` (a value can be
cut into pieces, one per pattern character), `MeantInNetwork` (leading bits),
`Permitted` (no statement that concerns the request forbids, one permits).
`ServedAsPolicySays` and `RefusedForAReason` compare the pipeline's answers with
it in both directions, over the states in `seen`: with a bucket that changes
during the request, one of them has to justify the answer.

The matcher never accepts more than a pattern means, but it may accept less, and
`Plain(effect)` says of the statements with one effect that it does not:

- `glob_match` (`policy.rs:613`) tries a character for itself before it tries it as a
  star, so where the *value* has a `*` at that place a star of the pattern is used up as
  an ordinary character (`*a` does not match `*xa`). Keys, prefixes and groups have no `*`.
- A request for the whole bucket that is not a listing is matched as `b/*`, whose star is
  its last character; only a `*?` in a pattern is misled by it, so there is none in a
  statement that such a request can meet.
- No IPv6 network in any condition is longer than an address: `ip_in_network` takes
  `octets()[..prefix_len / 8]`, and nothing checks `prefix_len` when the policy is stored.

No document of the repository says which reading of a `*` in a name is meant. TLC
evaluates `Plain` of both effects for the instance of `gate`.

Left out: a `.bucket.json` that cannot be read (the checks answer 500), the HMAC (a
signature is right or wrong), streaming signatures, JSON
spelling variants, roles of console tokens, the Redis limiter.

### ObjectApi and Listing

In `ObjectApi` a key has a `payload` and a `sidecar`, and an object is the number of
its content. A handler is as many steps as it makes storage calls: a range GET
looks at the sidecar and reads later (`GetPart`, `ReadRange`), CopyObject opens,
asks for the lock of the target, stores and heads (`StartCopy`, `OpenSource`,
`CheckOverwrite`, `Store`, `HeadCopy`), DeleteObjects passes all gates before its
deletions run side by side. Tags and locks read the sidecar and write it back in place:
`StartAmend`, `CutSidecar`, `FillSidecar`. `text` says whether a sidecar is whole, cut
or garbled (two writers, or one that broke off, `AmendFails`), and every handler that
meets one that does not parse answers 500. A writer whose file was replaced meanwhile
fills a file nobody sees (`orphan`).

`stirred`, `mixed` and `worn` are history: requests whose object changed since they
looked or that met its sidecar half written, keys whose sidecar was written back over
a newer one, keys where two such writes overlapped or one broke off. The properties say
what holds for all others, so the sets are exactly the races the code allows. `last` is
the last byte `Content-Range` names: `offset + length - 1`, which for an empty first part
wraps to the largest offset (`LastByte`; `OffsetLimit` stands for 2^64). What the caller
may not delete (`Denied`) does not change during a request, and a DeleteObjects names
each key once.

`Listing` is about directory entries, the flat file or the `.ec` directory of a key:
`KeyOf` gives an entry's key, two entries may share one, and entries are numbers in the
byte order of keys; common prefixes are groups. A page is made by an index query, which
has one row for a key (`Rows`), or by a walk that looks at one entry per step; the
client follows the token. The walk passes over a key that is `unsettled`: its sidecar
does not parse at this moment, or its directory is moved aside (`Unsettle`, `Settle`).
The first `max-keys` entries are the ones with fewer than that many before them
(`FirstKeys`), which is `take` on a sorted list. `steady`, `rewritten` and `everSeen`
are history, and `Expected` what they say a listing must show. A key with both formats
shows twice when directories are walked, always on one page, because the next page
starts behind the key.

### FrameRead and Keyring

A byte is its position, a piece is a frame or a chunk and may go bad, be cut or
vanish at any time. `Starting`, `Filled`, `Loaded` and `Serve` are the cursor
arithmetic of `FrameDecryptor` and `VerifiedChunkReader`, `Preflight` the first
read before the status line is sent. Authentication and checksums are "the piece
is good".

In `Keyring` keys are told apart by where they come from. A rotation is read, write
to the one shared temporary name, and rename; a start loads the file or makes the
first one; either may find the file unreadable, which counts as empty. Objects
and multipart uploads are wrapped under the active key of the running server, the
KMS key or a customer's. `raced` is history: two writers of the file overlapped
or the file was misread. `KeysSurvive` is stated for the rest, and fails without
that premise.

### ClusterBuckets and ClusterRouting

openraft is external: `chosen` is the committed log, `held[n]` how much of it node
`n` has, `Commit`, `Elect` and `Replicate` what it does when a majority agrees. Of
the repository are the store (`ApplyBegin`, `ApplyEnd`, `ApplyFails`, `BuildSnapshot`,
`Replace`), which keeps everything but the bucket directories in memory, and the client
(`FindLeader`, `Propose`, `Accepted`, `GiveUp`, `Local`, which may fail after the
commit). An apply is two steps: first `last_applied` moves on, the lock is released and
the first call of the filesystem leaves a directory without `.bucket.json` (`files` =
`bare`), then comes the second call and the change of the state machine. In between a
snapshot may be built, which counts the entry and lacks its effect (`lost`), the node
may end (`cutoff`), and the filesystem may refuse. A creation that is replayed over a
`bare` directory leaves it so, a deletion removes it. A node that restarts
has forgotten its log and vote, so openraft's own promise needs a majority that
has not (`MajorityRemembersWithout` guards `Crash`): that is an assumption on the
deployment, not something the code enforces. Snapshots replace the state machine
and not the disk, which `skipped` records. `MachineIsLog` is stated for all buckets but
those in `lost`, `DiskFollowsLog` for all but those in `skipped`, and it admits a
`bare` directory only for buckets in `cutoff`: what the three sets contain is what the
code gets wrong.

`ClusterRouting` is one loop over peers that change their answers meanwhile, as often as
they like; the epoch saturates. `ReadyTracksQuorum` therefore has its premise in itself:
the same majority knows a leader for good, or the same nodes stay silent for good and the
rest is no majority. When nodes alternate, a round mixes answers of different times
and readiness may be wrong for ever.

### ShardRepair, EventSpool, AccessLog

A shard's content is good or one of the ways it can be wrong, its checksum is of
one of these. A scanner reads, compares, gathers the other shards unverified,
rebuilds if there are enough, cuts the file, fills it and writes the checksum
(`HealCut`, `HealFill`, `HealSum`); nodes leave and forget the placement. A missing file
is passed over, as in the code. `DamageContained` and `RotHealed` speak of behaviours in
which the disk spoils no more than one file: with two, an unverified rotten peer may be
used to rebuild, and the result is wrong for good under a checksum that fits. The
properties state this condition themselves, and an instance with two spoilt files and no
outage was checked as well (55 702 states).

A spool record appears before its content does; the drain task reads it, discards
what does not parse or names an external webhook, posts, and removes it on
success.

An access-log task reads the log, cuts the file, fills it, and does the same with the
sidecar (`ReadLog`, `CutLog`, `WriteLog`, `CutLogMeta`, `WriteLogMeta`). What another
task wrote after the cut stays behind the end of the new text, from a place that may lie
inside a line (`Behind`, `Torn`). A task can break off anywhere (`BreakOff`), after the
cut with any beginning of its text in the file. `beside`, `keptLines` and `stale` are
history: tasks that worked beside another, the lines logged since tasks last overlapped
or a write broke off, and whether the sidecar may be older than the log. Overlapping
tasks and a write that breaks off lose lines logged long before; `QuietLogComplete` says
that nothing else does.

### ConsoleSession and ConsoleFolders

A browser's jar holds a session and a refresh token. Tokens of key logins carry the
fingerprint of the secret, Keycloak's the realm key that signed them; the server
caches realm keys and asks again for an unknown one. `SetCookies` is as the code
has it: the second `Set-Cookie` field replaces the first. `unread` are the buckets whose
`.bucket.json` does not parse, as while another request is between cutting and filling it
(`CutSettings`, `FillSettings`): the console's tenant check then lets everyone pass
(`console.rs:55`), which `ServedToOwner` excepts. `ConsoleFolders` is the
deletion of files of one folder, whose handler lists the folder entry by entry
and writes the marker object if it found nothing.

### MCServices and MCBackground

Components that share no state are put side by side in one instance: a behaviour
picks one in `focus` and the others keep their initial state, so the states of the
components add up instead of multiplying. The behaviours of a component in focus
are those of its own specification (`ClusterSpec`, `KeySpec`, `ReadSpec`, `ApiSpec`,
`SessionSpec`, `FolderSpec`, `ShardSpec`, `LogSpec`, ...), which is what the theorems are about.

## Runs

| Run | Instance | Shows |
|---|---|---|
| `publish_serial` | two PUTs, a DELETE, old object or none, flat and encrypted EC paths, every fault, one crash, keys with and without `/`, one writer at a time, fairness (822 930 states) | what GET opens beside a sidecar is what the sidecar describes, but for a leftover in the other format; rejected bytes are never published; for keys the sweep does not reach the last committed pair is still on disk, in place or in a backup; leftovers elsewhere are removed in the end |
| `publish_atomic` | two PUTs, a DELETE, a GET, flat, the body and the final renames may fail, one writer | the four-rename protocol implements `AtomicObject`; at rest payload, sidecar and index agree and nothing is left over. (The same holds with `Paths = {"ec", "ec_enc"}`, 99 142 states.) |
| `publish_race` | three overlapping flat PUTs, nothing fails | once all have ended there is an object, and its payload and its sidecar come from PUTs that were answered with success (not necessarily the same one) |
| `versioned` | three ids, clock of two values, retention 1 | a lock in a version's own sidecar keeps the version, through every kind of delete and the stale sweep; a current object with an id is the newest version that is no marker |
| `multipart` | two parts, a completion, an abort, the sweep, every fault, one crash, fairness (341 083 states) | a completed object consists of exactly the parts its request listed; every upload directory is gone in the end |
| `bucket_config` | two changes (versioning, deletion of the policy), a creation, a deletion and a copy, bucket or none, flat or chunked, failing writes, cancellation, one crash (1 482 182 states) | a setting whose last change overlapped with no other administration keeps its value; an upload beside no administration is stored as the settings say; `DeleteBucket` takes no acknowledged bytes |
| `gate` | one request of thirteen kinds beside two that fail, one bucket, two tenants, three stored policies, two credential files, one change, clock up to 2 (389 630 states) | where the code asks the policy or the tenant at all, what is served is what the policy means and the tenant owns, for some state of the bucket during the request; what is refused has its reason in one, too; anonymous requests only read what is open; failures told to a client stay below two windows' worth in any window |
| `services` | three nodes and one server; two rotations and two starts; objects of up to 5 bytes; two keys, one reader and two writers; four directory entries of three keys in pages; two browsers; two console deletions (2 224 111 states) | `MachineIsLog`, `DiskFollowsLog`, `LocalAfterCommit` through crashes, partitions, failing applies and snapshots, also in the middle of an apply; `KeysSurvive`; `StreamIsSlice` under damage; `ResponseDescribesBody`, `SidecarMatches`, `BatchAccounted` for interleaved handlers and sidecars half written; `PagingComplete`; `ServedToOwner`; `FolderKept` |
| `background` | three shards on three nodes, one spoilt file, one outage; two events, one failure; three log lines; three status peers that flap without bound; fairness (177 658 states) | damage of one file does not spread and rot is healed; complete records are delivered; the log keeps what was logged in quiet; readiness follows nodes that settle |
| `publish_torn` | two overlapping PUTs, encrypted EC | violated: at rest the chunks of one PUT lie beside the sidecar of the old object |
| `publish_rebuild` | an EC PUT over a flat object, a restart | violated: the flat file stays beside the chunks, the index rebuild fails and the server does not start |
| `versioned_lock` | as `versioned`, without default retention | violated: retention put on the current object without a version id does not stop the DELETE of its version id |

The violated runs check one statement each, quoted in the findings of
`PROJECT.json` from the document, comment or test that makes it. One more
statement was checked and refuted in an instance with one PUT and `Paths =
{"ec"}`: `README.md:27` promises checksums "with automatic validation", but
`put_object` drops the expected value on the chunked path without encryption
(`object_io.rs:49`), which is why `ChunkedAccepts` takes any body.

Further observations that the models reach and no run states:

- the sweep takes the temporaries of a PUT that is running (`housekeeping.rs:255`;
  the comment at line 64 speaks of crashed writes);
- the only version of a key, deleted by its id, stays the current object
  (`encryption_io.rs:392`), and in a suspended bucket deleting an old version
  replaces the current null object (`encryption_io.rs:639`);
- a copy that reads `.bucket.json` while another setting is being rewritten is
  stored without the default encryption (`api/object.rs:665`);
- `DeleteBucket` may answer BucketNotEmpty after it has removed `.bucket.json`
  (`filesystem/mod.rs:346`);
- events for an external webhook, and records read while they are being written,
  are discarded (`events.rs:75`, `events.rs:81`);
- after a Keycloak login a browser holds the refresh cookie only
  (`api/console.rs:280`; `docs/operations.md:910` describes both);
- a shard whose file is missing is never rebuilt (`ec/bitrot.rs:221`);
- a server keeps a bucket that was deleted through another one
  (`maxio-cluster/src/metadata.rs:112`);
- a PUT whose query assigns no value passes without the first tenant check
  (`tenant_middleware.rs:87`), and the handlers of tags, locks and bucket settings make
  no second one;
- the console's tenant check passes when `.bucket.json` cannot be read
  (`api/console.rs:55`);
- a request beside a change of tags or locks may meet a cut sidecar and answer 500, and
  a change that breaks off leaves the object unreadable (`object_io.rs:909`);
- `Content-Range` of an empty first part names byte 2^64 - 1, or the handler panics
  (`api/object.rs:941`);
- a Raft snapshot built while an entry is being applied counts the entry and lacks its
  effect (`raft_store.rs:113`), and a creation that broke off leaves a directory without
  `.bucket.json` that no replay completes (`filesystem/mod.rs:309`).

**Bounds.** Two PUTs and a DELETE give every pair of consecutive writes, a write
on top of each kind of leftover, and a retry after a failure; a third PUT is
needed only for races (one moves the old pair aside, one publishes, one fails),
which `publish_race` has. One crash suffices because a restarted process keeps
nothing but the files, and the second PUT starts from whatever files the first
left. For versions, three ids are a version that is current, one that becomes
current when it goes and a marker or a third version between; clock values 0 and
1 with retention 1 have locks that hold, that expire and that never held. For
multipart, two parts give both loops a part before and a part after any other
step; two completions without an abort were checked as well (486 979 states), and
the proof is for any number. For buckets, two changes are a lost update and a
mixed write, and with a creation and a deletion every request can find the bucket
gone, new or half made; the instance with a PUT in place of the copy on a server
without erasure coding was checked as well (1 328 972 states). At the gate one change
can fall between any two of the checks, which is where a check-then-use mistake
would show, and the proofs are for any number; two failing requests beside a third fill a
limiter of one and start its next window. Three nodes and one failure are every
minority; two operations are a creation, a deletion after it and a retry; one snapshot
falls before, inside or after an apply; the first leader is fixed, the others come by
election. Two rotations overlap or follow each other, two starts lie on either side of them.
Five bytes in pieces of two are a first, a full and a short last piece. Four
entries of three keys, one key with both formats and three entries in a group, give pages
that end before, inside and after the group and between the two formats; one key differs
from the prefix in case only. One outage and one spoilt file are what two data and one
parity shards can bear, and the properties say so.
`CHECK_DEADLOCK FALSE` throughout: requests run once, so the models end.

**Fairness.** `LeftoversSwept`, `UploadsEnd`, `RotHealed`, `WebhookDelivers` and
`ReadyTracksQuorum` use it. `Restart`: an operator (or the
supervisor of the deployment) starts a dead process again; the property itself
excludes the state in which starting is impossible. `Sweep(w)`: `main.rs` runs
housekeeping at start and then on an interval for as long as the process lives,
and each pass visits every entry of the bucket directory. For uploads, the same of
`Sweep` and of the removal it has begun, and `Age`: time passes. In `MCBackground`
the scanner of each node, the drain task and the status loop are timers that are
never switched off, and a committed placement reaches every node (`LearnMap`).
That nodes stay up or a webhook answers from some time on is a premise of the
property, not an assumption of the model. No fairness is assumed
of requests: clients may stop anywhere.

## Proofs

All for arbitrary sets of requests, any subset of faults, any number of crashes
(`ObjectPublishProofs`, `MultipartProofs`, `BucketConfigProofs`), any bounds on ids, clock and
retention (`VersionedObjectProofs`), and any requests, policies, nodes, keys, objects,
pieces, shards, browsers or folders (the other four), from the named assumptions of the modules
(`RequestAssumption`, `ModeAssumption`, `BoundsAssumption`, `ActorAssumption`,
`SetupAssumption`, `GateAssumption`, `CharAssumption`, `InputAssumption`, `ClusterAssumption`, `KeyringAssumption`,
`ReadAssumption`, `ApiAssumption`, `PartsAssumption`, `ShardAssumption`,
`SessionAssumption`, `FolderAssumption`, `TornAssumption`, `ListingAssumption`). They say what kind of
value a constant is; those with content of their own are `PartsAssumption` (the parts
of an upload lie inside the object, as `complete_multipart_upload` sees to) and
`ListingAssumption` (the entries of a key stand together, and so do those of a group). Some
theorems have a hypothesis on top, `Serial`, `SingleFormat`, `Reupload`, `Calm`, `Race` or `Plain`, given
with them.

- `ObjectPublishProofs!TypeCorrect`: `Spec => []TypeOK`. It contains the one
  fact about temporaries every later argument needs: the temporary of `w` holds
  `w` or nothing.
- `ObjectPublishProofs!SidecarIntegrity`: `Serial => (Spec =>
  []SidecarMatchesPayload)`. The invariant is not inductive: that the new payload
  may be renamed into place depends on the old sidecar being gone by then, and
  that an undo may restore a sidecar depends on which payload is still aside.
  `PairInv` adds `OneWriter` (the client discipline), `Unstarted` (a request that
  has not begun owns no files), `StoredFormat` (bytes lie at the place their
  write path says), `OwnFormatMatches` (of the two places, the one of the sidecar's own
  format holds the sidecar's body or nothing) and, per request, `Where`: what is at the
  final paths and in the backups at each label. One lemma per action shows it is preserved.
- `ObjectPublishProofs!OneFormatServed`: `Serial /\ SingleFormat => (Spec => [](meta # None
  => payload[LayoutNow] \in {None, meta}))`. If all write paths of the bucket store in
  one format, what GET opens is the sidecar's body or nothing, without exception.
- `ObjectPublishProofs!ChecksumsGuard`: `Spec => []NoRejectedBytes`, without
  `Serial`: however many requests overlap. `CheckInv` says that bytes whose check is
  still to come, or failed, are in no final file, no backup and no GET's hands
  (`Nowhere`), and that a rejected PUT is at a label before the check or has ended.
- `ObjectPublishProofs!NothingLost`: `Serial => (Spec => []Recoverable)`. `LastInv`
  is `PairInv` and: while a PUT is between its last rename and its answer both its
  files are in place, a DELETE past its first removal has given the object up, and
  the request `last` names has published. With `Where`, every step that could touch
  the only copy is then a rename.
- `ObjectPublishProofs!PublishIsClean`, `PublishIsAtomic`: `Calm => (Spec =>
  []RestIntact)` and `Calm => (Spec => ImplementsAtomicObject)`. `Calm` is one writer
  at a time, nested keys, one payload format, no crash, and only the body and the two
  final renames of a publish fail: each of the other faults leaves the pair torn for a
  while or for good, which TLC shows as soon as it is allowed. `CalmInv` says per
  label which files a PUT owns (`OwnFiles`) and what is at the final paths
  (`FinalFiles`), what a DELETE has removed (`Removed`), and that with no writer in
  flight payload, sidecar and index agree (`Agree`). The refinement: `StoredIs` and
  `StoredWillBe` compute the register's value on both sides of a step, `PhaseStep`
  the phases of the requests; a PUT commits at its last rename
  (`PutImplements`), a DELETE at its first removal (`DeleteImplements`), every other
  step is a read or a stutter (`OtherImplements`). The abstract specification has no
  fairness, so nothing else is needed.
- `ObjectPublishProofs!RaceDecided`: `Race => (Spec => []RaceHasWinner)`, for any
  number of overlapping PUTs. `Race` is flat PUTs of a nested key and GETs, without
  faults and crashes. A PUT may take away files another has just moved in and then fail
  because the next one took the sidecar, so it is not clear that anything is left.
  `RaceInv` says who will bring the missing file: whoever takes the payload moves its own
  in or finds the sidecar gone, and whoever took the sidecar moves both in
  (`SomeoneBrings`); that the owner of a file in place cannot fail any more
  (`OwnersSucceed`); what is staged (`Staged`); and that the old object is there only
  while no one has touched it (`OldUntouched`). `RaceMoves` reduces the actions
  of a PUT to what they find and leave at the final paths, `RacePut` is about those.
- `VersionedObjectProofs!TypeCorrect`: `Spec => []TypeOK`, in particular one
  sidecar per version id.
- `VersionedObjectProofs!LockedVersionKept`: `Spec => []VersionLockHolds`. The
  strengthening `PledgeStored` says that for every stored version the pledge
  equals the lock in its own sidecar; since
  `delete_object_version` reads that very sidecar, no delete and no sweep that
  listed the version earlier can take it. The clock moving on only weakens the
  hypothesis.
- `VersionedObjectProofs!NewestShown`: `Spec => []ShownIsNewest`. With the type
  invariant (ids grow, one sidecar per id) it is inductive (`ShownInv`): a PUT in
  a versioned bucket writes the newest id to both places, every removal of a
  version ends in `Restored`, and a delete marker takes the current object away.
- `MultipartProofs!TypeCorrect`: `Spec => []TypeOK`, with `PartSet` (a request has
  a part number from its first step on), so part files and sidecars only ever
  hold what was sent for their own number.
- `MultipartProofs!CompletedObject`: `~Reupload => (Spec =>
  []AssembledAsNamed)`. The two loops of a completion look at different files at
  different times, so the invariant must say what a sidecar promises about the
  part file later on. `AssemblyInv` adds `OwnPart` (one request per part number),
  `Written` (once a request has written its part, the part file holds that part
  or is gone), `Described` (the request of a filled sidecar has nothing left to
  write) and `Loops` (what each loop has checked and copied so far).
- `BucketConfigProofs!TypeCorrect` and `AcknowledgedBytesKept`: `TypeOK` needs to
  know that a published upload has its bytes in the directory, and with it
  (`Staged`, `PayloadInv`) it is inductive: `remove_dir` succeeds on an empty
  directory only, and the purge leaves payloads and temporaries alone.
- `BucketConfigProofs!SettingKept`, `UploadFollows`: neither is inductive, since
  a request writes back what it read long before. `ConfigInv` adds `Solitude` (a
  request beside an administration is not `alone`), `OwnHandle` (an undisturbed
  write still owns the file it opened), `CopyAgrees` (in every change about to
  write, the fields it does not replace hold what is vouched for: whoever changed
  one in the meantime was contested by this very change) and `ModesFollow` (what
  an upload has read so far is what the settings say).

- `RequestGateProofs!TenantsSeparated`, `AnonymousReadsOpen`: `Spec =>
  []ServedWithinTenant` and `Spec => []AnonymousOnlyWhenOpen`. What a check saw may
  be gone when the answer is given, so `GateInv` carries it along: `SeesBucketNow`
  (a running request has the bucket of this moment among the states it has seen),
  `TenantKept` and `OpenKept` (past a check, one of those states passed it; `TenantPassed`
  says which requests are past a tenant check where, since some skip one or both),
  `Identified` (who is anonymous at which label) and `NoKeyUnknown` (no credential
  is stored under the name that stands for none).
- `RequestGateProofs!FailuresStayBounded`: `Spec => []FailuresBounded`. The property
  speaks of any stretch, the limiter of windows that start with a failure.
  `LimitInv` relates the two per client: what was told in the window of now is at most
  its count and the limit (`NowCounted`); of what was told in the stretch before its
  start there is one less (`BeforeBounded`), because a window starts with a failure
  that is told (`StartTold`) and lasts its length; and nothing is told after a window
  ended, while one that was forgotten ended long ago (`InWindow`). Any stretch that ends in
  the window of now lies in these two, and counts add up (`CountsBoth`).
- `RequestGateProofs!GlobsMatchTheirMeaning`: for all patterns and values `GlobMatch(p, v)
  => Fits(p, v)`, and the converse where `Clear(p, v)`: a star of the value meets a
  pattern with stars only at the value's end, and then without `*?` in the pattern.
  First the recursion has to have a solution at all: the least set of states closed under
  one round of the loop is one (`GlobRuns`, `GlobUnfolds`). Then, over the states from the
  furthest back (`FurthestState`: the place of the remembered star, then the place in the
  pattern), what the loop answers is `Finds`: the rest of the value fits the rest of the
  pattern, or fits behind the remembered star from some later place. `Aligned` is why one
  star is enough: since it, pattern and value moved together over plain characters, so a
  later place for that star is a later place here (`StarMoves`), and a new star
  covers whatever the old one could still have found.
- `RequestGateProofs!PoliciesDecide`, `RefusalsHaveReasons`: `Plain("Deny") => (Spec =>
  []ServedAsPolicySays)` and `Plain("Allow") => (Spec => []RefusedForAReason)`. One half is about
  operators: `ResourceMeant`, `NetworkMeant` (whole bytes and the bits left over are the
  leading bits), `TextMeant`, `ConditionMeant` and `StatementMeant` show that an accepted
  statement matches nothing that does not concern it and, where it is plain, all that
  does; `PolicyMeant` combines them: a request is let through without permission only if a Deny
  statement missed it, and refused in spite of one only if an Allow statement did. A policy
  without Deny statements thus never permits too much, whatever the names are. The other half is the invariant `PolicyInv`: `BucketsKnown` (a policy in force, now or
  while a request ran, was accepted), `Sources` (credentials come from some file, and the
  caller a request is taken for stays enabled as long as the process lives),
  `PermitKept` (past the first policy check one of the states seen permitted the request)
  and `RefusalKept` (a refused caller met a state that refused it). TLC checked it on the
  instance of `gate` first.
- `ClusterProofs!NoLocalBucketUncommitted`: `ClusterSpec => []LocalAfterCommit`.
  The server trusts the answer "applied", so `ClusterInv` says that no node has
  applied more than was chosen (`Behind`), that proposals have numbers of their
  own (`Numbered`), that the proposal of a running request asks what the request
  asks wherever it is (`Own`), and that a request about to change its filesystem
  has a committed entry (`Agreed`).
- `ClusterProofs!StateMachineFollowsLog`, `DiskConverges`: `ClusterSpec =>
  []MachineIsLog` and `[]DiskFollowsLog`. `After(k)`, the buckets of the first `k`
  entries, is stated without recursion, and `AfterStep` shows that one more entry makes
  one more change. `StoreInv` adds that every machine and every snapshot is `After` of what
  was finished where it was taken, but for the buckets in `lost` (`Machines`,
  `Snapshots`), that nothing is applied that is not held (`InOrder`), and, for the
  disk, which is never emptied: a bucket on it is one the log speaks of (`Known`), a
  directory without `.bucket.json` is being worked on or was broken off (`Bare`), and once
  a node has finished an entry about a bucket, disk and log agree on it unless a
  snapshot skipped it (`Disks`).
- `ClusterProofs!RepairsDoNoHarm`: `ShardSpec => []DamageContained`, for any number of
  shards and nodes. `ShardInv` adds how far the first writing has come (`Writing`:
  nothing is spoilt and no scanner at work before it ends) and that there is a set of at
  most as many shards as were spoilt such that all others are whole and no scanner is
  about to touch them (`Spared`, by `Contained` and `Careful`; the latter covers a scanner
  between cutting and filling).
- `EncryptionProofs!EncryptedStaysReadable`: `KeySpec => []KeysSurvive`. While no two
  writers have overlapped, `KeySafe` holds: one writer at a time (`OneWriter`),
  whose new ring has all of the file's keys (`Prepared`), a first start only
  without a file (`FirstStart`), the running server's keys still in the file
  (`InMemory`), and every data key wrapped under one of them (`Wrapped`).
- `EncryptionProofs!StreamsAreSlices`: `ReadSpec => []StreamIsSlice`, for any object
  size, piece size, range and sequence of reads. `ReadInv` adds that served and remaining
  bytes make the range (`Accounted`), that the cursor stands at the next byte before a
  piece is loaded and inside it afterwards (`AtPiece`, `InPiece`), that a stream which
  has not ended has something left (`Unfinished`) and that one which ended early has
  its reason on disk (`Explained`; damage is never undone). `DivRest`, `DivMod`,
  `PieceOrder`, `BytesOfPiece` and `FilledFits` are the arithmetic of pieces.
- `ApiProofs!ConsoleServesOwners`: `SessionSpec => []ServedToOwner`, from: a
  session token in a browser was earned there, by someone who knew the secret
  whose mark it carries or through Keycloak. The tenant part excepts buckets whose
  settings cannot be read when the request is made.
- `ApiProofs!FoldersStay`: `FolderSpec => []FolderKept`, from: a folder that is
  kept and empty has a deletion under way that has seen nothing, and so will write
  the marker.
- `ApiProofs!LogKeepsQuietLines`: `LogSpec => []QuietLogComplete`, from: the file and what
  every task has read hold lines of tasks that have written, and a task never reads its
  own (`OfWritten`); and a task that is not beside another is the only one at work
  (`Orderly`), has the kept lines, each once, in what it read (`Lonely`, `KeptIn`), and
  with no task at work they are in the file, which the sidecar describes unless it is
  stale (`MetaCurrent`).
- `ApiProofs!AnswersDescribeBodies`, `SidecarsMatch`, `BatchesAccountForKeys`: `ApiSpec =>
  []ResponseDescribesBody`, `[]SidecarMatches`, `[]BatchAccounted`. `ApiInv` has, of the
  store, that a sidecar which parses matches (`PairsMatch`) and that one outside `worn` is
  whole or has exactly one request about to fill it (`Intact`: `Detached`, `OneFiller`),
  and, of each request, what it holds at its label (`Fits`): a reader that is not `stirred` has looked
  at the content the key still has (`Looked`) and planned the span its header means of it
  (`Planned`, `Described`), a copy about to be stored has a body and the default encryption (`Holds`),
  and a batch has put each key it is done with in exactly one of its lists (`Counted`).
- `ApiProofs!ListingsComplete`: `ListSpec => []PagingComplete`, for any entries, keys,
  groups, page sizes and changes of the bucket between pages or directory entries. `ListInv` adds
  that an entry which was there all the time, of a key nobody was rewriting, is found when
  its turn comes (`Gathered`), that the pages so far show what lies up to the key they
  have come to (`Progress`), and that pages share no key and keep to their size (`Once`,
  `PagesFit`). The lemmas are about pages: the first `n` entries are at most `n` and closed
  downwards (`FirstOnes`), a finite set of numbers has a largest (`Largest`), and entries
  and common prefixes shown are together no more than the entries of the page (`PageSize`).

## What is only model-checked, what is not modelled

Model-checked only:

- `LeftoversSwept`, `UploadsEnd`, `RotHealed`, `WebhookDelivers`, `ReadyTracksQuorum`:
  liveness is outside the prover's reach. Every invariant and every
  action property of the runs has a theorem.

Not modelled: the components without modules in `PROJECT.json`, each with its
reason, and within the modelled ones: the Redis limiter, the free-space quota,
streaming signatures, checksum and user-metadata headers, version sub-resources
of the object handlers beyond what `VersionedObject` has, listings of uploads and
parts, lifecycle filters, the audit log and metrics. Cryptography, Reed-Solomon
arithmetic, SQLite, openraft, axum, Keycloak and the file system are third party
and appear only as the code uses them.

## Plan

1. `VersionedObject` refined: index row and listing, the crash between publish
   and `write_version`, a clock that steps back.
2. `ObjectApi` over `VersionedObject` instead of a plain pair: the version
   sub-resources of the handlers.
3. `Multipart` extended: a list that repeats a part number; an abstract upload
   that it implements for clients that send each part once.
4. `BucketConfig` extended: the half-deleted bucket as a statement of its own, an
   abstract record that it implements under one writer.
