----------------------------- MODULE RequestGate -----------------------------
(***************************************************************************)
(* What an S3 request passes before its handler touches the bucket: the    *)
(* PUT limiter, the signature or the public-bucket bypass, the tenant      *)
(* check, the bucket policy and, in most handlers, the same two checks     *)
(* again.  Every check reads the settings of the bucket anew, and they may *)
(* change between two of them.  Credentials are read at startup.           *)
(*                                                                         *)
(* Buckets are addressed by path; virtual hosts, copy sources and the keys *)
(* inside a DeleteObjects body are left out.                               *)
(***************************************************************************)
EXTENDS Policy, FiniteSets

CONSTANTS
  Req,           \* requests; each runs once
  Inputs,        \* what each request may be
  Docs,          \* the policies clients store
  Tenants,       \* who owns a bucket: a set of tenants, DefaultTenant among them
  CredFiles,     \* contents of the credentials file
  Root,          \* MAXIO_ACCESS_KEY
  RootSecret,    \* MAXIO_SECRET_KEY
  Proxies,       \* MAXIO_TRUSTED_PROXIES
  Window,        \* length of a rate-limit window
  MaxFailures,   \* failed authentications per window, 0 for no limit
  MaxPuts,       \* PUT requests per window, 0 for no limit
  Skew,          \* how far a request's time may be off
  MaxChanges,    \* bound on changes of the bucket and the credentials file
  MaxClock       \* bound on the clock

DefaultTenant == "default"
NoTenant == "unset"
NoSecret == ""
NoPolicy == {}           \* no statement: as good as no document
NoIp == <<>>             \* "unknown": no address
NoInput == [method |-> ""]   \* a request that has not come yet

ASSUME GateAssumption ==
  /\ DefaultTenant \in Tenants
  /\ Root # NoKey /\ \A file \in CredFiles : NoKey \notin DOMAIN file
  /\ Window \in Nat \ {0} /\ Skew \in Nat
  /\ MaxFailures \in Nat /\ MaxPuts \in Nat
  /\ MaxChanges \in Nat /\ MaxClock \in Nat

\* Callers send text and addresses, a POST to a bucket is a DeleteObjects, the
\* parser hands over statements, and the credentials file has entries.
ASSUME InputAssumption ==
  /\ \A r \in Req : \A i \in Inputs[r] :
       /\ i.key \in Text /\ i.prefix \in Text
       /\ i.peer \in Address /\ i.forwarded \in Seq(Address)
       /\ i.method = "POST" /\ i.key = <<>> => "delete" \in i.query
  /\ \A doc \in Docs : doc \subseteq Statement
  /\ \A file \in CredFiles : \A k \in DOMAIN file :
       file[k] \in [secret : STRING, enabled : BOOLEAN, tenant : STRING, groups : SUBSET Text]

VARIABLES
  bucket,        \* [exists, tenant, policy, read, list]: `.bucket.json'
  credfile,      \* the credentials file
  creds,         \* credentials in memory
  clock,
  failures,      \* the limiter of failed authentications: client -> window
  puts,          \* the limiter of PUTs
  in,            \* per request: what it is
  pc,            \* per request: the next step, or its answer
  who,           \* per request: the authenticated key
  changes,       \* number of changes so far
  seen,          \* history: per request, the bucket's states while it ran
  answered       \* history: failures told to the client, <<client, time>>

settings == <<bucket, credfile, creds>>
limits == <<failures, puts>>
vars == <<settings, clock, limits, in, pc, who, changes, seen, answered>>

NoBucket == [exists |-> FALSE, tenant |-> DefaultTenant, policy |-> NoPolicy,
             read |-> FALSE, list |-> FALSE]
NewBucket(t) == [NoBucket EXCEPT !.exists = TRUE, !.tenant = t]

\* put_bucket_policy of the store: a document of public grants opens the bucket,
\* any other closes it.
WithPolicy(b, doc) ==
  [b EXCEPT !.policy = doc, !.read = PublicRead(doc), !.list = PublicList(doc)]

Answers == {"served", "refused", "slow", "lost"}
Running(r) == pc[r] \notin Answers \union {"idle"}

-----------------------------------------------------------------------------
(* Credentials and tenants.                                                 *)

EffectiveTenant(t) == IF t = NoTenant THEN DefaultTenant ELSE t

\* CredentialStore::load: the bootstrap key, then the file; entries without an
\* access key or a secret are skipped.
Load(file) ==
  LET usable == {k \in DOMAIN file : file[k].secret # NoSecret}
      boot == [secret |-> RootSecret, enabled |-> TRUE, tenant |-> NoTenant,
               groups |-> {}]
      entry(k) == IF k \in usable THEN file[k] ELSE boot IN
    [k \in usable \union {Root} |->
       [entry(k) EXCEPT !.tenant = EffectiveTenant(@)]]

Known(k) == k \in DOMAIN creds /\ creds[k].enabled

\* bucket_access_allowed.
TenantAllows(b, k) ==
  k = Root \/ (Known(k) /\ EffectiveTenant(b.tenant) = creds[k].tenant)

-----------------------------------------------------------------------------
(* The rate limiter: a map from clients to counted windows.                 *)

\* Mutant: a new window keeps the old count's starting time.
StaleWindow(limiter, client) ==
  LET old == IF client \in DOMAIN limiter THEN limiter[client]
             ELSE [count |-> 0, start |-> clock]
      open == IF clock - old.start >= Window THEN [old EXCEPT !.count = 0] ELSE old IN
    [c \in DOMAIN limiter \union {client} |->
       IF c = client THEN [open EXCEPT !.count = @ + 1] ELSE limiter[c]]

\* SlidingWindowLimiter::try_acquire, for a limiter that is switched on.
Acquire(limiter, client) ==
  LET kept == {c \in DOMAIN limiter : clock - limiter[c].start < 2 * Window}
      old == IF client \in kept THEN limiter[client]
             ELSE [count |-> 0, start |-> clock]
      open == IF clock - old.start >= Window
              THEN [count |-> 0, start |-> clock] ELSE old IN
    [c \in kept \union {client} |->
       IF c = client THEN [open EXCEPT !.count = @ + 1] ELSE limiter[c]]

Over(limiter, client, max) == max > 0 /\ Acquire(limiter, client)[client].count > max
Counted(limiter, client, max) ==
  IF max > 0 THEN Acquire(limiter, client) ELSE limiter

\* TrustedProxies::client_ip: behind a trusted peer the first address of the
\* forwarded chain; otherwise the peer's.
ClientIp(i) ==
  IF i.peer \notin Proxies \/ i.forwarded = <<>> THEN i.peer ELSE i.forwarded[1]

\* client_ip_from_headers, which the handlers use.
HeaderIp(i) == IF i.forwarded = <<>> THEN NoIp ELSE i.forwarded[1]

-----------------------------------------------------------------------------
(* What a request asks for.                                                 *)

Safe(i) == i.method \in {"GET", "HEAD", "OPTIONS"}
IsObject(i) == i.key # <<>>

\* Sub-resources that never pass without authentication.
ForbiddenAnonymously == {"uploads", "uploadId", "delete", "policy"}

\* s3_action_for_request.
ActionOf(i) ==
  IF i.query \intersect {"uploads", "uploadId"} # {} THEN PutObject
  ELSE CASE i.method \in {"GET", "HEAD"} ->
              IF IsObject(i) THEN GetObject ELSE ListBucket
         [] i.method = "PUT" -> PutObject
         [] i.method = "DELETE" -> DeleteObject
         [] i.method = "POST" /\ "delete" \in i.query -> DeleteObject
         [] OTHER -> <<>>

\* Requests without a policy check: is_create_bucket_request takes every PUT of a
\* bucket whose query assigns nothing for a creation, `?policy' and the other
\* settings too; and methods with no action have none.
PolicyExempt(i) ==
  \/ i.method = "PUT" /\ ~i.assigns /\ ~IsObject(i)
  \/ ActionOf(i) = <<>>

\* plan_tenant_scope: any PUT whose query assigns nothing counts as a creation,
\* that of an object too.
TenantExempt(i) == i.method = "PUT" /\ ~i.assigns

\* Handlers that return before any gate of their own: locks, tags, parts and
\* aborts of an object, the settings and the deletion of a bucket, OPTIONS.
Ungated(i) ==
  \/ i.method = "OPTIONS"
  \/ ~IsObject(i) /\ i.method \in {"PUT", "DELETE"}
  \/ /\ i.method = "PUT"
     /\ i.query \intersect {"retention", "legal-hold", "tagging", "uploadId"} # {}
  \/ i.method = "DELETE" /\ i.query \intersect {"tagging", "uploadId"} # {}

AsPolicyRequest(i) == [action |-> ActionOf(i), key |-> i.key, prefix |-> i.prefix]
ContextOf(k, ip) ==
  [who |-> k, ip |-> ip, roles |-> {},
   groups |-> IF k # NoKey /\ Known(k) THEN creds[k].groups ELSE {}]

\* enforce_policy_target.
PolicyAllows(b, i, k, ip) ==
  \/ ~b.exists \/ b.policy = NoPolicy \/ V1Accepts(b.policy)
  \/ EvaluateV2(b.policy, AsPolicyRequest(i), ContextOf(k, ip)) = "Allow"

\* The signature in the request is the one its secret gives for what arrived.
Verified(i) == i.intact /\ i.secret = creds[i.key_id].secret

\* parse_authorization_header, the key, the region, the time, the signature.
SignedHeader(i) ==
  /\ i.auth = "header" /\ i.wellformed /\ Known(i.key_id) /\ i.region
  /\ clock <= i.stamp + Skew /\ i.stamp <= clock + Skew
  /\ Verified(i)

\* handle_presigned: the URL lives for a time of its own.
Presigned(i) ==
  /\ i.auth = "presigned" /\ i.wellformed /\ Known(i.key_id) /\ i.region
  /\ clock <= i.stamp + i.expires /\ i.stamp <= clock + Skew
  /\ Verified(i)

Authentic(i) == SignedHeader(i) \/ Presigned(i)

-----------------------------------------------------------------------------
(* Steps of a request.                                                      *)

Goto(r, label) == pc' = [pc EXCEPT ![r] = label]

Init ==
  /\ bucket \in {NoBucket} \union {NewBucket(t) : t \in Tenants}
                 \union {WithPolicy(NewBucket(t), d) : t \in Tenants,
                                                       d \in {doc \in Docs : V2Accepts(doc)}}
  /\ credfile \in CredFiles
  /\ creds = Load(credfile)
  /\ clock = 0
  /\ failures = <<>> /\ puts = <<>>
  /\ in = [r \in Req |-> NoInput]
  /\ pc = [r \in Req |-> "idle"]
  /\ who = [r \in Req |-> NoKey]
  /\ changes = 0
  /\ seen = [r \in Req |-> {}]
  /\ answered = {}

\* auth_failure: every failure is counted; over the limit it is a slow-down.
FailAuth(r, ip) ==
  /\ failures' = Counted(failures, ip, MaxFailures)
  /\ IF Over(failures, ip, MaxFailures)
       THEN Goto(r, "slow") /\ UNCHANGED answered
       ELSE Goto(r, "refused") /\ answered' = answered \union {<<ip, clock, r>>}

\* auth_middleware up to its first await.
Arrive(r, i) ==
  LET ip == ClientIp(i)
      limited == i.method = "PUT" /\ Over(puts, ip, MaxPuts) IN
    /\ pc[r] = "idle"
    /\ in' = [in EXCEPT ![r] = i]
    /\ puts' = IF i.method = "PUT" THEN Counted(puts, ip, MaxPuts) ELSE puts
    /\ seen' = [seen EXCEPT ![r] = {bucket}]
    /\ \/ limited /\ Goto(r, "slow") /\ UNCHANGED <<failures, who, answered>>
       \/ /\ ~limited /\ Authentic(i)
          /\ who' = [who EXCEPT ![r] = i.key_id]
          /\ Goto(r, IF TenantExempt(i) THEN "policy" ELSE "tenant")
          /\ UNCHANGED <<failures, answered>>
       \/ /\ ~limited /\ i.auth = "none"
          /\ Goto(r, "bypass")
          /\ UNCHANGED <<failures, who, answered>>
       \/ /\ ~limited /\ i.auth # "none" /\ ~Authentic(i)
          /\ FailAuth(r, ip) /\ UNCHANGED who
    /\ UNCHANGED <<settings, clock, changes>>

\* Mutant: a listing passes when objects are public.
BypassByReading(b, i) ==
  /\ Safe(i) /\ i.query \intersect ForbiddenAnonymously = {}
  /\ b.exists /\ b.read

\* is_public_bypass_allowed.
BypassAllowed(b, i) ==
  /\ Safe(i) /\ i.query \intersect ForbiddenAnonymously = {}
  /\ b.exists /\ IF IsObject(i) THEN b.read ELSE b.list

Bypass(r) ==
  /\ pc[r] = "bypass"
  /\ IF BypassAllowed(bucket, in[r])
       THEN Goto(r, "policy") /\ UNCHANGED <<failures, answered>>
       ELSE FailAuth(r, ClientIp(in[r]))
  /\ UNCHANGED <<settings, clock, puts, in, who, changes, seen>>

\* A check that reads the bucket and either goes on or refuses.
Check(r, from, ok, next) ==
  /\ pc[r] = from
  /\ Goto(r, IF ok THEN next ELSE "refused")
  /\ UNCHANGED <<settings, clock, limits, in, who, changes, seen, answered>>

Tenant(r) ==
  Check(r, "tenant", bucket.exists /\ TenantAllows(bucket, who[r]), "policy")

\* Mutant: every handler trusts the middleware.
LastCheck(r) ==
  Check(r, "policy",
        PolicyExempt(in[r]) \/ PolicyAllows(bucket, in[r], who[r], ClientIp(in[r])),
        "served")

\* The policy in the middleware; then the handler, with gates or without.
CheckPolicy(r) ==
  Check(r, "policy",
        PolicyExempt(in[r]) \/ PolicyAllows(bucket, in[r], who[r], ClientIp(in[r])),
        IF Ungated(in[r]) THEN "served" ELSE "handler")

\* Requests for a bucket that read it are checked for the tenant alone.
TenantOnly(i) == ~IsObject(i) /\ Safe(i)

\* enforce_tenant_bucket in the handler; an anonymous request is not checked.
HandlerTenant(r) ==
  Check(r, "handler",
        bucket.exists /\ (who[r] = NoKey \/ TenantAllows(bucket, who[r])),
        IF TenantOnly(in[r]) THEN "served" ELSE "handler2")

HandlerPolicy(r) ==
  Check(r, "handler2",
        PolicyExempt(in[r]) \/ PolicyAllows(bucket, in[r], who[r], HeaderIp(in[r])),
        "served")

-----------------------------------------------------------------------------
(* The bucket changes, the operator edits the credentials, time passes.     *)

SetBucket(b) ==
  /\ changes < MaxChanges
  /\ b # bucket
  /\ bucket' = b
  /\ changes' = changes + 1
  /\ seen' = [r \in Req |-> IF Running(r) THEN seen[r] \union {b} ELSE seen[r]]
  /\ UNCHANGED <<credfile, creds, clock, limits, in, pc, who, answered>>

\* put_bucket_policy: stored only if it is well formed.
PutPolicy(doc) ==
  bucket.exists /\ V2Accepts(doc) /\ SetBucket(WithPolicy(bucket, doc))

DeletePolicy ==
  /\ bucket.exists
  /\ SetBucket([bucket EXCEPT !.policy = NoPolicy, !.read = FALSE, !.list = FALSE])

\* set_bucket_public, from the console: the policy stays.
PutPublic(read, list) ==
  /\ bucket.exists
  /\ SetBucket([bucket EXCEPT !.read = read, !.list = list])

\* The bucket is deleted, or made again by anyone.
DeleteBucket == bucket.exists /\ SetBucket(NoBucket)
CreateBucket(t) == ~bucket.exists /\ SetBucket(NewBucket(t))

EditCredentials(file) ==
  /\ changes < MaxChanges
  /\ file # credfile
  /\ credfile' = file
  /\ changes' = changes + 1
  /\ UNCHANGED <<bucket, creds, clock, limits, in, pc, who, seen, answered>>

\* The process is started again: limiters are lost, and no request of the old
\* process is spoken of any more.
Restart ==
  /\ creds # Load(credfile)
  /\ creds' = Load(credfile)
  /\ failures' = <<>> /\ puts' = <<>>
  /\ pc' = [r \in Req |-> IF pc[r] = "idle" THEN pc[r] ELSE "lost"]
  /\ answered' = {}
  /\ UNCHANGED <<bucket, credfile, clock, in, who, changes, seen>>

Tick ==
  /\ clock < MaxClock
  /\ clock' = clock + 1
  /\ UNCHANGED <<settings, limits, in, pc, who, changes, seen, answered>>

Next ==
  \/ \E r \in Req : \E i \in Inputs[r] : Arrive(r, i)
  \/ \E r \in Req : \/ Bypass(r) \/ Tenant(r) \/ CheckPolicy(r)
                    \/ HandlerTenant(r) \/ HandlerPolicy(r)
  \/ \E doc \in Docs : PutPolicy(doc)
  \/ DeletePolicy
  \/ \E read, list \in BOOLEAN : PutPublic(read, list)
  \/ DeleteBucket
  \/ \E t \in Tenants : CreateBucket(t)
  \/ \E file \in CredFiles : EditCredentials(file)
  \/ Restart
  \/ Tick

Spec == Init /\ [][Next]_vars

-----------------------------------------------------------------------------
(* What a policy means, stated without the matcher: globs by the ways a     *)
(* value can be cut, networks by their leading bits.                        *)

MeantInNetwork(addr, net) ==
  /\ Len(addr) = Len(net.addr)
  /\ \A n \in 1 .. Len(addr) : n <= net.prefix => addr[n] = net.addr[n]

MeantText(op, values, actual) ==
  \E pattern \in values, v \in actual :
    IF op = "StringLike" THEN Fits(pattern, v) ELSE op = "StringEquals" /\ pattern = v

MeantCondition(c, i, k, ip) ==
  CASE c.key = "ip" -> c.op = "IpAddress" /\ \E net \in c.values : MeantInNetwork(ip, net)
    [] c.key = "prefix" ->
         MeantText(c.op, c.values, {IF i.prefix # <<>> THEN i.prefix ELSE i.key})
    [] c.key = "groups" -> MeantText(c.op, c.values, ContextOf(k, ip).groups)
    [] OTHER -> FALSE

\* The statement speaks of this request: its object, every object of the
\* bucket, or a pattern that fits.
Concerns(st, i, k, ip) ==
  /\ "*" \in st.principal \/ (k # NoKey /\ k \in st.principal)
  /\ \E a \in st.actions : a[2] \in {"*", ActionOf(i)[2]}
  /\ \E p \in st.resources :
       \/ Fits(p, Target(AsPolicyRequest(i)))
       \/ p = BucketArn
  /\ \A c \in st.conditions : MeantCondition(c, i, k, ip)

\* No statement forbids the request and one permits it.  A bucket without a
\* policy, or with nothing but public grants in it, decides by tenant alone.
Permitted(b, i, k, ip) ==
  \/ ~b.exists \/ b.policy = NoPolicy \/ V1Accepts(b.policy)
  \/ /\ \A st \in b.policy : Concerns(st, i, k, ip) => st.effect = "Allow"
     /\ \E st \in b.policy : Concerns(st, i, k, ip)

\* Where the matcher finds all that a pattern means, in statements of one effect: no
\* name it is applied to has a star, which the matcher takes for the star of the pattern,
\* and requests for the whole bucket, matched as `b/*', meet no pattern with `*?'.  No
\* network is longer than its addresses (the IPv6 comparison would read beyond them).
StarFree(t) == \A j \in 1 .. Len(t) : t[j] # "*"
NoStarBeforeAny(p) == \A j \in 1 .. Len(p) - 1 : ~(p[j] = "*" /\ p[j + 1] = "?")
PlainNames ==
  /\ \A r \in Req : \A i \in Inputs[r] : StarFree(i.key) /\ StarFree(i.prefix)
  /\ \A file \in CredFiles : \A k \in DOMAIN file : \A g \in file[k].groups : StarFree(g)
Plain(effect) ==
  \A doc \in Docs : \A st \in doc :
    /\ \A c \in st.conditions : c.key = "ip" =>
         \A net \in c.values : net.v6 => net.prefix <= Len(net.addr)
    /\ st.effect = effect =>
         /\ PlainNames
         /\ \A p \in st.resources :
              \/ NoStarBeforeAny(p)
              \/ \A r \in Req : \A i \in Inputs[r] : Target(AsPolicyRequest(i)) # AnyObject

Opened(b, i) == b.exists /\ IF IsObject(i) THEN b.read ELSE b.list
SameTenant(b, k) == b.exists /\ (k = Root \/ creds[k].tenant = EffectiveTenant(b.tenant))

-----------------------------------------------------------------------------
(* Properties.                                                              *)

\* A request that got past the gates was permitted, for its caller and from its
\* address, by a state the policy had while the request ran: the checks before
\* and in the handler never add up to more than what one of those states says
\* (glob, address and deny-over-allow rules of policy.rs, bucket_policy.rs).  The
\* requests bucket_policy.rs exempts, above all PUTs of a bucket's settings
\* whose query assigns nothing, are not covered: no policy is asked for them.
ServedAsPolicySays ==
  \A r \in Req : pc[r] = "served" /\ ~PolicyExempt(in[r]) =>
    \E b \in seen[r] : Permitted(b, in[r], who[r], ClientIp(in[r]))

\* The converse: a caller with a good signature is turned away only when, at some
\* moment of the request, the bucket was missing, belonged to another tenant or
\* had a policy that did not permit the request (seen from the peer or from the
\* forwarded address, which the handlers use).
RefusedForAReason ==
  \A r \in Req : pc[r] = "refused" /\ who[r] # NoKey =>
    \E b \in seen[r] :
      \/ ~SameTenant(b, who[r])
      \/ \E ip \in {ClientIp(in[r]), HeaderIp(in[r])} : ~Permitted(b, in[r], who[r], ip)

\* Where the code checks the tenant at all, before the handler or in it, a caller
\* gets past only if the bucket, at some moment of the request, belonged to the
\* caller's tenant (tenant.rs, tenant_middleware.rs, request_context.rs).  Not
\* covered are the PUTs that both places leave out: creations, and settings of a
\* bucket, tags and locks of an object whose query assigns nothing.
TenantChecked(i) == ~TenantExempt(i) \/ ~Ungated(i)
ServedWithinTenant ==
  \A r \in Req : pc[r] = "served" /\ who[r] # NoKey /\ TenantChecked(in[r]) =>
    \E b \in seen[r] : SameTenant(b, who[r])

\* A request without a signature reaches a handler only to read, and only if the
\* bucket was open for this kind of reading while it ran; stored policies and the
\* console's switches both set those flags (is_public_bypass_allowed).
AnonymousOnlyWhenOpen ==
  \A r \in Req : pc[r] = "served" /\ who[r] = NoKey =>
    Safe(in[r]) /\ \E b \in seen[r] : Opened(b, in[r])

\* Failed authentications a client is told about, rather than slowed down, stay
\* below two full windows in any stretch as long as a window: the limiter counts
\* in windows that start with a failure, so only the last M - 1 of one window and
\* the M of the next can fall close together (rate_limit.rs).
FailuresBounded ==
  MaxFailures > 0 =>
    \A a \in answered :
      LET near == {x \in answered : x[1] = a[1] /\ x[2] \in a[2] .. a[2] + Window - 1} IN
        Cardinality(near) <= 2 * MaxFailures - 1
=============================================================================
