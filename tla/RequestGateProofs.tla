-------------------------- MODULE RequestGateProofs --------------------------
(***************************************************************************)
(* Proofs about RequestGate: tenants, anonymous access, the limiter of     *)
(* failed authentications, the glob matcher and the policies, for any      *)
(* number of requests, any policies, any credentials file and any sequence *)
(* of changes to the bucket while requests run.                            *)
(***************************************************************************)
EXTENDS RequestGate, FiniteSetTheorems, SequenceTheorems, WellFoundedInduction, TLAPS

-----------------------------------------------------------------------------
(* The inductive invariant.                                                 *)

\* The variables of the requests are functions of the requests.
Tables ==
  /\ pc = [r \in Req |-> pc[r]] /\ who = [r \in Req |-> who[r]]
  /\ in = [r \in Req |-> in[r]] /\ seen = [r \in Req |-> seen[r]]

\* No credential is stored under the name that stands for having none.
NoKeyUnknown == NoKey \notin DOMAIN creds /\ credfile \in CredFiles

\* What a running request may still read is among what it has seen.
SeesBucketNow == \A r \in Req : Running(r) => bucket \in seen[r]

\* A request is anonymous until its signature has been verified, and one that
\* waits for the tenant check is not.
Identified ==
  \A r \in Req : /\ pc[r] \in {"idle", "bypass"} => who[r] = NoKey
                 /\ pc[r] = "tenant" => who[r] # NoKey

\* Past the first tenant check, or past the one in the handler, the bucket has
\* been the caller's at some moment.
TenantPassed(r) ==
  \/ pc[r] \in {"policy", "handler", "handler2", "served"} /\ ~TenantExempt(in[r])
  \/ pc[r] \in {"handler2", "served"} /\ ~Ungated(in[r])
TenantKept ==
  \A r \in Req : TenantPassed(r) /\ who[r] # NoKey =>
    \E b \in seen[r] : SameTenant(b, who[r])

\* Past the bypass an anonymous request is a read of an open bucket.
Admitted == {"policy", "handler", "handler2", "served"}
OpenKept ==
  \A r \in Req : pc[r] \in Admitted /\ who[r] = NoKey =>
    Safe(in[r]) /\ \E b \in seen[r] : Opened(b, in[r])

GateInv ==
  Tables /\ NoKeyUnknown /\ SeesBucketNow /\ Identified /\ TenantKept /\ OpenKept

LEMMA LoadLeavesNoKey == ASSUME NEW f \in CredFiles PROVE NoKey \notin DOMAIN Load(f)
<1> DEFINE usable == {k \in DOMAIN f : f[k].secret # NoSecret}
           boot == [secret |-> RootSecret, enabled |-> TRUE, tenant |-> NoTenant,
                    groups |-> {}]
           entry(k) == IF k \in usable THEN f[k] ELSE boot
           loaded(k) == [entry(k) EXCEPT !.tenant = EffectiveTenant(@)]
<1>1. Load(f) = [k \in usable \union {Root} |-> loaded(k)]
  BY DEF Load
<1>2. NoKey \notin usable \union {Root}
  BY GateAssumption
<1> HIDE DEF loaded, usable
<1> QED BY <1>1, <1>2

LEMMA TenantMeans ==
  ASSUME NEW b, NEW k, b.exists, TenantAllows(b, k) PROVE SameTenant(b, k)
BY DEF TenantAllows, SameTenant, Known

LEMMA InitGate == Init => GateInv
BY LoadLeavesNoKey DEF Init, GateInv, Tables, NoKeyUnknown, SeesBucketNow, Identified,
   TenantKept, TenantPassed, OpenKept, Admitted, Running, Answers

\* A step that moves one request on, after a check of the bucket as it is.
LEMMA CheckKeeps ==
  ASSUME GateInv, NEW r \in Req, NEW from, NEW ok, NEW next, Check(r, from, ok, next),
         from \in {"tenant", "policy", "handler", "handler2"},
         ok \in BOOLEAN,
         next \in Admitted,
         ok => \/ from = "tenant" /\ SameTenant(bucket, who[r]) /\ next = "policy"
               \/ from = "policy" /\ next = "handler"
               \/ from = "policy" /\ next = "served" /\ Ungated(in[r])
               \/ from = "handler" /\ next \in {"handler2", "served"}
                    /\ (who[r] # NoKey => SameTenant(bucket, who[r]))
               \/ from = "handler2" /\ next = "served"
  PROVE  GateInv'
<1>1. /\ pc[r] = from /\ pc' = [pc EXCEPT ![r] = IF ok THEN next ELSE "refused"]
      /\ UNCHANGED <<bucket, credfile, creds, in, who, seen>>
  BY DEF Check, Goto, settings
<1> USE DEF GateInv
<1>2. pc'[r] = (IF ok THEN next ELSE "refused") /\ \A q \in Req \ {r} : pc'[q] = pc[q]
  BY <1>1 DEF Tables
<1>3. Running(r) /\ bucket \in seen[r]
  BY <1>1 DEF SeesBucketNow, Running, Answers
<1>4. Tables' /\ NoKeyUnknown' /\ SeesBucketNow'
  BY <1>1, <1>2, <1>3 DEF Tables, NoKeyUnknown, SeesBucketNow, Running, Answers
<1>5. Identified'
  BY <1>1, <1>2 DEF Identified, Admitted
<1>6. TenantKept'
  <2> SUFFICES ASSUME NEW q \in Req, TenantPassed(q)', who[q] # NoKey
               PROVE  \E b \in seen[q] : SameTenant(b, who[q])
    BY <1>1 DEF TenantKept, SameTenant
  <2>1. CASE q # r
    BY <2>1, <1>1, <1>2 DEF TenantKept, TenantPassed
  <2>2. CASE q = r
    BY <2>2, <1>1, <1>2, <1>3 DEF TenantKept, TenantPassed
  <2> QED BY <2>1, <2>2
<1>7. OpenKept'
  BY <1>1, <1>2 DEF OpenKept, Identified, Admitted, Opened, Safe
<1> QED BY <1>4, <1>5, <1>6, <1>7

\* A change of the bucket is seen by every request that runs.
LEMMA SetBucketKeeps ==
  ASSUME GateInv, NEW b, SetBucket(b) PROVE GateInv'
<1>1. /\ bucket' = b /\ seen' = [r \in Req |-> IF Running(r) THEN seen[r] \union {b} ELSE seen[r]]
      /\ UNCHANGED <<credfile, creds, in, pc, who>>
  BY DEF SetBucket
<1> USE DEF GateInv
<1>2. \A r \in Req : /\ seen'[r] = IF Running(r) THEN seen[r] \union {b} ELSE seen[r]
                     /\ seen[r] \subseteq seen'[r]
  BY <1>1
<1>3. Tables' /\ NoKeyUnknown' /\ Identified'
  BY <1>1, <1>2 DEF Tables, NoKeyUnknown, Identified
<1>4. SeesBucketNow'
  BY <1>1, <1>2 DEF SeesBucketNow, Running
<1>5. TenantKept'
  BY <1>1, <1>2 DEF TenantKept, TenantPassed, SameTenant
<1>6. OpenKept'
  BY <1>1, <1>2 DEF OpenKept
<1> QED BY <1>3, <1>4, <1>5, <1>6

\* auth_middleware gives an identity to no one but the holder of a signature.
LEMMA ArriveKeeps ==
  ASSUME GateInv, NEW r \in Req, NEW i, Arrive(r, i) PROVE GateInv'
<1>1. /\ pc[r] = "idle" /\ in' = [in EXCEPT ![r] = i]
      /\ seen' = [seen EXCEPT ![r] = {bucket}]
      /\ UNCHANGED <<bucket, credfile, creds>>
      /\ who[r] = NoKey
  BY DEF Arrive, settings, GateInv, Identified
<1>2. \/ pc' = [pc EXCEPT ![r] = "slow"] /\ UNCHANGED who
      \/ pc' = [pc EXCEPT ![r] = "refused"] /\ UNCHANGED who
      \/ pc' = [pc EXCEPT ![r] = "bypass"] /\ UNCHANGED who
      \/ /\ Authentic(i) /\ who' = [who EXCEPT ![r] = i.key_id]
         /\ pc' = [pc EXCEPT ![r] = IF TenantExempt(i) THEN "policy" ELSE "tenant"]
  BY DEF Arrive, FailAuth, Goto
<1>3. Authentic(i) => i.key_id # NoKey
  BY DEF Authentic, SignedHeader, Presigned, Known, GateInv, NoKeyUnknown
<1> USE DEF GateInv
<1>4. /\ in'[r] = i /\ seen'[r] = {bucket}
      /\ \A q \in Req \ {r} : in'[q] = in[q] /\ seen'[q] = seen[q]
                             /\ pc'[q] = pc[q] /\ who'[q] = who[q]
  BY <1>1, <1>2 DEF Tables
<1>5. \/ pc'[r] \in {"slow", "refused", "bypass"} /\ who'[r] = NoKey
      \/ pc'[r] \in {"policy", "tenant"} /\ who'[r] # NoKey
           /\ (pc'[r] = "policy" => TenantExempt(i))
  BY <1>1, <1>2, <1>3 DEF Tables
<1>6. Tables'
  BY <1>1, <1>2 DEF Tables
<1>7. NoKeyUnknown' /\ SeesBucketNow'
  BY <1>1, <1>4, <1>5 DEF NoKeyUnknown, SeesBucketNow, Running, Answers
<1>8. Identified'
  BY <1>4, <1>5 DEF Identified
<1>9. TenantKept'
  <2> SUFFICES ASSUME NEW q \in Req, TenantPassed(q)', who'[q] # NoKey
               PROVE  \E b \in seen'[q] : SameTenant(b, who'[q])
    BY <1>1 DEF TenantKept, SameTenant
  <2>1. q # r
    BY <1>4, <1>5 DEF TenantPassed
  <2> QED BY <2>1, <1>4 DEF TenantKept, TenantPassed
<1>10. OpenKept'
  <2> SUFFICES ASSUME NEW q \in Req, pc'[q] \in Admitted, who'[q] = NoKey
               PROVE  Safe(in'[q]) /\ \E b \in seen'[q] : Opened(b, in'[q])
    BY DEF OpenKept
  <2>1. q # r
    BY <1>5 DEF Admitted
  <2> QED BY <2>1, <1>4 DEF OpenKept
<1> QED BY <1>6, <1>7, <1>8, <1>9, <1>10

LEMMA BypassKeeps == ASSUME GateInv, NEW r \in Req, Bypass(r) PROVE GateInv'
<1>1. /\ pc[r] = "bypass" /\ UNCHANGED <<bucket, credfile, creds, in, who, seen>>
      /\ \/ pc' = [pc EXCEPT ![r] = "policy"] /\ BypassAllowed(bucket, in[r])
         \/ pc' = [pc EXCEPT ![r] = "slow"]
         \/ pc' = [pc EXCEPT ![r] = "refused"]
  BY DEF Bypass, FailAuth, Goto, settings
<1> USE DEF GateInv
<1>2. who[r] = NoKey /\ bucket \in seen[r]
  BY <1>1 DEF Identified, SeesBucketNow, Running, Answers
<1>3. /\ \/ pc'[r] = "policy" /\ Safe(in[r]) /\ Opened(bucket, in[r])
         \/ pc'[r] \in {"slow", "refused"}
      /\ \A q \in Req \ {r} : pc'[q] = pc[q]
  BY <1>1 DEF Tables, BypassAllowed, Opened
<1>4. Tables' /\ NoKeyUnknown' /\ SeesBucketNow'
  BY <1>1, <1>2, <1>3 DEF Tables, NoKeyUnknown, SeesBucketNow, Running, Answers
<1>5. Identified'
  BY <1>1, <1>3 DEF Identified
<1>6. TenantKept'
  BY <1>1, <1>2, <1>3 DEF TenantKept, TenantPassed, SameTenant
<1>7. OpenKept'
  BY <1>1, <1>2, <1>3 DEF OpenKept, Admitted
<1> QED BY <1>4, <1>5, <1>6, <1>7

\* A new process knows no request of the old one.
LEMMA RestartKeeps == ASSUME GateInv, Restart PROVE GateInv'
<1>1. /\ creds' = Load(credfile) /\ UNCHANGED <<bucket, credfile, in, who, seen>>
      /\ pc' = [r \in Req |-> IF pc[r] = "idle" THEN pc[r] ELSE "lost"]
  BY DEF Restart
<1>2. \A r \in Req : pc'[r] = "lost" \/ (pc'[r] = "idle" /\ pc[r] = "idle")
  BY <1>1
<1> USE DEF GateInv
<1>3. NoKeyUnknown'
  BY <1>1, LoadLeavesNoKey DEF NoKeyUnknown
<1>4. Tables' /\ SeesBucketNow' /\ Identified' /\ TenantKept' /\ OpenKept'
  BY <1>1, <1>2 DEF Tables, SeesBucketNow, Running, Answers, Identified, TenantKept,
     TenantPassed, OpenKept, Admitted
<1> QED BY <1>3, <1>4

LEMMA NextGate == GateInv /\ [Next]_vars => GateInv'
<1> SUFFICES ASSUME GateInv, [Next]_vars PROVE GateInv'
  OBVIOUS
<1>1. ASSUME NEW r \in Req, NEW i \in Inputs[r], Arrive(r, i) PROVE GateInv'
  BY <1>1, ArriveKeeps
<1>2. ASSUME NEW r \in Req, Bypass(r) PROVE GateInv'
  BY <1>2, BypassKeeps
<1>3. ASSUME NEW r \in Req, Tenant(r) PROVE GateInv'
  <2> DEFINE ok == bucket.exists /\ TenantAllows(bucket, who[r])
  <2>1. Check(r, "tenant", ok, "policy")
    BY <1>3 DEF Tenant
  <2>2. ok \in BOOLEAN /\ (ok => SameTenant(bucket, who[r])) /\ "policy" \in Admitted
    BY TenantMeans DEF Admitted
  <2> HIDE DEF ok
  <2> QED BY <2>1, <2>2, CheckKeeps
<1>4. ASSUME NEW r \in Req, CheckPolicy(r) PROVE GateInv'
  <2> DEFINE ok == PolicyExempt(in[r]) \/ PolicyAllows(bucket, in[r], who[r], ClientIp(in[r]))
             next == IF Ungated(in[r]) THEN "served" ELSE "handler"
  <2>1. Check(r, "policy", ok, next)
    BY <1>4 DEF CheckPolicy
  <2>2. /\ ok \in BOOLEAN /\ next \in Admitted
        /\ next = "handler" \/ (next = "served" /\ Ungated(in[r]))
    BY DEF Admitted
  <2> HIDE DEF ok, next
  <2> QED BY <2>1, <2>2, CheckKeeps
<1>5. ASSUME NEW r \in Req, HandlerTenant(r) PROVE GateInv'
  <2> DEFINE ok == bucket.exists /\ (who[r] = NoKey \/ TenantAllows(bucket, who[r]))
             next == IF TenantOnly(in[r]) THEN "served" ELSE "handler2"
  <2>1. Check(r, "handler", ok, next)
    BY <1>5 DEF HandlerTenant
  <2>2. /\ ok \in BOOLEAN /\ next \in Admitted /\ next \in {"handler2", "served"}
        /\ ok /\ who[r] # NoKey => SameTenant(bucket, who[r])
    BY TenantMeans DEF Admitted
  <2> HIDE DEF ok, next
  <2> QED BY <2>1, <2>2, CheckKeeps
<1>6. ASSUME NEW r \in Req, HandlerPolicy(r) PROVE GateInv'
  <2> DEFINE ok == PolicyExempt(in[r]) \/ PolicyAllows(bucket, in[r], who[r], HeaderIp(in[r]))
  <2>1. Check(r, "handler2", ok, "served")
    BY <1>6 DEF HandlerPolicy
  <2>2. ok \in BOOLEAN /\ "served" \in Admitted
    BY DEF Admitted
  <2> HIDE DEF ok
  <2> QED BY <2>1, <2>2, CheckKeeps
<1>7. ASSUME NEW b, SetBucket(b) PROVE GateInv'
  BY <1>7, SetBucketKeeps
<1>8. CASE Restart
  BY <1>8, RestartKeeps
<1>9. CASE Tick \/ UNCHANGED vars \/ \E file \in CredFiles : EditCredentials(file)
  <2>1. UNCHANGED <<bucket, creds, in, pc, who, seen>> /\ credfile' \in CredFiles
    BY <1>9 DEF Tick, vars, EditCredentials, settings, GateInv, NoKeyUnknown
  <2>2. Tables' /\ NoKeyUnknown' /\ SeesBucketNow' /\ Identified'
    BY <2>1 DEF GateInv, Tables, NoKeyUnknown, SeesBucketNow, Running, Identified
  <2>3. TenantKept' /\ OpenKept'
    BY <2>1 DEF GateInv, TenantKept, TenantPassed, OpenKept, SameTenant
  <2> QED BY <2>2, <2>3 DEF GateInv
<1> QED
  BY <1>1, <1>2, <1>3, <1>4, <1>5, <1>6, <1>7, <1>8, <1>9
  DEF Next, PutPolicy, DeletePolicy, PutPublic, DeleteBucket, CreateBucket

LEMMA GateInvariant == Spec => []GateInv
BY InitGate, NextGate, PTL DEF Spec

-----------------------------------------------------------------------------
(* The limiter of failed authentications.                                   *)

\* The failures a client was told about from one time up to another.
Told(log, c, from, to) == {x \in log : x[1] = c /\ from <= x[2] /\ x[2] < to}

LimitTypeOK ==
  /\ clock \in Nat /\ IsFiniteSet(answered)
  /\ \A x \in answered : x[2] \in Nat /\ x[2] <= clock
  /\ \A c \in DOMAIN failures : /\ failures[c] \in [count : Nat, start : Nat]
                                /\ failures[c].start <= clock

\* What was told in the window a client has now was counted in it.
NowCounted ==
  \A c \in DOMAIN failures :
    LET start == failures[c].start
        now == Cardinality(Told(answered, c, start, start + Window)) IN
      now <= failures[c].count /\ now <= MaxFailures

\* Of a full window before it, the first failure is out of reach: a window starts
\* with a failure that is told, and lasts its length.
BeforeBounded ==
  \A c \in DOMAIN failures :
    LET start == failures[c].start IN
      Cardinality(Told(answered, c, start - Window + 1, start)) <= MaxFailures - 1
StartTold ==
  \A c \in DOMAIN failures : \E x \in answered : x[1] = c /\ x[2] = failures[c].start

\* A window that is over gets no more failures, and one that was forgotten is over.
InWindow ==
  \A x \in answered : IF x[1] \in DOMAIN failures
                      THEN x[2] < failures[x[1]].start + Window
                      ELSE x[2] + Window <= clock

LimitInv ==
  LimitTypeOK /\ (MaxFailures > 0 =>
    NowCounted /\ BeforeBounded /\ StartTold /\ InWindow /\ FailuresBounded)

\* What counting a set needs: parts of it, unions, and one element more.
LEMMA Counts ==
  ASSUME NEW S, IsFiniteSet(S)
  PROVE  /\ Cardinality(S) \in Nat
         /\ \A T : T \subseteq S => /\ IsFiniteSet(T) /\ Cardinality(T) \in Nat
                                    /\ Cardinality(T) <= Cardinality(S)
         /\ \A y : /\ IsFiniteSet(S \union {y})
                   /\ Cardinality(S \union {y}) <= Cardinality(S) + 1
<1>1. Cardinality(S) \in Nat
  BY FS_CardinalityType
<1>2. ASSUME NEW T, T \subseteq S
      PROVE  IsFiniteSet(T) /\ Cardinality(T) \in Nat /\ Cardinality(T) <= Cardinality(S)
  BY <1>2, FS_Subset, FS_CardinalityType
<1>3. ASSUME NEW y
      PROVE  IsFiniteSet(S \union {y}) /\ Cardinality(S \union {y}) <= Cardinality(S) + 1
  <2>1. CASE y \in S
    <3>1. S \union {y} = S
      BY <2>1
    <3> QED BY <3>1, <1>1
  <2>2. CASE y \notin S
    <3>1. IsFiniteSet(S \union {y}) /\ Cardinality(S \union {y}) = Cardinality(S) + 1
      BY <2>2, FS_AddElement
    <3> QED BY <3>1, <1>1
  <2> QED BY <2>1, <2>2
<1> QED BY <1>1, <1>2, <1>3

LEMMA CountsBoth ==
  ASSUME NEW S, NEW T, NEW U, IsFiniteSet(S), IsFiniteSet(T), U \subseteq S \union T
  PROVE  Cardinality(U) \in Nat /\ Cardinality(U) <= Cardinality(S) + Cardinality(T)
<1>1. /\ IsFiniteSet(S \union T) /\ Cardinality(S \intersect T) \in Nat
      /\ Cardinality(S \union T) = Cardinality(S) + Cardinality(T) - Cardinality(S \intersect T)
  BY FS_Union, FS_Intersection, FS_CardinalityType
<1>2. Cardinality(U) \in Nat /\ Cardinality(U) <= Cardinality(S \union T)
  BY <1>1, Counts
<1>3. Cardinality(S) \in Nat /\ Cardinality(T) \in Nat
  BY Counts
<1> QED BY <1>1, <1>2, <1>3

LEMMA ToldFinite ==
  ASSUME NEW log, IsFiniteSet(log), NEW c, NEW from, NEW to
  PROVE  IsFiniteSet(Told(log, c, from, to)) /\ Cardinality(Told(log, c, from, to)) \in Nat
<1>1. Told(log, c, from, to) \subseteq log
  BY DEF Told
<1> QED BY <1>1, Counts

\* The clients try_acquire keeps.
Kept == {c \in DOMAIN failures : clock - failures[c].start < 2 * Window}

\* The window a failure is counted in, before it is: the client's own while that
\* lasts, otherwise a new one, to which nothing told before belongs.
CountedIn(ip, n, s) ==
  /\ Acquire(failures, ip) =
       [c \in Kept \union {ip} |-> IF c = ip THEN [count |-> n + 1, start |-> s]
                                   ELSE failures[c]]
  /\ s <= clock /\ clock < s + Window
  /\ Cardinality(Told(answered, ip, s, s + Window)) <= n
  /\ Cardinality(Told(answered, ip, s, s + Window)) <= MaxFailures
  /\ Cardinality(Told(answered, ip, s - Window + 1, s)) <= MaxFailures - 1
  /\ \A x \in answered : x[1] = ip => x[2] < s + Window
  /\ \/ n = 0 /\ s = clock
     \/ \E x \in answered : x[1] = ip /\ x[2] = s

LEMMA WindowOpens ==
  ASSUME LimitInv, MaxFailures > 0, NEW ip
  PROVE  \E n \in Nat, s \in Nat : CountedIn(ip, n, s)
<1> DEFINE old == IF ip \in Kept THEN failures[ip] ELSE [count |-> 0, start |-> clock]
           open == IF clock - old.start >= Window THEN [count |-> 0, start |-> clock] ELSE old
<1>1. Acquire(failures, ip) =
        [c \in Kept \union {ip} |-> IF c = ip THEN [open EXCEPT !.count = @ + 1]
                                    ELSE failures[c]]
  BY DEF Acquire, Kept
<1>2. /\ LimitTypeOK /\ NowCounted /\ BeforeBounded /\ StartTold /\ InWindow
      /\ Window \in Nat \ {0} /\ MaxFailures \in Nat /\ clock \in Nat
      /\ \A x \in answered : x[2] \in Nat /\ x[2] <= clock
  BY GateAssumption DEF LimitInv, LimitTypeOK
<1>3. ASSUME NEW c, NEW from, NEW to, Told(answered, c, from, to) = {}
      PROVE  Cardinality(Told(answered, c, from, to)) = 0
  BY <1>3, FS_EmptySet
<1>4. CASE ip \in Kept /\ clock - failures[ip].start < Window
  <2>1. ip \in DOMAIN failures /\ failures[ip] \in [count : Nat, start : Nat]
        /\ failures[ip].start <= clock
    BY <1>2, <1>4 DEF LimitTypeOK, Kept
  <2> DEFINE n == failures[ip].count
             s == failures[ip].start
  <2>2. n \in Nat /\ s \in Nat /\ s <= clock /\ clock < s + Window
    BY <2>1, <1>2, <1>4
  <2>3. open = failures[ip]
    BY <1>4, <1>2, <2>1
  <2>4. [open EXCEPT !.count = @ + 1] = [count |-> n + 1, start |-> s]
    BY <2>1, <2>3
  <2>5. /\ Cardinality(Told(answered, ip, s, s + Window)) <= n
        /\ Cardinality(Told(answered, ip, s, s + Window)) <= MaxFailures
        /\ Cardinality(Told(answered, ip, s - Window + 1, s)) <= MaxFailures - 1
    BY <2>1, <1>2 DEF NowCounted, BeforeBounded
  <2>6. /\ \A x \in answered : x[1] = ip => x[2] < s + Window
        /\ \E x \in answered : x[1] = ip /\ x[2] = s
    BY <2>1, <1>2 DEF InWindow, StartTold
  <2> HIDE DEF n, s, open, old
  <2>7. CountedIn(ip, n, s)
    BY <1>1, <2>2, <2>4, <2>5, <2>6 DEF CountedIn
  <2> QED BY <2>2, <2>7
<1>5. CASE ~(ip \in Kept /\ clock - failures[ip].start < Window)
  <2>1. open = [count |-> 0, start |-> clock]
    <3>1. CASE ip \notin Kept
      <4>1. old = [count |-> 0, start |-> clock]
        BY <3>1
      <4> HIDE DEF old
      <4> QED BY <4>1
    <3>2. CASE ip \in Kept
      <4>1. old = failures[ip] /\ failures[ip].start \in Nat
        BY <3>2, <1>2 DEF Kept, LimitTypeOK
      <4>2. clock - old.start >= Window
        BY <4>1, <3>2, <1>5, <1>2
      <4> HIDE DEF old
      <4> QED BY <4>2
    <3> QED BY <3>1, <3>2
  <2>2. [open EXCEPT !.count = @ + 1] = [count |-> 0 + 1, start |-> clock]
    BY <2>1
  \* The window before, if there was one, ended; its first failure is out of reach.
  <2>3. \A x \in answered : x[1] = ip => x[2] < clock
    <3> SUFFICES ASSUME NEW x \in answered, x[1] = ip PROVE x[2] < clock
      OBVIOUS
    <3>1. CASE ip \in DOMAIN failures
      <4>1. failures[ip].start \in Nat /\ x[2] < failures[ip].start + Window
        BY <3>1, <1>2 DEF LimitTypeOK, InWindow
      <4>2. clock - failures[ip].start >= Window
        BY <3>1, <4>1, <1>5, <1>2 DEF Kept
      <4> QED BY <4>1, <4>2, <1>2
    <3>2. CASE ip \notin DOMAIN failures
      BY <3>2, <1>2 DEF InWindow
    <3> QED BY <3>1, <3>2
  <2>4. Told(answered, ip, clock, clock + Window) = {}
    BY <2>3, <1>2 DEF Told
  <2>5. Cardinality(Told(answered, ip, clock - Window + 1, clock)) <= MaxFailures - 1
    <3>1. CASE ip \in DOMAIN failures
      <4> DEFINE s == failures[ip].start
      <4>1. s \in Nat /\ clock - s >= Window
        BY <3>1, <1>5, <1>2 DEF Kept, LimitTypeOK
      <4>2. PICK y \in answered : y[1] = ip /\ y[2] = s
        BY <3>1, <1>2 DEF StartTold
      <4> DEFINE W == Told(answered, ip, s, s + Window)
                 B == Told(answered, ip, clock - Window + 1, clock)
      <4>3. \A x \in B : x \in W \ {y}
        <5> SUFFICES ASSUME NEW x \in B PROVE x \in W /\ x # y
          OBVIOUS
        <5>1. x \in answered /\ x[1] = ip /\ clock - Window + 1 <= x[2] /\ x[2] \in Nat
          BY <1>2 DEF Told
        <5>2. x[2] < s + Window
          BY <5>1, <3>1, <1>2 DEF InWindow
        <5>3. s < x[2]
          BY <5>1, <4>1, <1>2
        <5> QED BY <5>1, <5>2, <5>3, <4>1, <4>2 DEF Told
      <4>4. y \in W /\ IsFiniteSet(W) /\ Cardinality(W) \in Nat
        <5>1. s <= y[2] /\ y[2] < s + Window
          BY <4>1, <4>2, <1>2
        <5>2. IsFiniteSet(answered)
          BY <1>2 DEF LimitTypeOK
        <5>3. y \in W
          BY <5>1, <4>2 DEF Told
        <5> QED BY <5>2, <5>3, ToldFinite
      <4>5. IsFiniteSet(W \ {y}) /\ Cardinality(W \ {y}) = Cardinality(W) - 1
        BY <4>4, FS_RemoveElement
      <4>6. Cardinality(W) <= MaxFailures
        BY <3>1, <1>2 DEF NowCounted
      <4>7. Cardinality(B) <= Cardinality(W \ {y}) /\ Cardinality(B) \in Nat
        BY <4>3, <4>5, Counts
      <4> HIDE DEF W, B
      <4>8. Cardinality(B) <= MaxFailures - 1
        BY <4>4, <4>5, <4>6, <4>7, <1>2
      <4> QED BY <4>8 DEF B
    <3>2. CASE ip \notin DOMAIN failures
      <4>1. Told(answered, ip, clock - Window + 1, clock) = {}
        BY <3>2, <1>2 DEF Told, InWindow
      <4> QED BY <4>1, <1>2, <1>3
    <3> QED BY <3>1, <3>2
  <2>6. Cardinality(Told(answered, ip, clock, clock + Window)) = 0
    BY <2>4, <1>3
  <2>7. \A x \in answered : x[1] = ip => x[2] < clock + Window
    BY <2>3, <1>2
  <2> HIDE DEF open, old
  <2>8. CountedIn(ip, 0, clock)
    BY <1>1, <1>2, <2>2, <2>5, <2>6, <2>7 DEF CountedIn
  <2> QED BY <2>8, <1>2
<1> QED BY <1>4, <1>5

\* Time passes, and with it nothing but windows.
LEMMA TimePasses ==
  ASSUME LimitInv, clock' \in Nat, clock <= clock', UNCHANGED <<failures, answered>>
  PROVE  LimitInv'
<1>1. Window \in Nat /\ LimitTypeOK /\ clock \in Nat
  BY GateAssumption DEF LimitInv, LimitTypeOK
<1>2. LimitTypeOK'
  BY <1>1 DEF LimitTypeOK
<1>3. ASSUME MaxFailures > 0
      PROVE  (NowCounted /\ BeforeBounded /\ StartTold /\ InWindow /\ FailuresBounded)'
  <2>1. NowCounted /\ BeforeBounded /\ StartTold /\ InWindow /\ FailuresBounded
    BY <1>3 DEF LimitInv
  <2>2. NowCounted' /\ BeforeBounded' /\ StartTold' /\ FailuresBounded'
    BY <2>1 DEF NowCounted, BeforeBounded, StartTold, FailuresBounded
  <2>3. InWindow'
    <3> SUFFICES ASSUME NEW x \in answered, x[1] \notin DOMAIN failures
                 PROVE  x[2] + Window <= clock'
      BY <2>1 DEF InWindow
    <3>1. x[2] + Window <= clock /\ x[2] \in Nat
      BY <2>1, <1>1 DEF InWindow, LimitTypeOK
    <3> QED BY <3>1, <1>1
  <2> QED BY <2>2, <2>3
<1> QED BY <1>2, <1>3 DEF LimitInv

\* A failure is counted, and told unless its window is full.
LEMMA FailAuthKeeps ==
  ASSUME LimitInv, NEW r, NEW ip, FailAuth(r, ip), UNCHANGED clock
  PROVE  LimitInv'
<1> DEFINE y == <<ip, clock, r>>
<1>1. /\ LimitTypeOK /\ clock \in Nat /\ IsFiniteSet(answered)
      /\ Window \in Nat \ {0} /\ MaxFailures \in Nat
      /\ \A x \in answered : x[2] \in Nat /\ x[2] <= clock
  BY GateAssumption DEF LimitInv, LimitTypeOK
<1>2. /\ failures' = Counted(failures, ip, MaxFailures)
      /\ answered' = IF Over(failures, ip, MaxFailures) THEN answered
                     ELSE answered \union {y}
  BY DEF FailAuth
<1>3. /\ IsFiniteSet(answered') /\ answered \subseteq answered'
      /\ \A x \in answered' : x \in answered \/ x = y
      /\ \A x \in answered' : x[2] \in Nat /\ x[2] <= clock
  <2>1. IsFiniteSet(answered \union {y})
    BY <1>1, Counts
  <2> QED BY <2>1, <1>1, <1>2
<1>4. CASE MaxFailures = 0
  <2>1. failures' = failures
    BY <1>2, <1>4 DEF Counted
  <2>2. LimitTypeOK'
    BY <2>1, <1>1, <1>3 DEF LimitTypeOK
  <2> QED BY <2>2, <1>4 DEF LimitInv
<1>5. CASE MaxFailures > 0
  <2>1. PICK n \in Nat, s \in Nat : CountedIn(ip, n, s)
    BY <1>5, WindowOpens
  <2>2. /\ failures' = [c \in Kept \union {ip} |->
                          IF c = ip THEN [count |-> n + 1, start |-> s] ELSE failures[c]]
        /\ answered' = IF n + 1 > MaxFailures THEN answered ELSE answered \union {y}
    <3>1. Acquire(failures, ip)[ip].count = n + 1
      BY <2>1 DEF CountedIn
    <3> QED BY <3>1, <2>1, <1>2, <1>5 DEF Counted, Over, CountedIn
  <2>3. /\ DOMAIN failures' = Kept \union {ip} /\ Kept \subseteq DOMAIN failures
        /\ failures'[ip] = [count |-> n + 1, start |-> s]
        /\ \A c \in Kept : c # ip => failures'[c] = failures[c]
    BY <2>2 DEF Kept
  <2>4. /\ s <= clock /\ clock < s + Window
        /\ \A x \in answered : x[1] = ip => x[2] < s + Window
    BY <2>1 DEF CountedIn
  <2>5. LimitTypeOK'
    <3>1. \A c \in DOMAIN failures' : /\ failures'[c] \in [count : Nat, start : Nat]
                                      /\ failures'[c].start <= clock
      BY <2>3, <2>4, <1>1 DEF LimitTypeOK
    <3> QED BY <3>1, <1>1, <1>3 DEF LimitTypeOK
  <2>6. NowCounted /\ BeforeBounded /\ StartTold /\ InWindow /\ FailuresBounded
    BY <1>5 DEF LimitInv
  \* What was told to the others is what it was.
  <2>7. ASSUME NEW c, c # ip, NEW from, NEW to
        PROVE  Told(answered', c, from, to) = Told(answered, c, from, to)
    BY <2>7, <1>3 DEF Told
  <2>8. /\ Cardinality(Told(answered', ip, s, s + Window)) <= n + 1
        /\ Cardinality(Told(answered', ip, s, s + Window)) <= MaxFailures
        /\ Cardinality(Told(answered', ip, s, s + Window)) \in Nat
    <3> DEFINE T == Told(answered, ip, s, s + Window)
    <3>1. /\ IsFiniteSet(T) /\ Cardinality(T) \in Nat
          /\ Cardinality(Told(answered', ip, s, s + Window)) \in Nat
      BY <1>1, <1>3, ToldFinite
    <3>2. Cardinality(T) <= n /\ Cardinality(T) <= MaxFailures
      BY <2>1 DEF CountedIn
    <3>3. CASE n + 1 > MaxFailures
      <4>1. answered' = answered
        BY <3>3, <2>2
      <4> QED BY <4>1, <3>1, <3>2, <1>1
    <3>4. CASE ~(n + 1 > MaxFailures)
      <4>1. Told(answered', ip, s, s + Window) \subseteq T \union {y}
        BY <1>3 DEF Told
      <4>2. IsFiniteSet(T \union {y}) /\ Cardinality(T \union {y}) <= Cardinality(T) + 1
            /\ Cardinality(T \union {y}) \in Nat
        BY <3>1, Counts
      <4>3. Cardinality(Told(answered', ip, s, s + Window)) <= Cardinality(T \union {y})
        BY <4>1, <4>2, Counts
      <4> HIDE DEF T, y
      <4> QED BY <4>2, <4>3, <3>1, <3>2, <3>4, <1>1
    <3> QED BY <3>3, <3>4
  <2>9. Cardinality(Told(answered', ip, s - Window + 1, s)) <= MaxFailures - 1
    <3>1. Told(answered', ip, s - Window + 1, s) = Told(answered, ip, s - Window + 1, s)
      BY <1>1, <1>3, <2>4 DEF Told
    <3> QED BY <3>1, <2>1 DEF CountedIn
  <2>10. NowCounted'
    <3>1. ASSUME NEW c \in Kept, c # ip
          PROVE  LET start == failures'[c].start
                     now == Cardinality(Told(answered', c, start, start + Window)) IN
                   now <= failures'[c].count /\ now <= MaxFailures
      BY <3>1, <2>3, <2>6, <2>7 DEF NowCounted
    <3>2. failures'[ip].count = n + 1 /\ failures'[ip].start = s
      BY <2>3
    <3> QED BY <3>1, <3>2, <2>3, <2>8 DEF NowCounted
  <2>11. BeforeBounded'
    <3>1. ASSUME NEW c \in Kept, c # ip
          PROVE  LET start == failures'[c].start IN
                   Cardinality(Told(answered', c, start - Window + 1, start)) <= MaxFailures - 1
      BY <3>1, <2>3, <2>6, <2>7 DEF BeforeBounded
    <3>2. failures'[ip].start = s
      BY <2>3
    <3> QED BY <3>1, <3>2, <2>3, <2>9 DEF BeforeBounded
  <2>12. StartTold'
    <3>1. \E x \in answered' : x[1] = ip /\ x[2] = s
      <4>1. CASE n = 0 /\ s = clock
        <5>1. y \in answered' /\ y[1] = ip /\ y[2] = s
          BY <4>1, <2>2, <1>5, <1>1
        <5> QED BY <5>1
      <4>2. CASE \E x \in answered : x[1] = ip /\ x[2] = s
        BY <4>2, <1>3
      <4> QED BY <4>1, <4>2, <2>1 DEF CountedIn
    <3>2. failures'[ip].start = s
      BY <2>3
    <3>3. ASSUME NEW c \in Kept, c # ip
          PROVE  \E x \in answered' : x[1] = c /\ x[2] = failures'[c].start
      BY <3>3, <2>3, <2>6, <1>3 DEF StartTold
    <3> QED BY <3>1, <3>2, <3>3, <2>3 DEF StartTold
  <2>13. InWindow'
    <3> SUFFICES ASSUME NEW x \in answered'
                 PROVE  IF x[1] \in DOMAIN failures'
                        THEN x[2] < failures'[x[1]].start + Window
                        ELSE x[2] + Window <= clock
      BY DEF InWindow
    <3>1. CASE x[1] = ip
      <4>1. x[2] < s + Window
        BY <3>1, <1>3, <2>4
      <4>2. failures'[ip].start = s
        BY <2>3
      <4> QED BY <4>1, <4>2, <3>1, <2>3
    <3>2. CASE x[1] # ip
      <4>1. x \in answered
        BY <3>2, <1>3
      <4>2. CASE x[1] \in Kept
        BY <4>1, <4>2, <3>2, <2>3, <2>6 DEF InWindow
      <4>3. CASE x[1] \notin DOMAIN failures
        BY <4>1, <4>3, <3>2, <2>3, <2>6 DEF InWindow
      <4>4. CASE x[1] \in DOMAIN failures \ Kept
        <5>1. x[2] < failures[x[1]].start + Window /\ failures[x[1]].start \in Nat
          BY <4>1, <4>4, <2>6, <1>1 DEF InWindow, LimitTypeOK
        <5>2. clock - failures[x[1]].start >= 2 * Window
          BY <4>4, <5>1, <1>1 DEF Kept
        <5>3. x[2] + Window <= clock
          BY <5>1, <5>2, <4>1, <1>1
        <5> QED BY <5>3, <4>4, <3>2, <2>3
      <4> QED BY <4>2, <4>3, <4>4, <2>3
    <3> QED BY <3>1, <3>2
  <2>14. FailuresBounded'
    <3> SUFFICES ASSUME NEW a \in answered'
                 PROVE  Cardinality({x \in answered' : x[1] = a[1]
                                       /\ x[2] \in a[2] .. a[2] + Window - 1})
                          <= 2 * MaxFailures - 1
      BY DEF FailuresBounded
    <3> DEFINE near == {x \in answered' : x[1] = a[1] /\ x[2] \in a[2] .. a[2] + Window - 1}
    <3>1. CASE y \notin near /\ a \in answered
      <4>1. near = {x \in answered : x[1] = a[1] /\ x[2] \in a[2] .. a[2] + Window - 1}
        BY <3>1, <1>3
      <4> QED BY <4>1, <3>1, <2>6, <1>5 DEF FailuresBounded
    \* With the failure just told, they are of its window or of the one before.
    <3>2. CASE a[1] = ip /\ s - Window + 1 <= a[2]
      <4>1. near \subseteq Told(answered', ip, s, s + Window)
                             \union Told(answered', ip, s - Window + 1, s)
        <5> SUFFICES ASSUME NEW x \in near
                     PROVE  x \in Told(answered', ip, s, s + Window)
                                    \union Told(answered', ip, s - Window + 1, s)
          OBVIOUS
        <5>1. /\ x \in answered' /\ x[1] = ip /\ x[2] \in Nat /\ a[2] \in Nat
              /\ a[2] <= x[2] /\ x[2] <= clock
          BY <3>2, <1>3
        <5>2. s - Window + 1 <= x[2] /\ x[2] < s + Window
          BY <5>1, <3>2, <2>4, <1>1
        <5>3. s <= x[2] \/ x[2] < s
          BY <5>1
        <5> QED BY <5>1, <5>2, <5>3 DEF Told
      <4>2. /\ IsFiniteSet(Told(answered', ip, s, s + Window))
            /\ IsFiniteSet(Told(answered', ip, s - Window + 1, s))
            /\ Cardinality(Told(answered', ip, s - Window + 1, s)) \in Nat
        BY <1>3, ToldFinite
      <4>3. /\ Cardinality(near) \in Nat
            /\ Cardinality(near) <= Cardinality(Told(answered', ip, s, s + Window))
                 + Cardinality(Told(answered', ip, s - Window + 1, s))
        BY <4>1, <4>2, CountsBoth
      <4> HIDE DEF near
      <4>4. Cardinality(near) <= 2 * MaxFailures - 1
        BY <4>2, <4>3, <2>8, <2>9, <1>1
      <4> QED BY <4>4 DEF near
    <3>3. \/ y \notin near /\ a \in answered
          \/ a[1] = ip /\ s - Window + 1 <= a[2]
      <4>1. a[2] \in Nat
        BY <1>3
      <4>2. CASE y \in near
        <5>1. a[1] = ip /\ clock <= a[2] + Window - 1
          BY <4>2, <4>1, <1>1
        <5> QED BY <5>1, <4>1, <2>4, <1>1
      <4>3. CASE a = y
        BY <4>3, <2>4, <1>1
      <4> QED BY <4>2, <4>3, <1>3
    <3> QED BY <3>1, <3>2, <3>3
  <2> QED BY <2>5, <2>10, <2>11, <2>12, <2>13, <2>14 DEF LimitInv
<1> QED BY <1>1, <1>4, <1>5

LEMMA NextLimit == LimitInv /\ [Next]_vars => LimitInv'
<1> SUFFICES ASSUME LimitInv, [Next]_vars PROVE LimitInv'
  OBVIOUS
<1>1. clock \in Nat /\ MaxClock \in Nat
  BY GateAssumption DEF LimitInv, LimitTypeOK
<1>2. CASE UNCHANGED <<clock, failures, answered>>
  BY <1>1, <1>2, TimePasses
<1>3. CASE \E r, ip : FailAuth(r, ip) /\ UNCHANGED clock
  BY <1>3, FailAuthKeeps
<1>4. CASE Tick
  BY <1>1, <1>4, TimePasses DEF Tick, limits
<1>5. CASE Restart
  <2>1. failures' = <<>> /\ answered' = {} /\ clock' = clock
    BY <1>5 DEF Restart
  <2>2. DOMAIN failures' = {} /\ IsFiniteSet({})
    BY <2>1, FS_EmptySet
  <2>3. LimitTypeOK'
    BY <2>1, <2>2, <1>1 DEF LimitTypeOK
  <2>4. NowCounted' /\ BeforeBounded' /\ StartTold' /\ InWindow' /\ FailuresBounded'
    BY <2>1, <2>2 DEF NowCounted, BeforeBounded, StartTold, InWindow, FailuresBounded
  <2> QED BY <2>3, <2>4 DEF LimitInv
<1>6. ASSUME NEW r \in Req, NEW i \in Inputs[r], Arrive(r, i)
      PROVE  UNCHANGED <<clock, failures, answered>>
             \/ \E q, ip : FailAuth(q, ip) /\ UNCHANGED clock
  BY <1>6 DEF Arrive
<1>7. ASSUME NEW r \in Req, Bypass(r)
      PROVE  UNCHANGED <<clock, failures, answered>>
             \/ \E q, ip : FailAuth(q, ip) /\ UNCHANGED clock
  BY <1>7 DEF Bypass
<1>8. ASSUME NEW r \in Req, Tenant(r) \/ CheckPolicy(r) \/ HandlerTenant(r) \/ HandlerPolicy(r)
      PROVE  UNCHANGED <<clock, failures, answered>>
  BY <1>8 DEF Tenant, CheckPolicy, HandlerTenant, HandlerPolicy, Check, limits
<1>9. ASSUME NEW b, SetBucket(b) PROVE UNCHANGED <<clock, failures, answered>>
  BY <1>9 DEF SetBucket, limits
<1>10. ASSUME UNCHANGED vars \/ \E file \in CredFiles : EditCredentials(file)
       PROVE  UNCHANGED <<clock, failures, answered>>
  BY <1>10 DEF EditCredentials, vars, limits
<1> QED
  BY <1>2, <1>3, <1>4, <1>5, <1>6, <1>7, <1>8, <1>9, <1>10
  DEF Next, PutPolicy, DeletePolicy, PutPublic, DeleteBucket, CreateBucket

LEMMA InitLimit == Init => LimitInv
<1> SUFFICES ASSUME Init PROVE LimitInv
  OBVIOUS
<1>1. failures = <<>> /\ answered = {} /\ clock = 0
  BY DEF Init
<1>2. DOMAIN failures = {} /\ IsFiniteSet({})
  BY <1>1, FS_EmptySet
<1>3. LimitTypeOK
  BY <1>1, <1>2 DEF LimitTypeOK
<1>4. NowCounted /\ BeforeBounded /\ StartTold /\ InWindow /\ FailuresBounded
  BY <1>1, <1>2 DEF NowCounted, BeforeBounded, StartTold, InWindow, FailuresBounded
<1> QED BY <1>3, <1>4 DEF LimitInv

-----------------------------------------------------------------------------
(* Glob matching.                                                           *)

LEMMA LeastNumber ==
  ASSUME NEW T \in SUBSET Nat, T # {}
  PROVE  \E x \in T : \A y \in T : x <= y
<1> DEFINE R == OpToRel(<, Nat)
<1>1. IsWellFoundedOn(R, Nat)
  BY NatLessThanWellFounded
<1>2. \A a, b \in Nat : a < b => <<a, b>> \in R
  BY DEF OpToRel
<1> HIDE DEF R
<1>3. PICK x \in T : \A y \in T : ~ (<<y, x>> \in R)
  BY <1>1, WFMin
<1>4. \A y \in T : ~(y < x)
  BY <1>2, <1>3
<1> QED BY <1>4

LEMMA GreatestNumber ==
  ASSUME NEW n \in Nat, NEW T \in SUBSET (0 .. n), T # {}
  PROVE  \E x \in T : \A y \in T : y <= x
<1> DEFINE U == {k \in Nat : \A y \in T : y <= k}
<1>1. n \in U
  OBVIOUS
<1>2. PICK u \in U : \A k \in U : u <= k
  <2>1. U \in SUBSET Nat /\ U # {}
    BY <1>1
  <2> HIDE DEF U
  <2> QED BY <2>1, LeastNumber
<1>3. u \in T
  <2> SUFFICES ASSUME u \notin T PROVE FALSE
    OBVIOUS
  <2>1. \A y \in T : y < u
    BY <1>2
  <2>2. u \in Nat /\ u # 0
    <3>1. PICK y \in T : TRUE
      OBVIOUS
    <3>2. y \in Nat /\ y < u /\ u \in Nat
      BY <2>1, <1>2
    <3> QED BY <3>2
  <2>3. \A y \in T : y <= u - 1
    BY <2>1, <2>2
  <2>4. u - 1 \in U
    BY <2>2, <2>3
  <2> QED BY <2>2, <2>4, <1>2
<1> QED BY <1>2, <1>3

-----------------------------------------------------------------------------
\* The characters a up to b of the value go with character i of the pattern.
Piece(p, v, i, a, b) ==
  IF p[i] = "*" THEN a <= b ELSE b = a + 1 /\ p[i] \in {"?", v[b]}

\* What is left of the value after j characters fits what is left of the pattern after i.
Rest(p, v, i, j) ==
  \E cut \in [i .. Len(p) -> 0 .. Len(v)] :
    /\ cut[i] = j /\ cut[Len(p)] = Len(v)
    /\ \A k \in i + 1 .. Len(p) : Piece(p, v, k, cut[k - 1], cut[k])

LEMMA RestStart == ASSUME NEW p, NEW v PROVE Fits(p, v) <=> Rest(p, v, 0, 0)
BY DEF Fits, Rest, Piece

LEMMA RestRange ==
  ASSUME NEW p \in Text, NEW v \in Text, NEW i \in 0 .. Len(p), NEW j, Rest(p, v, i, j)
  PROVE  j \in 0 .. Len(v)
BY DEF Rest, Text

LEMMA RestEnd ==
  ASSUME NEW p \in Text, NEW v \in Text, NEW j, Rest(p, v, Len(p), j)
  PROVE  j = Len(v)
BY DEF Rest, Text

LEMMA RestForward ==
  ASSUME NEW p \in Text, NEW v \in Text, NEW i \in 0 .. Len(p), i < Len(p), NEW j,
         Rest(p, v, i, j)
  PROVE  \E k \in 0 .. Len(v) : Piece(p, v, i + 1, j, k) /\ Rest(p, v, i + 1, k)
<1>1. Len(p) \in Nat /\ Len(v) \in Nat
  BY DEF Text
<1>2. PICK cut \in [i .. Len(p) -> 0 .. Len(v)] :
        /\ cut[i] = j /\ cut[Len(p)] = Len(v)
        /\ \A k \in i + 1 .. Len(p) : Piece(p, v, k, cut[k - 1], cut[k])
  BY DEF Rest
<1> DEFINE left == [k \in i + 1 .. Len(p) |-> cut[k]]
<1>3. left \in [i + 1 .. Len(p) -> 0 .. Len(v)]
  BY <1>1
<1>4. left[i + 1] = cut[i + 1] /\ left[Len(p)] = Len(v)
  BY <1>1, <1>2
<1>5. \A k \in (i + 1) + 1 .. Len(p) : Piece(p, v, k, left[k - 1], left[k])
  BY <1>1, <1>2
<1>6. Rest(p, v, i + 1, cut[i + 1])
  <2> HIDE DEF left
  <2> QED BY <1>3, <1>4, <1>5 DEF Rest
<1>7. cut[i + 1] \in 0 .. Len(v) /\ Piece(p, v, i + 1, j, cut[i + 1])
  <2>1. i + 1 \in i + 1 .. Len(p) /\ (i + 1) - 1 = i /\ i + 1 \in i .. Len(p)
    BY <1>1
  <2> QED BY <2>1, <1>2
<1> QED BY <1>6, <1>7

LEMMA RestBack ==
  ASSUME NEW p \in Text, NEW v \in Text, NEW i \in 0 .. Len(p), i < Len(p),
         NEW j \in 0 .. Len(v), NEW k, Piece(p, v, i + 1, j, k), Rest(p, v, i + 1, k)
  PROVE  Rest(p, v, i, j)
<1>1. Len(p) \in Nat /\ Len(v) \in Nat
  BY DEF Text
<1>2. PICK left \in [i + 1 .. Len(p) -> 0 .. Len(v)] :
        /\ left[i + 1] = k /\ left[Len(p)] = Len(v)
        /\ \A n \in (i + 1) + 1 .. Len(p) : Piece(p, v, n, left[n - 1], left[n])
  BY DEF Rest
<1> DEFINE cut == [n \in i .. Len(p) |-> IF n = i THEN j ELSE left[n]]
<1>3. cut \in [i .. Len(p) -> 0 .. Len(v)]
  BY <1>1
<1>4. cut[i] = j /\ cut[Len(p)] = Len(v)
  BY <1>1, <1>2
<1>5. ASSUME NEW n \in i + 1 .. Len(p) PROVE Piece(p, v, n, cut[n - 1], cut[n])
  <2>1. CASE n = i + 1
    <3>1. cut[n - 1] = j /\ cut[n] = k
      BY <2>1, <1>1, <1>2
    <3> HIDE DEF cut
    <3> QED BY <2>1, <3>1
  <2>2. CASE n # i + 1
    <3>1. n \in (i + 1) + 1 .. Len(p) /\ n - 1 # i /\ n # i /\ n - 1 \in i .. Len(p)
      BY <2>2, <1>1
    <3>2. cut[n - 1] = left[n - 1] /\ cut[n] = left[n]
      BY <3>1
    <3> HIDE DEF cut
    <3> QED BY <3>1, <3>2, <1>2
  <2> QED BY <2>1, <2>2
<1> HIDE DEF cut
<1> QED BY <1>3, <1>4, <1>5 DEF Rest

\* Characters that are not stars take one character of the value each.
LEMMA RestPlain ==
  ASSUME NEW p \in Text, NEW v \in Text, NEW i \in 0 .. Len(p), NEW k \in i .. Len(p),
         NEW j \in Nat, Rest(p, v, i, j), \A n \in i + 1 .. k : p[n] # "*"
  PROVE  Rest(p, v, k, j + (k - i)) /\ j + (k - i) <= Len(v)
<1>1. Len(p) \in Nat /\ Len(v) \in Nat
  BY DEF Text
<1>2. Rest(p, v, k, j + (k - i))
  <2> SUFFICES ASSUME ~Rest(p, v, k, j + (k - i)) PROVE FALSE
    OBVIOUS
  <2> DEFINE T == {n \in Nat : i <= n /\ n <= k /\ ~Rest(p, v, n, j + (n - i))}
  <2>1. T \in SUBSET Nat /\ k \in T
    BY <1>1
  <2>2. PICK n \in T : \A m \in T : n <= m
    <3> HIDE DEF T
    <3> QED BY <2>1, LeastNumber
  <2>3. n # i
    <3>1. j + (i - i) = j
      OBVIOUS
    <3> QED BY <3>1
  <2>4. n - 1 \in 0 .. Len(p) /\ n - 1 < Len(p) /\ i <= n - 1 /\ n - 1 <= k /\ n \in i + 1 .. k
    BY <1>1, <2>3
  <2>5. Rest(p, v, n - 1, j + ((n - 1) - i))
    <3>1. n - 1 \in Nat /\ ~(n <= n - 1)
      BY <2>4
    <3> QED BY <3>1, <2>2, <2>4
  <2>6. PICK x \in 0 .. Len(v) : Piece(p, v, (n - 1) + 1, j + ((n - 1) - i), x) /\ Rest(p, v, (n - 1) + 1, x)
    BY <2>4, <2>5, RestForward
  <2>7. (n - 1) + 1 = n /\ j + ((n - 1) - i) + 1 = j + (n - i)
    BY <2>4
  <2>8. x = j + (n - i)
    BY <2>4, <2>6, <2>7 DEF Piece
  <2> QED BY <2>6, <2>7, <2>8
<1>3. j + (k - i) \in 0 .. Len(v)
  BY <1>1, <1>2, RestRange
<1> QED BY <1>1, <1>2, <1>3

\* Nothing is left of the value: only stars may be left of the pattern.
LEMMA RestStars ==
  ASSUME NEW p \in Text, NEW v \in Text, NEW i \in 0 .. Len(p)
  PROVE  Rest(p, v, i, Len(v)) <=> \A k \in i + 1 .. Len(p) : p[k] = "*"
<1>1. Len(p) \in Nat /\ Len(v) \in Nat
  BY DEF Text
<1>2. ASSUME \A k \in i + 1 .. Len(p) : p[k] = "*" PROVE Rest(p, v, i, Len(v))
  <2> DEFINE cut == [k \in i .. Len(p) |-> Len(v)]
  <2>1. cut \in [i .. Len(p) -> 0 .. Len(v)] /\ cut[i] = Len(v) /\ cut[Len(p)] = Len(v)
    BY <1>1
  <2>2. \A k \in i + 1 .. Len(p) : Piece(p, v, k, cut[k - 1], cut[k])
    BY <1>1, <1>2 DEF Piece
  <2> HIDE DEF cut
  <2> QED BY <2>1, <2>2 DEF Rest
<1>3. ASSUME Rest(p, v, i, Len(v)), NEW n \in i .. Len(p) PROVE Rest(p, v, n, Len(v))
  <2> SUFFICES ASSUME ~Rest(p, v, n, Len(v)) PROVE FALSE
    OBVIOUS
  <2> DEFINE T == {m \in Nat : i <= m /\ m <= Len(p) /\ ~Rest(p, v, m, Len(v))}
  <2>1. T \in SUBSET Nat /\ n \in T
    BY <1>1
  <2>2. PICK m \in T : \A x \in T : m <= x
    <3> HIDE DEF T
    <3> QED BY <2>1, LeastNumber
  <2>3. m - 1 \in 0 .. Len(p) /\ m - 1 < Len(p) /\ i <= m - 1 /\ m - 1 \in Nat /\ (m - 1) + 1 = m
        /\ ~(m <= m - 1)
    BY <1>1, <1>3
  <2>4. Rest(p, v, m - 1, Len(v))
    BY <2>2, <2>3
  <2>5. PICK x \in 0 .. Len(v) : Piece(p, v, m, Len(v), x) /\ Rest(p, v, m, x)
    BY <2>3, <2>4, RestForward
  <2>6. x = Len(v)
    BY <1>1, <2>5 DEF Piece
  <2> QED BY <2>5, <2>6
<1>4. ASSUME Rest(p, v, i, Len(v)), NEW k \in i + 1 .. Len(p) PROVE p[k] = "*"
  <2>1. k - 1 \in i .. Len(p) /\ k - 1 \in 0 .. Len(p) /\ k - 1 < Len(p) /\ (k - 1) + 1 = k
    BY <1>1
  <2>2. PICK x \in 0 .. Len(v) : Piece(p, v, k, Len(v), x)
    BY <1>3, <1>4, <2>1, RestForward
  <2> QED BY <1>1, <2>2 DEF Piece
<1> QED BY <1>2, <1>4

\* A star matches what is left or less.
LEMMA RestStar ==
  ASSUME NEW p \in Text, NEW v \in Text, NEW i \in 0 .. Len(p), i < Len(p), p[i + 1] = "*",
         NEW j \in 0 .. Len(v)
  PROVE  Rest(p, v, i, j) <=> \E k \in j .. Len(v) : Rest(p, v, i + 1, k)
<1>1. Len(p) \in Nat /\ Len(v) \in Nat
  BY DEF Text
<1>2. ASSUME Rest(p, v, i, j) PROVE \E k \in j .. Len(v) : Rest(p, v, i + 1, k)
  BY <1>1, <1>2, RestForward DEF Piece
<1>3. ASSUME NEW k \in j .. Len(v), Rest(p, v, i + 1, k) PROVE Rest(p, v, i, j)
  <2>1. Piece(p, v, i + 1, j, k)
    BY <1>1 DEF Piece
  <2> QED BY <2>1, <1>3, RestBack
<1> QED BY <1>2, <1>3

\* The last character of the value is a star, and the pattern has one there.
LEMMA RestLast ==
  ASSUME NEW p \in Text, NEW v \in Text, NEW i \in 0 .. Len(p), i < Len(p), p[i + 1] = "*",
         Len(v) # 0, v[Len(v)] = "*",
         \A k \in 1 .. Len(p) - 1 : ~(p[k] = "*" /\ p[k + 1] = "?"),
         Rest(p, v, i, Len(v) - 1)
  PROVE  \A k \in i + 1 .. Len(p) : p[k] = "*"
<1> DEFINE m == Len(v)
           Fine(n) == p[n] = "*" /\ (Rest(p, v, n, m - 1) \/ Rest(p, v, n, m))
           T == {n \in Nat : i + 1 <= n /\ n <= Len(p) /\ ~Fine(n)}
<1>1. Len(p) \in Nat /\ m \in Nat /\ m - 1 \in 0 .. m
  BY DEF Text
<1> SUFFICES ASSUME T # {} PROVE FALSE
  BY <1>1
<1>2. PICK n \in T : \A x \in T : n <= x
  <2>1. T \in SUBSET Nat
    OBVIOUS
  <2> HIDE DEF T
  <2> QED BY <2>1, LeastNumber
<1>3. /\ n - 1 \in 0 .. Len(p) /\ n - 1 < Len(p) /\ (n - 1) + 1 = n /\ n - 1 \in Nat
      /\ ~(n <= n - 1) /\ ~Fine(n) /\ n \in 1 .. Len(p)
  BY <1>1, <1>2
<1>4. Rest(p, v, n - 1, m - 1) \/ Rest(p, v, n - 1, m)
  <2>1. CASE n = i + 1
    <3>1. n - 1 = i
      BY <2>1
    <3> QED BY <3>1
  <2>2. CASE n # i + 1
    <3>1. i + 1 <= n - 1 /\ n - 1 <= Len(p)
      BY <2>2, <1>1, <1>2, <1>3
    <3>2. Fine(n - 1)
      BY <3>1, <1>2, <1>3
    <3> QED BY <3>2
  <2> QED BY <2>1, <2>2
<1>5. n # i + 1 => p[n - 1] = "*" /\ n - 1 \in 1 .. Len(p) - 1
  <2> SUFFICES ASSUME n # i + 1 PROVE p[n - 1] = "*" /\ n - 1 \in 1 .. Len(p) - 1
    OBVIOUS
  <2>1. i + 1 <= n - 1 /\ n - 1 <= Len(p)
    BY <1>1, <1>2, <1>3
  <2>2. Fine(n - 1)
    BY <2>1, <1>2, <1>3
  <2> QED BY <2>1, <2>2, <1>1, <1>3
<1> HIDE DEF T
<1>6. CASE Rest(p, v, n - 1, m)
  <2>1. \A k \in (n - 1) + 1 .. Len(p) : p[k] = "*"
    BY <1>6, <1>3, RestStars
  <2>2. p[n] = "*" /\ \A k \in n + 1 .. Len(p) : p[k] = "*"
    BY <2>1, <1>1, <1>3
  <2>3. Rest(p, v, n, m)
    BY <2>2, <1>1, <1>3, RestStars
  <2> QED BY <2>2, <2>3, <1>3
<1>7. CASE Rest(p, v, n - 1, m - 1)
  <2>1. PICK x \in 0 .. m : Piece(p, v, n, m - 1, x) /\ Rest(p, v, n, x)
    BY <1>7, <1>3, RestForward
  <2>2. CASE p[n] = "*"
    <3>1. x = m - 1 \/ x = m
      BY <2>1, <2>2, <1>1 DEF Piece
    <3> QED BY <3>1, <2>1, <2>2, <1>3
  <2>3. CASE p[n] # "*"
    <3>1. x = m /\ p[n] \in {"?", v[m]}
      BY <2>1, <2>3, <1>1 DEF Piece
    <3>2. p[n] = "?"
      BY <3>1, <2>3
    <3>3. n # i + 1
      BY <2>3
    <3> QED BY <3>2, <3>3, <1>3, <1>5
  <2> QED BY <2>2, <2>3
<1> QED BY <1>4, <1>6, <1>7

\* Where a star of the pattern can meet a star of the value, it is the last
\* character of the value, and no `?' of the pattern comes after a star.
Clear(p, v) ==
  \A i \in 1 .. Len(p), j \in 1 .. Len(v) : p[i] = "*" /\ v[j] = "*" =>
    /\ j = Len(v)
    /\ \A k \in 1 .. Len(p) - 1 : ~(p[k] = "*" /\ p[k + 1] = "?")

GlobState(p, v) ==
  {s \in (0 .. Len(p)) \X (0 .. Len(v)) \X (0 .. Len(p)) \X (0 .. Len(v)) :
     s[3] <= s[1] /\ s[4] <= s[2]}
StarsLeft(p, pi) == \A i \in pi + 1 .. Len(p) : p[i] = "*"
Same(p, v, pi, vi) == pi < Len(p) /\ p[pi + 1] \in {v[vi + 1], "?"}
AtStar(p, pi) == pi < Len(p) /\ p[pi + 1] = "*"

\* One round of the loop in terms of the rounds that follow.
Round(p, v, run, s) ==
  IF s[2] = Len(v) THEN StarsLeft(p, s[1])
  ELSE IF Same(p, v, s[1], s[2]) THEN run[<<s[1] + 1, s[2] + 1, s[3], s[4]>>]
  ELSE IF AtStar(p, s[1]) THEN run[<<s[1] + 1, s[2], s[1] + 1, s[2]>>]
  ELSE s[3] > 0 /\ run[<<s[3], s[4] + 1, s[3], s[4] + 1>>]

\* The rounds of the loop stay among its states.
LEMMA RoundsStay ==
  ASSUME NEW p \in Text, NEW v \in Text, NEW s \in GlobState(p, v), s[2] # Len(v)
  PROVE  /\ Same(p, v, s[1], s[2]) => <<s[1] + 1, s[2] + 1, s[3], s[4]>> \in GlobState(p, v)
         /\ AtStar(p, s[1]) => <<s[1] + 1, s[2], s[1] + 1, s[2]>> \in GlobState(p, v)
         /\ <<s[3], s[4] + 1, s[3], s[4] + 1>> \in GlobState(p, v)
<1>1. Len(p) \in Nat /\ Len(v) \in Nat
  BY DEF Text
<1>2. /\ s[1] \in 0 .. Len(p) /\ s[2] \in 0 .. Len(v) /\ s[3] \in 0 .. Len(p) /\ s[4] \in 0 .. Len(v)
      /\ s[3] <= s[1] /\ s[4] <= s[2]
  BY DEF GlobState
<1>3. Same(p, v, s[1], s[2]) => <<s[1] + 1, s[2] + 1, s[3], s[4]>> \in GlobState(p, v)
  BY <1>1, <1>2 DEF Same, GlobState
<1>4. AtStar(p, s[1]) => <<s[1] + 1, s[2], s[1] + 1, s[2]>> \in GlobState(p, v)
  BY <1>1, <1>2 DEF AtStar, GlobState
<1>5. <<s[3], s[4] + 1, s[3], s[4] + 1>> \in GlobState(p, v)
  BY <1>1, <1>2 DEF GlobState
<1> QED BY <1>3, <1>4, <1>5

\* The recursion of glob_match has a solution.
LEMMA GlobRuns ==
  ASSUME NEW p \in Text, NEW v \in Text
  PROVE  \E run : run = [s \in GlobState(p, v) |-> Round(p, v, run, s)]
<1> DEFINE S == GlobState(p, v)
           Live == {s \in S : s[2] # Len(v) /\ (Same(p, v, s[1], s[2]) \/ AtStar(p, s[1]) \/ s[3] > 0)}
           Yes == {s \in S : s[2] = Len(v) /\ StarsLeft(p, s[1])}
           next == [s \in Live |->
                      IF Same(p, v, s[1], s[2]) THEN <<s[1] + 1, s[2] + 1, s[3], s[4]>>
                      ELSE IF AtStar(p, s[1]) THEN <<s[1] + 1, s[2], s[1] + 1, s[2]>>
                      ELSE <<s[3], s[4] + 1, s[3], s[4] + 1>>]
<1>1. next \in [Live -> S]
  <2> SUFFICES ASSUME NEW s \in Live PROVE next[s] \in S
    OBVIOUS
  <2>1. s \in GlobState(p, v) /\ s[2] # Len(v)
    OBVIOUS
  <2> QED BY <2>1, RoundsStay
<1>2. Live \in SUBSET S /\ Yes \in SUBSET S
  OBVIOUS
<1> DEFINE From(T, s) == IF s \in Live THEN next[s] \in T ELSE s \in Yes
           Closed(T) == \A s \in S : From(T, s) => s \in T
           W == {s \in S : \A T \in SUBSET S : Closed(T) => s \in T}
<1>3. \A s \in S : s \in W <=> From(W, s)
  <2> HIDE DEF S, Live, Yes, next
  <2> DEFINE Back == {s \in S : From(W, s)}
  <2>1. \A T, V : T \subseteq V => \A s \in S : From(T, s) => From(V, s)
    OBVIOUS
  <2>2. \A T \in SUBSET S : Closed(T) => W \subseteq T
    OBVIOUS
  <2> HIDE DEF From
  <2>3. \A s \in S : From(W, s) => s \in W
    <3> SUFFICES ASSUME NEW s \in S, From(W, s), NEW T \in SUBSET S, Closed(T) PROVE s \in T
      OBVIOUS
    <3>1. W \subseteq T
      BY <2>2
    <3> HIDE DEF W
    <3> QED BY <3>1, <2>1
  <2>4. Closed(Back)
    <3>1. Back \subseteq W
      BY <2>3
    <3> HIDE DEF W
    <3> QED BY <3>1, <2>1
  <2>5. W \subseteq Back
    BY <2>2, <2>4
  <2> QED BY <2>3, <2>5
<1> HIDE DEF W
<1> DEFINE run == [s \in S |-> IF s \in W THEN TRUE ELSE FALSE]
<1>4. ASSUME NEW s \in S PROVE run[s] = Round(p, v, run, s)
  <2>1. CASE s[2] = Len(v)
    <3>1. s \in W <=> StarsLeft(p, s[1])
      BY <1>3, <2>1
    <3>2. Round(p, v, run, s) = StarsLeft(p, s[1])
      BY <2>1 DEF Round
    <3>3. CASE StarsLeft(p, s[1])
      BY <3>1, <3>2, <3>3
    <3>4. CASE ~StarsLeft(p, s[1])
      <4>1. run[s] = FALSE
        BY <3>1, <3>4
      <4>2. Round(p, v, run, s) = FALSE
        BY <3>2, <3>4 DEF StarsLeft
      <4> HIDE DEF run
      <4> QED BY <4>1, <4>2
    <3> QED BY <3>3, <3>4
  <2>2. CASE s[2] # Len(v) /\ s \in Live
    <3>1. next[s] \in S /\ (s \in W <=> next[s] \in W)
      BY <1>1, <1>3, <2>2
    <3>2. run[next[s]] = IF next[s] \in W THEN TRUE ELSE FALSE
      BY <3>1
    <3>3. Round(p, v, run, s) = run[next[s]]
      <4> HIDE DEF run, S
      <4>1. CASE Same(p, v, s[1], s[2])
        BY <4>1, <2>2 DEF Round
      <4>2. CASE ~Same(p, v, s[1], s[2]) /\ AtStar(p, s[1])
        BY <4>2, <2>2 DEF Round
      <4>3. CASE ~Same(p, v, s[1], s[2]) /\ ~AtStar(p, s[1])
        <5>1. s[3] > 0 /\ next[s] = <<s[3], s[4] + 1, s[3], s[4] + 1>>
          BY <4>3, <2>2
        <5> HIDE DEF next
        <5>2. run[next[s]] \in BOOLEAN
          BY <3>2
        <5> QED BY <4>3, <5>1, <5>2, <2>2 DEF Round
      <4> QED BY <4>1, <4>2, <4>3
    <3> HIDE DEF next
    <3> QED BY <3>1, <3>2, <3>3
  <2>3. CASE s[2] # Len(v) /\ s \notin Live
    <3>1. s \notin W
      BY <1>3, <2>3
    <3>2. ~Same(p, v, s[1], s[2]) /\ ~AtStar(p, s[1]) /\ ~(s[3] > 0)
      BY <2>3
    <3>3. Round(p, v, run, s) = FALSE
      BY <2>3, <3>2 DEF Round
    <3>4. run[s] = FALSE
      BY <3>1
    <3> HIDE DEF run
    <3> QED BY <3>3, <3>4
  <2> QED BY <2>1, <2>2, <2>3
<1>5. run = [s \in S |-> Round(p, v, run, s)]
  <2>1. run = [s \in S |-> run[s]]
    OBVIOUS
  <2> HIDE DEF run, S
  <2> QED BY <2>1, <1>4
<1> QED BY <1>5

LEMMA GlobUnfolds ==
  ASSUME NEW p \in Text, NEW v \in Text
  PROVE  \E run : /\ run = [s \in GlobState(p, v) |-> Round(p, v, run, s)]
                  /\ GlobMatch(p, v) = run[<<0, 0, 0, 0>>]
<1> DEFINE f == CHOOSE run : run = [s \in GlobState(p, v) |-> Round(p, v, run, s)]
<1>1. f = [s \in GlobState(p, v) |-> Round(p, v, f, s)]
  BY GlobRuns, Zenon
<1>2. GlobMatch(p, v) = f[<<0, 0, 0, 0>>]
  BY Zenon DEF GlobMatch, GlobState, Round, StarsLeft, Same, AtStar
<1> HIDE DEF f
<1> QED BY <1>1, <1>2, Zenon

\* What the loop still can find from a state: the rest fits the rest, or, with the
\* remembered star, it fits further on.  Since that star only plain characters were
\* matched, so that star and value moved together.
Finds(p, v, pi, vi, star, from) ==
  Rest(p, v, pi, vi) \/ (star > 0 /\ \E k \in from + 1 .. Len(v) : Rest(p, v, star, k))
Aligned(p, pi, vi, star, from) ==
  star > 0 => pi - star = vi - from /\ \A k \in star + 1 .. pi : p[k] # "*"

\* A later place for the remembered star is a later place here.
LEMMA StarMoves ==
  ASSUME NEW p \in Text, NEW v \in Text, NEW pi \in 0 .. Len(p), NEW vi \in 0 .. Len(v),
         NEW star \in 0 .. pi, NEW from \in 0 .. vi, Aligned(p, pi, vi, star, from),
         star > 0, NEW k \in from + 1 .. Len(v), Rest(p, v, star, k)
  PROVE  k + (pi - star) \in vi + 1 .. Len(v) /\ Rest(p, v, pi, k + (pi - star))
<1>1. Len(p) \in Nat /\ Len(v) \in Nat
  BY DEF Text
<1>2. star \in 0 .. Len(p) /\ pi \in star .. Len(p) /\ k \in Nat
  BY <1>1
<1>3. Rest(p, v, pi, k + (pi - star)) /\ k + (pi - star) <= Len(v)
  BY <1>2, RestPlain DEF Aligned
<1>4. k + (pi - star) >= vi + 1
  BY <1>1, <1>2 DEF Aligned
<1> QED BY <1>1, <1>2, <1>3, <1>4

LEMMA GlobMeans ==
  ASSUME NEW p \in Text, NEW v \in Text, Clear(p, v)
  PROVE  GlobMatch(p, v) <=> Fits(p, v)
<1> DEFINE n == Len(p)
           m == Len(v)
<1>1. n \in Nat /\ m \in Nat
  BY DEF Text
<1>2. PICK run : /\ run = [s \in GlobState(p, v) |-> Round(p, v, run, s)]
                 /\ GlobMatch(p, v) = run[<<0, 0, 0, 0>>]
  BY GlobUnfolds
<1> DEFINE In(pi, vi, star, from) ==
             /\ pi \in 0 .. n /\ vi \in 0 .. m /\ star \in 0 .. pi /\ from \in 0 .. vi
             /\ Aligned(p, pi, vi, star, from)
           Right(pi, vi, star, from) ==
             run[<<pi, vi, star, from>>] = Finds(p, v, pi, vi, star, from)
<1>3. ASSUME NEW pi \in 0 .. n, NEW vi \in 0 .. m, NEW star \in 0 .. pi, NEW from \in 0 .. vi
      PROVE  run[<<pi, vi, star, from>>] =
               IF vi = m THEN StarsLeft(p, pi)
               ELSE IF Same(p, v, pi, vi) THEN run[<<pi + 1, vi + 1, star, from>>]
               ELSE IF AtStar(p, pi) THEN run[<<pi + 1, vi, pi + 1, vi>>]
               ELSE star > 0 /\ run[<<star, from + 1, star, from + 1>>]
  <2>1. <<pi, vi, star, from>> \in GlobState(p, v)
    BY <1>1 DEF GlobState
  <2> DEFINE s == <<pi, vi, star, from>>
  <2>2. run[s] = Round(p, v, run, s)
    <3> HIDE DEF s
    <3> QED BY <2>1, <1>2 DEF s
  <2>3. s[1] = pi /\ s[2] = vi /\ s[3] = star /\ s[4] = from
    OBVIOUS
  <2> HIDE DEF s
  <2>4. run[s] = 
               IF vi = m THEN StarsLeft(p, pi)
               ELSE IF Same(p, v, pi, vi) THEN run[<<pi + 1, vi + 1, star, from>>]
               ELSE IF AtStar(p, pi) THEN run[<<pi + 1, vi, pi + 1, vi>>]
               ELSE star > 0 /\ run[<<star, from + 1, star, from + 1>>]
    BY <2>2, <2>3 DEF Round
  <2> QED BY <2>4 DEF s
<1>4. ASSUME NEW pi, NEW vi, NEW star, NEW from, In(pi, vi, star, from),
             \A x, y, z, w : In(x, y, z, w) /\ (w > from \/ (w = from /\ x > pi)) => Right(x, y, z, w)
      PROVE  Right(pi, vi, star, from)
  <2>1. /\ pi \in 0 .. n /\ vi \in 0 .. m /\ star \in 0 .. pi /\ from \in 0 .. vi
        /\ Aligned(p, pi, vi, star, from)
    BY <1>4
  <2>2. ASSUME star > 0, NEW k \in from + 1 .. m, Rest(p, v, star, k)
        PROVE  k + (pi - star) \in vi + 1 .. m /\ Rest(p, v, pi, k + (pi - star))
    BY <2>1, <2>2, StarMoves
  <2> DEFINE answer == run[<<pi, vi, star, from>>]
             found == Finds(p, v, pi, vi, star, from)
             older == star > 0 /\ \E k \in from + 1 .. m : Rest(p, v, star, k)
  <2>3. answer =
          IF vi = m THEN StarsLeft(p, pi)
          ELSE IF Same(p, v, pi, vi) THEN run[<<pi + 1, vi + 1, star, from>>]
          ELSE IF AtStar(p, pi) THEN run[<<pi + 1, vi, pi + 1, vi>>]
          ELSE star > 0 /\ run[<<star, from + 1, star, from + 1>>]
    BY <2>1, <1>3
  <2>4. found <=> Rest(p, v, pi, vi) \/ older
    BY DEF Finds
  <2>5. CASE vi = m
    <3>1. ~older
      BY <2>1, <2>2, <2>5, <1>1
    <3>2. found <=> StarsLeft(p, pi)
      BY <3>1, <2>1, <2>4, <2>5, RestStars DEF StarsLeft
    <3>3. answer = StarsLeft(p, pi)
      BY <2>3, <2>5
    <3> HIDE DEF answer
    <3> QED BY <3>2, <3>3, Zenon DEF answer, StarsLeft, Finds
  <2>6. CASE vi # m /\ Same(p, v, pi, vi) /\ p[pi + 1] # "*"
    <3>1. /\ pi + 1 \in 0 .. n /\ vi + 1 \in 0 .. m /\ star \in 0 .. pi + 1 /\ from \in 0 .. vi + 1
          /\ pi < n /\ vi < m /\ p[pi + 1] \in {v[vi + 1], "?"} /\ pi + 1 > pi
      BY <1>1, <2>1, <2>6 DEF Same
    <3>2. Aligned(p, pi + 1, vi + 1, star, from)
      BY <1>1, <2>1, <2>6, <3>1 DEF Aligned
    <3>3. Right(pi + 1, vi + 1, star, from)
      BY <3>1, <3>2, <1>4
    <3>4. Rest(p, v, pi, vi) <=> Rest(p, v, pi + 1, vi + 1)
      <4>1. ASSUME Rest(p, v, pi, vi) PROVE Rest(p, v, pi + 1, vi + 1)
        <5>1. PICK k \in 0 .. m : Piece(p, v, pi + 1, vi, k) /\ Rest(p, v, pi + 1, k)
          BY <4>1, <2>1, <3>1, RestForward
        <5> QED BY <5>1, <2>6 DEF Piece
      <4>2. Piece(p, v, pi + 1, vi, vi + 1)
        BY <2>6, <3>1 DEF Piece
      <4> QED BY <4>1, <4>2, <2>1, <3>1, RestBack
    <3>5. Finds(p, v, pi + 1, vi + 1, star, from) <=> found
      BY <3>4 DEF Finds
    <3>6. answer = Finds(p, v, pi + 1, vi + 1, star, from)
      BY <3>3, <2>3, <2>6
    <3> HIDE DEF answer
    <3> QED BY <3>5, <3>6, Zenon DEF answer, Finds
  <2>7. CASE vi # m /\ Same(p, v, pi, vi) /\ p[pi + 1] = "*"
    <3>1. /\ pi + 1 \in 0 .. n /\ vi + 1 \in 0 .. m /\ star \in 0 .. pi + 1 /\ from \in 0 .. vi + 1
          /\ pi < n /\ pi + 1 \in 1 .. n /\ vi + 1 \in 1 .. m /\ v[vi + 1] = "*"
      BY <1>1, <2>1, <2>7 DEF Same
    <3>2. vi + 1 = m /\ \A k \in 1 .. n - 1 : ~(p[k] = "*" /\ p[k + 1] = "?")
      BY <2>7, <3>1 DEF Clear
    <3>3. vi = m - 1 /\ m # 0 /\ v[m] = "*"
      BY <1>1, <2>1, <3>1, <3>2
    <3>4. answer = StarsLeft(p, pi + 1)
      <4>1. run[<<pi + 1, vi + 1, star, from>>] = StarsLeft(p, pi + 1)
        BY <3>1, <3>2, <1>3
      <4> QED BY <4>1, <2>3, <2>7
    <3>5. ASSUME StarsLeft(p, pi + 1) PROVE found
      <4>1. Rest(p, v, pi + 1, m)
        BY <3>1, <3>5, RestStars DEF StarsLeft
      <4>2. m \in vi .. m
        BY <1>1, <3>3
      <4>3. Rest(p, v, pi, vi)
        BY <4>1, <4>2, <2>1, <2>7, <3>1, RestStar
      <4> QED BY <4>3, <2>4
    <3>6. ASSUME found PROVE StarsLeft(p, pi + 1)
      <4>1. CASE Rest(p, v, pi, vi)
        <5>1. \A k \in pi + 1 .. n : p[k] = "*"
          BY <4>1, <2>1, <2>7, <3>1, <3>2, <3>3, RestLast
        <5> QED BY <5>1, <1>1, <3>1 DEF StarsLeft
      <4>2. CASE older
        <5>1. PICK k \in from + 1 .. m : Rest(p, v, star, k)
          BY <4>2
        <5>2. k + (pi - star) \in vi + 1 .. m /\ Rest(p, v, pi, k + (pi - star))
          BY <4>2, <5>1, <2>2
        <5>3. k + (pi - star) = m
          BY <5>2, <3>2, <1>1
        <5>4. \A i \in pi + 1 .. n : p[i] = "*"
          BY <5>2, <5>3, <2>1, RestStars
        <5> QED BY <5>4, <1>1, <3>1 DEF StarsLeft
      <4> QED BY <4>1, <4>2, <3>6, <2>4
    <3> HIDE DEF answer
    <3> QED BY <3>4, <3>5, <3>6, Zenon DEF answer, StarsLeft, Finds
  <2>8. CASE vi # m /\ ~Same(p, v, pi, vi) /\ AtStar(p, pi)
    <3>1. /\ pi + 1 \in 0 .. n /\ pi + 1 \in 0 .. pi + 1 /\ vi \in 0 .. vi /\ pi < n
          /\ p[pi + 1] = "*" /\ pi + 1 > pi /\ pi + 1 > 0 /\ (vi > from \/ vi = from)
      BY <1>1, <2>1, <2>8 DEF AtStar
    <3>2. Aligned(p, pi + 1, vi, pi + 1, vi)
      BY <1>1, <2>1 DEF Aligned
    <3>3. Right(pi + 1, vi, pi + 1, vi)
      BY <2>1, <3>1, <3>2, <1>4
    <3>4. Finds(p, v, pi + 1, vi, pi + 1, vi) <=> \E k \in vi .. m : Rest(p, v, pi + 1, k)
      BY <1>1, <2>1, <3>1 DEF Finds
    <3>5. Rest(p, v, pi, vi) <=> \E k \in vi .. m : Rest(p, v, pi + 1, k)
      BY <2>1, <3>1, RestStar
    <3>6. ASSUME older PROVE \E k \in vi .. m : Rest(p, v, pi + 1, k)
      <4>1. PICK k \in from + 1 .. m : Rest(p, v, star, k)
        BY <3>6
      <4>2. k + (pi - star) \in vi + 1 .. m /\ Rest(p, v, pi, k + (pi - star))
        BY <3>6, <4>1, <2>2
      <4>3. k + (pi - star) \in 0 .. m
        BY <4>2, <1>1, <2>1
      <4>4. PICK x \in k + (pi - star) .. m : Rest(p, v, pi + 1, x)
        BY <4>2, <4>3, <2>1, <3>1, RestStar
      <4>5. x \in vi .. m
        BY <4>2, <4>4, <1>1, <2>1
      <4> QED BY <4>4, <4>5
    <3>7. Finds(p, v, pi + 1, vi, pi + 1, vi) <=> found
      BY <3>4, <3>5, <3>6, <2>4
    <3>8. answer = Finds(p, v, pi + 1, vi, pi + 1, vi)
      BY <3>3, <2>3, <2>8
    <3> HIDE DEF answer
    <3> QED BY <3>7, <3>8, Zenon DEF answer, Finds
  <2>9. CASE vi # m /\ ~Same(p, v, pi, vi) /\ ~AtStar(p, pi)
    <3>1. ~Rest(p, v, pi, vi)
      <4> SUFFICES ASSUME Rest(p, v, pi, vi) PROVE FALSE
        OBVIOUS
      <4>1. CASE pi = n
        BY <4>1, <2>9, RestEnd
      <4>2. CASE pi < n
        <5>1. PICK k \in 0 .. m : Piece(p, v, pi + 1, vi, k)
          BY <4>2, <2>1, RestForward
        <5> QED BY <5>1, <4>2, <2>9 DEF Piece, Same, AtStar
      <4> QED BY <4>1, <4>2, <1>1, <2>1
    <3>2. CASE ~(star > 0)
      <4>1. ~found
        BY <3>1, <3>2, <2>4
      <4>2. answer = FALSE
        BY <3>2, <2>3, <2>9
      <4> HIDE DEF answer
      <4> QED BY <4>1, <4>2, Zenon DEF answer, Finds
    <3>3. CASE star > 0
      <4>1. /\ star \in 0 .. n /\ star \in 0 .. star /\ from + 1 \in 0 .. m /\ from + 1 \in 0 .. from + 1
            /\ from + 1 > from
        BY <1>1, <2>1, <2>9
      <4>2. Aligned(p, star, from + 1, star, from + 1)
        BY <1>1, <2>1 DEF Aligned
      <4>3. Right(star, from + 1, star, from + 1)
        BY <4>1, <4>2, <1>4
      <4>4. Finds(p, v, star, from + 1, star, from + 1) <=> older
        BY <1>1, <2>1, <3>3, <4>1 DEF Finds
      <4>5. Finds(p, v, star, from + 1, star, from + 1) <=> found
        BY <4>4, <3>1, <2>4
      <4>6. Finds(p, v, star, from + 1, star, from + 1) \in BOOLEAN
        BY DEF Finds
      <4>7. answer = Finds(p, v, star, from + 1, star, from + 1)
        BY <4>3, <4>6, <3>3, <2>3, <2>9
      <4> HIDE DEF answer
      <4> QED BY <4>5, <4>7, Zenon DEF answer, Finds
    <3> QED BY <3>2, <3>3
  <2> QED BY <2>5, <2>6, <2>7, <2>8, <2>9
<1>5. ASSUME NEW pi, NEW vi, NEW star, NEW from, In(pi, vi, star, from) PROVE Right(pi, vi, star, from)
  <2> SUFFICES ASSUME ~Right(pi, vi, star, from) PROVE FALSE
    OBVIOUS
  <2> HIDE DEF Right
  <2> DEFINE Wrong(x, y, z, w) == In(x, y, z, w) /\ ~Right(x, y, z, w)
             Froms == {w \in 0 .. m : \E x, y, z : Wrong(x, y, z, w)}
  <2>1. from \in Froms
    <3>1. from \in 0 .. m
      BY <1>1, <1>5
    <3>2. Wrong(pi, vi, star, from)
      BY <1>5
    <3> HIDE DEF Wrong
    <3> QED BY <3>1, <3>2
  <2>2. PICK w \in Froms : \A u \in Froms : u <= w
    <3>1. Froms \in SUBSET (0 .. m)
      OBVIOUS
    <3> HIDE DEF Froms
    <3> QED BY <2>1, <3>1, <1>1, GreatestNumber
  <2> DEFINE Pis == {x \in 0 .. n : \E y, z : Wrong(x, y, z, w)}
  <2>3. Pis # {}
    <3>1. PICK x, y, z : Wrong(x, y, z, w)
      BY <2>2
    <3>2. x \in 0 .. n
      BY <3>1
    <3> HIDE DEF Wrong
    <3> QED BY <3>1, <3>2
  <2>4. PICK x \in Pis : \A u \in Pis : u <= x
    <3>1. Pis \in SUBSET (0 .. n)
      OBVIOUS
    <3> HIDE DEF Pis
    <3> QED BY <2>3, <3>1, <1>1, GreatestNumber
  <2>5. PICK y, z : Wrong(x, y, z, w)
    BY <2>4
  <2>6. ASSUME NEW a, NEW b, NEW c, NEW d, In(a, b, c, d), d > w \/ (d = w /\ a > x)
        PROVE  Right(a, b, c, d)
    <3> SUFFICES ASSUME ~Right(a, b, c, d) PROVE FALSE
      OBVIOUS
    <3>1. Wrong(a, b, c, d) /\ a \in 0 .. n /\ d \in 0 .. m
      BY <2>6, <1>1
    <3> HIDE DEF Wrong, In
    <3>2. d \in Froms
      BY <3>1
    <3>3. d <= w /\ d \in Nat /\ w \in Nat
      BY <3>1, <3>2, <2>2, <1>1
    <3>4. d = w /\ a > x
      BY <3>3, <2>6
    <3>5. a \in Pis
      BY <3>1, <3>4
    <3> QED BY <3>1, <3>4, <3>5, <2>4, <1>1
  <2>7. Right(x, y, z, w)
    <3>1. In(x, y, z, w)
      BY <2>5
    <3> HIDE DEF In, Wrong
    <3> QED BY <3>1, <2>6, <1>4
  <2> QED BY <2>5, <2>7
<1>6. run[<<0, 0, 0, 0>>] = Finds(p, v, 0, 0, 0, 0)
  <2>1. In(0, 0, 0, 0)
    BY <1>1 DEF Aligned
  <2> HIDE DEF In
  <2> QED BY <2>1, <1>5
<1>7. Finds(p, v, 0, 0, 0, 0) <=> Rest(p, v, 0, 0)
  BY DEF Finds
<1> QED BY <1>2, <1>6, <1>7, RestStart

\* Of any states of the loop, one has come furthest: by its star, then by its pattern.
LEMMA FurthestState ==
  ASSUME NEW p \in Text, NEW v \in Text, NEW T \in SUBSET GlobState(p, v), T # {}
  PROVE  \E s \in T : \A t \in T : t[4] < s[4] \/ (t[4] = s[4] /\ t[1] <= s[1])
<1>1. Len(p) \in Nat /\ Len(v) \in Nat /\ \A s \in T : s[1] \in 0 .. Len(p) /\ s[4] \in 0 .. Len(v)
  BY DEF Text, GlobState
<1> DEFINE Froms == {s[4] : s \in T}
<1>2. PICK w \in Froms : \A u \in Froms : u <= w
  <2>1. Froms \in SUBSET (0 .. Len(v)) /\ Froms # {}
    BY <1>1
  <2> HIDE DEF Froms
  <2> QED BY <2>1, <1>1, GreatestNumber
<1> DEFINE Pis == {s[1] : s \in {t \in T : t[4] = w}}
<1>3. PICK x \in Pis : \A u \in Pis : u <= x
  <2>1. Pis \in SUBSET (0 .. Len(p)) /\ Pis # {}
    BY <1>1, <1>2
  <2> HIDE DEF Pis
  <2> QED BY <2>1, <1>1, GreatestNumber
<1>4. PICK s \in T : s[4] = w /\ s[1] = x
  BY <1>3
<1>5. ASSUME NEW t \in T PROVE t[4] < s[4] \/ (t[4] = s[4] /\ t[1] <= s[1])
  <2>1. t[4] <= w /\ t[4] \in Nat /\ w \in Nat
    BY <1>1, <1>2
  <2>2. t[4] = w => t[1] <= x
    BY <1>3
  <2> QED BY <2>1, <2>2, <1>4
<1> QED BY <1>4, <1>5

\* The matcher accepts nothing that does not fit, whatever stars are in the value.
LEMMA GlobSound ==
  ASSUME NEW p \in Text, NEW v \in Text, GlobMatch(p, v) PROVE Fits(p, v)
<1>1. Len(p) \in Nat /\ Len(v) \in Nat
  BY DEF Text
<1>2. PICK run : /\ run = [s \in GlobState(p, v) |-> Round(p, v, run, s)]
                 /\ GlobMatch(p, v) = run[<<0, 0, 0, 0>>]
  BY GlobUnfolds
<1> DEFINE Right(s) == Finds(p, v, s[1], s[2], s[3], s[4])
           Bad == {s \in GlobState(p, v) : run[s] /\ ~Right(s)}
<1>3. \A s \in GlobState(p, v) : run[s] = Round(p, v, run, s)
  BY <1>2
<1>4. Bad = {}
  <2> SUFFICES ASSUME Bad # {} PROVE FALSE
    OBVIOUS
  <2>1. PICK s \in Bad : \A t \in Bad : t[4] < s[4] \/ (t[4] = s[4] /\ t[1] <= s[1])
    <3>1. Bad \in SUBSET GlobState(p, v)
      OBVIOUS
    <3> HIDE DEF Bad
    <3> QED BY <3>1, FurthestState
  <2> DEFINE pi == s[1]
             vi == s[2]
             star == s[3]
             from == s[4]
  <2>2. /\ s \in GlobState(p, v) /\ ~Right(s) /\ Round(p, v, run, s)
        /\ pi \in 0 .. Len(p) /\ vi \in 0 .. Len(v) /\ star \in 0 .. pi /\ from \in 0 .. vi
        /\ star \in 0 .. Len(p) /\ from \in 0 .. Len(v)
    BY <1>1, <1>3, <2>1 DEF GlobState
  <2>3. ASSUME NEW t \in GlobState(p, v), run[t], t[4] > from \/ (t[4] = from /\ t[1] > pi)
        PROVE  Right(t)
    <3>1. t[4] \in Nat /\ t[1] \in Nat
      BY <1>1 DEF GlobState
    <3>2. t \notin Bad
      BY <2>1, <2>2, <2>3, <3>1
    <3> QED BY <2>3, <3>2
  <2>4. vi # Len(v)
    <3> SUFFICES ASSUME vi = Len(v) PROVE FALSE
      OBVIOUS
    <3>1. StarsLeft(p, pi)
      BY <2>2 DEF Round
    <3>2. Rest(p, v, pi, vi)
      BY <2>2, <3>1, RestStars DEF StarsLeft
    <3> QED BY <2>2, <3>2 DEF Finds
  <2>5. ~Same(p, v, pi, vi)
    <3> SUFFICES ASSUME Same(p, v, pi, vi) PROVE FALSE
      OBVIOUS
    <3> DEFINE t == <<pi + 1, vi + 1, star, from>>
    <3>1. t \in GlobState(p, v) /\ run[t]
      BY <2>2, <2>4, RoundsStay DEF Round
    <3>2. t[1] = pi + 1 /\ t[2] = vi + 1 /\ t[3] = star /\ t[4] = from
      OBVIOUS
    <3> HIDE DEF t
    <3>3. Finds(p, v, pi + 1, vi + 1, star, from)
      BY <3>1, <3>2, <2>2, <2>3
    <3>4. Piece(p, v, pi + 1, vi, vi + 1) /\ pi < Len(p)
      BY <1>1, <2>2, <2>4 DEF Same, Piece
    <3>5. Rest(p, v, pi + 1, vi + 1) => Rest(p, v, pi, vi)
      BY <2>2, <3>4, RestBack
    <3> QED BY <2>2, <3>3, <3>5 DEF Finds
  <2>6. ~AtStar(p, pi)
    <3> SUFFICES ASSUME AtStar(p, pi) PROVE FALSE
      OBVIOUS
    <3> DEFINE t == <<pi + 1, vi, pi + 1, vi>>
    <3>1. t \in GlobState(p, v) /\ run[t]
      BY <2>2, <2>4, <2>5, RoundsStay DEF Round
    <3>2. t[1] = pi + 1 /\ t[2] = vi /\ t[3] = pi + 1 /\ t[4] = vi
      OBVIOUS
    <3> HIDE DEF t
    <3>3. Finds(p, v, pi + 1, vi, pi + 1, vi)
      BY <3>1, <3>2, <2>2, <2>3
    <3>4. \E k \in vi .. Len(v) : Rest(p, v, pi + 1, k)
      BY <1>1, <2>2, <3>3 DEF Finds
    <3>5. Rest(p, v, pi, vi)
      BY <3>4, <2>2, RestStar DEF AtStar
    <3> QED BY <2>2, <3>5 DEF Finds
  <2>7. star > 0 /\ run[<<star, from + 1, star, from + 1>>]
    BY <2>2, <2>4, <2>5, <2>6 DEF Round
  <2> DEFINE t == <<star, from + 1, star, from + 1>>
  <2>8. t \in GlobState(p, v) /\ t[1] = star /\ t[2] = from + 1 /\ t[3] = star /\ t[4] = from + 1
    BY <2>2, <2>4, RoundsStay
  <2> HIDE DEF t
  <2>9. Finds(p, v, star, from + 1, star, from + 1)
    BY <2>2, <2>3, <2>7, <2>8 DEF t
  <2>10. \E k \in from + 1 .. Len(v) : Rest(p, v, star, k)
    <3>1. from + 1 \in from + 1 .. Len(v)
      BY <1>1, <2>2, <2>4
    <3> QED BY <1>1, <2>2, <2>9, <3>1 DEF Finds
  <2> QED BY <2>2, <2>7, <2>10 DEF Finds
<1>5. <<0, 0, 0, 0>> \in GlobState(p, v)
  BY <1>1 DEF GlobState
<1>6. run[<<0, 0, 0, 0>>]
  BY <1>2
<1> DEFINE z == <<0, 0, 0, 0>>
<1>7. z[1] = 0 /\ z[2] = 0 /\ z[3] = 0 /\ z[4] = 0
  OBVIOUS
<1>8. Right(z)
  BY <1>4, <1>5, <1>6
<1>9. Finds(p, v, 0, 0, 0, 0)
  <2> HIDE DEF z
  <2> QED BY <1>7, <1>8
<1>10. Rest(p, v, 0, 0)
  BY <1>9 DEF Finds
<1> QED BY <1>10, RestStart

-----------------------------------------------------------------------------
(* What a statement matches is what it speaks of.                           *)

\* Everything fits a star, and a text fits itself.
LEMMA FitsAll == ASSUME NEW t \in Text PROVE Fits(Everything, t) /\ Fits(t, t)
<1>1. Len(t) \in Nat
  BY DEF Text
<1>2. Fits(Everything, t)
  <2> DEFINE cut == [n \in 0 .. 1 |-> IF n = 0 THEN 0 ELSE Len(t)]
  <2>1. Len(Everything) = 1 /\ Everything[1] = "*"
    BY DEF Everything
  <2>2. cut \in [0 .. 1 -> 0 .. Len(t)] /\ cut[0] = 0 /\ cut[1] = Len(t)
    BY <1>1
  <2>3. \A n \in 1 .. 1 : n = 1 /\ n - 1 = 0
    OBVIOUS
  <2> HIDE DEF cut
  <2> QED BY <1>1, <2>1, <2>2, <2>3 DEF Fits
<1>3. Fits(t, t)
  <2> DEFINE cut == [n \in 0 .. Len(t) |-> n]
  <2>1. cut \in [0 .. Len(t) -> 0 .. Len(t)] /\ cut[0] = 0 /\ cut[Len(t)] = Len(t)
    BY <1>1
  <2>2. \A n \in 1 .. Len(t) : cut[n] = n /\ cut[n - 1] = n - 1 /\ n - 1 <= n /\ n = (n - 1) + 1
    BY <1>1
  <2> HIDE DEF cut
  <2> QED BY <2>1, <2>2 DEF Fits
<1> QED BY <1>2, <1>3

\* A pattern without wildcards fits itself only.
LEMMA FitsItself ==
  ASSUME NEW p \in Text, NEW t \in Text, ~IsGlob(p), Fits(p, t) PROVE p = t
<1>1. Len(p) \in Nat /\ Len(t) \in Nat
  BY DEF Text
<1>2. \A n \in 1 .. Len(p) : p[n] # "*" /\ p[n] # "?"
  BY DEF IsGlob
<1>3. ASSUME NEW k \in 0 .. Len(p) PROVE Rest(p, t, k, k)
  <2>1. Rest(p, t, 0, 0) /\ 0 + (k - 0) = k /\ 0 \in 0 .. Len(p) /\ k \in 0 .. Len(p)
    BY RestStart, <1>1
  <2>2. \A n \in 0 + 1 .. k : p[n] # "*"
    BY <1>1, <1>2
  <2> QED BY <2>1, <2>2, RestPlain
<1>4. Len(p) = Len(t)
  BY <1>1, <1>3, RestEnd
<1>5. ASSUME NEW n \in 1 .. Len(p) PROVE p[n] = t[n]
  <2>1. n - 1 \in 0 .. Len(p) /\ n - 1 < Len(p) /\ (n - 1) + 1 = n
    BY <1>1
  <2>2. PICK k \in 0 .. Len(t) : Piece(p, t, n, n - 1, k)
    BY <2>1, <1>3, RestForward
  <2> QED BY <2>1, <2>2, <1>2 DEF Piece
<1> QED BY <1>4, <1>5 DEF Text

LEMMA ResourceMeant ==
  ASSUME NEW p \in Text, NEW t \in Text, SubSeq(t, 1, 1) = BucketArn
  PROVE  /\ ResourceMatches(p, t) => Fits(p, t) \/ p = BucketArn
         /\ (Fits(p, t) \/ p = BucketArn) /\ Clear(p, t) => ResourceMatches(p, t)
<1>1. CASE IsGlob(p)
  <2>1. p # BucketArn
    BY <1>1 DEF IsGlob, BucketArn
  <2>2. ResourceMatches(p, t) <=> p \in {Everything, t} \/ GlobMatch(p, t)
    BY <1>1 DEF ResourceMatches
  <2> QED BY <2>1, <2>2, FitsAll, GlobSound, GlobMeans
<1>2. CASE ~IsGlob(p)
  <2>1. ResourceMatches(p, t) <=> p \in {Everything, t} \/ p = BucketArn
    BY <1>2 DEF ResourceMatches
  <2> QED BY <1>2, <2>1, FitsAll, FitsItself
<1> QED BY <1>1, <1>2

LEMMA AfterTwo ==
  ASSUME NEW S, NEW s \in Seq(S), NEW k \in Seq(S), Len(s) = 2
  PROVE  /\ (s \o k)[1] = s[1] /\ (s \o k)[2] = s[2]
         /\ \A n \in 1 .. Len(k) : (s \o k)[2 + n] = k[n]
<1>1. Len(k) \in Nat
  OBVIOUS
<1>2. ASSUME NEW j \in 1 .. Len(s) + Len(k)
      PROVE  (s \o k)[j] = IF j <= Len(s) THEN s[j] ELSE k[j - Len(s)]
  BY ConcatProperties
<1>3. ASSUME NEW n \in 1 .. Len(k) PROVE (s \o k)[2 + n] = k[n]
  <2>1. (2 + n) - Len(s) = n /\ 2 + n \in 1 .. Len(s) + Len(k) /\ ~(2 + n <= Len(s))
    BY <1>1
  <2>2. (s \o k)[2 + n] = k[(2 + n) - Len(s)]
    BY <2>1, <1>2
  <2> QED BY <2>1, <2>2
<1>4. 1 \in 1 .. Len(s) + Len(k) /\ 2 \in 1 .. Len(s) + Len(k) /\ 1 <= Len(s) /\ 2 <= Len(s)
  BY <1>1
<1>5. (s \o k)[1] = s[1]
  BY <1>2, <1>4
<1>6. (s \o k)[2] = s[2]
  BY <1>2, <1>4
<1> QED BY <1>3, <1>5, <1>6

\* A request is about the bucket, one of its objects, or all of them.
LEMMA Targets ==
  ASSUME NEW r \in Req, NEW i \in Inputs[r]
  PROVE  LET t == Target(AsPolicyRequest(i)) IN
           /\ t \in Text /\ SubSeq(t, 1, 1) = BucketArn
           /\ StarFree(i.key) => StarFree(t) \/ t = AnyObject
           /\ AnyObject[3] = "*" /\ Len(AnyObject) = 3 /\ AnyObject[1] # "*" /\ AnyObject[2] # "*"
<1>1. i.key \in Text
  BY InputAssumption
<1>2. BucketArn \in Text /\ StarFree(BucketArn)
  BY CharAssumption DEF Text, BucketArn, StarFree
<1>3. ASSUME NEW t \in Text, Len(t) >= 1, t[1] = "b" PROVE SubSeq(t, 1, 1) = BucketArn
  <2>1. SubSeq(t, 1, 1) = [n \in 1 .. 1 |-> t[n]]
    BY <1>3 DEF Text
  <2>2. BucketArn = [n \in 1 .. 1 |-> "b"]
    BY DEF BucketArn
  <2> QED BY <1>3, <2>1, <2>2
<1>4. SubSeq(BucketArn, 1, 1) = BucketArn
  <2>1. Len(BucketArn) >= 1 /\ BucketArn[1] = "b"
    BY DEF BucketArn
  <2> QED BY <1>2, <1>3, <2>1
<1>5. ASSUME NEW key \in Text
      PROVE  /\ ObjectArn(key) \in Text /\ SubSeq(ObjectArn(key), 1, 1) = BucketArn
             /\ Len(ObjectArn(key)) = 2 + Len(key)
             /\ ObjectArn(key)[1] = "b" /\ ObjectArn(key)[2] = "/"
             /\ \A n \in 1 .. Len(key) : ObjectArn(key)[2 + n] = key[n]
  <2> DEFINE s == <<"b", "/">>
             t == s \o key
  <2>1. s \in Text /\ Len(s) = 2 /\ s[1] = "b" /\ s[2] = "/"
    BY CharAssumption DEF Text
  <2> HIDE DEF s
  <2>2. Len(key) \in Nat
    BY DEF Text
  <2>3. t \in Text /\ Len(t) = 2 + Len(key)
    <3>1. s \in Seq(Char) /\ key \in Seq(Char)
      BY <2>1 DEF Text
    <3>2. s \o key \in Seq(Char)
      BY <3>1, ConcatProperties
    <3>3. Len(s \o key) = Len(s) + Len(key)
      BY <3>1, ConcatProperties
    <3> QED BY <3>2, <3>3, <2>1 DEF Text
  <2>4. t[1] = "b" /\ t[2] = "/" /\ \A n \in 1 .. Len(key) : t[2 + n] = key[n]
    BY <2>1, AfterTwo DEF Text
  <2> HIDE DEF t
  <2>5. SubSeq(t, 1, 1) = BucketArn
    BY <1>3, <2>2, <2>3, <2>4
  <2>6. ObjectArn(key) = t
    BY DEF ObjectArn, t, s
  <2> QED BY <2>3, <2>4, <2>5, <2>6
<1>6. StarFree(i.key) => StarFree(ObjectArn(i.key))
  <2> SUFFICES ASSUME StarFree(i.key), NEW n \in 1 .. 2 + Len(i.key) PROVE ObjectArn(i.key)[n] # "*"
    BY <1>1, <1>5 DEF StarFree
  <2>1. Len(i.key) \in Nat
    BY <1>1 DEF Text
  <2>2. CASE n \in {1, 2}
    BY <2>2, <1>1, <1>5
  <2>3. CASE n \notin {1, 2}
    <3>1. PICK j \in 1 .. Len(i.key) : n = 2 + j
      <4>1. n - 2 \in 1 .. Len(i.key) /\ n = 2 + (n - 2)
        BY <2>1, <2>3
      <4> QED BY <4>1
    <3>2. i.key[j] # "*"
      BY DEF StarFree
    <3> QED BY <3>1, <3>2, <1>1, <1>5
  <2> QED BY <2>2, <2>3
<1>7. /\ AnyObject \in Text /\ SubSeq(AnyObject, 1, 1) = BucketArn
      /\ AnyObject[3] = "*" /\ Len(AnyObject) = 3 /\ AnyObject[1] # "*" /\ AnyObject[2] # "*"
  <2> DEFINE star == <<"*">>
  <2>1. star \in Text /\ Len(star) = 1 /\ star[1] = "*" /\ 2 + 1 = 3
    BY CharAssumption DEF Text
  <2>2. AnyObject = ObjectArn(star)
    BY DEF AnyObject
  <2> HIDE DEF star
  <2>3. ObjectArn(star)[2 + 1] = star[1]
    <3>1. 1 \in 1 .. Len(star)
      BY <2>1
    <3> QED BY <2>1, <3>1, <1>5
  <2> QED BY <2>1, <2>2, <2>3, <1>5
<1>8. Target(AsPolicyRequest(i)) \in {BucketArn, AnyObject, ObjectArn(i.key)}
  BY DEF Target, AsPolicyRequest
<1> QED BY <1>1, <1>2, <1>4, <1>5, <1>6, <1>7, <1>8

LEMMA Remainder ==
  ASSUME NEW P \in Nat \ {0}, NEW m \in Nat
  PROVE  \E r \in 0 .. P - 1 : m = (m \div P) * P + r
OBVIOUS

LEMMA Division ==
  ASSUME NEW P \in Nat \ {0}, NEW m \in Nat, NEW q, NEW x, q = m \div P, x = m % P
  PROVE  q \in Nat /\ x \in 0 .. P - 1 /\ q * P + x = m
<1>1. q \in Nat /\ x \in 0 .. P - 1
  OBVIOUS
<1>2. PICK r \in 0 .. P - 1 : m = q * P + r
  BY Remainder, Zenon
<1>3. ASSUME NEW n \in Nat PROVE (n * P + r) % P = r
  <2>1. (P * n + r) % P = r
    OBVIOUS
  <2> QED BY <2>1
<1>4. x = r
  BY <1>1, <1>2, <1>3
<1> QED BY <1>1, <1>2, <1>4

LEMMA NetworkMeant ==
  ASSUME NEW ip \in Address, NEW net \in Network, net.v6 => net.prefix <= Len(net.addr)
  PROVE  (Len(net.addr) = Len(ip) /\ InNetwork(ip, net.addr, net.prefix, net.v6))
           <=> MeantInNetwork(ip, net)
<1>1. Len(ip) \in Nat /\ Len(net.addr) \in Nat /\ net.prefix \in Nat /\ net.v6 \in BOOLEAN
  BY DEF Address, Network
<1> DEFINE n == net.prefix
           full == n \div ByteBits
           rest == n % ByteBits
<1>2. full \in Nat /\ rest \in Nat /\ full * ByteBits + rest = n /\ rest < 2 /\ full * ByteBits \in Nat
  <2>1. ByteBits \in Nat \ {0} /\ ByteBits = 2
    BY DEF ByteBits
  <2>2. n \in Nat
    BY <1>1
  <2> HIDE DEF n
  <2>3. full \in Nat /\ rest \in 0 .. ByteBits - 1 /\ full * ByteBits + rest = n
    BY <2>1, <2>2, Division
  <2> HIDE DEF full, rest
  <2> QED BY <2>1, <2>2, <2>3
<1> SUFFICES ASSUME Len(net.addr) = Len(ip)
             PROVE  InNetwork(ip, net.addr, n, net.v6) <=> MeantInNetwork(ip, net)
  BY DEF MeantInNetwork
<1> DEFINE Agrees(j) == ip[j] = net.addr[j]
<1>3. CASE net.v6
  <2>1. MeantInNetwork(ip, net) <=> \A j \in 1 .. n : Agrees(j)
    BY <1>1, <1>3 DEF MeantInNetwork
  <2>2. InNetwork(ip, net.addr, n, net.v6) <=>
          /\ \A j \in 1 .. full * ByteBits : Agrees(j)
          /\ rest = 0 \/ \A j \in 1 .. rest : Agrees(full * ByteBits + j)
    BY <1>3 DEF InNetwork, Common
  <2> DEFINE whole == full * ByteBits
  <2>3. whole \in Nat /\ whole + rest = n
    BY <1>2
  <2> HIDE DEF whole, rest, Agrees, n
  <2>4. n \in Nat /\ rest \in Nat
    BY <1>1, <1>2 DEF n
  <2>5. (\A j \in 1 .. n : Agrees(j)) <=>
          (\A j \in 1 .. whole : Agrees(j)) /\ (\A j \in 1 .. rest : Agrees(whole + j))
    <3>1. ASSUME NEW j \in 1 .. n PROVE j \in 1 .. whole \/ (j - whole \in 1 .. rest /\ whole + (j - whole) = j)
      BY <2>3, <2>4
    <3>2. (\A j \in 1 .. whole : j \in 1 .. n) /\ (\A j \in 1 .. rest : whole + j \in 1 .. n)
      BY <2>3, <2>4
    <3> QED BY <3>1, <3>2
  <2>6. rest = 0 => \A j \in 1 .. rest : Agrees(whole + j)
    OBVIOUS
  <2> QED BY <2>1, <2>2, <2>5, <2>6 DEF whole
<1>4. CASE ~net.v6
  <2>1. InNetwork(ip, net.addr, n, net.v6) <=>
          \A j \in 1 .. (IF n >= Len(ip) THEN Len(ip) ELSE n) : Agrees(j)
    BY <1>4 DEF InNetwork, Common
  <2> QED BY <2>1, <1>1 DEF MeantInNetwork
<1> QED BY <1>3, <1>4, <1>1

\* The groups a caller is known by.
GroupsKnown ==
  \A k \in DOMAIN creds :
    creds[k].groups \subseteq Text /\ (PlainNames => \A g \in creds[k].groups : StarFree(g))

LEMMA TextMeant ==
  ASSUME NEW p \in Text, NEW v \in Text, NEW op
  PROVE  LET meant == IF op = "StringLike" THEN Fits(p, v) ELSE op = "StringEquals" /\ p = v IN
           (TextMatches(op, v, p) => meant) /\ (StarFree(v) /\ meant => TextMatches(op, v, p))
<1>1. StarFree(v) => Clear(p, v)
  BY DEF Clear, StarFree
<1>2. (GlobMatch(p, v) => Fits(p, v)) /\ (StarFree(v) /\ Fits(p, v) => GlobMatch(p, v))
  BY <1>1, GlobSound, GlobMeans
<1> QED BY <1>2 DEF TextMatches

LEMMA ConditionMeant ==
  ASSUME GroupsKnown, NEW c \in Condition, ValidCondition(c),
         c.key = "ip" => \A net \in c.values : net.v6 => net.prefix <= Len(net.addr),
         NEW r \in Req, NEW i \in Inputs[r], NEW k, NEW ip \in Address
  PROVE  LET matches == ConditionMatches(c, AsPolicyRequest(i), ContextOf(k, ip)) IN
           /\ matches => MeantCondition(c, i, k, ip)
           /\ PlainNames /\ MeantCondition(c, i, k, ip) => matches
<1> DEFINE ctx == ContextOf(k, ip)
           req == AsPolicyRequest(i)
           Meant(p, v) == IF c.op = "StringLike" THEN Fits(p, v) ELSE c.op = "StringEquals" /\ p = v
<1>1. ASSUME NEW p \in Text, NEW v \in Text
      PROVE  /\ TextMatches(c.op, v, p) => Meant(p, v)
             /\ StarFree(v) /\ Meant(p, v) => TextMatches(c.op, v, p)
  BY TextMeant
<1>2. /\ ctx.ip = ip /\ ctx.roles = {} /\ req.prefix = i.prefix /\ req.key = i.key
      /\ ctx.groups \subseteq Text /\ (PlainNames => \A g \in ctx.groups : StarFree(g))
  BY DEF ContextOf, AsPolicyRequest, GroupsKnown, Known
<1>3. c.key \in ConditionKeys
  BY DEF ValidCondition
<1> HIDE DEF ctx, req, Meant
<1>4. CASE c.key = "ip"
  <2>1. c.values \subseteq Network
    BY <1>4 DEF Condition
  <2>2. ASSUME NEW net \in c.values
        PROVE  (IF Len(net.addr) # Len(ip) THEN FALSE
                ELSE InNetwork(ip, net.addr, net.prefix, net.v6)) <=> MeantInNetwork(ip, net)
    <3>1. net \in Network /\ (net.v6 => net.prefix <= Len(net.addr))
      BY <2>1, <1>4
    <3> QED BY <3>1, NetworkMeant
  <2>3. ConditionMatches(c, req, ctx) <=> c.op = "IpAddress" /\ \E net \in c.values :
          IF Len(net.addr) # Len(ip) THEN FALSE
          ELSE InNetwork(ip, net.addr, net.prefix, net.v6)
    BY <1>2, <1>4 DEF ConditionMatches
  <2>4. MeantCondition(c, i, k, ip) <=>
          c.op = "IpAddress" /\ \E net \in c.values : MeantInNetwork(ip, net)
    BY <1>4 DEF MeantCondition
  <2> QED BY <2>2, <2>3, <2>4 DEF ctx, req
<1>5. CASE c.key # "ip"
  <2>1. c.values \subseteq Text
    BY <1>5 DEF Condition
  <2>2. CASE c.key = "prefix"
    <3> DEFINE name == IF i.prefix # <<>> THEN i.prefix ELSE i.key
    <3>1. name \in Text /\ (PlainNames => StarFree(name))
      BY InputAssumption DEF PlainNames
    <3>2. ConditionMatches(c, req, ctx) <=> \E p \in c.values : TextMatches(c.op, name, p)
      BY <1>2, <2>2 DEF ConditionMatches
    <3>3. MeantCondition(c, i, k, ip) <=> \E p \in c.values : Meant(p, name)
      BY <2>2 DEF MeantCondition, MeantText, Meant
    <3> HIDE DEF name
    <3> QED BY <1>1, <2>1, <3>1, <3>2, <3>3 DEF ctx, req
  <2>3. CASE c.key = "groups"
    <3>1. ConditionMatches(c, req, ctx) <=>
            \E p \in c.values, g \in ctx.groups : TextMatches(c.op, g, p)
      BY <2>3 DEF ConditionMatches
    <3>2. MeantCondition(c, i, k, ip) <=> \E p \in c.values, g \in ctx.groups : Meant(p, g)
      BY <2>3 DEF MeantCondition, MeantText, ctx, Meant
    <3>3. ASSUME NEW p \in c.values, NEW g \in ctx.groups
          PROVE  /\ TextMatches(c.op, g, p) => Meant(p, g)
                 /\ PlainNames /\ Meant(p, g) => TextMatches(c.op, g, p)
      BY <1>1, <1>2, <2>1
    <3> QED BY <3>1, <3>2, <3>3 DEF ctx, req
  <2>4. CASE c.key = "roles"
    BY <1>2, <2>4 DEF ConditionMatches, MeantCondition, ctx, req
  <2> QED BY <1>3, <1>5, <2>2, <2>3, <2>4 DEF ConditionKeys
<1> QED BY <1>4, <1>5

\* A well-formed statement matches nothing that it does not speak of and, where its
\* patterns are plain, all that it speaks of.
LEMMA StatementMeant ==
  ASSUME NEW effect, Plain(effect), GroupsKnown, NEW doc \in Docs, V2Accepts(doc), NEW st \in doc,
         NEW r \in Req, NEW i \in Inputs[r], ~PolicyExempt(i), NEW k, NEW ip \in Address
  PROVE  LET matches == StatementMatches(st, AsPolicyRequest(i), ContextOf(k, ip)) IN
           /\ matches => Concerns(st, i, k, ip)
           /\ st.effect = effect /\ Concerns(st, i, k, ip) => matches
<1> DEFINE ctx == ContextOf(k, ip)
           req == AsPolicyRequest(i)
           t == Target(req)
<1>1. st \in Statement /\ ValidStatement(st) /\ \A c \in st.conditions : ValidCondition(c)
  BY InputAssumption DEF V2Accepts
<1>2. PrincipalMatches(st.principal, ctx.who) <=>
        "*" \in st.principal \/ (k # NoKey /\ k \in st.principal)
  BY <1>1 DEF PrincipalMatches, Wildcard, ContextOf, ValidStatement
<1>3. ActionsMatch(st.actions, req.action) <=> \E a \in st.actions : a[2] \in {"*", ActionOf(i)[2]}
  <2>1. ActionOf(i) \in {GetObject, PutObject, DeleteObject, ListBucket}
    BY DEF PolicyExempt, ActionOf
  <2>2. req.action = ActionOf(i) /\ Normalize(req.action) = ActionOf(i)
    BY <2>1 DEF AsPolicyRequest, Normalize, GetObject, PutObject, DeleteObject, ListBucket
  <2>3. ASSUME NEW a \in st.actions
        PROVE  Normalize(a) \in {AllActions, ActionOf(i)} <=> a[2] \in {"*", ActionOf(i)[2]}
    <3>1. a \in STRING \X STRING /\ Normalize(a) \in Supported
      BY <1>1 DEF Statement, ValidStatement
    <3>2. a = <<a[1], a[2]>>
      BY <3>1
    <3>3. Normalize(a)[1] = "s3" /\ Normalize(a)[2] = a[2]
      BY <3>1, <3>2 DEF Normalize, Supported, GetObject, PutObject, DeleteObject, ListBucket, AllActions
    <3> QED BY <2>1, <3>1, <3>3 DEF Supported, GetObject, PutObject, DeleteObject, ListBucket, AllActions
  <2> QED BY <2>2, <2>3 DEF ActionsMatch
<1>4. ASSUME NEW p \in st.resources
      PROVE  /\ ResourceMatches(p, t) => Fits(p, t) \/ p = BucketArn
             /\ st.effect = effect /\ (Fits(p, t) \/ p = BucketArn) => ResourceMatches(p, t)
  <2>1. p \in Text
    BY <1>1 DEF Statement
  <2>2. /\ t \in Text /\ SubSeq(t, 1, 1) = BucketArn
        /\ StarFree(i.key) => StarFree(t) \/ t = AnyObject
        /\ AnyObject[3] = "*" /\ Len(AnyObject) = 3 /\ AnyObject[1] # "*" /\ AnyObject[2] # "*"
    BY Targets
  <2>3. st.effect = effect => StarFree(i.key) /\ (t = AnyObject => NoStarBeforeAny(p))
    BY DEF Plain, PlainNames
  <2> HIDE DEF t
  <2>4. StarFree(t) => Clear(p, t)
    BY DEF Clear, StarFree
  <2>5. ASSUME t = AnyObject, NoStarBeforeAny(p) PROVE Clear(p, t)
    <3>1. \A j \in 1 .. 3 : t[j] = "*" => j = 3
      BY <2>2, <2>5
    <3> QED BY <3>1, <2>2, <2>5 DEF Clear, NoStarBeforeAny
  <2>6. st.effect = effect => Clear(p, t)
    BY <2>2, <2>3, <2>4, <2>5
  <2> QED BY <2>1, <2>2, <2>6, ResourceMeant
<1>5. ASSUME NEW c \in st.conditions
      PROVE  /\ ConditionMatches(c, req, ctx) => MeantCondition(c, i, k, ip)
             /\ st.effect = effect /\ MeantCondition(c, i, k, ip) => ConditionMatches(c, req, ctx)
  <2>1. c \in Condition /\ ValidCondition(c)
    BY <1>1 DEF Statement
  <2>2. /\ c.key = "ip" => \A net \in c.values : net.v6 => net.prefix <= Len(net.addr)
        /\ st.effect = effect => PlainNames
    BY DEF Plain
  <2> QED BY <2>1, <2>2, ConditionMeant
<1> HIDE DEF t, ctx, req
<1>6. StatementMatches(st, req, ctx) <=>
        /\ PrincipalMatches(st.principal, ctx.who) /\ ActionsMatch(st.actions, req.action)
        /\ \E p \in st.resources : ResourceMatches(p, t)
        /\ \A c \in st.conditions : ConditionMatches(c, req, ctx)
  BY DEF StatementMatches, ConditionsMatch, t
<1>7. Concerns(st, i, k, ip) <=>
        /\ "*" \in st.principal \/ (k # NoKey /\ k \in st.principal)
        /\ \E a \in st.actions : a[2] \in {"*", ActionOf(i)[2]}
        /\ \E p \in st.resources : Fits(p, t) \/ p = BucketArn
        /\ \A c \in st.conditions : MeantCondition(c, i, k, ip)
  BY DEF Concerns, t, req
<1>8. StatementMatches(st, req, ctx) => Concerns(st, i, k, ip)
  BY <1>2, <1>3, <1>4, <1>5, <1>6, <1>7
<1>9. st.effect = effect /\ Concerns(st, i, k, ip) => StatementMatches(st, req, ctx)
  BY <1>2, <1>3, <1>4, <1>5, <1>6, <1>7
<1> QED BY <1>8, <1>9 DEF req, ctx

-----------------------------------------------------------------------------
(* Policies decide: what the checks let through, and what they turn away.   *)

\* The bucket has no policy or one that was accepted, now and while requests ran.
BucketState ==
  [exists : BOOLEAN, tenant : Tenants, read : BOOLEAN, list : BOOLEAN,
   policy : {NoPolicy} \union {doc \in Docs : V2Accepts(doc)}]
BucketsKnown ==
  bucket \in BucketState /\ \A r \in Req : seen[r] \subseteq BucketState

\* Credentials are those of some file; a request is one of those that may come, and
\* the caller it is taken for has not been switched off while the process lives.
Sources ==
  /\ \E file \in CredFiles : creds = Load(file)
  /\ \A r \in Req : pc[r] # "idle" => in[r] \in Inputs[r]
  /\ \A r \in Req : pc[r] # "lost" /\ who[r] # NoKey => Known(who[r])

\* Past the first policy check, the policy has permitted the request once.
Permits(b, r) == PolicyAllows(b, in[r], who[r], ClientIp(in[r]))
PermitKept ==
  \A r \in Req : pc[r] \in {"handler", "handler2", "served"} /\ ~PolicyExempt(in[r]) =>
    \E b \in seen[r] : Permits(b, r)

\* A refused caller met a bucket that was missing, another tenant's, or closed by policy.
Refuses(b, r) ==
  \/ ~b.exists \/ ~TenantAllows(b, who[r])
  \/ /\ ~PolicyExempt(in[r])
     /\ \E ip \in {ClientIp(in[r]), HeaderIp(in[r])} : ~PolicyAllows(b, in[r], who[r], ip)
RefusalKept ==
  \A r \in Req : pc[r] = "refused" /\ who[r] # NoKey => \E b \in seen[r] : Refuses(b, r)

PolicyParts == BucketsKnown /\ Sources /\ PermitKept /\ RefusalKept
PolicyInv == GateInv /\ PolicyParts
LEMMA Evaluated ==
  ASSUME NEW doc, V2Accepts(doc), NEW req, NEW ctx
  PROVE  EvaluateV2(doc, req, ctx) = "Allow" <=>
           /\ \A st \in doc : StatementMatches(st, req, ctx) => st.effect = "Allow"
           /\ \E st \in doc : StatementMatches(st, req, ctx)
<1> DEFINE Hits(st) == StatementMatches(st, req, ctx)
           hit == {st.effect : st \in {s \in doc : Hits(s)}}
<1>1. \A st \in doc : st.effect \in {"Allow", "Deny"}
  BY DEF V2Accepts, ValidStatement
<1>2. EvaluateV2(doc, req, ctx) =
        IF hit \ {"Allow", "Deny"} # {} THEN "malformed"
        ELSE IF "Deny" \in hit THEN "Deny"
        ELSE IF "Allow" \in hit THEN "Allow" ELSE "ImplicitDeny"
  BY DEF EvaluateV2
<1> HIDE DEF Hits
<1>3. /\ hit \ {"Allow", "Deny"} = {}
      /\ \A e : e \in hit <=> \E st \in doc : Hits(st) /\ st.effect = e
  BY <1>1
<1> HIDE DEF hit
<1>4. EvaluateV2(doc, req, ctx) = "Allow" <=> "Deny" \notin hit /\ "Allow" \in hit
  BY <1>2, <1>3
<1>5. "Deny" \notin hit /\ "Allow" \in hit <=>
        (\A st \in doc : Hits(st) => st.effect = "Allow") /\ \E st \in doc : Hits(st)
  BY <1>1, <1>3
<1> QED BY <1>4, <1>5 DEF Hits

\* enforce_policy_target lets through what the policy permits: no more if what is denied
\* is plain, no less if what is allowed is.
LEMMA PolicyMeant ==
  ASSUME GroupsKnown, NEW b \in BucketState, NEW r \in Req, NEW i \in Inputs[r],
         ~PolicyExempt(i), NEW k, NEW ip \in Address
  PROVE  /\ Plain("Deny") /\ PolicyAllows(b, i, k, ip) => Permitted(b, i, k, ip)
         /\ Plain("Allow") /\ Permitted(b, i, k, ip) => PolicyAllows(b, i, k, ip)
<1>1. b.policy = NoPolicy \/ (b.policy \in Docs /\ V2Accepts(b.policy))
  BY DEF BucketState
<1>2. CASE b.policy = NoPolicy
  BY <1>2 DEF PolicyAllows, Permitted
<1>3. CASE b.policy \in Docs /\ V2Accepts(b.policy)
  <2> DEFINE doc == b.policy
             req == AsPolicyRequest(i)
             ctx == ContextOf(k, ip)
  <2> DEFINE Hits(st) == StatementMatches(st, req, ctx)
             Meant(st) == Concerns(st, i, k, ip)
  <2>1. ASSUME NEW effect, Plain(effect), NEW st \in doc
        PROVE  (Hits(st) => Meant(st)) /\ (st.effect = effect /\ Meant(st) => Hits(st))
    BY <1>3, <2>1, StatementMeant
  <2>3. \A st \in doc : st.effect \in {"Allow", "Deny"}
    BY <1>3 DEF V2Accepts, ValidStatement
  <2>2. EvaluateV2(doc, req, ctx) = "Allow" <=>
          (\A st \in doc : Hits(st) => st.effect = "Allow") /\ \E st \in doc : Hits(st)
    BY <1>3, Evaluated
  <2> DEFINE Yes == (\A st \in doc : Meant(st) => st.effect = "Allow") /\ \E st \in doc : Meant(st)
  <2>4. Plain("Deny") /\ EvaluateV2(doc, req, ctx) = "Allow" => Yes
    <3> HIDE DEF Hits, Meant, doc
    <3> QED BY <2>1, <2>2, <2>3
  <2>5. Plain("Allow") /\ Yes => EvaluateV2(doc, req, ctx) = "Allow"
    <3> HIDE DEF Hits, Meant, doc
    <3> QED BY <2>1, <2>2, <2>3
  <2> QED BY <2>4, <2>5 DEF PolicyAllows, Permitted
<1> QED BY <1>1, <1>2, <1>3

\* Groups come from the credentials file; the bootstrap key has none.
LEMMA LoadedGroups ==
  ASSUME NEW f \in CredFiles, creds = Load(f) PROVE GroupsKnown
<1> DEFINE usable == {k \in DOMAIN f : f[k].secret # NoSecret}
           boot == [secret |-> RootSecret, enabled |-> TRUE, tenant |-> NoTenant,
                    groups |-> {}]
           entry(k) == IF k \in usable THEN f[k] ELSE boot
           loaded(k) == [entry(k) EXCEPT !.tenant = EffectiveTenant(@)]
<1>1. creds = [k \in usable \union {Root} |-> loaded(k)]
  BY DEF Load
<1>2. ASSUME NEW k \in usable \union {Root}
      PROVE  /\ loaded(k).groups \subseteq Text
             /\ PlainNames => \A g \in loaded(k).groups : StarFree(g)
  <2>1. CASE k \in usable
    <3>1. /\ f[k] \in [secret : STRING, enabled : BOOLEAN, tenant : STRING, groups : SUBSET Text]
          /\ PlainNames => \A g \in f[k].groups : StarFree(g)
      BY <2>1, InputAssumption DEF PlainNames
    <3>2. loaded(k).groups = f[k].groups
      BY <2>1, <3>1
    <3> QED BY <3>1, <3>2
  <2>2. CASE k \notin usable
    <3>1. loaded(k).groups = {}
      BY <2>2
    <3> QED BY <3>1
  <2> QED BY <2>1, <2>2
<1> HIDE DEF loaded, usable
<1> QED BY <1>1, <1>2 DEF GroupsKnown

LEMMA Addresses ==
  ASSUME NEW r \in Req, NEW i \in Inputs[r]
  PROVE  ClientIp(i) \in Address /\ HeaderIp(i) \in Address
<1>1. i.peer \in Address /\ i.forwarded \in Seq(Address)
  BY InputAssumption
<1>2. i.forwarded # <<>> => i.forwarded[1] \in Address
  BY <1>1
<1>3. NoIp \in Address
  BY DEF NoIp, Address
<1> QED BY <1>1, <1>2, <1>3 DEF ClientIp, HeaderIp

\* PolicyInv says what the two properties say.
LEMMA PolicyInvMeans ==
  ASSUME PolicyInv
  PROVE  (Plain("Deny") => ServedAsPolicySays) /\ (Plain("Allow") => RefusedForAReason)
<1>1. GroupsKnown
  BY LoadedGroups DEF PolicyInv, PolicyParts, Sources
<1>2. ASSUME Plain("Deny") PROVE ServedAsPolicySays
  <2> SUFFICES ASSUME NEW r \in Req, pc[r] = "served", ~PolicyExempt(in[r])
               PROVE  \E b \in seen[r] : Permitted(b, in[r], who[r], ClientIp(in[r]))
    BY DEF ServedAsPolicySays
  <2>1. in[r] \in Inputs[r]
    BY DEF PolicyInv, PolicyParts, Sources
  <2>2. PICK b \in seen[r] : PolicyAllows(b, in[r], who[r], ClientIp(in[r]))
    BY DEF PolicyInv, PolicyParts, PermitKept, Permits
  <2>3. b \in BucketState
    BY DEF PolicyInv, PolicyParts, BucketsKnown
  <2>4. ClientIp(in[r]) \in Address
    BY <2>1, Addresses
  <2> QED BY <1>1, <1>2, <2>1, <2>2, <2>3, <2>4, PolicyMeant
<1>3. ASSUME Plain("Allow") PROVE RefusedForAReason
  <2> SUFFICES ASSUME NEW r \in Req, pc[r] = "refused", who[r] # NoKey
               PROVE  \E b \in seen[r] :
                        \/ ~SameTenant(b, who[r])
                        \/ \E ip \in {ClientIp(in[r]), HeaderIp(in[r])} :
                             ~Permitted(b, in[r], who[r], ip)
    BY DEF RefusedForAReason
  <2>1. in[r] \in Inputs[r] /\ Known(who[r])
    BY DEF PolicyInv, PolicyParts, Sources
  <2>2. PICK b \in seen[r] : Refuses(b, r)
    BY DEF PolicyInv, PolicyParts, RefusalKept
  <2>3. CASE ~b.exists \/ ~TenantAllows(b, who[r])
    <3>1. ~SameTenant(b, who[r])
      BY <2>1, <2>3 DEF SameTenant, TenantAllows
    <3> QED BY <3>1
  <2>4. CASE ~PolicyExempt(in[r]) /\ \E ip \in {ClientIp(in[r]), HeaderIp(in[r])} :
                                       ~PolicyAllows(b, in[r], who[r], ip)
    <3>1. PICK ip \in {ClientIp(in[r]), HeaderIp(in[r])} : ~PolicyAllows(b, in[r], who[r], ip)
      BY <2>4
    <3>2. b \in BucketState
      BY DEF PolicyInv, PolicyParts, BucketsKnown
    <3>3. ip \in Address
      BY <2>1, <3>1, Addresses
    <3>4. ~Permitted(b, in[r], who[r], ip)
      BY <1>1, <1>3, <2>1, <2>4, <3>1, <3>2, <3>3, PolicyMeant
    <3> QED BY <3>1, <3>4
  <2> QED BY <2>2, <2>3, <2>4 DEF Refuses
<1> QED BY <1>2, <1>3
LEMMA InitPolicy == Init => PolicyParts
<1> SUFFICES ASSUME Init PROVE PolicyParts
  OBVIOUS
<1>1. /\ \A r \in Req : pc[r] = "idle" /\ who[r] = NoKey /\ seen[r] = {}
      /\ credfile \in CredFiles /\ creds = Load(credfile)
  BY DEF Init
<1>2. NoBucket \in BucketState /\ \A t \in Tenants : NewBucket(t) \in BucketState
  BY GateAssumption DEF NoBucket, NewBucket, BucketState
<1>3. ASSUME NEW b \in BucketState, NEW d \in Docs, V2Accepts(d)
      PROVE  WithPolicy(b, d) \in BucketState
  BY <1>3 DEF BucketState, WithPolicy, PublicRead, PublicList
<1>4. bucket \in BucketState
  BY <1>2, <1>3 DEF Init
<1> QED BY <1>1, <1>4 DEF PolicyParts, BucketsKnown, Sources, PermitKept, RefusalKept

\* A check lets a request on, or turns it away for what the bucket is now.
LEMMA CheckJudges ==
  ASSUME PolicyInv, NEW r \in Req, NEW from, NEW ok, NEW next, Check(r, from, ok, next),
         from \in {"tenant", "policy", "handler", "handler2"},
         ok \in BOOLEAN,
         next \in Admitted,
         ok => \/ from = "tenant" /\ next = "policy"
               \/ from = "policy" /\ (PolicyExempt(in[r]) \/ Permits(bucket, r))
               \/ from \in {"handler", "handler2"},
         ~ok /\ who[r] # NoKey => Refuses(bucket, r)
  PROVE  PolicyParts'
<1>1. /\ pc[r] = from /\ pc' = [pc EXCEPT ![r] = IF ok THEN next ELSE "refused"]
      /\ UNCHANGED <<bucket, credfile, creds, in, who, seen>>
  BY DEF Check, Goto, settings
<1> USE DEF PolicyInv, PolicyParts
<1>2. pc'[r] = (IF ok THEN next ELSE "refused") /\ \A q \in Req \ {r} : pc'[q] = pc[q]
  BY <1>1 DEF GateInv, Tables
<1>3. bucket \in seen[r]
  BY <1>1 DEF GateInv, SeesBucketNow, Running, Answers
<1>4. BucketsKnown'
  BY <1>1 DEF BucketsKnown
<1>5. Sources'
  BY <1>1, <1>2 DEF Sources, Known
<1>6. PermitKept'
  <2> SUFFICES ASSUME NEW q \in Req, pc'[q] \in {"handler", "handler2", "served"},
                      ~PolicyExempt(in[q])
               PROVE  \E b \in seen[q] : Permits(b, q)
    BY <1>1 DEF PermitKept, Permits, PolicyAllows, ContextOf, Known
  <2>1. CASE q # r
    BY <2>1, <1>2 DEF PermitKept
  <2>2. CASE q = r
    BY <2>2, <1>1, <1>2, <1>3 DEF PermitKept
  <2> QED BY <2>1, <2>2
<1>7. RefusalKept'
  <2> SUFFICES ASSUME NEW q \in Req, pc'[q] = "refused", who[q] # NoKey
               PROVE  \E b \in seen[q] : Refuses(b, q)
    BY <1>1 DEF RefusalKept, Refuses, PolicyAllows, ContextOf, TenantAllows, Known
  <2>1. CASE q # r
    BY <2>1, <1>2 DEF RefusalKept
  <2>2. CASE q = r
    BY <2>2, <1>1, <1>2, <1>3 DEF Admitted
  <2> QED BY <2>1, <2>2
<1> QED BY <1>4, <1>5, <1>6, <1>7 DEF PolicyParts

LEMMA SetBucketJudges ==
  ASSUME PolicyInv, NEW b \in BucketState, SetBucket(b) PROVE PolicyParts'
<1>1. /\ bucket' = b /\ seen' = [r \in Req |-> IF Running(r) THEN seen[r] \union {b} ELSE seen[r]]
      /\ UNCHANGED <<credfile, creds, in, pc, who>>
  BY DEF SetBucket
<1> USE DEF PolicyInv, PolicyParts
<1>2. \A r \in Req : /\ seen'[r] = IF Running(r) THEN seen[r] \union {b} ELSE seen[r]
                     /\ seen[r] \subseteq seen'[r]
  BY <1>1
<1>3. BucketsKnown'
  BY <1>1, <1>2 DEF BucketsKnown
<1>4. Sources'
  BY <1>1 DEF Sources, Known
<1>5. PermitKept'
  BY <1>1, <1>2 DEF PermitKept, Permits, PolicyAllows, ContextOf, Known
<1>6. RefusalKept'
  <2> SUFFICES ASSUME NEW q \in Req, pc[q] = "refused", who[q] # NoKey
               PROVE  \E x \in seen'[q] : Refuses(x, q)
    BY <1>1 DEF RefusalKept, Refuses, PolicyAllows, ContextOf, TenantAllows, Known
  <2> QED BY <1>2 DEF RefusalKept
<1> QED BY <1>3, <1>4, <1>5, <1>6 DEF PolicyParts

LEMMA ArriveJudges ==
  ASSUME PolicyInv, NEW r \in Req, NEW i \in Inputs[r], Arrive(r, i) PROVE PolicyParts'
<1>1. /\ pc[r] = "idle" /\ in' = [in EXCEPT ![r] = i]
      /\ seen' = [seen EXCEPT ![r] = {bucket}]
      /\ UNCHANGED <<bucket, credfile, creds>>
      /\ who[r] = NoKey
  BY DEF Arrive, settings, PolicyInv, GateInv, Identified
<1>2. \/ pc' = [pc EXCEPT ![r] = "slow"] /\ UNCHANGED who
      \/ pc' = [pc EXCEPT ![r] = "refused"] /\ UNCHANGED who
      \/ pc' = [pc EXCEPT ![r] = "bypass"] /\ UNCHANGED who
      \/ /\ Authentic(i) /\ who' = [who EXCEPT ![r] = i.key_id]
         /\ pc' = [pc EXCEPT ![r] = IF TenantExempt(i) THEN "policy" ELSE "tenant"]
  BY DEF Arrive, FailAuth, Goto
<1>3. Authentic(i) => Known(i.key_id)
  BY DEF Authentic, SignedHeader, Presigned
<1> USE DEF PolicyInv, PolicyParts
<1>4. /\ in'[r] = i /\ seen'[r] = {bucket}
      /\ \A q \in Req \ {r} : in'[q] = in[q] /\ seen'[q] = seen[q]
                             /\ pc'[q] = pc[q] /\ who'[q] = who[q]
  BY <1>1, <1>2 DEF GateInv, Tables
<1>5. \/ pc'[r] \in {"slow", "refused", "bypass"} /\ who'[r] = NoKey
      \/ pc'[r] \in {"policy", "tenant"} /\ Known(who'[r])
  BY <1>1, <1>2, <1>3 DEF GateInv, Tables
<1>6. BucketsKnown'
  BY <1>1, <1>4 DEF BucketsKnown
<1>7. Sources'
  <2>1. \E file \in CredFiles : creds' = Load(file)
    BY <1>1 DEF Sources
  <2>2. \A q \in Req : pc'[q] # "idle" => in'[q] \in Inputs[q]
    BY <1>4 DEF Sources
  <2>3. \A q \in Req : pc'[q] # "lost" /\ who'[q] # NoKey => Known(who'[q])
    BY <1>4, <1>5 DEF Sources
  <2> QED BY <2>1, <2>2, <2>3, <1>1 DEF Sources, Known
<1>8. PermitKept'
  <2> SUFFICES ASSUME NEW q \in Req, pc'[q] \in {"handler", "handler2", "served"},
                      ~PolicyExempt(in'[q])
               PROVE  \E b \in seen'[q] : Permits(b, q)'
    BY DEF PermitKept
  <2>1. q # r
    BY <1>5
  <2> QED BY <2>1, <1>1, <1>4 DEF PermitKept, Permits, PolicyAllows, ContextOf, Known
<1>9. RefusalKept'
  <2> SUFFICES ASSUME NEW q \in Req, pc'[q] = "refused", who'[q] # NoKey
               PROVE  \E b \in seen'[q] : Refuses(b, q)'
    BY DEF RefusalKept
  <2>1. q # r
    BY <1>5
  <2>2. PICK b \in seen[q] : Refuses(b, q)
    BY <2>1, <1>4 DEF RefusalKept
  <2>3. Refuses(b, q)'
    BY <2>1, <2>2, <1>1, <1>4 DEF Refuses, PolicyAllows, ContextOf, TenantAllows, Known
  <2> QED BY <2>1, <2>2, <2>3, <1>4
<1> QED BY <1>6, <1>7, <1>8, <1>9 DEF PolicyParts

\* A request without a signature that is not let in has no caller to justify it to.
LEMMA BypassJudges == ASSUME PolicyInv, NEW r \in Req, Bypass(r) PROVE PolicyParts'
<1>1. /\ pc[r] = "bypass" /\ UNCHANGED <<bucket, credfile, creds, in, who, seen>>
      /\ \/ pc' = [pc EXCEPT ![r] = "policy"]
         \/ pc' = [pc EXCEPT ![r] = "slow"]
         \/ pc' = [pc EXCEPT ![r] = "refused"]
  BY DEF Bypass, FailAuth, Goto, settings
<1> USE DEF PolicyInv, PolicyParts
<1>2. /\ pc'[r] \in {"policy", "slow", "refused"} /\ who[r] = NoKey
      /\ \A q \in Req \ {r} : pc'[q] = pc[q]
  BY <1>1 DEF GateInv, Tables, Identified
<1>3. BucketsKnown' /\ Sources'
  BY <1>1, <1>2 DEF BucketsKnown, Sources, Known
<1>4. PermitKept'
  BY <1>1, <1>2 DEF PermitKept, Permits, PolicyAllows, ContextOf, Known
<1>5. RefusalKept'
  <2> SUFFICES ASSUME NEW q \in Req, pc'[q] = "refused", who[q] # NoKey
               PROVE  \E b \in seen[q] : Refuses(b, q)
    BY <1>1 DEF RefusalKept, Refuses, PolicyAllows, ContextOf, TenantAllows, Known
  <2> QED BY <1>2 DEF RefusalKept
<1> QED BY <1>3, <1>4, <1>5 DEF PolicyParts

LEMMA RestartJudges == ASSUME PolicyInv, Restart PROVE PolicyParts'
<1>1. /\ creds' = Load(credfile) /\ UNCHANGED <<bucket, credfile, in, who, seen>>
      /\ pc' = [r \in Req |-> IF pc[r] = "idle" THEN pc[r] ELSE "lost"]
  BY DEF Restart
<1>2. \A r \in Req : \/ pc'[r] = "lost" /\ pc[r] # "idle"
                     \/ pc'[r] = "idle" /\ pc[r] = "idle" /\ who'[r] = NoKey
  BY <1>1 DEF PolicyInv, PolicyParts, GateInv, Identified
<1> USE DEF PolicyInv, PolicyParts
<1>3. BucketsKnown'
  BY <1>1 DEF BucketsKnown
<1>4. Sources'
  BY <1>1, <1>2 DEF Sources, GateInv, NoKeyUnknown
<1>5. PermitKept' /\ RefusalKept'
  BY <1>2 DEF PermitKept, RefusalKept
<1> QED BY <1>3, <1>4, <1>5 DEF PolicyParts
LEMMA NextPolicy == PolicyInv /\ [Next]_vars => PolicyParts'
<1> SUFFICES ASSUME PolicyInv, [Next]_vars PROVE PolicyParts'
  OBVIOUS
<1>1. ASSUME NEW r \in Req, NEW i \in Inputs[r], Arrive(r, i) PROVE PolicyParts'
  BY <1>1, ArriveJudges
<1>2. ASSUME NEW r \in Req, Bypass(r) PROVE PolicyParts'
  BY <1>2, BypassJudges
<1>3. ASSUME NEW r \in Req, Tenant(r) PROVE PolicyParts'
  <2> DEFINE ok == bucket.exists /\ TenantAllows(bucket, who[r])
  <2>1. Check(r, "tenant", ok, "policy")
    BY <1>3 DEF Tenant
  <2>2. ok \in BOOLEAN /\ (~ok => Refuses(bucket, r)) /\ "policy" \in Admitted
    BY DEF Admitted, Refuses
  <2> HIDE DEF ok
  <2> QED BY <2>1, <2>2, CheckJudges
<1>4. ASSUME NEW r \in Req, CheckPolicy(r) PROVE PolicyParts'
  <2> DEFINE ok == PolicyExempt(in[r]) \/ PolicyAllows(bucket, in[r], who[r], ClientIp(in[r]))
             next == IF Ungated(in[r]) THEN "served" ELSE "handler"
  <2>1. Check(r, "policy", ok, next)
    BY <1>4 DEF CheckPolicy
  <2>2. /\ ok \in BOOLEAN /\ next \in Admitted
        /\ ok => PolicyExempt(in[r]) \/ Permits(bucket, r)
        /\ ~ok => Refuses(bucket, r)
    BY DEF Admitted, Permits, Refuses
  <2> HIDE DEF ok, next
  <2> QED BY <2>1, <2>2, CheckJudges
<1>5. ASSUME NEW r \in Req, HandlerTenant(r) PROVE PolicyParts'
  <2> DEFINE ok == bucket.exists /\ (who[r] = NoKey \/ TenantAllows(bucket, who[r]))
             next == IF TenantOnly(in[r]) THEN "served" ELSE "handler2"
  <2>1. Check(r, "handler", ok, next)
    BY <1>5 DEF HandlerTenant
  <2>2. /\ ok \in BOOLEAN /\ next \in Admitted
        /\ ~ok /\ who[r] # NoKey => Refuses(bucket, r)
    BY DEF Admitted, Refuses
  <2> HIDE DEF ok, next
  <2> QED BY <2>1, <2>2, CheckJudges
<1>6. ASSUME NEW r \in Req, HandlerPolicy(r) PROVE PolicyParts'
  <2> DEFINE ok == PolicyExempt(in[r]) \/ PolicyAllows(bucket, in[r], who[r], HeaderIp(in[r]))
  <2>1. Check(r, "handler2", ok, "served")
    BY <1>6 DEF HandlerPolicy
  <2>2. ok \in BOOLEAN /\ "served" \in Admitted /\ (~ok => Refuses(bucket, r))
    BY DEF Admitted, Refuses
  <2> HIDE DEF ok
  <2> QED BY <2>1, <2>2, CheckJudges
<1>7. ASSUME NEW doc \in Docs, PutPolicy(doc) PROVE PolicyParts'
  <2>1. WithPolicy(bucket, doc) \in BucketState /\ SetBucket(WithPolicy(bucket, doc))
    BY <1>7 DEF PutPolicy, PolicyInv, PolicyParts, BucketsKnown, BucketState, WithPolicy,
       PublicRead, PublicList
  <2> QED BY <2>1, SetBucketJudges
<1>8. CASE DeletePolicy
  <2> DEFINE b == [bucket EXCEPT !.policy = NoPolicy, !.read = FALSE, !.list = FALSE]
  <2>1. b \in BucketState /\ SetBucket(b)
    BY <1>8 DEF DeletePolicy, PolicyInv, PolicyParts, BucketsKnown, BucketState
  <2> QED BY <2>1, SetBucketJudges
<1>9. ASSUME NEW read \in BOOLEAN, NEW list \in BOOLEAN, PutPublic(read, list) PROVE PolicyParts'
  <2> DEFINE b == [bucket EXCEPT !.read = read, !.list = list]
  <2>1. b \in BucketState /\ SetBucket(b)
    BY <1>9 DEF PutPublic, PolicyInv, PolicyParts, BucketsKnown, BucketState
  <2> QED BY <2>1, SetBucketJudges
<1>10. CASE DeleteBucket \/ \E t \in Tenants : CreateBucket(t)
  <2>1. NoBucket \in BucketState /\ \A t \in Tenants : NewBucket(t) \in BucketState
    BY GateAssumption DEF NoBucket, NewBucket, BucketState
  <2> QED BY <1>10, <2>1, SetBucketJudges DEF DeleteBucket, CreateBucket
<1>11. CASE Restart
  BY <1>11, RestartJudges
<1>12. CASE Tick \/ UNCHANGED vars \/ \E file \in CredFiles : EditCredentials(file)
  <2>1. UNCHANGED <<bucket, creds, in, pc, who, seen>>
    BY <1>12 DEF Tick, vars, EditCredentials, settings
  <2>2. BucketsKnown' /\ Sources'
    BY <2>1 DEF PolicyInv, PolicyParts, BucketsKnown, Sources, Known
  <2>3. PermitKept'
    BY <2>1 DEF PolicyInv, PolicyParts, PermitKept, Permits, PolicyAllows, ContextOf, Known
  <2>4. RefusalKept'
    BY <2>1 DEF PolicyInv, PolicyParts, RefusalKept, Refuses, PolicyAllows, ContextOf,
       TenantAllows, Known
  <2> QED BY <2>2, <2>3, <2>4 DEF PolicyParts
<1> QED
  BY <1>1, <1>2, <1>3, <1>4, <1>5, <1>6, <1>7, <1>8, <1>9, <1>10, <1>11, <1>12 DEF Next

LEMMA PolicyInvariant == Spec => []PolicyInv
<1>1. Init => PolicyInv
  BY InitGate, InitPolicy DEF PolicyInv
<1>2. PolicyInv /\ [Next]_vars => PolicyInv'
  BY NextGate, NextPolicy DEF PolicyInv
<1> QED BY <1>1, <1>2, PTL DEF Spec

-----------------------------------------------------------------------------
(* Theorems.                                                                *)

\* A request whose tenant is checked at all, in the middleware or in its handler,
\* is not served to a caller of another tenant than the bucket had while it ran,
\* whatever requests, changes of ownership and restarts interleave
\* (auth_middleware, tenant_middleware, enforce_tenant_bucket).
THEOREM TenantsSeparated == Spec => []ServedWithinTenant
<1>1. GateInv => ServedWithinTenant
  BY DEF GateInv, TenantKept, TenantPassed, ServedWithinTenant, TenantChecked
<1> QED BY <1>1, GateInvariant, PTL

\* A request without a signature is served only as a read of a bucket that was
\* open to such reads while it ran (is_public_bypass_allowed, auth_middleware).
THEOREM AnonymousReadsOpen == Spec => []AnonymousOnlyWhenOpen
<1>1. GateInv => AnonymousOnlyWhenOpen
  BY DEF GateInv, OpenKept, Admitted, AnonymousOnlyWhenOpen
<1> QED BY <1>1, GateInvariant, PTL

\* Whatever clients and clocks do, a client is told of fewer than two full windows
\* of failed authentications in any stretch as long as a window
\* (SlidingWindowLimiter::try_acquire, auth_failure).
THEOREM FailuresStayBounded == Spec => []FailuresBounded
<1>1. LimitInv => FailuresBounded
  BY GateAssumption DEF LimitInv, FailuresBounded
<1> QED BY <1>1, InitLimit, NextLimit, PTL DEF Spec

\* The loop with one remembered star accepts no value that does not fit the pattern,
\* and every value that does: going back to the last star is enough.  For the second
\* half, since a star in the value is taken for a star of the pattern, a value that
\* meets a pattern with stars may have one only at its end, and then no `*?' may be
\* in the pattern (glob_match).
THEOREM GlobsMatchTheirMeaning ==
  \A p, v \in Text : /\ GlobMatch(p, v) => Fits(p, v)
                     /\ Fits(p, v) /\ Clear(p, v) => GlobMatch(p, v)
BY GlobMeans, GlobSound

\* Whatever policies, credentials and addresses there are and however the bucket
\* changes between the checks, a request for which a policy is asked is served only if
\* the policy of one moment permitted it, read as the statements mean it.  Only Deny
\* statements have to be plain: an Allow statement never matches too much
\* (enforce_policy_target, evaluate_policy_v2, bucket_policy_middleware,
\* enforce_s3_bucket_gates).
THEOREM PoliciesDecide == Plain("Deny") => (Spec => []ServedAsPolicySays)
<1> SUFFICES ASSUME Plain("Deny") PROVE Spec => []ServedAsPolicySays
  OBVIOUS
<1>1. PolicyInv => ServedAsPolicySays
  BY PolicyInvMeans
<1> QED BY <1>1, PolicyInvariant, PTL

\* And no caller with a good signature is turned away but by a bucket that was
\* missing, of another tenant, or closed to the request by its policy.  Here the Allow
\* statements have to be plain; a Deny statement never matches too much either
\* (tenant_middleware, bucket_policy_middleware, enforce_s3_bucket_gates).
THEOREM RefusalsHaveReasons == Plain("Allow") => (Spec => []RefusedForAReason)
<1> SUFFICES ASSUME Plain("Allow") PROVE Spec => []RefusedForAReason
  OBVIOUS
<1>1. PolicyInv => RefusedForAReason
  BY PolicyInvMeans
<1> QED BY <1>1, PolicyInvariant, PTL
=============================================================================
