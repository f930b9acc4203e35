------------------------------- MODULE Policy -------------------------------
(***************************************************************************)
(* Bucket policies: what the parser accepts and how a request is decided.  *)
(* A document is a set of statements.  A statement names an effect, a set  *)
(* of principals ("*" or access keys), a set of actions <<service, name>>, *)
(* a set of resource patterns and a set of conditions; patterns, ARNs and  *)
(* keys are sequences of characters, and the ARN of a bucket is one.       *)
(***************************************************************************)
EXTENDS Naturals, Sequences

CONSTANT Char      \* the characters names and patterns are made of

ASSUME CharAssumption == {"b", "/", "*", "?", "e"} \subseteq Char

BucketArn == <<"b">>
ObjectArn(key) == <<"b", "/">> \o key
AnyObject == ObjectArn(<<"*">>)
Everything == <<"*">>

\* What documents and requests are made of.
Text == Seq(Char)
Address == Seq(0 .. 1)
Network == [addr : Address, prefix : Nat, v6 : BOOLEAN]
Condition == [op : STRING, key : {"ip"}, values : SUBSET Network]
               \union [op : STRING, key : STRING \ {"ip"}, values : SUBSET Text]
Statement == [effect : STRING, principal : SUBSET STRING, actions : SUBSET (STRING \X STRING),
              resources : SUBSET Text, conditions : SUBSET Condition]

NoKey == "none"            \* no access key: an anonymous request
BadArn == "bad"            \* a principal that is not `...:user/KEY'

GetObject == <<"s3", "GetObject">>
PutObject == <<"s3", "PutObject">>
DeleteObject == <<"s3", "DeleteObject">>
ListBucket == <<"s3", "ListBucket">>
AllActions == <<"s3", "*">>
Supported == {GetObject, PutObject, DeleteObject, ListBucket, AllActions}

\* The service name of an action is read in any case, the rest as it is.
Normalize(a) == IF a[1] = "S3" THEN <<"s3", a[2]>> ELSE a

Wildcard(principal) == "*" \in principal

-----------------------------------------------------------------------------
(* Glob matching: the loop with one remembered star.  A state is the number  *)
(* of pattern and value characters consumed, and the same at the last star.  *)

\* Mutant: a mismatch after a star is final.
GlobNoBacktrack(p, v) ==
  LET run[s \in (0 .. Len(p)) \X (0 .. Len(v))] ==
        LET pi == s[1]  vi == s[2] IN
          IF vi = Len(v) THEN \A i \in pi + 1 .. Len(p) : p[i] = "*"
          ELSE /\ pi < Len(p)
               /\ IF p[pi + 1] \in {v[vi + 1], "?"} THEN run[<<pi + 1, vi + 1>>]
                  ELSE p[pi + 1] = "*" /\ (pi + 1 = Len(p) \/ run[<<pi + 1, vi>>])
  IN  run[<<0, 0>>]

GlobMatch(p, v) ==
  LET State == {s \in (0 .. Len(p)) \X (0 .. Len(v)) \X (0 .. Len(p)) \X (0 .. Len(v)) :
                  s[3] <= s[1] /\ s[4] <= s[2]}
      run[s \in State] ==
        LET pi == s[1]  vi == s[2]  star == s[3]  from == s[4] IN
          IF vi = Len(v) THEN \A i \in pi + 1 .. Len(p) : p[i] = "*"
          ELSE IF pi < Len(p) /\ p[pi + 1] \in {v[vi + 1], "?"}
            THEN run[<<pi + 1, vi + 1, star, from>>]
          ELSE IF pi < Len(p) /\ p[pi + 1] = "*"
            THEN run[<<pi + 1, vi, pi + 1, vi>>]
          ELSE star > 0 /\ run[<<star, from + 1, star, from + 1>>]
  IN  run[<<0, 0, 0, 0>>]

\* What a glob means: the value can be cut into pieces, one per pattern
\* character, each a single fitting character except where the pattern has a star.
Fits(p, v) ==
  \E cut \in [0 .. Len(p) -> 0 .. Len(v)] :
    /\ cut[0] = 0 /\ cut[Len(p)] = Len(v)
    /\ \A i \in 1 .. Len(p) :
         IF p[i] = "*" THEN cut[i - 1] <= cut[i]
         ELSE cut[i] = cut[i - 1] + 1 /\ p[i] \in {"?", v[cut[i]]}

-----------------------------------------------------------------------------
(* Addresses are sequences of bits.  IPv4 compares under a mask; IPv6 first *)
(* compares whole bytes, then the bits that are left over.                  *)

ByteBits == 2              \* bound: bits per byte (eight in the code)

Common(a, b, n) == \A i \in 1 .. n : a[i] = b[i]

InNetwork(addr, net, prefix, v6) ==
  IF v6
    THEN LET full == prefix \div ByteBits
             rest == prefix % ByteBits IN
           /\ Common(addr, net, full * ByteBits)
           /\ rest = 0 \/ \A i \in 1 .. rest :
                 addr[full * ByteBits + i] = net[full * ByteBits + i]
    ELSE LET mask == IF prefix >= Len(addr) THEN Len(addr) ELSE prefix IN
           Common(addr, net, mask)

-----------------------------------------------------------------------------
(* Conditions <<operator, key, values>>; all of a statement's must hold.    *)

ConditionKeys == {"ip", "prefix", "groups", "roles"}
Operators == {"StringEquals", "StringLike", "IpAddress"}

TextMatches(op, value, pattern) ==
  \/ op = "StringEquals" /\ value = pattern
  \/ op = "StringLike" /\ GlobMatch(pattern, value)

\* An anonymous request has no groups; the source address is always known.
ConditionMatches(c, req, ctx) ==
  \/ c.key = "ip" /\ c.op = "IpAddress" /\ \E net \in c.values :
       IF Len(net.addr) # Len(ctx.ip) THEN FALSE
       ELSE InNetwork(ctx.ip, net.addr, net.prefix, net.v6)
  \/ c.key = "prefix" /\ \E pattern \in c.values :
       TextMatches(c.op, IF req.prefix # <<>> THEN req.prefix ELSE req.key, pattern)
  \/ c.key = "groups" /\ \E pattern \in c.values, g \in ctx.groups :
       TextMatches(c.op, g, pattern)
  \/ c.key = "roles" /\ \E pattern \in c.values, g \in ctx.roles :
       TextMatches(c.op, g, pattern)

ConditionsMatch(cs, req, ctx) == \A c \in cs : ConditionMatches(c, req, ctx)

-----------------------------------------------------------------------------
(* The decision.  A request is [action, key, prefix], its context           *)
(* [who, ip, groups, roles]; the empty key is no key.                       *)

PrincipalMatches(principal, who) ==
  Wildcard(principal) \/ (who # NoKey /\ who # BadArn /\ who \in principal)

ActionsMatch(actions, requested) ==
  \E a \in actions : Normalize(a) \in {AllActions, Normalize(requested)}

Target(req) ==
  IF req.action = ListBucket THEN BucketArn
  ELSE IF req.key = <<>> THEN AnyObject ELSE ObjectArn(req.key)

IsGlob(pattern) == \E i \in 1 .. Len(pattern) : pattern[i] \in {"*", "?"}

\* A bucket ARN without a wildcard also stands for the objects of the bucket.
ResourceMatches(pattern, target) ==
  \/ pattern \in {Everything, target}
  \/ IF IsGlob(pattern) THEN GlobMatch(pattern, target)
     ELSE pattern = BucketArn /\ SubSeq(target, 1, 1) = BucketArn

StatementMatches(st, req, ctx) ==
  /\ PrincipalMatches(st.principal, ctx.who)
  /\ ActionsMatch(st.actions, req.action)
  /\ \E pattern \in st.resources : ResourceMatches(pattern, Target(req))
  /\ ConditionsMatch(st.conditions, req, ctx)

\* Mutant: a matching Allow statement settles the question.
AllowFirst(doc, req, ctx) ==
  LET hit == {st.effect : st \in {s \in doc : StatementMatches(s, req, ctx)}} IN
    IF "Allow" \in hit THEN "Allow" ELSE IF "Deny" \in hit THEN "Deny"
    ELSE "ImplicitDeny"

EvaluateV2(doc, req, ctx) ==
  LET hit == {st.effect : st \in {s \in doc : StatementMatches(s, req, ctx)}} IN
    IF hit \ {"Allow", "Deny"} # {} THEN "malformed"
    ELSE IF "Deny" \in hit THEN "Deny"
    ELSE IF "Allow" \in hit THEN "Allow" ELSE "ImplicitDeny"

-----------------------------------------------------------------------------
(* Which documents are stored, and which only open a bucket to everyone.    *)

OpensReading(st, a) ==
  Normalize(a) = GetObject /\ st.resources \intersect {AnyObject, Everything} # {}
OpensListing(st, a) ==
  Normalize(a) = ListBucket /\ st.resources \intersect {BucketArn, Everything} # {}

\* evaluate_v1_policy: a document of public grants only, and what it opens.
V1Accepts(doc) ==
  \A st \in doc :
    /\ st.conditions = {} /\ st.effect = "Allow" /\ Wildcard(st.principal)
    /\ \A a \in st.actions : OpensReading(st, a) \/ OpensListing(st, a)
PublicRead(doc) ==
  V1Accepts(doc) /\ \E st \in doc : \E a \in st.actions : Normalize(a) = GetObject
PublicList(doc) ==
  V1Accepts(doc) /\ \E st \in doc : \E a \in st.actions : Normalize(a) = ListBucket

ResourceInBucket(pattern) ==
  \/ pattern \in {Everything, BucketArn}
  \/ Len(pattern) >= 2 /\ SubSeq(pattern, 1, 2) = <<"b", "/">>
  \/ (\E i \in 1 .. Len(pattern) : pattern[i] = "*")
       /\ (GlobMatch(pattern, BucketArn) \/ GlobMatch(pattern, ObjectArn(<<"e">>)))

\* validate_effect, validate_principal, validate_actions.
ValidStatement(st) ==
  /\ st.effect \in {"Allow", "Deny"}
  /\ Wildcard(st.principal) \/ BadArn \notin st.principal
  /\ st.actions # {} /\ \A a \in st.actions : Normalize(a) \in Supported

ValidCondition(c) == c.op \in Operators /\ c.key \in ConditionKeys

\* validate_policy_v2.
V2Accepts(doc) ==
  /\ doc # {}
  /\ \A st \in doc :
       /\ ValidStatement(st)
       /\ st.resources # {} /\ \A p \in st.resources : ResourceInBucket(p)
       /\ \A c \in st.conditions : ValidCondition(c)
=============================================================================
