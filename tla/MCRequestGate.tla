---------------------------- MODULE MCRequestGate ----------------------------
(* A small world for RequestGate: one bucket, two tenants, three callers.    *)
EXTENDS RequestGate, TLC

CONSTANTS r1, r2, r3

MCReq == {r1, r2, r3}
MCSymmetry == Permutations({r2, r3})

Near == <<0, 1>>             \* two addresses of one family
Far == <<1, 1>>
Six == <<1, 0, 1, 1>>        \* and one of the other

Base == [method |-> "GET", key |-> <<"x", "a">>, query |-> {}, assigns |-> FALSE,
         prefix |-> <<>>, auth |-> "header", wellformed |-> TRUE, key_id |-> "u",
         region |-> TRUE, secret |-> "su", intact |-> TRUE, stamp |-> 0, expires |-> 0,
         peer |-> Near, forwarded |-> <<>>]

Forged == [Base EXCEPT !.intact = FALSE]

AnyInput ==
  { Base,
    [Base EXCEPT !.method = "PUT", !.peer = Far, !.forwarded = <<Six>>],
    [Base EXCEPT !.key = <<>>, !.prefix = <<"x">>, !.assigns = TRUE, !.key_id = "root", !.secret = "sr"],
    [Base EXCEPT !.method = "DELETE", !.peer = Far, !.forwarded = <<Six, Near>>],
    [Base EXCEPT !.method = "PUT", !.key = <<>>, !.query = {"policy"}],
    [Base EXCEPT !.method = "PUT", !.query = {"tagging"}],
    [Base EXCEPT !.method = "DELETE", !.query = {"uploadId"}, !.assigns = TRUE],
    [Base EXCEPT !.method = "POST", !.key = <<>>, !.query = {"delete"}],
    [Base EXCEPT !.auth = "presigned", !.expires = 1, !.key_id = "v", !.secret = "sv"],
    [Base EXCEPT !.auth = "none"],
    [Base EXCEPT !.auth = "none", !.key = <<>>],
    [Base EXCEPT !.method = "DELETE", !.key = <<>>, !.key_id = "root", !.secret = "sr"],
    Forged }

\* One request of any kind; two more that fail, to fill the limiters.
MCInputs == [r \in MCReq |-> IF r = r1 THEN AnyInput ELSE {[Forged EXCEPT !.method = "PUT"]}]

Allow(p, a, res, cs) == [effect |-> "Allow", principal |-> p, actions |-> a,
                         resources |-> res, conditions |-> cs]
Net(addr, n, v6) == [addr |-> addr, prefix |-> n, v6 |-> v6]
FromNet(nets) == [op |-> "IpAddress", key |-> "ip", values |-> nets]

Public == Allow({"*"}, {<<"S3", "GetObject">>}, {AnyObject}, {})
UserWrites == Allow({"u"}, {AllActions}, {<<"b", "/", "*", "a">>},
                    {FromNet({Net(<<0, 0>>, 1, FALSE), Net(<<1, 0, 1, 0>>, 3, TRUE)})})
Lists == Allow({"*"}, {ListBucket}, {BucketArn},
               {[op |-> "StringLike", key |-> "prefix", values |-> {<<"?">>}]})
NoDeletes == [Allow({"*"}, {DeleteObject}, {Everything}, {}) EXCEPT !.effect = "Deny"]
Staff == Allow({"*"}, {GetObject}, {BucketArn},
               {[op |-> "StringEquals", key |-> "groups", values |-> {<<"s", "t">>}]})

MCDocs == {{Public}, {UserWrites, Lists, NoDeletes}, {Staff, Public}}

Entry(secret, on, tenant, groups) ==
  [secret |-> secret, enabled |-> on, tenant |-> tenant, groups |-> groups]
File(v) == ("u" :> Entry("su", TRUE, "t", {}))
             @@ ("v" :> Entry("sv", v, NoTenant, {<<"s", "t">>}))
             @@ ("w" :> Entry(NoSecret, TRUE, "t", {}))
\* The operator switches one caller off, or gives another a new secret.
MCCredFiles == {File(TRUE), [File(FALSE) EXCEPT !["u"].secret = "new"]}

MCTenants == {DefaultTenant, "t"}
MCProxies == {Far}

ASSUME MCPlain == Plain("Allow") /\ Plain("Deny")
=============================================================================
