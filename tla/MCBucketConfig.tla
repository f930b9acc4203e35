--------------------------- MODULE MCBucketConfig ---------------------------
(* BucketConfig for TLC.                                                    *)
EXTENDS BucketConfig, TLC

VersioningAndPolicy ==
  {[versioning |-> "on"], [policy |-> "off", public |-> "off"]}

\* Flat and encrypted; in chunks, with a policy.
FlatAndChunked ==
  {[Defaults EXCEPT !["encryption"] = "on", !["erasure"] = "disabled"],
   [Defaults EXCEPT !["policy"] = "rules"]}

ChangeSymmetry == Permutations(Changes)
=============================================================================
