-------------------------- MODULE MCObjectPublish --------------------------
(* Instances of ObjectPublish for TLC, and the statements that documents,   *)
(* comments and tests make of the code and TLC refutes.                     *)
EXTENDS PublishRefinement

\* tests/integration.rs: an overwrite swaps payload and sidecar "together enough
\* that the latest object remains decryptable".  Two overlapping PUTs may leave
\* the payload of one beside the sidecar of the other, for good.
LatestDecryptable == Quiet => SidecarMatchesPayload

\* metadata_index.rs: the index "can be rebuilt from a full bucket walk", which
\* FilesystemStorage::new does before the server answers requests.
CanRebuildIndex == ~up => IndexRebuildable
=============================================================================
