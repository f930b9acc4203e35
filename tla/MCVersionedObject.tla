------------------------- MODULE MCVersionedObject -------------------------
(* VersionedObject for TLC, and a statement of the change log that TLC      *)
(* refutes.                                                                 *)
EXTENDS VersionedObject

Bodies == {m.body : m \in versions \union {top}}

\* CHANGELOG.md: "versioned delete checks retention/legal hold".  The bytes of a
\* current object that retention or a hold protects are not removed.
LockedCurrentKept ==
  [][Protected(top) => top.body \in Bodies']_vars
=============================================================================
