------------------------- MODULE PublishRefinement -------------------------
(***************************************************************************)
(* ObjectPublish implements AtomicObject while the key has one writer at a *)
(* time and one payload format, and only the body and the two final        *)
(* renames of a publish may fail.                                          *)
(***************************************************************************)
EXTENDS ObjectPublish

\* The steps at which the old payload is aside and the new one not yet final:
\* the sidecar's rename is the instant a PUT takes effect.
Swapping == {"probeMeta", "saveMeta", "movePayload", "moveMeta", "dropPayload",
             "clearMeta", "backMeta", "clearPayload", "backPayload"}

InSwap == {w \in Puts : pc[w] \in Swapping}

\* The one format of the run.
OnlyFormat == FormatOf(CHOOSE p \in Paths : TRUE)

\* A DELETE takes effect with its first removal: it has no error path after it.
Deleting == \E d \in Deletes : pc[d] \in {"removeMeta", "removeChunks"}

StoredBody ==
  CASE Deleting -> None
    [] InSwap # {} -> bakPayload[CHOOSE w \in InSwap : TRUE]
    [] OTHER -> payload[OnlyFormat]

RequestPhase(r) ==
  CASE pc[r] \in {"idle", "ok", "err"} -> pc[r]
    [] pc[r] \in {"cleanPayload", "cleanMeta", "index", "removeMeta",
                  "removeChunks"} -> "applied"
    [] OTHER -> "pending"

Atomic == INSTANCE AtomicObject WITH
  obj <- StoredBody,
  phase <- [r \in Puts \union Deletes |-> RequestPhase(r)]

\* Every PUT and DELETE of the four-rename protocol takes effect at one instant
\* or, answered with an error, not at all.
ImplementsAtomicObject == Atomic!Spec
=============================================================================
