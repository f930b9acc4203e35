---------------------------- MODULE AtomicObject ----------------------------
(***************************************************************************)
(* What a client of one unversioned key expects: every PUT and DELETE      *)
(* takes effect at one instant between the request and its answer, and a   *)
(* PUT that is answered with an error never takes effect.                  *)
(***************************************************************************)
CONSTANTS
  Puts,      \* PUT requests, each carrying the body of the same name
  Deletes,   \* DELETE requests
  Old,       \* the body that may be stored at first
  None       \* no object

VARIABLES
  obj,       \* the stored body
  phase      \* per request: idle, pending, applied, ok or err

vars == <<obj, phase>>

Init ==
  /\ obj \in {Old, None}
  /\ phase = [r \in Puts \union Deletes |-> "idle"]

Become(r, from, to) ==
  /\ phase[r] = from
  /\ phase' = [phase EXCEPT ![r] = to]

Issue(r) == Become(r, "idle", "pending") /\ UNCHANGED obj

Put(w) == Become(w, "pending", "applied") /\ obj' = w

Reject(w) == Become(w, "pending", "err") /\ UNCHANGED obj

Delete(d) == Become(d, "pending", "applied") /\ obj' = None

\* A DELETE of an absent object is answered at once.
DeleteAbsent(d) == Become(d, "idle", "ok") /\ obj = None /\ UNCHANGED obj

Answer(r) == Become(r, "applied", "ok") /\ UNCHANGED obj

Next ==
  \/ \E r \in Puts \union Deletes : Issue(r) \/ Answer(r)
  \/ \E w \in Puts : Put(w) \/ Reject(w)
  \/ \E d \in Deletes : Delete(d) \/ DeleteAbsent(d)

Spec == Init /\ [][Next]_vars
=============================================================================
