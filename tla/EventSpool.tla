----------------------------- MODULE EventSpool -----------------------------
(***************************************************************************)
(* Event notifications: a request that stored or removed an object writes  *)
(* a record into the spool directory; a task that runs every two seconds   *)
(* posts each record it finds and removes it.                              *)
(***************************************************************************)
EXTENDS Naturals, FiniteSets

CONSTANTS
  Event,         \* objects stored or removed
  External,      \* those whose webhook is not on an internal address
  MaxSpoolFaults \* bound on crashes and on removals that fail

ASSUME SpoolAssumption == External \subseteq Event /\ MaxSpoolFaults \in Nat

VARIABLES
  hookConf,      \* the bucket's notification setting: "none", "match" or "other"
  emitter,       \* event -> its request: "idle", "writing", "done", "quiet", "dead"
  spool,         \* event -> its file: "none", "part" (being written), "whole"
  unlinked,      \* events whose file was removed while it was being written
  drain,         \* the task: [pc, left, at]
  hookUp,        \* the webhook answers with success
  sent,          \* event -> times it was delivered
  spoolFaults

spoolVars == <<hookConf, emitter, spool, unlinked, drain, hookUp, sent, spoolFaults>>

NoEvent == "none"
Asleep == [pc |-> "asleep", left |-> {}, at |-> NoEvent]

SpoolInit ==
  /\ hookConf = "match"
  /\ emitter = [e \in Event |-> "idle"]
  /\ spool = [e \in Event |-> "none"]
  /\ unlinked = {}
  /\ drain = Asleep
  /\ hookUp = TRUE
  /\ sent = [e \in Event |-> 0]
  /\ spoolFaults = 0

\* put_bucket_notification, delete_bucket_notification.
SetNotification(c) ==
  /\ c # hookConf /\ hookConf' = c
  /\ UNCHANGED <<emitter, spool, unlinked, drain, hookUp, sent, spoolFaults>>

\* emit_object_created, emit_object_removed: nothing unless the setting asks for
\* this kind of event; the file appears before its content does.
Emit(e) ==
  /\ emitter[e] = "idle"
  /\ IF hookConf = "match"
       THEN /\ emitter' = [emitter EXCEPT ![e] = "writing"]
            /\ spool' = [spool EXCEPT ![e] = "part"]
       ELSE /\ emitter' = [emitter EXCEPT ![e] = "quiet"]
            /\ UNCHANGED spool
  /\ UNCHANGED <<hookConf, unlinked, drain, hookUp, sent, spoolFaults>>

Written(e) ==
  /\ emitter[e] = "writing"
  /\ emitter' = [emitter EXCEPT ![e] = "done"]
  /\ spool' = [spool EXCEPT ![e] = IF e \in unlinked THEN "none" ELSE "whole"]
  /\ UNCHANGED <<hookConf, unlinked, drain, hookUp, sent, spoolFaults>>

\* drain_once, file by file.
StartPass ==
  /\ drain.pc = "asleep"
  /\ drain' = [pc |-> "next", left |-> {e \in Event : spool[e] # "none"}, at |-> NoEvent]
  /\ UNCHANGED <<hookConf, emitter, spool, unlinked, hookUp, sent, spoolFaults>>

EndPass ==
  /\ drain.pc = "next" /\ drain.left = {} /\ drain' = Asleep
  /\ UNCHANGED <<hookConf, emitter, spool, unlinked, hookUp, sent, spoolFaults>>

Visit(e, pc) == drain' = [pc |-> pc, left |-> drain.left \ {e}, at |-> e]

\* A record that was read: it is sent as it is.
ReadWhole(e) ==
  /\ spool[e] = "whole" /\ e \notin External
  /\ Visit(e, "send") /\ UNCHANGED <<spool, unlinked>>

\* A record that does not parse, or must not be sent, is thrown away.
Discard(e) ==
  /\ spool[e] = "part" \/ (spool[e] = "whole" /\ e \in External)
  /\ spool' = [spool EXCEPT ![e] = "none"]
  /\ unlinked' = IF spool[e] = "part" THEN unlinked \union {e} ELSE unlinked
  /\ Visit(e, "next")

ReadRecord(e) ==
  /\ drain.pc = "next" /\ e \in drain.left
  /\ ReadWhole(e) \/ Discard(e)
  /\ UNCHANGED <<hookConf, emitter, hookUp, sent, spoolFaults>>

\* Mutant: any answer counts as success.
PostIgnoringStatus ==
  /\ sent' = IF hookUp THEN [sent EXCEPT ![drain.at] = @ + 1] ELSE sent
  /\ drain' = [drain EXCEPT !.pc = "remove"]

\* A record that was not taken stays for the next pass.
PostAnswer ==
  /\ sent' = IF hookUp THEN [sent EXCEPT ![drain.at] = @ + 1] ELSE sent
  /\ drain' = [drain EXCEPT !.pc = IF hookUp THEN "remove" ELSE "next"]

Post ==
  /\ drain.pc = "send"
  /\ PostAnswer
  /\ UNCHANGED <<hookConf, emitter, spool, unlinked, hookUp, spoolFaults>>

\* The removal's own failure is ignored.
RemoveRecord ==
  /\ drain.pc = "remove"
  /\ drain' = [drain EXCEPT !.pc = "next"]
  /\ \/ /\ spool' = [spool EXCEPT ![drain.at] = "none"]
        /\ UNCHANGED spoolFaults
     \/ /\ spoolFaults < MaxSpoolFaults /\ spoolFaults' = spoolFaults + 1
        /\ UNCHANGED spool
  /\ UNCHANGED <<hookConf, emitter, unlinked, hookUp, sent>>

\* The process dies and starts again: what was being written stays as it is.
SpoolCrash ==
  /\ spoolFaults < MaxSpoolFaults /\ spoolFaults' = spoolFaults + 1
  /\ drain' = Asleep
  /\ emitter' = [e \in Event |-> IF emitter[e] = "writing" THEN "dead" ELSE emitter[e]]
  /\ UNCHANGED <<hookConf, spool, unlinked, hookUp, sent>>

HookToggles ==
  /\ hookUp' = ~hookUp
  /\ UNCHANGED <<hookConf, emitter, spool, unlinked, drain, sent, spoolFaults>>

DrainStep ==
  \/ StartPass \/ EndPass \/ (\E e \in Event : ReadRecord(e)) \/ Post \/ RemoveRecord

SpoolNext ==
  \/ \E c \in {"none", "match", "other"} : SetNotification(c)
  \/ \E e \in Event : Emit(e) \/ Written(e) \/ ReadRecord(e)
  \/ StartPass \/ EndPass \/ Post \/ RemoveRecord \/ SpoolCrash \/ HookToggles

-----------------------------------------------------------------------------
(* Properties.                                                              *)

\* A record that was written completely is delivered in the end, if the webhook answers
\* from some time on, however often it failed before or the process died; but for
\* external webhooks, which drain_once refuses (it validates with
\* allow_external = false).
Spooled(e) == spool[e] = "whole" /\ e \notin External
Delivered(e) == sent[e] > 0
WebhookDelivers == \A e \in Event : <>[]hookUp => (Spooled(e) ~> Delivered(e))
=============================================================================
