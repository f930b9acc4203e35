------------------------------ MODULE AccessLog ------------------------------
(***************************************************************************)
(* Server access logging: after a response a task of its own reads the     *)
(* day's log object, adds a line and writes it back, then its sidecar.     *)
(* Both are written in place: cut to nothing, then filled from the start.  *)
(***************************************************************************)
EXTENDS Naturals, Sequences, FiniteSets

CONSTANTS
  Line,          \* requests, one line each
  Torn           \* a piece of a line, or a sidecar that does not parse

ASSUME TornAssumption == Torn \notin Line

VARIABLES
  logTarget,     \* the source bucket has a logging target
  logger,        \* line -> its task
  logRead,       \* line -> the log as the task read it
  logFile,       \* the log object: a sequence of lines and torn pieces
  logMeta,       \* the log its sidecar describes, <<Torn>> if none
  beside,        \* history: lines whose task was at work beside another
  keptLines,     \* history: lines logged since tasks last overlapped or a write broke off
  stale          \* history: no task has written log and sidecar alone since then

logVars == <<logTarget, logger, logRead, logFile, logMeta, beside, keptLines, stale>>
logHistory == <<beside, keptLines, stale>>

AtWork == {"read", "cut", "write", "meta", "describe"}
Working == {l \in Line : logger[l] \in AtWork}

LogInit ==
  /\ logTarget = TRUE
  /\ logger = [l \in Line |-> "idle"]
  /\ logRead = [l \in Line |-> <<>>]
  /\ logFile = <<>> /\ logMeta = <<>>
  /\ beside = {} /\ keptLines = {} /\ stale = FALSE

\* put_bucket_logging and delete_bucket_logging.
SetLogging(on) ==
  /\ on # logTarget /\ logTarget' = on
  /\ UNCHANGED <<logger, logRead, logFile, logMeta, logHistory>>

\* finish_access_log spawns the task, which looks for the target first.
Respond(l) ==
  /\ logger[l] = "idle"
  /\ logger' = [logger EXCEPT ![l] = IF logTarget THEN "read" ELSE "unlogged"]
  /\ IF logTarget /\ Working # {}
     THEN beside' = beside \union Working \union {l} /\ keptLines' = {} /\ stale' = TRUE
     ELSE UNCHANGED logHistory
  /\ UNCHANGED <<logTarget, logRead, logFile, logMeta>>

\* deliver_access_log.
ReadLog(l) ==
  /\ logger[l] = "read"
  /\ logRead' = [logRead EXCEPT ![l] = logFile]
  /\ logger' = [logger EXCEPT ![l] = "cut"]
  /\ UNCHANGED <<logTarget, logFile, logMeta, logHistory>>

CutLog(l) ==
  /\ logger[l] = "cut"
  /\ logFile' = <<>>
  /\ logger' = [logger EXCEPT ![l] = "write"]
  /\ UNCHANGED <<logTarget, logRead, logMeta, logHistory>>

\* Mutant: the line replaces what was read.
NewText(l) == <<l>>
Extended(l) == Append(logRead[l], l)

\* What another task wrote after the cut shows behind the end of the new text: any
\* end of it, which may begin inside a line.
Behind(log) ==
  LET ends == {SubSeq(log, i, Len(log)) : i \in 1 .. Len(log) + 1}
  IN  IF log = <<>> THEN {<<>>} ELSE ends \union {<<Torn>> \o e : e \in ends}

WriteLog(l) ==
  /\ logger[l] = "write"
  /\ \E rest \in Behind(logFile) : logFile' = Extended(l) \o rest
  /\ logger' = [logger EXCEPT ![l] = "meta"]
  /\ UNCHANGED <<logTarget, logRead, logMeta, logHistory>>

CutLogMeta(l) ==
  /\ logger[l] = "meta"
  /\ logMeta' = <<Torn>>
  /\ logger' = [logger EXCEPT ![l] = "describe"]
  /\ UNCHANGED <<logTarget, logRead, logFile, logHistory>>

\* A longer sidecar that came in between shows behind the new one's end.
WriteLogMeta(l) ==
  /\ logger[l] = "describe"
  /\ \/ logMeta' = Extended(l)
     \/ logMeta # <<Torn>> /\ logMeta' = <<Torn>>
  /\ logger' = [logger EXCEPT ![l] = "logged"]
  /\ IF l \in beside THEN UNCHANGED logHistory
     ELSE keptLines' = keptLines \union {l} /\ stale' = FALSE /\ UNCHANGED beside
  /\ UNCHANGED <<logTarget, logRead, logFile>>

\* An I/O error ends a task, the server's death all of them; finish_access_log
\* drops the error.  After the cut a beginning of the text may be in the file.
BreakOff(l) ==
  /\ logger[l] \in AtWork
  /\ logger' = [logger EXCEPT ![l] = "failed"]
  /\ IF logger[l] = "write"
     THEN /\ \E i \in 0 .. Len(logRead[l]), torn \in {<<>>, <<Torn>>}, rest \in Behind(logFile) :
               logFile' = SubSeq(Extended(l), 1, i) \o torn \o rest
          /\ keptLines' = {}
     ELSE UNCHANGED <<logFile, keptLines>>
  /\ stale' = (stale \/ logger[l] \in {"write", "meta", "describe"})
  /\ UNCHANGED <<logTarget, logRead, logMeta, beside>>

LogNext ==
  \/ \E on \in BOOLEAN : SetLogging(on)
  \/ \E l \in Line : \/ Respond(l) \/ ReadLog(l) \/ CutLog(l) \/ WriteLog(l)
                     \/ CutLogMeta(l) \/ WriteLogMeta(l) \/ BreakOff(l)

LogSpec == LogInit /\ [][LogNext]_logVars

-----------------------------------------------------------------------------
(* Properties.                                                              *)

InLog(log, l) == \E i \in 1 .. Len(log) : log[i] = l
InOnce(log, l) == InLog(log, l) /\ \A i, j \in 1 .. Len(log) : log[i] = l /\ log[j] = l => i = j

\* What a task logged that had the log to itself stays in the log, once, through
\* later tasks and their failures before the cut, until two tasks are at work
\* at the same time (each writes back what it read, over what the other wrote) or a
\* write breaks off after the cut: both lose lines logged long before.  While no task
\* is at work the sidecar describes the log if the last one wrote both, alone.
QuietLogComplete ==
  Working = {} =>
    /\ \A l \in keptLines : InOnce(logFile, l)
    /\ ~stale => logMeta = logFile
=============================================================================
