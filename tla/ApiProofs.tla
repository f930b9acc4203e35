------------------------------ MODULE ApiProofs ------------------------------
(***************************************************************************)
(* Proofs about what the server does around the object store, for any      *)
(* number of browsers, accounts, keys and requests: whom a console session *)
(* is served to, that folders stay, what an answer of the object API says  *)
(* of the object, what the access log holds, and what paged listings show. *)
(***************************************************************************)
EXTENDS ConsoleSession, ConsoleFolders, ObjectApi, AccessLog, Listing, FiniteSetTheorems, TLAPS

-----------------------------------------------------------------------------
(* Sessions.                                                                *)

Token == [kind : {"none", "hmac", "jwt", "refresh"}, account : Account, mark : Nat, at : Nat]
SessionTypeOK ==
  /\ secrets \in [Account -> Nat]
  /\ jar \in [Browser -> [session : Token, refresh : Token]]
  /\ realmKey \in Nat /\ time \in Nat

\* A session token in a browser was earned there: its user knew the secret that
\* signed it, or came through Keycloak.
Earned(b, t) ==
  /\ t.kind = "hmac" => <<t.account, t.mark>> \in Knows[b]
  /\ t.kind = "jwt" => Keycloak /\ t.account = SsoAccount
JarsEarned == \A b \in Browser : Earned(b, jar[b].session)

SessionInv == SessionTypeOK /\ JarsEarned /\ ServedToOwner

USE SessionAssumption

LEMMA InitSession == SessionInit => SessionInv
BY DEF SessionInit, SessionInv, SessionTypeOK, Token, JarsEarned, Earned, ServedToOwner,
   EmptyJar, NoToken, NotServed

\* The cookies of a Keycloak login.
LEMMA CookiesKeep ==
  ASSUME SessionInv, NEW b \in Browser, Keycloak,
         SetCookies(b, AccessToken, RefreshToken),
         UNCHANGED <<secrets, jwks, realmKey, time, unread, served>>
  PROVE  SessionInv'
<1> USE DEF SessionInv
<1>1. /\ AccessToken \in Token /\ RefreshToken \in Token
      /\ AccessToken.kind = "jwt" /\ AccessToken.account = SsoAccount
  BY DEF AccessToken, RefreshToken, Token, SessionTypeOK
<1>2. jar' \in [Browser -> [session : Token, refresh : Token]]
  BY <1>1 DEF SetCookies, SessionTypeOK
<1>3. /\ jar'[b].session \in {AccessToken, jar[b].session}
      /\ \A c \in Browser \ {b} : jar'[c] = jar[c]
  BY <1>1 DEF SetCookies, SessionTypeOK
<1>4. JarsEarned'
  BY <1>1, <1>3 DEF JarsEarned, Earned
<1> QED BY <1>2, <1>4 DEF SessionTypeOK, ServedToOwner

LEMMA NextSession == SessionInv /\ [SessionNext]_sessionVars => SessionInv'
<1> SUFFICES ASSUME SessionInv, [SessionNext]_sessionVars PROVE SessionInv'
  OBVIOUS
<1> USE DEF SessionInv
<1>1. ASSUME NEW b \in Browser, NEW a \in Account, NEW s \in 1 .. MaxSecret, Login(b, a, s)
      PROVE  SessionInv'
  <2>1. /\ SessionToken(a) \in Token /\ SessionToken(a).kind = "hmac"
        /\ SessionToken(a).account = a /\ <<a, SessionToken(a).mark>> \in Knows[b]
    BY <1>1 DEF Login, SessionToken, Token, SessionTypeOK
  <2>2. /\ jar' = [jar EXCEPT ![b].session = SessionToken(a)]
        /\ UNCHANGED <<secrets, realmKey, time, unread, served>>
    BY <1>1 DEF Login
  <2>3. SessionTypeOK'
    BY <2>1, <2>2 DEF SessionTypeOK
  <2>4. /\ jar'[b].session = SessionToken(a)
        /\ \A c \in Browser \ {b} : jar'[c] = jar[c]
    BY <2>2 DEF SessionTypeOK
  <2>5. JarsEarned'
    BY <2>1, <2>4 DEF JarsEarned, Earned
  <2> QED BY <2>2, <2>3, <2>5 DEF ServedToOwner
<1>2. ASSUME NEW b \in Browser, KeycloakLogin(b) \/ KeycloakRefresh(b) PROVE SessionInv'
  BY <1>2, CookiesKeep DEF KeycloakLogin, KeycloakRefresh
<1>3. ASSUME NEW b \in Browser, NEW reachable \in BOOLEAN, Logout(b, reachable)
      PROVE  SessionInv'
  <2>1. /\ UNCHANGED <<secrets, realmKey, time, unread, served>>
        /\ \/ UNCHANGED jar
           \/ jar' = [jar EXCEPT ![b] = [@ EXCEPT !.refresh = NoToken]]
           \/ jar' = [jar EXCEPT ![b] = [@ EXCEPT !.session = NoToken]]
    BY <1>3 DEF Logout
  <2>2. NoToken \in Token /\ NoToken.kind = "none"
    BY DEF NoToken, Token
  <2>3. SessionTypeOK'
    BY <2>1, <2>2 DEF SessionTypeOK
  <2>4. \A c \in Browser : jar'[c].session \in {NoToken, jar[c].session}
    BY <2>1 DEF SessionTypeOK
  <2>5. JarsEarned'
    BY <2>2, <2>4 DEF JarsEarned, Earned
  <2> QED BY <2>1, <2>3, <2>5 DEF ServedToOwner
<1>4. ASSUME NEW b \in Browser, NEW k \in SessionBucket, NEW crossSite \in BOOLEAN,
             NEW reachable \in BOOLEAN, ConsoleRequest(b, k, crossSite, reachable)
      PROVE  SessionInv'
  <2> DEFINE t == jar[b].session
             keys == KeysFor(t, reachable)
  <2>1. /\ UNCHANGED <<secrets, jar, realmKey, time, unread>>
        /\ \/ served' = NotServed
           \/ /\ Resolves(t, keys) /\ SeesBucket(t.account, k)
              /\ served' = [by |-> b, as |-> t.account, bucket |-> k]
    BY <1>4 DEF ConsoleRequest
  <2>2. SessionTypeOK' /\ JarsEarned'
    BY <2>1 DEF SessionTypeOK, JarsEarned
  <2>3. Earned(b, t)
    BY DEF JarsEarned
  <2>4. CASE served' = NotServed
    BY <2>2, <2>4 DEF NotServed, ServedToOwner
  <2>5. CASE /\ Resolves(t, keys) /\ SeesBucket(t.account, k)
             /\ served' = [by |-> b, as |-> t.account, bucket |-> k]
    <3>1. \/ t.kind = "hmac" /\ secrets[t.account] = t.mark
          \/ t.kind = "jwt"
      BY <2>5 DEF Resolves, VerifySession
    <3>2. \/ <<t.account, secrets[t.account]>> \in Knows[b]
          \/ Keycloak /\ t.account = SsoAccount
      BY <3>1, <2>3 DEF Earned
    <3>3. ServedToOwner'
      BY <3>2, <2>1, <2>5 DEF ServedToOwner, SeesBucket
    <3> QED BY <3>3, <2>2
  <2> QED BY <2>1, <2>4, <2>5
<1>5. ASSUME NEW a \in Account \ {Admin}, NEW s \in 0 .. MaxSecret, SessionRestart(a, s)
      PROVE  SessionInv'
  <2>1. /\ secrets' = [secrets EXCEPT ![a] = s] /\ served' = NotServed
        /\ UNCHANGED <<jar, realmKey, time>>
    BY <1>5 DEF SessionRestart
  <2> QED BY <2>1 DEF SessionTypeOK, JarsEarned, ServedToOwner, NotServed
<1>6. CASE SessionTick
  <2>1. /\ time' = time + 1 /\ served' = NotServed /\ UNCHANGED <<secrets, realmKey>>
        /\ jar' = [b \in Browser |->
             IF jar[b].session.kind = "jwt" /\ jar[b].session.at < time'
               THEN [jar[b] EXCEPT !.session = NoToken] ELSE jar[b]]
    BY <1>6 DEF SessionTick
  <2>2. NoToken \in Token /\ NoToken.kind = "none"
    BY DEF NoToken, Token
  <2>3. SessionTypeOK'
    BY <2>1, <2>2 DEF SessionTypeOK
  <2>4. \A c \in Browser : jar'[c].session \in {NoToken, jar[c].session}
    BY <2>1 DEF SessionTypeOK
  <2>5. JarsEarned'
    BY <2>2, <2>4 DEF JarsEarned, Earned
  <2> QED BY <2>1, <2>3, <2>5 DEF ServedToOwner, NotServed
<1>7. CASE RealmRotates \/ UNCHANGED sessionVars
  BY <1>7 DEF RealmRotates, sessionVars, SessionTypeOK, JarsEarned, ServedToOwner
<1>8. ASSUME NEW k \in SessionBucket, CutSettings(k) \/ FillSettings(k) PROVE SessionInv'
  BY <1>8 DEF CutSettings, FillSettings, SessionTypeOK, JarsEarned, ServedToOwner, NotServed
<1> QED BY <1>1, <1>2, <1>3, <1>4, <1>5, <1>6, <1>7, <1>8 DEF SessionNext

\* Whatever logins, logouts, restarts with other credentials and key rotations
\* come before it, a console request is served only to someone who knows the
\* secret the account has now, or to a Keycloak user as the Keycloak account.  It
\* stays within the account's tenant whenever the bucket's settings could be read
\* for the check (console_session.rs, console_bucket_gate).
THEOREM ConsoleServesOwners == SessionSpec => []ServedToOwner
<1>1. SessionInv => ServedToOwner
  BY DEF SessionInv
<1> QED BY <1>1, InitSession, NextSession, PTL DEF SessionSpec

-----------------------------------------------------------------------------
(* Folders.                                                                 *)

FolderTypeOK ==
  deleter \in [Deleter -> [pc : {"new", "look", "done"}, key : InFolder,
                           unseen : SUBSET InFolder, seen : SUBSET InFolder]]

\* If a folder that should be kept is gone, a deletion is on its way that has so
\* far found nothing in it and will put the marker back.
Rescue == kept /\ objects = {} => \E d \in Deleter : deleter[d].pc = "look" /\ deleter[d].seen = {}

FolderInv == FolderTypeOK /\ Rescue

LEMMA InitFolder == FolderInit => FolderInv
<1> SUFFICES ASSUME FolderInit PROVE FolderInv
  OBVIOUS
<1>1. FolderTypeOK
  BY DEF FolderInit, FolderTypeOK, NoDelete, InFolder
<1>2. kept = (objects # {})
  BY DEF FolderInit
<1>3. Rescue
  BY <1>2, Zenon DEF Rescue
<1> QED BY <1>1, <1>3 DEF FolderInv

LEMMA NextFolder == FolderInv /\ [FolderNext]_folderVars => FolderInv'
<1> SUFFICES ASSUME FolderInv, [FolderNext]_folderVars PROVE FolderInv'
  OBVIOUS
<1> USE DEF FolderInv
<1>1. ASSUME NEW k, Puts(k) PROVE FolderInv'
  BY <1>1 DEF Puts, FolderTypeOK, Rescue
<1>2. ASSUME NEW k, S3Delete(k) PROVE FolderInv'
  BY <1>2 DEF S3Delete, FolderTypeOK, Rescue
<1>3. ASSUME NEW d \in Deleter, NEW k \in InFolder, ConsoleDelete(d, k) PROVE FolderInv'
  <2> DEFINE new == [pc |-> IF k = Marker THEN "done" ELSE "look",
                     key |-> k, unseen |-> InFolder, seen |-> {}]
  <2>1. /\ objects' = objects \ {k} /\ deleter' = [deleter EXCEPT ![d] = new]
        /\ kept' = IF k = Marker /\ objects \subseteq {Marker} THEN FALSE ELSE kept
    BY <1>3 DEF ConsoleDelete
  <2>2. FolderTypeOK'
    BY <2>1 DEF FolderTypeOK
  <2>3. CASE k = Marker
    <3>1. kept' => objects' # {}
      BY <2>1, <2>3
    <3> QED BY <3>1, <2>2 DEF Rescue
  <2>4. CASE k # Marker
    <3>1. deleter'[d].pc = "look" /\ deleter'[d].seen = {}
      BY <2>1, <2>4 DEF FolderTypeOK
    <3> QED BY <3>1, <2>2 DEF Rescue
  <2> QED BY <2>3, <2>4
<1>4. ASSUME NEW d \in Deleter, NEW k \in InFolder, Look(d, k) PROVE FolderInv'
  <2>1. /\ UNCHANGED <<objects, kept>>
        /\ deleter' = [deleter EXCEPT ![d].unseen = @ \ {k},
                         ![d].seen = IF k \in objects THEN @ \union {k} ELSE @]
    BY <1>4 DEF Look, LookAt
  <2>2. FolderTypeOK'
    BY <2>1 DEF FolderTypeOK
  <2>3. ASSUME objects = {}, NEW e \in Deleter
        PROVE  deleter'[e].pc = deleter[e].pc /\ deleter'[e].seen = deleter[e].seen
    BY <2>1, <2>3 DEF FolderTypeOK
  <2> QED BY <2>1, <2>2, <2>3 DEF Rescue
<1>5. ASSUME NEW d \in Deleter, Preserve(d) PROVE FolderInv'
  <2>1. /\ objects' = IF deleter[d].seen = {} THEN objects \union {Marker} ELSE objects
        /\ deleter' = [deleter EXCEPT ![d] = [NoDelete EXCEPT !.pc = "done"]]
        /\ UNCHANGED kept
    BY <1>5 DEF Preserve
  <2>2. FolderTypeOK'
    BY <2>1 DEF FolderTypeOK, NoDelete, InFolder
  <2>3. Rescue'
    <3> SUFFICES ASSUME kept, objects' = {}
                 PROVE  \E e \in Deleter : deleter'[e].pc = "look" /\ deleter'[e].seen = {}
      BY <2>1 DEF Rescue
    <3>1. objects = {} /\ deleter[d].seen # {}
      BY <2>1
    <3>2. PICK e \in Deleter : deleter[e].pc = "look" /\ deleter[e].seen = {}
      BY <3>1 DEF Rescue
    <3>3. e # d /\ deleter'[e] = deleter[e]
      BY <3>1, <3>2, <2>1 DEF FolderTypeOK
    <3> QED BY <3>2, <3>3
  <2> QED BY <2>2, <2>3
<1>6. ASSUME NEW d \in Deleter, Abandoned(d) PROVE FolderInv'
  BY <1>6 DEF Abandoned, FolderTypeOK, Rescue, NoDelete, InFolder
<1>7. CASE UNCHANGED folderVars
  BY <1>7 DEF folderVars, FolderTypeOK, Rescue
<1> QED
  BY <1>1, <1>2, <1>3, <1>4, <1>5, <1>6, <1>7
  DEF FolderNext, UploadObject, CreateFolder, InFolder

\* However many deletions, uploads and listings interleave, a folder of the web
\* console survives the deletion of its last file
\* (preserve_empty_parent_folder_after_object_delete).
THEOREM FoldersStay == FolderSpec => []FolderKept
<1>1. FolderInv => FolderKept
  BY DEF FolderInv, Rescue, FolderKept, FolderShown
<1> QED BY <1>1, InitFolder, NextFolder, PTL DEF FolderSpec

HIDE SessionAssumption

-----------------------------------------------------------------------------
(* The access log.  The log, or what the one task at work read of it, holds *)
(* the lines kept, each once; a task that is not alone has none to keep.    *)

Cell == Line \union {Torn}
Steps == {"idle", "unlogged", "read", "cut", "write", "meta", "describe", "logged", "failed"}
LogTypeOK ==
  /\ logger \in [Line -> Steps] /\ logRead \in [Line -> Seq(Cell)] /\ logFile \in Seq(Cell)
  /\ beside \subseteq Line /\ keptLines \subseteq Line /\ stale \in BOOLEAN

OfWritten(log) ==
  \A l \in Line : InLog(log, l) => logger[l] \in {"meta", "describe", "logged", "failed"}
KeptIn(log) == \A l \in keptLines : InOnce(log, l)
MetaCurrent == ~stale => logMeta = logFile

Lonely(l) ==
  /\ Working = {l}
  /\ logger[l] = "read" => KeptIn(logFile) /\ MetaCurrent
  /\ logger[l] # "read" => KeptIn(logRead[l])
  /\ logger[l] = "cut" => logRead[l] = logFile /\ MetaCurrent
  /\ logger[l] = "write" => logFile = <<>>
  /\ logger[l] \in {"meta", "describe"} => logFile = Extended(l)
  /\ logger[l] = "describe" => logMeta = <<Torn>>
Orderly ==
  /\ \A l \in beside : logger[l] # "idle"
  /\ \A l \in keptLines : logger[l] = "logged"
  /\ Working = {} => KeptIn(logFile) /\ MetaCurrent
  /\ \A l \in Working : IF l \in beside THEN keptLines = {} /\ stale ELSE Lonely(l)

LogInv ==
  /\ LogTypeOK
  /\ OfWritten(logFile)
  /\ \A l \in Line : OfWritten(logRead[l]) /\ ~InLog(logRead[l], l)
  /\ Orderly

LEMMA LogAppend ==
  ASSUME NEW s \in Seq(Cell), NEW l \in Line
  PROVE  /\ Append(s, l) \in Seq(Cell)
         /\ \A k \in Line : InLog(Append(s, l), k) <=> InLog(s, k) \/ k = l
         /\ \A k \in Line : InOnce(s, k) /\ k # l => InOnce(Append(s, l), k)
         /\ ~InLog(s, l) => InOnce(Append(s, l), l)
<1>1. /\ Append(s, l) \in Seq(Cell) /\ Len(Append(s, l)) = Len(s) + 1 /\ Len(s) \in Nat
      /\ \A i \in 1 .. Len(s) : Append(s, l)[i] = s[i]
      /\ Append(s, l)[Len(s) + 1] = l
  BY DEF Cell
<1>2. \A i \in 1 .. Len(s) + 1 : i \in 1 .. Len(s) \/ i = Len(s) + 1
  BY <1>1
<1>3. \A i \in 1 .. Len(s) : i \in 1 .. Len(s) + 1
  BY <1>1
<1>4. Len(s) + 1 \in 1 .. Len(s) + 1
  BY <1>1
<1>5. \A k \in Line : InLog(Append(s, l), k) <=> InLog(s, k) \/ k = l
  BY <1>1, <1>2, <1>3, <1>4 DEF InLog
<1>6. \A k \in Line : InOnce(s, k) /\ k # l => InOnce(Append(s, l), k)
  BY <1>1, <1>2, <1>3, <1>5 DEF InOnce
<1>7. ~InLog(s, l) => InOnce(Append(s, l), l)
  BY <1>1, <1>2, <1>5 DEF InOnce, InLog
<1> QED BY <1>1, <1>5, <1>6, <1>7

LEMMA EmptyLog == <<>> \in Seq(Cell) /\ \A l : ~InLog(<<>>, l)
BY DEF InLog

LEMMA LogConcat ==
  ASSUME NEW s \in Seq(Cell), NEW t \in Seq(Cell), NEW l \in Line, InLog(s \o t, l)
  PROVE  InLog(s, l) \/ InLog(t, l)
<1>1. /\ Len(s \o t) = Len(s) + Len(t) /\ Len(s) \in Nat /\ Len(t) \in Nat
      /\ \A i \in 1 .. Len(s) + Len(t) :
           (s \o t)[i] = IF i <= Len(s) THEN s[i] ELSE t[i - Len(s)]
  OBVIOUS
<1>2. PICK i \in 1 .. Len(s) + Len(t) : (s \o t)[i] = l
  BY <1>1 DEF InLog
<1>3. CASE i <= Len(s)
  BY <1>1, <1>2, <1>3 DEF InLog
<1>4. CASE i > Len(s)
  <2>1. i - Len(s) \in 1 .. Len(t) /\ t[i - Len(s)] = l
    BY <1>1, <1>2, <1>4
  <2> QED BY <2>1 DEF InLog
<1> QED BY <1>1, <1>2, <1>3, <1>4

LEMMA LogPiece ==
  ASSUME NEW s \in Seq(Cell), NEW i \in 1 .. Len(s) + 1, NEW j \in 0 .. Len(s)
  PROVE  /\ SubSeq(s, i, j) \in Seq(Cell)
         /\ \A l \in Line : InLog(SubSeq(s, i, j), l) => InLog(s, l)
<1> DEFINE p == SubSeq(s, i, j)
<1>1. Len(s) \in Nat
  OBVIOUS
<1>2. CASE i > j
  <2>1. p = <<>>
    BY <1>1, <1>2
  <2> QED BY <2>1, EmptyLog
<1>3. CASE i <= j
  <2>1. /\ p \in Seq(Cell) /\ Len(p) = j - i + 1
        /\ \A n \in 1 .. j - i + 1 : p[n] = s[i + n - 1]
    BY <1>1, <1>3
  <2>2. \A n \in 1 .. j - i + 1 : i + n - 1 \in 1 .. Len(s)
    BY <1>1, <1>3
  <2> HIDE DEF p
  <2>3. \A l \in Line : InLog(p, l) => InLog(s, l)
    BY <2>1, <2>2 DEF InLog
  <2> QED BY <2>1, <2>3 DEF p
<1> QED BY <1>1, <1>2, <1>3

LEMMA TornPiece == <<Torn>> \in Seq(Cell) /\ \A l \in Line : ~InLog(<<Torn>>, l)
BY TornAssumption DEF Cell, InLog

LEMMA LogBehind ==
  ASSUME NEW s \in Seq(Cell), NEW rest \in Behind(s)
  PROVE  /\ rest \in Seq(Cell) /\ \A l \in Line : InLog(rest, l) => InLog(s, l)
         /\ s = <<>> => rest = <<>>
<1>1. CASE s = <<>>
  BY <1>1, EmptyLog DEF Behind
<1>2. CASE s # <<>>
  <2> DEFINE ends == {SubSeq(s, i, Len(s)) : i \in 1 .. Len(s) + 1}
  <2>1. rest \in ends \union {<<Torn>> \o e : e \in ends}
    BY <1>2 DEF Behind
  <2>2. Len(s) \in 0 .. Len(s)
    OBVIOUS
  <2>3. \A e \in ends : e \in Seq(Cell) /\ \A l \in Line : InLog(e, l) => InLog(s, l)
    BY <2>2, LogPiece
  <2> HIDE DEF ends
  <2>4. ASSUME NEW e \in ends, rest = <<Torn>> \o e
        PROVE  rest \in Seq(Cell) /\ \A l \in Line : InLog(rest, l) => InLog(s, l)
    <3>1. e \in Seq(Cell) /\ rest \in Seq(Cell)
      BY <2>3, <2>4, TornPiece
    <3> QED BY <2>3, <2>4, <3>1, TornPiece, LogConcat
  <2> QED BY <1>2, <2>1, <2>3, <2>4
<1> QED BY <1>1, <1>2

\* A file filled by a task: what it wrote, and what another one left behind.
LEMMA LogFilled ==
  ASSUME LogTypeOK, NEW s \in Seq(Cell), NEW rest \in Behind(logFile)
  PROVE  /\ s \o rest \in Seq(Cell)
         /\ \A l \in Line : InLog(s \o rest, l) => InLog(s, l) \/ InLog(logFile, l)
         /\ logFile = <<>> => s \o rest = s
<1>1. /\ rest \in Seq(Cell) /\ \A l \in Line : InLog(rest, l) => InLog(logFile, l)
      /\ logFile = <<>> => rest = <<>>
  BY LogBehind DEF LogTypeOK
<1>2. s \o rest \in Seq(Cell) /\ s \o <<>> = s
  BY <1>1
<1> QED BY <1>1, <1>2, LogConcat

LEMMA LogInitInv == LogInit => LogInv
<1> SUFFICES ASSUME LogInit PROVE LogInv
  OBVIOUS
<1>1. LogTypeOK
  BY EmptyLog DEF LogInit, LogTypeOK, Steps
<1>2. Working = {}
  BY DEF LogInit, Working, AtWork
<1> QED BY <1>1, <1>2, EmptyLog DEF LogInit, LogInv, OfWritten, Orderly, KeptIn, MetaCurrent

LEMMA LogNextInv == LogInv /\ [LogNext]_logVars => LogInv'
<1> SUFFICES ASSUME LogInv, [LogNext]_logVars PROVE LogInv'
  OBVIOUS
<1> USE DEF LogInv, LogTypeOK, Steps
<1>1. ASSUME UNCHANGED <<logger, logRead, logFile, logMeta, logHistory>> PROVE LogInv'
  BY <1>1 DEF logHistory, OfWritten, Orderly, Lonely, KeptIn, MetaCurrent, Working, Extended
<1>2. CASE UNCHANGED logVars
  BY <1>1, <1>2 DEF logVars, logHistory
<1>3. ASSUME NEW on \in BOOLEAN, SetLogging(on) PROVE LogInv'
  BY <1>1, <1>3 DEF SetLogging
<1>4. ASSUME NEW l \in Line, Respond(l) PROVE LogInv'
  <2>1. /\ logger[l] = "idle" /\ UNCHANGED <<logRead, logFile, logMeta>>
        /\ logger' = [logger EXCEPT ![l] = IF logTarget THEN "read" ELSE "unlogged"]
        /\ IF logTarget /\ Working # {}
           THEN beside' = beside \union Working \union {l} /\ keptLines' = {} /\ stale' = TRUE
           ELSE UNCHANGED <<beside, keptLines, stale>>
    BY <1>4 DEF Respond, logHistory
  <2>2. /\ logger'[l] = IF logTarget THEN "read" ELSE "unlogged"
        /\ \A k \in Line \ {l} : logger'[k] = logger[k]
        /\ Working \subseteq Line \ {l}
        /\ Working' = IF logTarget THEN Working \union {l} ELSE Working
    BY <2>1 DEF Working, AtWork
  <2>3. LogTypeOK'
    BY <2>1 DEF Working
  <2>4. OfWritten(logFile)' /\ \A k \in Line : (OfWritten(logRead[k]) /\ ~InLog(logRead[k], k))'
    BY <2>1, <2>2 DEF OfWritten
  <2>5. /\ \A k \in keptLines' : logger'[k] = "logged"
        /\ \A k \in beside' : logger'[k] # "idle"
    BY <2>1, <2>2 DEF Orderly, Working, AtWork
  <2>6. CASE logTarget /\ Working # {}
    BY <2>1, <2>2, <2>3, <2>4, <2>5, <2>6 DEF Orderly
  <2>7. CASE logTarget /\ Working = {}
    <3>1. KeptIn(logFile)' /\ MetaCurrent' /\ Working' = {l}
      BY <2>1, <2>2, <2>7 DEF Orderly, KeptIn, MetaCurrent
    <3>2. Lonely(l)' \/ (l \in beside')
      BY <2>1, <2>2, <2>7, <3>1 DEF Lonely
    <3>3. l \notin beside
      BY <2>1 DEF Orderly
    <3> QED BY <2>3, <2>4, <2>5, <3>1, <3>2, <3>3, <2>1, <2>7 DEF Orderly
  <2>8. CASE ~logTarget
    <3>1. \A k \in Working : Lonely(k) => Lonely(k)'
      BY <2>1, <2>2, <2>8 DEF Lonely, KeptIn, MetaCurrent, Extended
    <3> QED BY <2>1, <2>2, <2>3, <2>4, <2>5, <2>8, <3>1 DEF Orderly, KeptIn, MetaCurrent
  <2> QED BY <2>3, <2>4, <2>6, <2>7, <2>8
\* A step of a task at work that leaves the histories alone.
<1>5. ASSUME NEW l \in Line, logger[l] \in AtWork, UNCHANGED logHistory,
             NEW step \in AtWork, logger' = [logger EXCEPT ![l] = step],
             LogTypeOK', OfWritten(logFile)', \A k \in Line : (OfWritten(logRead[k]) /\ ~InLog(logRead[k], k))',
             Lonely(l) => Lonely(l)'
      PROVE  LogInv'
  <2>1. /\ logger'[l] = step /\ \A k \in Line \ {l} : logger'[k] = logger[k]
        /\ UNCHANGED <<beside, keptLines, stale, Working>> /\ l \in Working
    BY <1>5 DEF Working, logHistory
  <2>2. \A k \in Working \ {l} : ~Lonely(k)
    BY <2>1 DEF Lonely
  <2>3. /\ \A k \in beside' : logger'[k] # "idle"
        /\ \A k \in keptLines' : logger'[k] = "logged"
    BY <1>5, <2>1 DEF Orderly, AtWork
  <2>4. \A k \in Working' : IF k \in beside' THEN keptLines' = {} /\ stale' ELSE Lonely(k)'
    BY <1>5, <2>1, <2>2 DEF Orderly
  <2> QED BY <1>5, <2>1, <2>3, <2>4 DEF Orderly
<1>6. ASSUME NEW l \in Line, ReadLog(l) PROVE LogInv'
  <2>1. /\ logger[l] = "read" /\ UNCHANGED <<logFile, logMeta, logHistory>>
        /\ logRead' = [logRead EXCEPT ![l] = logFile]
        /\ logger' = [logger EXCEPT ![l] = "cut"]
    BY <1>6 DEF ReadLog
  <2>2. /\ logger'[l] = "cut" /\ logRead'[l] = logFile
        /\ \A k \in Line \ {l} : logger'[k] = logger[k] /\ logRead'[k] = logRead[k]
    BY <2>1
  <2>3. LogTypeOK'
    BY <2>1 DEF logHistory
  <2>4. OfWritten(logFile)' /\ \A k \in Line : (OfWritten(logRead[k]) /\ ~InLog(logRead[k], k))'
    BY <2>1, <2>2 DEF OfWritten
  <2>5. Working' = Working
    BY <2>1, <2>2 DEF Working, AtWork
  <2>6. Lonely(l) => Lonely(l)'
    BY <2>1, <2>2, <2>5 DEF Lonely, KeptIn, MetaCurrent, logHistory
  <2> QED BY <1>5, <2>1, <2>3, <2>4, <2>6 DEF AtWork
<1>7. ASSUME NEW l \in Line, CutLog(l) PROVE LogInv'
  <2>1. /\ logger[l] = "cut" /\ UNCHANGED <<logRead, logMeta, logHistory>>
        /\ logFile' = <<>> /\ logger' = [logger EXCEPT ![l] = "write"]
    BY <1>7 DEF CutLog
  <2>2. /\ logger'[l] = "write" /\ \A k \in Line \ {l} : logger'[k] = logger[k]
    BY <2>1
  <2>3. LogTypeOK'
    BY <2>1, EmptyLog DEF logHistory
  <2>4. OfWritten(logFile)' /\ \A k \in Line : (OfWritten(logRead[k]) /\ ~InLog(logRead[k], k))'
    BY <2>1, <2>2, EmptyLog DEF OfWritten
  <2>5. Working' = Working
    BY <2>1, <2>2 DEF Working, AtWork
  <2>6. Lonely(l) => Lonely(l)'
    BY <2>1, <2>2, <2>5 DEF Lonely, KeptIn, logHistory
  <2> QED BY <1>5, <2>1, <2>3, <2>4, <2>6 DEF AtWork
<1>8. ASSUME NEW l \in Line, WriteLog(l) PROVE LogInv'
  <2>1. /\ logger[l] = "write" /\ UNCHANGED <<logRead, logMeta, logHistory>>
        /\ logger' = [logger EXCEPT ![l] = "meta"]
    BY <1>8 DEF WriteLog
  <2>2. PICK rest \in Behind(logFile) : logFile' = Append(logRead[l], l) \o rest
    BY <1>8 DEF WriteLog, Extended
  <2>3. /\ logger'[l] = "meta" /\ \A k \in Line \ {l} : logger'[k] = logger[k]
    BY <2>1
  <2>4. /\ Append(logRead[l], l) \in Seq(Cell)
        /\ \A k \in Line : InLog(Append(logRead[l], l), k) <=> InLog(logRead[l], k) \/ k = l
    BY LogAppend
  <2>5. /\ logFile' \in Seq(Cell)
        /\ \A k \in Line : InLog(logFile', k) => InLog(Append(logRead[l], l), k) \/ InLog(logFile, k)
        /\ logFile = <<>> => logFile' = Append(logRead[l], l)
    BY <2>2, <2>4, LogFilled
  <2>6. LogTypeOK'
    BY <2>1, <2>5 DEF logHistory
  <2>7. OfWritten(logFile)'
    BY <2>3, <2>4, <2>5 DEF OfWritten
  <2>8. \A k \in Line : (OfWritten(logRead[k]) /\ ~InLog(logRead[k], k))'
    BY <2>1, <2>3 DEF OfWritten
  <2>9. Working' = Working
    BY <2>1, <2>3 DEF Working, AtWork
  <2>10. Lonely(l) => Lonely(l)'
    BY <2>1, <2>3, <2>5, <2>9 DEF Lonely, KeptIn, Extended, logHistory
  <2> QED BY <1>5, <2>1, <2>6, <2>7, <2>8, <2>10 DEF AtWork
<1>9. ASSUME NEW l \in Line, CutLogMeta(l) PROVE LogInv'
  <2>1. /\ logger[l] = "meta" /\ UNCHANGED <<logRead, logFile, logHistory>>
        /\ logMeta' = <<Torn>> /\ logger' = [logger EXCEPT ![l] = "describe"]
    BY <1>9 DEF CutLogMeta
  <2>2. /\ logger'[l] = "describe" /\ \A k \in Line \ {l} : logger'[k] = logger[k]
    BY <2>1
  <2>3. LogTypeOK'
    BY <2>1 DEF logHistory
  <2>4. OfWritten(logFile)' /\ \A k \in Line : (OfWritten(logRead[k]) /\ ~InLog(logRead[k], k))'
    BY <2>1, <2>2 DEF OfWritten
  <2>5. Working' = Working
    BY <2>1, <2>2 DEF Working, AtWork
  <2>6. Lonely(l) => Lonely(l)'
    BY <2>1, <2>2, <2>5 DEF Lonely, KeptIn, Extended, logHistory
  <2> QED BY <1>5, <2>1, <2>3, <2>4, <2>6 DEF AtWork
\* The steps that end a task: the others at work, if any, have nothing to keep.
<1>10. ASSUME NEW l \in Line, logger[l] \in AtWork,
              NEW step \in {"logged", "failed"}, logger' = [logger EXCEPT ![l] = step],
              UNCHANGED <<logRead, beside>>, stale' \in BOOLEAN,
              logFile' \in Seq(Cell), OfWritten(logFile)',
              keptLines' \subseteq keptLines \union {l}, step = "failed" => keptLines' \subseteq keptLines,
              l \in beside => keptLines' \subseteq keptLines /\ (stale => stale'),
              Lonely(l) => KeptIn(logFile)' /\ MetaCurrent'
       PROVE  LogInv'
  <2>1. /\ logger'[l] = step /\ \A k \in Line \ {l} : logger'[k] = logger[k]
        /\ Working' = Working \ {l} /\ l \in Working
    BY <1>10 DEF Working, AtWork
  <2>2. LogTypeOK'
    BY <1>10
  <2>3. \A k \in Line : (OfWritten(logRead[k]) /\ ~InLog(logRead[k], k))'
    BY <1>10, <2>1 DEF OfWritten, AtWork
  <2>4. /\ \A k \in beside' : logger'[k] # "idle"
        /\ \A k \in keptLines' : logger'[k] = "logged"
    BY <1>10, <2>1 DEF Orderly, AtWork
  <2>5. CASE l \in beside
    <3>1. keptLines' = {} /\ stale'
      BY <1>10, <2>1, <2>5 DEF Orderly
    <3>2. \A k \in Working' : k \in beside'
      BY <1>10, <2>1, <2>5 DEF Orderly, Lonely
    <3> QED BY <1>10, <2>2, <2>3, <2>4, <3>1, <3>2 DEF Orderly, KeptIn, MetaCurrent
  <2>6. CASE l \notin beside
    <3>1. Lonely(l) /\ Working' = {}
      BY <2>1, <2>6 DEF Orderly, Lonely
    <3> QED BY <1>10, <2>2, <2>3, <2>4, <3>1 DEF Orderly
  <2> QED BY <2>5, <2>6
<1>11. ASSUME NEW l \in Line, WriteLogMeta(l) PROVE LogInv'
  <2>1. /\ logger[l] = "describe" /\ UNCHANGED <<logRead, logFile, beside>>
        /\ logger' = [logger EXCEPT ![l] = "logged"]
        /\ \/ logMeta' = Append(logRead[l], l)
           \/ logMeta # <<Torn>> /\ logMeta' = <<Torn>>
        /\ IF l \in beside THEN keptLines' = keptLines /\ stale' = stale
           ELSE keptLines' = keptLines \union {l} /\ stale' = FALSE
    BY <1>11 DEF WriteLogMeta, logHistory, Extended
  <2>2. /\ logger'[l] = "logged" /\ \A k \in Line \ {l} : logger'[k] = logger[k]
    BY <2>1
  <2>3. OfWritten(logFile)'
    BY <2>1, <2>2 DEF OfWritten
  <2>4. ASSUME Lonely(l) PROVE KeptIn(logFile)' /\ MetaCurrent'
    <3>1. /\ logFile' = Append(logRead[l], l) /\ logMeta' = Append(logRead[l], l)
          /\ KeptIn(logRead[l])
      BY <2>1, <2>4 DEF Lonely, Extended
    <3>2. ~InLog(logRead[l], l) /\ l \notin keptLines
      BY <2>1 DEF OfWritten, Orderly
    <3>3. \A k \in keptLines \union {l} : InOnce(Append(logRead[l], l), k)
      BY <3>1, <3>2, LogAppend DEF KeptIn
    <3> QED BY <2>1, <3>1, <3>3 DEF KeptIn, MetaCurrent
  <2>5. logger[l] \in AtWork
    BY <2>1 DEF AtWork
  <2> QED BY <1>10, <2>1, <2>3, <2>4, <2>5
<1>12. ASSUME NEW l \in Line, BreakOff(l) PROVE LogInv'
  <2>1. /\ logger[l] \in AtWork /\ UNCHANGED <<logRead, logMeta, beside>>
        /\ logger' = [logger EXCEPT ![l] = "failed"]
        /\ stale' = (stale \/ logger[l] \in {"write", "meta", "describe"})
    BY <1>12 DEF BreakOff
  <2>2. /\ logger'[l] = "failed" /\ \A k \in Line \ {l} : logger'[k] = logger[k]
    BY <2>1
  <2>3. CASE logger[l] # "write"
    <3>1. UNCHANGED <<logFile, keptLines>>
      BY <1>12, <2>3 DEF BreakOff
    <3>2. OfWritten(logFile)'
      BY <2>2, <3>1 DEF OfWritten
    <3>3. ASSUME Lonely(l) PROVE KeptIn(logFile)' /\ MetaCurrent'
      <4>1. CASE logger[l] \in {"read", "cut"}
        BY <2>1, <3>1, <3>3, <4>1 DEF Lonely, KeptIn, MetaCurrent
      <4>2. CASE logger[l] \in {"meta", "describe"}
        <5>1. logFile = Append(logRead[l], l) /\ KeptIn(logRead[l]) /\ l \notin keptLines
          BY <3>3, <4>2 DEF Lonely, Extended, Orderly
        <5>2. \A k \in keptLines : InOnce(logFile, k)
          BY <5>1, LogAppend DEF KeptIn
        <5> QED BY <2>1, <3>1, <4>2, <5>2 DEF KeptIn, MetaCurrent
      <4> QED BY <2>1, <2>3, <4>1, <4>2 DEF AtWork
    <3> QED BY <1>10, <2>1, <3>1, <3>2, <3>3
  <2>4. CASE logger[l] = "write"
    <3>1. keptLines' = {}
      BY <1>12, <2>4 DEF BreakOff
    <3>2. PICK i \in 0 .. Len(logRead[l]), torn \in {<<>>, <<Torn>>}, rest \in Behind(logFile) :
            logFile' = SubSeq(Append(logRead[l], l), 1, i) \o torn \o rest
      BY <1>12, <2>4 DEF BreakOff, Extended
    <3> DEFINE p == SubSeq(logRead[l], 1, i)
    <3>3. SubSeq(Append(logRead[l], l), 1, i) = p
      OBVIOUS
    <3>4. p \in Seq(Cell) /\ \A k \in Line : InLog(p, k) => InLog(logRead[l], k)
      <4>1. 1 \in 1 .. Len(logRead[l]) + 1 /\ logRead[l] \in Seq(Cell)
        OBVIOUS
      <4> QED BY <4>1, LogPiece
    <3> HIDE DEF p
    <3>5. torn \in Seq(Cell) /\ \A k \in Line : ~InLog(torn, k)
      BY TornPiece, EmptyLog
    <3>6. p \o torn \in Seq(Cell) /\ \A k \in Line : InLog(p \o torn, k) => InLog(p, k)
      BY <3>4, <3>5, LogConcat
    <3>7. /\ logFile' \in Seq(Cell)
          /\ \A k \in Line : InLog(logFile', k) => InLog(p \o torn, k) \/ InLog(logFile, k)
      BY <3>2, <3>3, <3>6, LogFilled
    <3>8. OfWritten(logFile)'
      BY <2>2, <2>4, <3>4, <3>6, <3>7 DEF OfWritten
    <3>9. KeptIn(logFile)' /\ MetaCurrent'
      BY <2>1, <2>4, <3>1 DEF KeptIn, MetaCurrent
    <3> QED BY <1>10, <2>1, <3>1, <3>7, <3>8, <3>9
  <2> QED BY <2>3, <2>4
<1> QED BY <1>2, <1>3, <1>4, <1>6, <1>7, <1>8, <1>9, <1>11, <1>12 DEF LogNext

\* Lines logged by tasks that had the log to themselves stay in it, once, until
\* tasks overlap or a write breaks off after its cut, and the sidecar describes
\* what the last such task wrote (finish_access_log, deliver_access_log).
THEOREM LogKeepsQuietLines == LogSpec => []QuietLogComplete
<1>1. LogInv => QuietLogComplete
  BY DEF LogInv, Orderly, QuietLogComplete, KeptIn, MetaCurrent
<1> QED BY <1>1, LogInitInv, LogNextInv, PTL DEF LogSpec

-----------------------------------------------------------------------------
(* The object API.  The invariant says of a request that looked at a key    *)
(* and whose object nobody replaced since that what it saw is still there,  *)
(* and of a key whose sidecar no two requests rewrote at a time that it is  *)
(* whole, or cut by the one request that is about to fill it.               *)

Sidecar == [etag : Content \union {Nothing}, tagged : BOOLEAN, locked : BOOLEAN,
            sealed : BOOLEAN]
RangeKinds == {"none", "explicit", "suffix", "open", "part"}
Phases == {"new", "open", "source", "check", "store", "head", "amend", "fill", "batch",
           "done"}
CallOps == {"none", "get", "range", "put", "copy", "tag", "untag", "lock", "batch"}
Call ==
  [pc : Phases, op : CallOps,
   key : ApiKey, to : ApiKey, range : [from : Nat, length : Nat],
   asked : [kind : RangeKinds, from : Nat, to : Nat], cond : Conditions \union {NoCondition},
   meta : Sidecar, body : Content \union {Nothing}, sealed : BOOLEAN, left : SUBSET ApiKey]
Reply ==
  [status : Nat, etag : Content \union {Nothing}, body : Content \union {Nothing},
   asked : [kind : RangeKinds, from : Nat, to : Nat], bytes : SUBSET Int,
   last : Int, keys : SUBSET ApiKey, deleted : SUBSET ApiKey, failed : SUBSET ApiKey]

StoreTypeOK ==
  /\ payload \in [ApiKey -> Content \union {Nothing}]
  /\ sidecar \in [ApiKey -> Sidecar]
  /\ text \in [ApiKey -> {"whole", "cut", "garbled"}]
ApiTypeOK == StoreTypeOK /\ call \in [Request -> Call] /\ reply \in [Request -> Reply]

\* The parts below are about request q with call c, answer a, payloads p and stirred
\* requests st.
Unanswered(c, a) ==
  /\ c.pc \notin {"batch", "done"} => a = NoReply
  /\ c.pc = "new" => c = NoCall
Looked(q, c, p, st) ==
  c.pc \in {"open", "amend", "fill"} =>
    /\ c.meta.etag \in Content
    /\ q \notin st => p[c.key] = c.meta.etag /\ (DefaultSse => c.meta.sealed)
Holds(c) == c.pc \in {"check", "store", "head"} => c.body \in Content /\ (DefaultSse => c.sealed)
Planned(c) ==
  c.pc = "open" /\ c.op = "range" =>
    /\ c.range.from + c.range.length <= Sizes[c.meta.etag]
    /\ c.range.from .. c.range.from + c.range.length - 1 = Selected(c.asked, c.meta.etag)
Described(q, a, st) ==
  /\ a.status \in {200, 206} => a.bytes \subseteq 0 .. Sizes[a.body] - 1
  /\ a.status = 206 /\ a.bytes # {} => a.last \in a.bytes /\ \A b \in a.bytes : b <= a.last
  /\ q \notin st =>
       /\ a.status # 500
       /\ a.status \in {200, 206} => a.etag = a.body /\ a.bytes = Selected(a.asked, a.body)
       /\ a.status = 416 /\ a.body # Nothing => Selected(a.asked, a.body) = {}
Counted(c, a) ==
  /\ a.deleted \intersect Denied = {}
  /\ a.status = 403 => a.deleted \union a.failed = {}
  /\ c.op = "batch" => c.pc \in {"batch", "done"}
  /\ c.pc = "batch" =>
       /\ c.op = "batch" /\ a.status = 0 /\ a.keys \intersect Denied = {}
       /\ a.deleted \union a.failed \union c.left = a.keys
       /\ a.deleted \intersect a.failed = {}
       /\ c.left \intersect (a.deleted \union a.failed) = {}
  /\ c.pc = "done" /\ c.op = "batch" =>
       a.deleted \union a.failed = a.keys /\ a.deleted \intersect a.failed = {}

Fits(q, c, a, p, st) ==
  /\ Unanswered(c, a) /\ Looked(q, c, p, st) /\ Holds(c)
  /\ q \in Reader => c.pc \in {"new", "open", "done"} /\ Planned(c) /\ Described(q, a, st)
  /\ q \in Writer => c.pc # "open" /\ Counted(c, a)

PairsMatch ==
  \A k \in ApiKey \ mixed : Parses(k) =>
    sidecar[k].etag = payload[k] /\ (DefaultSse /\ Exists(k) => sidecar[k].sealed)
Detached == \A q \in orphan : q \in Writer /\ call[q].pc = "fill"
OneFiller(k) ==
  \/ Filling(k) = {} /\ text[k] = "whole"
  \/ text[k] = "cut" /\ \E q \in Writer : Filling(k) = {q}
Intact == Detached /\ \A k \in ApiKey \ worn : OneFiller(k)

ApiInv ==
  /\ ApiTypeOK /\ PairsMatch /\ Intact
  /\ \A q \in Request : Fits(q, call[q], reply[q], payload, stirred)

LEMMA ApiConstants ==
  /\ ApiKey # {} /\ Reader \intersect Writer = {} /\ DefaultSse \in BOOLEAN
  /\ \A c \in Content : Sizes[c] \in Nat
  /\ 1 \in Content /\ 0 \notin Content /\ Content \subseteq Nat
  /\ \A g \in Ranges : /\ g \in [kind : RangeKinds, from : Nat, to : Nat]
                        /\ g.kind # "none"
BY ApiAssumption DEF Content, RangeKinds

LEMMA ApiBlanks ==
  /\ NoSidecar \in Sidecar /\ NoCall \in Call /\ NoReply \in Reply
  /\ NoCall.pc = "new" /\ NoCall.op = "none" /\ NoCall.asked = NoRange
  /\ NoReply.status = 0 /\ NoReply.asked = NoRange /\ NoReply.body = Nothing
  /\ NoReply.deleted = {} /\ NoReply.failed = {} /\ NoReply.bytes = {} /\ NoReply.last = 0
<1>1. NoSidecar \in Sidecar
  BY DEF NoSidecar, Sidecar
<1>2. NoCall \in Call
  BY <1>1, ApiConstants DEF NoCall, Call, NoRange, NoSpan, RangeKinds, Phases, CallOps
<1> QED BY <1>1, <1>2 DEF NoCall, NoReply, Reply, NoRange, RangeKinds

\* Writing a field of a request.
LEMMA CallFields ==
  ASSUME NEW c \in Call
  PROVE  /\ \A x \in Phases : [c EXCEPT !.pc = x] \in Call
         /\ \A x \in CallOps : [c EXCEPT !.op = x] \in Call
         /\ \A x \in ApiKey : [c EXCEPT !.key = x] \in Call /\ [c EXCEPT !.to = x] \in Call
         /\ \A x \in [from : Nat, length : Nat] : [c EXCEPT !.range = x] \in Call
         /\ \A x \in [kind : RangeKinds, from : Nat, to : Nat] : [c EXCEPT !.asked = x] \in Call
         /\ \A x \in Conditions : [c EXCEPT !.cond = x] \in Call
         /\ \A x \in Sidecar : [c EXCEPT !.meta = x] \in Call
         /\ \A x \in Content : [c EXCEPT !.body = x] \in Call
         /\ \A x \in BOOLEAN : [c EXCEPT !.sealed = x] \in Call
         /\ \A x \in SUBSET ApiKey : [c EXCEPT !.left = x] \in Call
BY DEF Call

LEMMA ApiInitInv == ApiInit => ApiInv
<1> SUFFICES ASSUME ApiInit PROVE ApiInv
  OBVIOUS
<1>1. StoreTypeOK /\ PairsMatch
  BY ApiConstants DEF ApiInit, StoreTypeOK, PairsMatch, NoSidecar, Sidecar, Exists
<1>2. ApiTypeOK
  BY <1>1, ApiBlanks DEF ApiInit, ApiTypeOK
<1>3. \A q : Fits(q, NoCall, NoReply, payload, stirred)
  BY ApiBlanks DEF Fits, Unanswered, Looked, Holds, Planned, Described, Counted
<1>4. \A q \in Request : call[q] = NoCall /\ reply[q] = NoReply
  BY DEF ApiInit
<1>5. Intact
  BY <1>4, ApiBlanks DEF ApiInit, Intact, Detached, OneFiller, Filling, Request
<1> QED BY <1>1, <1>2, <1>3, <1>4, <1>5 DEF ApiInv

\* A request moves on; the others notice nothing, unless their object was replaced
\* and they count as stirred.
LEMMA ApiStep ==
  ASSUME ApiInv, NEW r \in Request, NEW c \in Call, NEW a \in Reply,
         call' = [call EXCEPT ![r] = c], reply' = [reply EXCEPT ![r] = a],
         StoreTypeOK', PairsMatch', Intact', stirred \subseteq stirred',
         \A q \in Request \ {r} : call[q].pc \in {"open", "amend", "fill"} /\ q \notin stirred' =>
           payload'[call[q].key] = payload[call[q].key],
         Fits(r, c, a, payload', stirred')
  PROVE  ApiInv'
<1>1. /\ ApiTypeOK' /\ call'[r] = c /\ reply'[r] = a
      /\ \A q \in Request \ {r} : call'[q] = call[q] /\ reply'[q] = reply[q]
  BY DEF ApiInv, ApiTypeOK
<1>2. ASSUME NEW q \in Request \ {r} PROVE Fits(q, call[q], reply[q], payload', stirred')
  <2>1. Fits(q, call[q], reply[q], payload, stirred)
    BY DEF ApiInv
  <2>2. Looked(q, call[q], payload', stirred')
    BY <2>1 DEF Fits, Looked
  <2>3. q \in Reader => Described(q, reply[q], stirred')
    BY <2>1 DEF Fits, Described
  <2> QED BY <2>1, <2>2, <2>3 DEF Fits
<1> QED BY <1>1, <1>2 DEF ApiInv

\* A request that neither has cut a sidecar nor does leaves the others to fill theirs.
LEMMA SameFilling ==
  ASSUME ApiInv, NEW r \in Request, NEW c \in Call, call' = [call EXCEPT ![r] = c],
         c.pc # "fill", call[r].pc # "fill", UNCHANGED <<text, orphan, worn>>
  PROVE  Intact'
<1>1. call'[r] = c /\ \A q \in Request \ {r} : call'[q] = call[q]
  BY DEF ApiInv, ApiTypeOK
<1>2. Detached'
  BY <1>1 DEF ApiInv, Intact, Detached, Request
<1>3. \A k \in ApiKey : Filling(k)' = Filling(k)
  BY <1>1 DEF Filling, Request
<1> QED BY <1>2, <1>3 DEF ApiInv, Intact, OneFiller

LEMMA ReaderPhase ==
  ASSUME ApiInv, NEW r \in Request, r \in Writer => call[r].pc # "fill"
  PROVE  call[r].pc # "fill"
BY DEF ApiInv, Fits, Request

LEMMA ApiQuietStep ==
  ASSUME ApiInv, NEW r \in Request, NEW c \in Call, NEW a \in Reply,
         c.pc # "fill", r \in Writer => call[r].pc # "fill",
         call' = [call EXCEPT ![r] = c], reply' = [reply EXCEPT ![r] = a],
         Same, stirred \subseteq stirred', Fits(r, c, a, payload, stirred')
  PROVE  ApiInv'
<1>1. StoreTypeOK' /\ PairsMatch'
  BY DEF ApiInv, ApiTypeOK, StoreTypeOK, PairsMatch, Exists, Parses, Same, store
<1>2. payload' = payload /\ orphan' = orphan /\ UNCHANGED <<text, worn>>
  BY DEF Same, store
<1>3. Intact'
  BY <1>2, ReaderPhase, SameFilling
<1> QED BY <1>1, <1>2, <1>3, ApiStep

\* An answer that no deletion is counted in.
LEMMA DoneFits ==
  ASSUME ApiInv, NEW r \in Request, NEW a \in Reply, NEW p, NEW st,
         r \in Reader => Described(r, a, st),
         r \in Writer => call[r].op # "batch" /\ a.deleted = {} /\ a.failed = {}
  PROVE  LET done == [NoCall EXCEPT !.pc = "done", !.op = call[r].op]
         IN  done \in Call /\ done.pc = "done" /\ Fits(r, done, a, p, st)
<1> DEFINE done == [NoCall EXCEPT !.pc = "done", !.op = call[r].op]
<1>1. done \in Call /\ done.pc = "done" /\ done.op = call[r].op
  BY ApiBlanks DEF ApiInv, ApiTypeOK, Call, Phases
<1> HIDE DEF done
<1>2. Fits(r, done, a, p, st)
  BY <1>1 DEF Fits, Unanswered, Looked, Holds, Planned, Counted
<1> QED BY <1>1, <1>2 DEF done

LEMMA ApiQuietAnswer ==
  ASSUME ApiInv, NEW r \in Request, NEW a \in Reply, Replies(r, a),
         Same, stirred \subseteq stirred',
         r \in Reader => Described(r, a, stirred'),
         r \in Writer => /\ call[r].op # "batch" /\ call[r].pc # "fill"
                        /\ a.deleted = {} /\ a.failed = {}
  PROVE  ApiInv'
<1>1. /\ call' = [call EXCEPT ![r] = [NoCall EXCEPT !.pc = "done", !.op = call[r].op]]
      /\ reply' = [reply EXCEPT ![r] = a]
  BY DEF Replies
<1> QED BY <1>1, DoneFits, ApiQuietStep

LEMMA StatusReply ==
  ASSUME NEW s \in Nat
  PROVE  LET a == [NoReply EXCEPT !.status = s]
         IN  /\ a \in Reply /\ a.status = s /\ a.deleted = {} /\ a.failed = {} /\ a.body = Nothing
BY ApiBlanks DEF NoReply, Reply

LEMMA ApiQuietStatus ==
  ASSUME ApiInv, NEW r \in Request, NEW s \in Nat, Status(r, s),
         Same, stirred \subseteq stirred',
         r \in Reader => s \notin {200, 206} /\ (s = 500 => r \in stirred'),
         r \in Writer => call[r].op # "batch" /\ call[r].pc # "fill"
  PROVE  ApiInv'
<1> DEFINE a == [NoReply EXCEPT !.status = s]
<1>1. a \in Reply /\ a.status = s /\ a.deleted = {} /\ a.failed = {} /\ a.body = Nothing
  BY StatusReply
<1>2. Replies(r, a)
  BY DEF Status
<1> HIDE DEF a
<1>3. r \in Reader => Described(r, a, stirred')
  BY <1>1 DEF Described
<1> QED BY <1>1, <1>2, <1>3, ApiQuietAnswer

\* A range header means the bytes parse_range finds, none if it finds none.
LEMMA ParsedRange ==
  ASSUME NEW c \in Content, NEW g \in Ranges, g.kind # "part"
  PROVE  LET span == ParseRange(g, Sizes[c])
         IN  /\ span = <<>> => Selected(g, c) = {}
             /\ span # <<>> => /\ span = <<span[1], span[2]>>
                              /\ span[1] \in Nat /\ span[2] \in Int /\ span[2] < Sizes[c]
                              /\ span[1] <= span[2] /\ span[1] .. span[2] = Selected(g, c)
<1> DEFINE n == Sizes[c]
           span == ParseRange(g, n)
           last == IF g.to < n - 1 THEN g.to ELSE n - 1
<1>1. /\ n \in Nat /\ g.from \in Nat /\ g.to \in Nat
      /\ g.kind \in {"explicit", "suffix", "open"}
  BY ApiConstants DEF RangeKinds
<1>2. Selected(g, c) =
        {b \in 0 .. n - 1 : CASE g.kind = "suffix" -> b + g.to >= n
                              [] g.kind = "open" -> b >= g.from
                              [] g.kind = "explicit" -> b >= g.from /\ b <= g.to}
  BY <1>1 DEF Selected
<1> HIDE DEF n
<1>3. CASE n = 0
  <2>1. span = <<>>
    BY <1>3 DEF ParseRange
  <2> QED BY <1>2, <1>3, <2>1 DEF n
<1>4. CASE n # 0 /\ g.kind = "suffix"
  <2>1. CASE g.to = 0
    <3>1. span = <<>>
      BY <1>4, <2>1 DEF ParseRange
    <3>2. Selected(g, c) = {}
      BY <1>1, <1>2, <1>4, <2>1
    <3> QED BY <3>1, <3>2 DEF n
  <2>2. CASE g.to # 0
    <3> DEFINE f == IF n > g.to THEN n - g.to ELSE 0
    <3>1. span = <<f, n - 1>>
      BY <1>4, <2>2 DEF ParseRange
    <3>2. f \in Nat /\ f <= n - 1 /\ f .. n - 1 = Selected(g, c)
      BY <1>1, <1>2, <1>4, <2>2
    <3> HIDE DEF f
    <3> QED BY <1>1, <3>1, <3>2 DEF n
  <2> QED BY <2>1, <2>2
<1>5. CASE n # 0 /\ g.kind # "suffix" /\ g.from >= n
  <2>1. span = <<>>
    BY <1>5 DEF ParseRange
  <2>2. CASE g.kind = "open"
    BY <1>1, <1>2, <1>5, <2>1, <2>2 DEF n
  <2>3. CASE g.kind = "explicit"
    BY <1>1, <1>2, <1>5, <2>1, <2>3 DEF n
  <2> QED BY <1>1, <1>5, <2>2, <2>3
<1>6. CASE n # 0 /\ g.kind = "open" /\ g.from < n
  <2>1. span = <<g.from, n - 1>>
    BY <1>1, <1>6 DEF ParseRange
  <2>2. g.from .. n - 1 = Selected(g, c)
    BY <1>1, <1>2, <1>6
  <2> QED BY <1>1, <1>6, <2>1, <2>2 DEF n
<1>7. CASE n # 0 /\ g.kind = "explicit" /\ g.from < n
  <2>1. span = IF g.from > last THEN <<>> ELSE <<g.from, last>>
    BY <1>1, <1>7 DEF ParseRange
  <2>2. last \in Int /\ last < n /\ Selected(g, c) = g.from .. last
    BY <1>1, <1>2, <1>7
  <2> HIDE DEF last
  <2> QED BY <1>1, <2>1, <2>2 DEF n
<1> QED BY <1>1, <1>3, <1>4, <1>5, <1>6, <1>7 DEF n

LEMMA ParsedCopyRange ==
  ASSUME NEW c \in Content, NEW g \in Ranges
  PROVE  LET span == ParseCopyRange(g, Sizes[c])
         IN  span # <<>> => /\ span[1] \in Nat /\ span[2] \in Int /\ span[2] < Sizes[c]
                            /\ span[1] <= span[2] /\ span[1] .. span[2] = Selected(g, c)
<1>1. Sizes[c] \in Nat /\ g.from \in Nat /\ g.to \in Nat
  BY ApiConstants
<1>2. CASE g.kind # "explicit" \/ g.from > g.to \/ g.to >= Sizes[c]
  BY <1>2 DEF ParseCopyRange
<1>3. CASE g.kind = "explicit" /\ ~(g.from > g.to) /\ ~(g.to >= Sizes[c])
  <2>1. ParseCopyRange(g, Sizes[c]) = <<g.from, g.to>>
    BY <1>3 DEF ParseCopyRange
  <2>2. Selected(g, c) = g.from .. g.to
    BY <1>1, <1>3 DEF Selected
  <2> QED BY <1>1, <1>3, <2>1, <2>2
<1> QED BY <1>2, <1>3

\* The same as an offset and a length.
Spans(span, g, c) ==
  span # <<>> => /\ span[1] \in Nat /\ span[2] \in Nat /\ span[1] + span[2] <= Sizes[c]
                 /\ span[1] .. span[1] + span[2] - 1 = Selected(g, c)

LEMMA MeasuredSpan ==
  ASSUME NEW c \in Content, NEW g, NEW s,
         s # <<>> => /\ s[1] \in Nat /\ s[2] \in Int /\ s[2] < Sizes[c]
                     /\ s[1] <= s[2] /\ s[1] .. s[2] = Selected(g, c)
  PROVE  Spans(Measured(s), g, c) /\ (Measured(s) = <<>> <=> s = <<>>)
<1>1. CASE s = <<>>
  BY <1>1 DEF Measured, Spans
<1>2. CASE s # <<>>
  <2> DEFINE from == s[1]
             to == s[2]
             m == <<from, to - from + 1>>
  <2>1. Measured(s) = m
    BY <1>2 DEF Measured
  <2>2. m[1] = from /\ m[2] = to - from + 1 /\ m # <<>>
    OBVIOUS
  <2>3. /\ from \in Nat /\ to \in Int /\ to < Sizes[c] /\ Sizes[c] \in Nat /\ from <= to
        /\ from .. to = Selected(g, c)
    BY <1>2, ApiConstants
  <2> HIDE DEF from, to, m
  <2>4. from + (to - from + 1) <= Sizes[c] /\ from + (to - from + 1) - 1 = to /\ to - from + 1 \in Nat
    BY <2>3
  <2> QED BY <1>2, <2>1, <2>2, <2>3, <2>4 DEF Spans
<1> QED BY <1>1, <1>2

LEMMA PartSpan ==
  ASSUME NEW c \in Content, NEW g \in Ranges, g.kind = "part"
  PROVE  Spans(PartRange(c, g.from), g, c)
<1> DEFINE span == PartRange(c, g.from)
<1> SUFFICES ASSUME span # <<>>
             PROVE  /\ span[1] \in Nat /\ span[2] \in Nat /\ span[1] + span[2] <= Sizes[c]
                    /\ span[1] .. span[1] + span[2] - 1 = Selected(g, c)
  BY DEF Spans
<1>1. Sizes[c] \in Nat
  BY ApiConstants
<1>2. span[1] \in Nat /\ span[2] \in Nat /\ span[1] + span[2] <= Sizes[c]
  BY PartsAssumption
<1>3. Selected(g, c) = {b \in 0 .. Sizes[c] - 1 : b >= span[1] /\ b < span[1] + span[2]}
  BY DEF Selected
<1> HIDE DEF span
<1> QED BY <1>1, <1>2, <1>3

\* A key looked at without stirring the request is what its sidecar says.
LEMMA FirstLook ==
  ASSUME ApiInv, NEW r \in Request, NEW k \in ApiKey, Looks(r, k), Parses(k), Exists(k)
  PROVE  /\ sidecar[k] \in Sidecar /\ sidecar[k].etag \in Content
         /\ r \notin stirred' =>
              payload[k] = sidecar[k].etag /\ (DefaultSse => sidecar[k].sealed)
<1>1. sidecar[k] \in Sidecar /\ sidecar[k].etag \in Content
  BY DEF ApiInv, ApiTypeOK, StoreTypeOK, Sidecar, Exists
<1>2. r \notin stirred' => k \notin mixed
  BY DEF Looks
<1> QED BY <1>1, <1>2 DEF ApiInv, PairsMatch, Exists

LEMMA Conditional ==
  ASSUME NEW c, NEW m PROVE CheckConditions(c, m) \in {200, 304, 412}
BY DEF CheckConditions

LEMMA LooksSame ==
  ASSUME NEW r, NEW k, Looks(r, k) \/ LooksAgain(r, k)
  PROVE  Same /\ stirred \subseteq stirred' /\ (~Parses(k) => r \in stirred')
BY DEF Looks, LooksAgain

\* The whole of content b.
LEMMA WholeBody ==
  ASSUME NEW b \in Content, NEW e \in Content, NEW q, NEW st, q \notin st => e = b
  PROVE  LET a == [NoReply EXCEPT !.status = 200, !.etag = e, !.body = b,
                                  !.bytes = 0 .. Sizes[b] - 1]
         IN  a \in Reply /\ a.deleted = {} /\ a.failed = {} /\ Described(q, a, st)
<1> DEFINE a == [NoReply EXCEPT !.status = 200, !.etag = e, !.body = b,
                                !.bytes = 0 .. Sizes[b] - 1]
<1>1. Sizes[b] \in Nat
  BY ApiConstants
<1>2. /\ a \in Reply /\ a.deleted = {} /\ a.failed = {} /\ a.status = 200 /\ a.etag = e
      /\ a.body = b /\ a.bytes = 0 .. Sizes[b] - 1 /\ a.asked = NoRange
  <2> DEFINE all == 0 .. Sizes[b] - 1
  <2>1. all \in SUBSET Int
    BY <1>1
  <2>2. a = [NoReply EXCEPT !.status = 200, !.etag = e, !.body = b, !.bytes = all]
    OBVIOUS
  <2> HIDE DEF a, all
  <2>3. a \in Reply
    <3>1. a = [status |-> 200, etag |-> e, body |-> b, asked |-> NoRange, bytes |-> all,
               last |-> 0, keys |-> {}, deleted |-> {}, failed |-> {}]
      BY <2>2 DEF NoReply
    <3> QED BY <3>1, <2>1, ApiBlanks DEF Reply
  <2>4. /\ a.deleted = {} /\ a.failed = {} /\ a.status = 200 /\ a.etag = e
        /\ a.body = b /\ a.bytes = all /\ a.asked = NoRange
    BY <2>2 DEF NoReply
  <2> QED BY <2>3, <2>4 DEF all
<1>3. Selected(NoRange, b) = 0 .. Sizes[b] - 1
  BY DEF Selected, NoRange
<1> HIDE DEF a
<1>4. Described(q, a, st)
  BY <1>2, <1>3 DEF Described
<1> QED BY <1>2, <1>4 DEF a

LEMMA FreshCall ==
  ASSUME ApiInv, NEW r \in Request, call[r].pc = "new"
  PROVE  call[r] = NoCall /\ reply[r] = NoReply /\ call[r].op = "none" /\ call[r] \in Call
BY ApiBlanks DEF ApiInv, ApiTypeOK, Fits, Unanswered

LEMMA ApiGetWhole ==
  ASSUME ApiInv, NEW r \in Reader, NEW k \in ApiKey, NEW cond \in Conditions,
         GetWhole(r, k, cond)
  PROVE  ApiInv'
<1>1. r \in Request /\ call[r] = NoCall /\ reply[r] = NoReply /\ call[r].op = "none"
  BY FreshCall DEF Request, GetWhole
<1>2. /\ Looks(r, k) /\ Same /\ stirred \subseteq stirred' /\ r \notin Writer
      /\ ~Parses(k) => r \in stirred'
  BY LooksSame, ApiConstants DEF GetWhole
<1>3. CASE ~Parses(k) \/ ~Exists(k)
  <2>1. PICK e \in {404, 500} : Status(r, e) /\ (e = 500 => r \in stirred')
    BY <1>2, <1>3 DEF GetWhole
  <2> QED BY <1>1, <1>2, <2>1, ApiQuietStatus
<1>4. CASE Parses(k) /\ Exists(k)
  <2> DEFINE c == [NoCall EXCEPT !.pc = "open", !.op = "get", !.key = k, !.cond = cond,
                                 !.meta = sidecar[k]]
  <2>1. /\ sidecar[k] \in Sidecar /\ sidecar[k].etag \in Content
        /\ r \notin stirred' =>
             payload[k] = sidecar[k].etag /\ (DefaultSse => sidecar[k].sealed)
    BY <1>1, <1>2, <1>4, FirstLook
  <2>2. c \in Call /\ c.pc = "open" /\ c.op = "get" /\ c.key = k /\ c.meta = sidecar[k]
    <3>1. "open" \in Phases /\ "get" \in CallOps
      BY DEF Phases, CallOps
    <3>2. c \in Call
      BY <2>1, <3>1, ApiBlanks, CallFields
    <3> QED BY <3>2 DEF NoCall
  <2>3. call' = [call EXCEPT ![r] = c] /\ reply' = [reply EXCEPT ![r] = reply[r]]
    BY <1>1, <1>4 DEF GetWhole, Goes, ApiInv, ApiTypeOK
  <2> HIDE DEF c
  <2>4. Fits(r, c, NoReply, payload, stirred')
    BY <1>1, <1>2, <2>1, <2>2, ApiBlanks DEF Fits, Unanswered, Looked, Holds, Planned, Described
  <2> QED BY <1>1, <1>2, <2>2, <2>3, <2>4, ApiBlanks, ApiQuietStep
<1> QED BY <1>3, <1>4

LEMMA ApiHead ==
  ASSUME ApiInv, NEW r \in Reader, NEW k \in ApiKey, NEW cond \in Conditions,
         HeadObject(r, k, cond)
  PROVE  ApiInv'
<1> DEFINE m == sidecar[k]
           s == CheckConditions(cond, m)
           a == [NoReply EXCEPT !.status = 200, !.etag = m.etag, !.body = m.etag,
                                !.bytes = 0 .. Sizes[m.etag] - 1]
<1>1. /\ r \in Request /\ Same /\ stirred \subseteq stirred' /\ r \notin Writer
      /\ ~Parses(k) => r \in stirred'
  BY LooksSame, ApiConstants DEF Request, HeadObject
<1>2. s \in {200, 304, 412}
  BY Conditional
<1>3. CASE ~Parses(k) \/ ~Exists(k)
  <2>1. PICK e \in {404, 500} : Status(r, e) /\ (e = 500 => r \in stirred')
    BY <1>1, <1>3 DEF HeadObject
  <2> QED BY <1>1, <2>1, ApiQuietStatus
<1>4. CASE Parses(k) /\ Exists(k) /\ s # 200
  BY <1>1, <1>2, <1>4, ApiQuietStatus DEF HeadObject
<1>5. CASE Parses(k) /\ Exists(k) /\ s = 200
  <2>1. m.etag \in Content
    BY <1>5 DEF ApiInv, ApiTypeOK, StoreTypeOK, Sidecar, Exists
  <2>2. a \in Reply /\ Described(r, a, stirred')
    BY <2>1, WholeBody
  <2>3. Replies(r, a)
    BY <1>5 DEF HeadObject
  <2> HIDE DEF a
  <2> QED BY <1>1, <2>2, <2>3, ApiQuietAnswer
<1> QED BY <1>3, <1>4, <1>5

\* A range is planned on one look.
LEMMA PlannedRange ==
  ASSUME ApiInv, NEW r \in Reader, NEW k \in ApiKey, NEW g \in Ranges,
         NEW from \in Nat, NEW length \in Nat, from + length <= Sizes[sidecar[k].etag],
         from .. from + length - 1 = Selected(g, sidecar[k].etag),
         call[r].pc = "new", Parses(k), Exists(k), Looks(r, k),
         Goes(r, [call[r] EXCEPT !.pc = "open", !.op = "range", !.key = k, !.meta = sidecar[k],
                                 !.asked = g, !.range = [from |-> from, length |-> length]])
  PROVE  ApiInv'
<1> DEFINE c == [NoCall EXCEPT !.pc = "open", !.op = "range", !.key = k, !.meta = sidecar[k],
                               !.asked = g, !.range = [from |-> from, length |-> length]]
<1>1. r \in Request /\ call[r] = NoCall /\ reply[r] = NoReply
  BY FreshCall DEF Request
<1>2. Same /\ stirred \subseteq stirred' /\ r \notin Writer
  BY LooksSame, ApiConstants
<1>3. /\ sidecar[k] \in Sidecar /\ sidecar[k].etag \in Content
      /\ r \notin stirred' =>
           payload[k] = sidecar[k].etag /\ (DefaultSse => sidecar[k].sealed)
  BY <1>1, FirstLook
<1>4. g \in [kind : RangeKinds, from : Nat, to : Nat]
  BY ApiConstants
<1>5. c \in Call
  <2>1. [from |-> from, length |-> length] \in [from : Nat, length : Nat]
    OBVIOUS
  <2>2. "open" \in Phases /\ "range" \in CallOps
    BY DEF Phases, CallOps
  <2> QED BY <1>3, <1>4, <2>1, <2>2, ApiBlanks, CallFields
<1>6. /\ c.pc = "open" /\ c.op = "range" /\ c.key = k /\ c.meta = sidecar[k] /\ c.asked = g
      /\ c.range.from = from /\ c.range.length = length
  BY DEF NoCall
<1>7. call' = [call EXCEPT ![r] = c] /\ reply' = [reply EXCEPT ![r] = reply[r]]
  BY <1>1 DEF Goes, ApiInv, ApiTypeOK
<1> HIDE DEF c
<1>8. Fits(r, c, NoReply, payload, stirred')
  BY <1>2, <1>3, <1>6, ApiBlanks DEF Fits, Unanswered, Looked, Holds, Planned, Described
<1> QED BY <1>1, <1>2, <1>5, <1>6, <1>7, <1>8, ApiBlanks, ApiQuietStep

LEMMA ApiGetPart ==
  ASSUME ApiInv, NEW r \in Reader, NEW k \in ApiKey, NEW g \in Ranges, NEW cond \in Conditions,
         GetPart(r, k, g, cond)
  PROVE  ApiInv'
<1> DEFINE m == sidecar[k]
           s == CheckConditions(cond, m)
           span == IF g.kind = "part" THEN PartRange(m.etag, g.from)
                   ELSE Measured(ParseRange(g, Sizes[m.etag]))
           a == [NoReply EXCEPT !.status = IF g.kind = "part" THEN 400 ELSE 416,
                                !.asked = g, !.body = m.etag]
<1>1. r \in Request /\ call[r].pc = "new" /\ r \notin Writer /\ Looks(r, k)
  BY ApiConstants DEF Request, GetPart
<1>2. Same /\ stirred \subseteq stirred' /\ (~Parses(k) => r \in stirred')
  BY <1>1, LooksSame
<1>3. s \in {200, 304, 412}
  BY Conditional
<1>4. CASE ~Parses(k) \/ ~Exists(k)
  <2>1. PICK e \in {404, 500} : Status(r, e) /\ (e = 500 => r \in stirred')
    BY <1>2, <1>4 DEF GetPart
  <2> QED BY <1>1, <1>2, <2>1, ApiQuietStatus
<1>5. CASE Parses(k) /\ Exists(k) /\ g.kind # "part" /\ s # 200
  BY <1>1, <1>2, <1>3, <1>5, ApiQuietStatus DEF GetPart
<1>6. CASE Parses(k) /\ Exists(k) /\ ~(g.kind # "part" /\ s # 200)
  <2>1. m.etag \in Content
    BY <1>6 DEF ApiInv, ApiTypeOK, StoreTypeOK, Sidecar, Exists
  <2>2. /\ g.kind # "part" /\ span = <<>> => Selected(g, m.etag) = {}
        /\ Spans(span, g, m.etag)
    <3>1. CASE g.kind = "part"
      BY <2>1, <3>1, PartSpan
    <3>2. CASE g.kind # "part"
      <4> DEFINE e == m.etag
                 p == ParseRange(g, Sizes[e])
      <4>1. /\ p = <<>> => Selected(g, e) = {}
            /\ p # <<>> => /\ p[1] \in Nat /\ p[2] \in Int /\ p[2] < Sizes[e]
                          /\ p[1] <= p[2] /\ p[1] .. p[2] = Selected(g, e)
        BY <2>1, <3>2, ParsedRange
      <4>2. span = Measured(p) /\ e \in Content
        BY <2>1, <3>2
      <4> HIDE DEF p, e, span
      <4>3. Spans(span, g, e) /\ (span = <<>> <=> p = <<>>)
        BY <4>1, <4>2, MeasuredSpan
      <4> QED BY <4>1, <4>3 DEF e
    <3> QED BY <3>1, <3>2
  <2>3. g \in [kind : RangeKinds, from : Nat, to : Nat]
    BY ApiConstants
  <2>4. CASE span = <<>>
    <3>1. /\ a \in Reply /\ a.asked = g /\ a.body = m.etag
          /\ a.status = IF g.kind = "part" THEN 400 ELSE 416
      <4> DEFINE st == IF g.kind = "part" THEN 400 ELSE 416
                 e == m.etag
      <4>1. st \in Nat /\ e \in Content
        BY <2>1
      <4>2. a = [NoReply EXCEPT !.status = st, !.asked = g, !.body = e]
        OBVIOUS
      <4> HIDE DEF a, st, e
      <4>3. a = [status |-> st, etag |-> Nothing, body |-> e, asked |-> g, bytes |-> {},
                 last |-> 0, keys |-> {}, deleted |-> {}, failed |-> {}]
        BY <4>2 DEF NoReply
      <4>4. a \in Reply /\ a.asked = g /\ a.body = e /\ a.status = st
        BY <4>1, <4>3, <2>3 DEF Reply
      <4> QED BY <4>4 DEF st, e
    <3>2. Replies(r, a)
      BY <1>6, <2>4 DEF GetPart
    <3> HIDE DEF a
    <3>3. Described(r, a, stirred')
      BY <3>1, <2>2, <2>4 DEF Described
    <3> QED BY <1>1, <1>2, <3>1, <3>2, <3>3, ApiQuietAnswer
  <2>5. CASE span # <<>>
    <3> DEFINE from == span[1]
               length == span[2]
    <3>1. Goes(r, [call[r] EXCEPT !.pc = "open", !.op = "range", !.key = k, !.meta = m,
                     !.asked = g, !.range = [from |-> from, length |-> length]])
      BY <1>6, <2>5 DEF GetPart
    <3>2. /\ from \in Nat /\ length \in Nat /\ from + length <= Sizes[m.etag]
          /\ from .. from + length - 1 = Selected(g, m.etag)
      BY <2>2, <2>5 DEF Spans
    <3> HIDE DEF span, from, length
    <3> QED BY <1>1, <1>6, <3>1, <3>2, PlannedRange
  <2> QED BY <2>4, <2>5
<1> QED BY <1>4, <1>5, <1>6

LEMMA ApiStartPartCopy ==
  ASSUME ApiInv, NEW r \in Reader, NEW k \in ApiKey, NEW g \in Ranges, StartPartCopy(r, k, g)
  PROVE  ApiInv'
<1> DEFINE m == sidecar[k]
           p == ParseCopyRange(g, Sizes[m.etag])
           span == Measured(p)
<1>1. r \in Request /\ call[r].pc = "new" /\ r \notin Writer /\ Looks(r, k)
  BY ApiConstants DEF Request, StartPartCopy
<1>2. Same /\ stirred \subseteq stirred' /\ (~Parses(k) => r \in stirred')
  BY <1>1, LooksSame
<1>3. CASE ~Parses(k) \/ ~Exists(k)
  <2>1. PICK e \in {404, 500} : Status(r, e) /\ (e = 500 => r \in stirred')
    BY <1>2, <1>3 DEF StartPartCopy
  <2> QED BY <1>1, <1>2, <2>1, ApiQuietStatus
<1>4. CASE Parses(k) /\ Exists(k) /\ span = <<>>
  BY <1>1, <1>2, <1>4, ApiQuietStatus DEF StartPartCopy
<1>5. CASE Parses(k) /\ Exists(k) /\ span # <<>>
  <2> DEFINE from == span[1]
             length == span[2]
             e == m.etag
  <2>1. e \in Content
    BY <1>5 DEF ApiInv, ApiTypeOK, StoreTypeOK, Sidecar, Exists
  <2>2. p # <<>> => /\ p[1] \in Nat /\ p[2] \in Int /\ p[2] < Sizes[e]
                   /\ p[1] <= p[2] /\ p[1] .. p[2] = Selected(g, e)
    BY <2>1, ParsedCopyRange
  <2>3. Goes(r, [call[r] EXCEPT !.pc = "open", !.op = "range", !.key = k, !.meta = sidecar[k],
                   !.asked = g, !.range = [from |-> from, length |-> length]])
    BY <1>5 DEF StartPartCopy
  <2> HIDE DEF p, e
  <2>4. Spans(span, g, e)
    BY <2>1, <2>2, MeasuredSpan
  <2>5. /\ from \in Nat /\ length \in Nat /\ from + length <= Sizes[e]
        /\ from .. from + length - 1 = Selected(g, e)
    BY <1>5, <2>4 DEF Spans
  <2> HIDE DEF from, length, span
  <2> QED BY <1>1, <1>5, <2>3, <2>5, PlannedRange DEF e
<1> QED BY <1>3, <1>4, <1>5

LEMMA ApiOpenWhole == ASSUME ApiInv, NEW r \in Reader, OpenWhole(r) PROVE ApiInv'
<1> DEFINE c == call[r]
           b == payload[c.key]
           s == CheckConditions(c.cond, c.meta)
           a == [NoReply EXCEPT !.status = 200, !.etag = c.meta.etag, !.body = b,
                                !.bytes = 0 .. Sizes[b] - 1]
<1>1. r \in Request /\ Same /\ stirred' = stirred /\ r \notin Writer
  BY ApiConstants DEF Request, OpenWhole, Unstirred
<1>2. s \in {200, 304, 412}
  BY Conditional
<1>3. /\ c \in Call /\ c.pc = "open" /\ Fits(r, c, reply[r], payload, stirred)
      /\ b \in Content \union {Nothing}
  BY <1>1 DEF ApiInv, ApiTypeOK, StoreTypeOK, OpenWhole, Call
<1>4. c.meta.etag \in Content /\ (r \notin stirred' => c.meta.etag = b)
  BY <1>1, <1>3 DEF Fits, Looked
<1>5. CASE b = Nothing
  BY <1>1, <1>5, ApiQuietStatus DEF OpenWhole
<1>6. CASE b # Nothing /\ s # 200
  BY <1>1, <1>2, <1>6, ApiQuietStatus DEF OpenWhole
<1>7. CASE b # Nothing /\ s = 200
  <2>1. a \in Reply /\ Described(r, a, stirred')
    <3>1. b \in Content
      BY <1>3, <1>7
    <3> DEFINE e == c.meta.etag
    <3>2. e \in Content /\ (r \notin stirred' => e = b)
      BY <1>4
    <3>3. a = [NoReply EXCEPT !.status = 200, !.etag = e, !.body = b,
                              !.bytes = 0 .. Sizes[b] - 1]
      OBVIOUS
    <3> HIDE DEF a, b, e
    <3> QED BY <3>1, <3>2, <3>3, WholeBody
  <2>2. Replies(r, a)
    BY <1>7 DEF OpenWhole
  <2> HIDE DEF a
  <2> QED BY <1>1, <2>1, <2>2, ApiQuietAnswer
<1> QED BY <1>5, <1>6, <1>7

LEMMA ApiReadRange == ASSUME ApiInv, NEW r \in Reader, ReadRange(r) PROVE ApiInv'
<1> DEFINE c == call[r]
           b == payload[c.key]
           f == c.range.from
           n == c.range.length
           B == f .. (f + n) - 1
           z == LastByte(f, n)
           a == [NoReply EXCEPT !.status = 206, !.etag = c.meta.etag, !.body = b,
                                !.asked = c.asked, !.bytes = B, !.last = z]
<1>1. /\ r \in Request /\ Same /\ stirred \subseteq stirred' /\ r \notin Writer
      /\ ~Parses(c.key) => r \in stirred'
  BY LooksSame, ApiConstants DEF Request, ReadRange
<1>3. /\ c \in Call /\ c.pc = "open" /\ c.op = "range" /\ b \in Content \union {Nothing}
      /\ Fits(r, c, reply[r], payload, stirred)
  BY <1>1 DEF ApiInv, ApiTypeOK, StoreTypeOK, ReadRange, Call
<1>4. /\ c.meta.etag \in Content /\ (r \notin stirred' => c.meta.etag = b)
      /\ f \in Nat /\ n \in Nat /\ f + n <= Sizes[c.meta.etag]
      /\ B = Selected(c.asked, c.meta.etag)
  <2>1. f \in Nat /\ n \in Nat /\ f .. f + n - 1 = f .. (f + n) - 1
    BY <1>3 DEF Call
  <2> QED BY <1>1, <1>3, <2>1 DEF Fits, Looked, Planned
<1>5. CASE ~Parses(c.key) \/ b = Nothing \/ ~Exists(c.key)
  <2>1. PICK e \in {404, 500} : Status(r, e) /\ (e = 500 => r \in stirred')
    BY <1>1, <1>5 DEF ReadRange
  <2> QED BY <1>1, <2>1, ApiQuietStatus
<1>6. CASE Parses(c.key) /\ b \in Content /\ Exists(c.key) /\ n > 0 /\ f + n > Sizes[b]
  <2>1. r \in stirred'
    <3>1. Sizes[b] \in Nat
      BY <1>6, ApiConstants
    <3> QED BY <1>4, <1>6, <3>1
  <2>2. Replies(r, [NoReply EXCEPT !.status = 500])
    BY <1>6, ApiConstants DEF ReadRange, Status, Nothing
  <2> DEFINE d == [NoReply EXCEPT !.status = 500]
  <2>3. d \in Reply /\ d.status = 500
    BY StatusReply
  <2>4. Described(r, d, stirred')
    BY <2>1, <2>3 DEF Described
  <2> HIDE DEF d
  <2> QED BY <1>1, <2>2, <2>3, <2>4, ApiQuietAnswer DEF d
<1>7. CASE Parses(c.key) /\ b \in Content /\ Exists(c.key) /\ ~(n > 0 /\ f + n > Sizes[b])
  <2>1. /\ B \in SUBSET Int /\ B \subseteq 0 .. Sizes[b] - 1 /\ z \in Int
        /\ B # {} => z \in B /\ \A x \in B : x <= z
    <3>1. Sizes[b] \in Nat /\ OffsetLimit \in Nat
      BY <1>7, ApiConstants, ApiAssumption
    <3>2. z = IF f + n = 0 THEN OffsetLimit - 1 ELSE f + n - 1
      BY DEF LastByte
    <3>3. f \in Nat /\ n \in Nat
      BY <1>4
    <3> HIDE DEF f, n, z
    <3>4. n = 0 \/ f + n <= Sizes[b]
      BY <1>7, <3>1, <3>3
    <3> HIDE DEF b
    <3>5. z \in Int /\ (B # {} => z = f + n - 1 /\ f <= z)
      BY <3>1, <3>2, <3>3
    <3> QED BY <3>1, <3>3, <3>4, <3>5
  <2>2. Replies(r, a)
    <3>1. b # Nothing
      BY <1>7, ApiConstants DEF Nothing
    <3> QED BY <1>7, <3>1 DEF ReadRange
  <2> HIDE DEF B, z
  <2>3. a \in Reply
    <3>1. c.asked \in [kind : RangeKinds, from : Nat, to : Nat]
      BY <1>3 DEF Call
    <3> DEFINE e == c.meta.etag
               g == c.asked
    <3>2. e \in Content /\ b \in Content /\ B \in SUBSET Int /\ z \in Int
      BY <1>4, <1>7, <2>1
    <3>3. a = [NoReply EXCEPT !.status = 206, !.etag = e, !.body = b, !.asked = g, !.bytes = B,
                              !.last = z]
      OBVIOUS
    <3> HIDE DEF a, b, e, g
    <3>4. a = [status |-> 206, etag |-> e, body |-> b, asked |-> g, bytes |-> B, last |-> z,
               keys |-> {}, deleted |-> {}, failed |-> {}]
      BY <3>3 DEF NoReply
    <3> QED BY <3>2, <3>4, <3>1 DEF Reply, g
  <2>4. /\ a.status = 206 /\ a.etag = c.meta.etag /\ a.body = b /\ a.asked = c.asked
        /\ a.bytes = B /\ a.last = z
    BY DEF NoReply
  <2> HIDE DEF a
  <2>5. Described(r, a, stirred')
    BY <1>4, <2>1, <2>4 DEF Described
  <2> QED BY <1>1, <2>2, <2>3, <2>5, ApiQuietAnswer
<1> QED BY <1>3, <1>5, <1>6, <1>7

\* Replacing or removing an object stirs whoever has looked at it.
LEMMA Replaced ==
  ASSUME ApiInv, NEW k \in ApiKey, NEW e \in Content \union {Nothing}, NEW m \in Sidecar,
         m.etag = e, DefaultSse /\ e # Nothing => m.sealed,
         payload' = [payload EXCEPT ![k] = e], sidecar' = [sidecar EXCEPT ![k] = m],
         Stirs(k), NEW r \in Request, NEW c \in Call, call' = [call EXCEPT ![r] = c],
         c.pc # "fill", call[r].pc # "fill"
  PROVE  /\ StoreTypeOK' /\ PairsMatch' /\ Intact' /\ stirred \subseteq stirred'
         /\ \A q \in Request : call[q].pc \in {"open", "amend", "fill"} /\ q \notin stirred' =>
              payload'[call[q].key] = payload[call[q].key]
<1>1. /\ StoreTypeOK' /\ payload'[k] = e /\ sidecar'[k] = m /\ text'[k] = "whole"
      /\ \A j \in ApiKey \ {k} : /\ payload'[j] = payload[j] /\ sidecar'[j] = sidecar[j]
                               /\ text'[j] = text[j]
  BY DEF ApiInv, ApiTypeOK, StoreTypeOK, Stirs
<1>2. PairsMatch'
  <2>1. mixed' = mixed \ {k}
    BY DEF Stirs
  <2> QED BY <1>1, <2>1 DEF ApiInv, PairsMatch, Exists, Parses
<1>4. call'[r] = c /\ \A q \in Request \ {r} : call'[q] = call[q]
  BY DEF ApiInv, ApiTypeOK
<1>5. /\ Filling(k)' = {}
      /\ \A j \in ApiKey \ {k} : Filling(j)' = Filling(j)
  <2>1. orphan' = orphan \union Filling(k)
    BY DEF Stirs
  <2> QED BY <1>4, <2>1 DEF Filling, Request
<1>6. Intact'
  <2>1. worn' = worn \ {k} /\ orphan' = orphan \union Filling(k)
    BY DEF Stirs
  <2>2. Detached'
    BY <1>4, <2>1 DEF ApiInv, Intact, Detached, Filling, Request
  <2> QED BY <1>1, <1>5, <2>1, <2>2 DEF ApiInv, Intact, OneFiller
<1>3. \A q \in Request : call[q].pc \in {"open", "amend", "fill"} /\ q \notin stirred' =>
        call[q].key \in ApiKey \ {k}
  BY DEF ApiInv, ApiTypeOK, Call, Stirs
<1> QED BY <1>1, <1>2, <1>3, <1>6 DEF Stirs

LEMMA StoredPair ==
  ASSUME ApiInv, NEW r \in Request, NEW k \in ApiKey, NEW e \in Content,
         NEW sealed \in BOOLEAN, DefaultSse => sealed, Stores(r, k, e, sealed),
         NEW c \in Call, call' = [call EXCEPT ![r] = c], c.pc # "fill", call[r].pc # "fill"
  PROVE  /\ StoreTypeOK' /\ PairsMatch' /\ Intact' /\ stirred \subseteq stirred'
         /\ \A q \in Request : call[q].pc \in {"open", "amend", "fill"} /\ q \notin stirred' =>
              payload'[call[q].key] = payload[call[q].key]
<1> DEFINE m == [NoSidecar EXCEPT !.etag = e, !.sealed = sealed]
<1>1. m \in Sidecar /\ m.etag = e /\ m.sealed = sealed
  BY DEF NoSidecar, Sidecar
<1>2. /\ payload' = [payload EXCEPT ![k] = e] /\ sidecar' = [sidecar EXCEPT ![k] = m]
      /\ Stirs(k)
  BY DEF Stores
<1> HIDE DEF m
<1> QED BY <1>1, <1>2, Replaced

LEMMA RemovedPair ==
  ASSUME ApiInv, NEW k \in ApiKey, Removes(k), NEW r \in Request, NEW c \in Call,
         call' = [call EXCEPT ![r] = c], c.pc # "fill", call[r].pc # "fill"
  PROVE  /\ StoreTypeOK' /\ PairsMatch' /\ Intact' /\ stirred \subseteq stirred'
         /\ \A q \in Request : call[q].pc \in {"open", "amend", "fill"} /\ q \notin stirred' =>
              payload'[call[q].key] = payload[call[q].key]
<1>1. NoSidecar \in Sidecar /\ NoSidecar.etag = Nothing
  BY ApiBlanks DEF NoSidecar
<1>2. /\ payload' = [payload EXCEPT ![k] = Nothing] /\ sidecar' = [sidecar EXCEPT ![k] = NoSidecar]
      /\ Stirs(k)
  BY DEF Removes
<1> QED BY <1>1, <1>2, Replaced

\* A request for a change goes on without an answer.
LEMMA WriterGoes ==
  ASSUME ApiInv, NEW r \in Writer, NEW c \in Call, Goes(r, c), Same, stirred \subseteq stirred',
         reply[r] = NoReply, c.pc \notin {"new", "open", "fill", "batch", "done"}, c.op # "batch",
         call[r].pc # "fill",
         Looked(r, c, payload, stirred'), Holds(c)
  PROVE  ApiInv'
<1>1. r \in Request /\ r \notin Reader
  BY ApiConstants DEF Request
<1>2. call' = [call EXCEPT ![r] = c] /\ reply' = [reply EXCEPT ![r] = reply[r]]
  BY <1>1 DEF Goes, ApiInv, ApiTypeOK
<1>3. Fits(r, c, NoReply, payload, stirred')
  BY <1>1, ApiBlanks DEF Fits, Unanswered, Counted
<1> QED BY <1>1, <1>2, <1>3, ApiBlanks, ApiQuietStep

LEMMA WriterFits ==
  ASSUME ApiInv, NEW r \in Writer
  PROVE  /\ r \in Request /\ r \notin Reader /\ call[r] \in Call /\ reply[r] \in Reply
         /\ Fits(r, call[r], reply[r], payload, stirred)
         /\ call[r].pc \notin {"batch", "done"} => call[r].op # "batch" /\ reply[r] = NoReply
         /\ call[r].pc = "new" => call[r] = NoCall
BY ApiConstants DEF Request, ApiInv, ApiTypeOK, Fits, Unanswered, Counted

LEMMA ApiStartPut ==
  ASSUME ApiInv, NEW r \in Writer, NEW k \in ApiKey, NEW e \in Content, NEW asked \in BOOLEAN,
         StartPut(r, k, e, asked)
  PROVE  ApiInv'
<1> DEFINE sealed == asked \/ DefaultSse
           c == [NoCall EXCEPT !.pc = "check", !.op = "put", !.key = k, !.to = k, !.body = e,
                               !.sealed = sealed]
<1>1. call[r] = NoCall /\ reply[r] = NoReply /\ call[r].pc = "new"
  BY WriterFits DEF StartPut
<1>2. sealed \in BOOLEAN /\ (DefaultSse => sealed)
  OBVIOUS
<1>3. Goes(r, c) /\ Same /\ stirred' = stirred
  BY <1>1 DEF StartPut, Unstirred
<1> HIDE DEF sealed
<1>4. "check" \in Phases /\ "put" \in CallOps
  BY DEF Phases, CallOps
<1>5. c \in Call
  BY <1>2, <1>4, ApiBlanks, CallFields
<1>6. c.pc = "check" /\ c.op = "put" /\ c.body = e /\ c.sealed = sealed
  BY DEF NoCall
<1> HIDE DEF c
<1> QED BY <1>1, <1>2, <1>3, <1>5, <1>6, WriterGoes DEF Looked, Holds

LEMMA ApiStartCopy ==
  ASSUME ApiInv, NEW r \in Writer, NEW k \in ApiKey, NEW to \in ApiKey, StartCopy(r, k, to)
  PROVE  ApiInv'
<1>1. /\ call[r] = NoCall /\ reply[r] = NoReply /\ Same /\ stirred' = stirred
      /\ r \in Request /\ r \notin Reader /\ call[r].op # "batch" /\ call[r].pc = "new"
  BY WriterFits DEF StartCopy, Unstirred
<1>2. CASE ~Parses(k) \/ ~Exists(k)
  <2>1. PICK e \in {404, 500} : Status(r, e)
    BY <1>2 DEF StartCopy
  <2> QED BY <1>1, <2>1, ApiQuietStatus
<1>3. CASE Parses(k) /\ Exists(k)
  <2> DEFINE c == [NoCall EXCEPT !.pc = "source", !.op = "copy", !.key = k, !.to = to,
                                 !.meta = sidecar[k]]
  <2>1. Goes(r, c)
    BY <1>1, <1>3 DEF StartCopy
  <2>2. "source" \in Phases /\ "copy" \in CallOps /\ sidecar[k] \in Sidecar
    BY DEF Phases, CallOps, ApiInv, ApiTypeOK, StoreTypeOK
  <2>3. c \in Call
    BY <2>2, ApiBlanks, CallFields
  <2>4. c.pc = "source" /\ c.op = "copy"
    BY DEF NoCall
  <2> HIDE DEF c
  <2> QED BY <1>1, <2>1, <2>3, <2>4, WriterGoes DEF Looked, Holds
<1> QED BY <1>2, <1>3

LEMMA ApiStartAmend ==
  ASSUME ApiInv, NEW r \in Writer, NEW k \in ApiKey, NEW what \in {"tag", "untag", "lock"},
         StartAmend(r, k, what)
  PROVE  ApiInv'
<1>1. /\ call[r] = NoCall /\ reply[r] = NoReply /\ Looks(r, k)
      /\ r \in Request /\ r \notin Reader /\ call[r].op # "batch" /\ call[r].pc = "new"
  BY WriterFits DEF StartAmend
<1>2. Same /\ stirred \subseteq stirred'
  BY <1>1, LooksSame
<1>3. CASE ~Parses(k) \/ ~Exists(k)
  <2>1. PICK e \in {404, 500} : Status(r, e)
    BY <1>3 DEF StartAmend
  <2> QED BY <1>1, <1>2, <2>1, ApiQuietStatus
<1>4. CASE Parses(k) /\ Exists(k)
  <2> DEFINE c == [NoCall EXCEPT !.pc = "amend", !.op = what, !.key = k, !.meta = sidecar[k]]
  <2>1. Goes(r, c)
    BY <1>1, <1>4 DEF StartAmend
  <2>2. /\ sidecar[k] \in Sidecar /\ sidecar[k].etag \in Content
        /\ r \notin stirred' =>
             payload[k] = sidecar[k].etag /\ (DefaultSse => sidecar[k].sealed)
    BY <1>1, <1>4, FirstLook
  <2>3. "amend" \in Phases /\ what \in CallOps /\ what # "batch"
    BY DEF Phases, CallOps
  <2>4. c \in Call
    BY <2>2, <2>3, ApiBlanks, CallFields
  <2>5. c.pc = "amend" /\ c.op = what /\ c.key = k /\ c.meta = sidecar[k]
    BY DEF NoCall
  <2> HIDE DEF c
  <2>6. Looked(r, c, payload, stirred') /\ Holds(c)
    BY <2>2, <2>5 DEF Looked, Holds
  <2> QED BY <1>1, <1>2, <2>1, <2>3, <2>4, <2>5, <2>6, WriterGoes
<1> QED BY <1>3, <1>4

\* A change and its answer in one step.
LEMMA ApiChangeAnswer ==
  ASSUME ApiInv, NEW r \in Writer, NEW a \in Reply, Replies(r, a), a.deleted = {}, a.failed = {},
         call[r].op # "batch",
         StoreTypeOK', PairsMatch', Intact', stirred \subseteq stirred',
         \A q \in Request \ {r} : call[q].pc \in {"open", "amend", "fill"} /\ q \notin stirred' =>
           payload'[call[q].key] = payload[call[q].key]
  PROVE  ApiInv'
<1> DEFINE done == [NoCall EXCEPT !.pc = "done", !.op = call[r].op]
<1>1. r \in Request /\ r \notin Reader
  BY WriterFits
<1>2. done \in Call /\ done.pc = "done" /\ Fits(r, done, a, payload', stirred')
  BY <1>1, DoneFits
<1>3. call' = [call EXCEPT ![r] = done] /\ reply' = [reply EXCEPT ![r] = a]
  BY DEF Replies
<1> HIDE DEF done
<1> QED BY <1>1, <1>2, <1>3, ApiStep

LEMMA DoneCall ==
  ASSUME ApiInv, NEW r \in Request, NEW a, Replies(r, a)
  PROVE  \E c \in Call : c.pc # "fill" /\ call' = [call EXCEPT ![r] = c]
<1> DEFINE done == [NoCall EXCEPT !.pc = "done", !.op = call[r].op]
<1>1. done \in Call /\ done.pc = "done"
  BY ApiBlanks DEF ApiInv, ApiTypeOK, Call, Phases
<1>2. call' = [call EXCEPT ![r] = done]
  BY DEF Replies
<1> HIDE DEF done
<1> QED BY <1>1, <1>2

LEMMA ApiDelete ==
  ASSUME ApiInv, NEW r \in Writer, NEW k \in ApiKey, DeleteObject(r, k) PROVE ApiInv'
<1>1. r \in Request /\ r \notin Reader /\ call[r].op # "batch" /\ call[r].pc = "new"
  BY WriterFits DEF DeleteObject
<1>2. CASE k \in Denied \/ ~Parses(k) \/ sidecar[k].locked
  <2>1. PICK e \in {403, 500} : Status(r, e) /\ Unstirred
    BY <1>2 DEF DeleteObject
  <2> QED BY <1>1, <2>1, ApiQuietStatus DEF Unstirred
<1>3. CASE ~(k \in Denied \/ ~Parses(k) \/ sidecar[k].locked)
  <2> DEFINE a == [NoReply EXCEPT !.status = 204]
  <2>1. Replies(r, a) /\ Removes(k)
    BY <1>3 DEF DeleteObject, Status
  <2>2. a \in Reply /\ a.deleted = {} /\ a.failed = {}
    BY StatusReply
  <2> HIDE DEF a
  <2>3. /\ StoreTypeOK' /\ PairsMatch' /\ Intact' /\ stirred \subseteq stirred'
        /\ \A q \in Request : call[q].pc \in {"open", "amend", "fill"} /\ q \notin stirred' =>
             payload'[call[q].key] = payload[call[q].key]
    <3>1. PICK c \in Call : c.pc # "fill" /\ call' = [call EXCEPT ![r] = c]
      BY <1>1, <2>1, DoneCall
    <3> QED BY <1>1, <2>1, <3>1, RemovedPair
  <2> QED BY <1>1, <2>1, <2>2, <2>3, ApiChangeAnswer
<1> QED BY <1>2, <1>3

LEMMA ApiOpenSource == ASSUME ApiInv, NEW r \in Writer, OpenSource(r) PROVE ApiInv'
<1> DEFINE b == payload[call[r].key]
<1>1. /\ r \in Request /\ r \notin Reader /\ call[r].op # "batch" /\ reply[r] = NoReply
      /\ call[r] \in Call /\ Same /\ stirred' = stirred /\ call[r].pc = "source"
  BY WriterFits DEF OpenSource, Unstirred
<1>2. b \in Content \union {Nothing}
  BY <1>1 DEF ApiInv, ApiTypeOK, StoreTypeOK, Call
<1>3. CASE b = Nothing
  BY <1>1, <1>3, ApiQuietStatus DEF OpenSource
<1>4. CASE b # Nothing
  <2> DEFINE c == [call[r] EXCEPT !.pc = "check", !.body = b, !.sealed = DefaultSse]
  <2>1. Goes(r, c) /\ b \in Content
    BY <1>2, <1>4 DEF OpenSource
  <2> HIDE DEF b
  <2>2. "check" \in Phases /\ DefaultSse \in BOOLEAN
    BY ApiConstants DEF Phases
  <2>3. c \in Call
    BY <1>1, <2>1, <2>2, CallFields
  <2>4. c.pc = "check" /\ c.op = call[r].op /\ c.body = b /\ c.sealed = DefaultSse
    BY <1>1 DEF Call
  <2> HIDE DEF c
  <2> QED BY <1>1, <2>1, <2>3, <2>4, WriterGoes DEF Looked, Holds
<1> QED BY <1>3, <1>4

LEMMA ApiCheckOverwrite == ASSUME ApiInv, NEW r \in Writer, CheckOverwrite(r) PROVE ApiInv'
<1> DEFINE c == call[r]
           d == [c EXCEPT !.pc = "store"]
<1>1. /\ r \in Request /\ r \notin Reader /\ c.op # "batch" /\ reply[r] = NoReply
      /\ c \in Call /\ c.pc = "check" /\ Fits(r, c, reply[r], payload, stirred)
      /\ Same /\ stirred' = stirred
  BY WriterFits DEF CheckOverwrite, Unstirred
<1>2. CASE ~Parses(c.to) \/ sidecar[c.to].locked
  <2>1. PICK e \in {403, 500} : Status(r, e)
    BY <1>2 DEF CheckOverwrite
  <2> QED BY <1>1, <2>1, ApiQuietStatus
<1>3. CASE ~(~Parses(c.to) \/ sidecar[c.to].locked)
  <2>1. Goes(r, d)
    BY <1>3 DEF CheckOverwrite
  <2>2. d \in Call /\ d.pc = "store" /\ d.op = c.op /\ d.body = c.body /\ d.sealed = c.sealed
    BY <1>1 DEF Call, Phases
  <2> HIDE DEF d
  <2>3. Looked(r, d, payload, stirred') /\ Holds(d)
    BY <1>1, <2>2 DEF Fits, Looked, Holds
  <2> QED BY <1>1, <2>1, <2>2, <2>3, WriterGoes
<1> QED BY <1>2, <1>3

LEMMA ApiStore == ASSUME ApiInv, NEW r \in Writer, Store(r) PROVE ApiInv'
<1> DEFINE c == call[r]
           b == c.body
<1>1. /\ r \in Request /\ r \notin Reader /\ c.op # "batch" /\ reply[r] = NoReply
      /\ c \in Call /\ c.pc = "store" /\ Fits(r, c, reply[r], payload, stirred)
  BY WriterFits DEF Store
<1>2. /\ b \in Content /\ (DefaultSse => c.sealed) /\ c.sealed \in BOOLEAN /\ c.to \in ApiKey
  BY <1>1 DEF Fits, Holds, Call
<1>3. CASE ~WithinQuota(b)
  BY <1>1, <1>3, ApiQuietStatus DEF Store, Unstirred
<1>4. CASE WithinQuota(b)
  <2>1. Stores(r, c.to, b, c.sealed)
    BY <1>4 DEF Store
  <2>2. ASSUME NEW d \in Call, call' = [call EXCEPT ![r] = d], d.pc # "fill"
        PROVE  /\ StoreTypeOK' /\ PairsMatch' /\ Intact' /\ stirred \subseteq stirred'
               /\ \A q \in Request :
                    call[q].pc \in {"open", "amend", "fill"} /\ q \notin stirred' =>
                      payload'[call[q].key] = payload[call[q].key]
    BY <1>1, <1>2, <2>1, <2>2, StoredPair
  <2>3. CASE c.op = "copy"
    <3> DEFINE d == [c EXCEPT !.pc = "head"]
    <3>1. call' = [call EXCEPT ![r] = d] /\ reply' = [reply EXCEPT ![r] = reply[r]]
      BY <1>1, <1>4, <2>3 DEF Store, Goes, ApiInv, ApiTypeOK
    <3>2. /\ d \in Call /\ d.pc = "head" /\ d.op = c.op /\ d.body = b /\ d.sealed = c.sealed
      BY <1>1 DEF Call, Phases
    <3> HIDE DEF d
    <3>3. Fits(r, d, NoReply, payload', stirred')
      BY <1>1, <1>2, <3>2, ApiBlanks DEF Fits, Unanswered, Looked, Holds, Counted
    <3> QED BY <1>1, <2>2, <3>1, <3>2, <3>3, ApiBlanks, ApiStep
  <2>4. CASE c.op # "copy"
    <3> DEFINE a == [NoReply EXCEPT !.status = 200, !.etag = b, !.body = b,
                                    !.bytes = 0 .. Sizes[b] - 1]
    <3>1. Replies(r, a)
      BY <1>4, <2>4 DEF Store
    <3>2. a \in Reply /\ a.deleted = {} /\ a.failed = {}
      <4> HIDE DEF b
      <4> QED BY <1>2, WholeBody
    <3> HIDE DEF a
    <3>3. PICK d \in Call : d.pc # "fill" /\ call' = [call EXCEPT ![r] = d]
      BY <1>1, <3>1, DoneCall
    <3> QED BY <1>1, <2>2, <3>1, <3>2, <3>3, ApiChangeAnswer
  <2> QED BY <2>3, <2>4
<1> QED BY <1>3, <1>4

LEMMA ApiHeadCopy == ASSUME ApiInv, NEW r \in Writer, HeadCopy(r) PROVE ApiInv'
<1> DEFINE c == call[r]
           b == c.body
           a == [NoReply EXCEPT !.status = 200, !.etag = b, !.body = b,
                                !.bytes = 0 .. Sizes[b] - 1]
<1>1. /\ r \in Request /\ r \notin Reader /\ c.op # "batch" /\ Same /\ stirred' = stirred
      /\ c.pc = "head" /\ Fits(r, c, reply[r], payload, stirred)
  BY WriterFits DEF HeadCopy, Unstirred
<1>2. CASE ~Parses(c.to) \/ ~Exists(c.to)
  BY <1>1, <1>2, ApiQuietStatus DEF HeadCopy
<1>3. CASE ~(~Parses(c.to) \/ ~Exists(c.to))
  <2>1. b \in Content
    BY <1>1 DEF Fits, Holds
  <2>2. Replies(r, a)
    BY <1>3 DEF HeadCopy
  <2>3. a \in Reply /\ a.deleted = {} /\ a.failed = {}
    <3> HIDE DEF b
    <3> QED BY <2>1, WholeBody
  <2> HIDE DEF a
  <2> QED BY <1>1, <2>2, <2>3, ApiQuietAnswer
<1> QED BY <1>2, <1>3

\* A request opens and cuts the sidecar; if another one has it open it is worn.
LEMMA ApiCutSidecar == ASSUME ApiInv, NEW r \in Writer, CutSidecar(r) PROVE ApiInv'
<1>0. PICK k \in ApiKey : k = call[r].key
  BY WriterFits DEF Call
<1> DEFINE c == call[r]
           d == [c EXCEPT !.pc = "fill"]
<1>1. /\ r \in Request /\ r \notin Reader /\ c.op # "batch" /\ c \in Call /\ c.pc = "amend"
      /\ Fits(r, c, reply[r], payload, stirred) /\ reply[r] = NoReply
  BY WriterFits DEF CutSidecar, Call
<1>2. /\ text' = [text EXCEPT ![k] = "cut"] /\ UNCHANGED <<payload, sidecar, orphan, mixed, stirred>>
      /\ worn' = IF Filling(k) # {} THEN worn \union {k} ELSE worn
      /\ call' = [call EXCEPT ![r] = d] /\ reply' = [reply EXCEPT ![r] = reply[r]]
  BY <1>0, <1>1 DEF CutSidecar, Goes, ApiInv, ApiTypeOK
<1>3. d \in Call /\ d.pc = "fill" /\ d.op = c.op /\ d.key = k /\ d.meta = c.meta
  BY <1>0, <1>1 DEF Call, Phases
<1> HIDE DEF d
<1>4. /\ StoreTypeOK' /\ text'[k] = "cut"
      /\ \A j \in ApiKey \ {k} : text'[j] = text[j]
      /\ call'[r] = d /\ \A q \in Request \ {r} : call'[q] = call[q]
  BY <1>1, <1>2 DEF ApiInv, ApiTypeOK, StoreTypeOK
<1>5. PairsMatch'
  BY <1>1, <1>2, <1>4 DEF ApiInv, PairsMatch, Exists, Parses
<1>6. r \notin orphan
  BY <1>1 DEF ApiInv, Intact, Detached
<1>7. /\ Filling(k)' = Filling(k) \union {r}
      /\ \A j \in ApiKey \ {k} : Filling(j)' = Filling(j)
  <2>1. \A q \in Writer \ {r} : call'[q] = call[q]
    BY <1>4 DEF Request
  <2>2. call[r].pc # "fill" /\ call'[r].pc = "fill" /\ call'[r].key = k /\ orphan' = orphan
    BY <1>1, <1>2, <1>3, <1>4
  <2> QED BY <1>6, <2>1, <2>2 DEF Filling
<1>8. Intact'
  <2>1. ASSUME NEW j \in ApiKey \ worn' PROVE OneFiller(j)'
    <3>1. CASE j # k
      BY <1>2, <1>4, <1>7, <2>1, <3>1 DEF ApiInv, Intact, OneFiller
    <3>2. CASE j = k
      <4>1. Filling(k) = {}
        BY <1>1, <1>2, <2>1, <3>2
      <4>2. Filling(k)' = {r}
        BY <1>7, <4>1
      <4>3. text'[j] = "cut" /\ Filling(j)' = {r}
        BY <1>4, <3>2, <4>2
      <4> QED BY <4>3 DEF OneFiller
    <3> QED BY <3>1, <3>2
  <2>2. Detached'
    BY <1>1, <1>2, <1>4, <1>6 DEF ApiInv, Intact, Detached, Request
  <2> QED BY <2>1, <2>2 DEF Intact
<1>9. Fits(r, d, NoReply, payload', stirred')
  BY <1>0, <1>1, <1>2, <1>3, ApiBlanks DEF Fits, Unanswered, Looked, Holds, Counted
<1> QED BY <1>1, <1>2, <1>3, <1>4, <1>5, <1>8, <1>9, ApiBlanks, ApiStep

\* The end of a request for tags or a lock that has the sidecar of its key open.
LEMMA FillEnds ==
  ASSUME ApiInv, NEW r \in Writer, call[r].pc = "fill", NEW s \in Nat, Status(r, s),
         UNCHANGED <<payload, stirred>>, orphan' = orphan \ {r}, StoreTypeOK', PairsMatch',
         worn \subseteq worn',
         \A j \in ApiKey \ {call[r].key} : text'[j] = text[j],
         r \in orphan => text' = text,
         r \notin orphan => call[r].key \in worn' \/ text'[call[r].key] = "whole"
  PROVE  ApiInv'
<1>0. PICK k \in ApiKey : k = call[r].key
  BY WriterFits DEF Call
<1> DEFINE a == [NoReply EXCEPT !.status = s]
<1>1. /\ r \in Request /\ r \notin Reader /\ call[r].op # "batch"
  BY WriterFits
<1>2. a \in Reply /\ a.deleted = {} /\ a.failed = {} /\ Replies(r, a)
  BY StatusReply DEF Status
<1>3. PICK c \in Call : c.pc # "fill" /\ call' = [call EXCEPT ![r] = c]
  BY <1>1, <1>2, DoneCall
<1>4. call'[r] = c /\ \A q \in Request \ {r} : call'[q] = call[q]
  BY <1>1, <1>3 DEF ApiInv, ApiTypeOK
<1> HIDE DEF a
<1>5. /\ Filling(k)' = Filling(k) \ {r}
      /\ \A j \in ApiKey \ {k} : Filling(j)' = Filling(j)
      /\ r \notin orphan => r \in Filling(k)
      /\ r \in orphan => Filling(k)' = Filling(k)
  <2>1. \A q \in Writer \ {r} : call'[q] = call[q]
    BY <1>4 DEF Request
  <2>2. call[r].pc = "fill" /\ call'[r].pc # "fill" /\ orphan' = orphan \ {r} /\ call[r].key = k
    BY <1>0, <1>3, <1>4
  <2> QED BY <2>1, <2>2 DEF Filling
<1>6. Intact'
  <2>1. ASSUME NEW j \in ApiKey \ worn' PROVE OneFiller(j)'
    <3>1. CASE j # k
      <4>1. text'[j] = text[j] /\ Filling(j)' = Filling(j) /\ OneFiller(j)
        BY <1>0, <1>5, <2>1, <3>1 DEF ApiInv, Intact
      <4> QED BY <4>1 DEF OneFiller
    <3>2. CASE j = k /\ r \in orphan
      <4>1. text'[j] = text[j] /\ Filling(j)' = Filling(j) /\ OneFiller(j)
        BY <1>5, <2>1, <3>2 DEF ApiInv, Intact
      <4> QED BY <4>1 DEF OneFiller
    <3>3. CASE j = k /\ r \notin orphan
      <4>1. Filling(k) = {r}
        BY <1>5, <2>1, <3>3 DEF ApiInv, Intact, OneFiller
      <4>2. text'[j] = "whole" /\ Filling(j)' = {}
        BY <1>0, <1>5, <2>1, <3>3, <4>1
      <4> QED BY <4>2 DEF OneFiller
    <3> QED BY <3>1, <3>2, <3>3
  <2>2. Detached'
    BY <1>4 DEF ApiInv, Intact, Detached, Request
  <2> QED BY <2>1, <2>2 DEF Intact
<1> QED BY <1>1, <1>2, <1>6, ApiChangeAnswer

\* What is written back is what was read, but for tags and lock.
LEMMA ApiFillSidecar == ASSUME ApiInv, NEW r \in Writer, FillSidecar(r) PROVE ApiInv'
<1> DEFINE c == call[r]
           k == c.key
           new == Amended(c.meta, c.op)
<1>1. /\ r \in Request /\ c \in Call /\ c.pc = "fill"
      /\ Fits(r, c, reply[r], payload, stirred)
      /\ Status(r, 200) /\ orphan' = orphan \ {r} /\ UNCHANGED <<payload, worn, stirred>>
  BY WriterFits DEF FillSidecar
<1>2. /\ k \in ApiKey /\ c.meta \in Sidecar
      /\ r \notin stirred => payload[k] = c.meta.etag /\ (DefaultSse => c.meta.sealed)
  BY <1>1 DEF Fits, Looked, Call
<1>3. new \in Sidecar /\ new.etag = c.meta.etag /\ new.sealed = c.meta.sealed
  <2> DEFINE m == c.meta
  <2>1. new \in {[m EXCEPT !.tagged = TRUE], [m EXCEPT !.tagged = FALSE], [m EXCEPT !.locked = TRUE]}
    BY DEF Amended
  <2>2. m \in Sidecar
    BY <1>2
  <2> HIDE DEF m, new
  <2>3. new \in Sidecar /\ new.etag = m.etag /\ new.sealed = m.sealed
    BY <2>1, <2>2 DEF Sidecar
  <2> QED BY <2>3 DEF m
<1>4. CASE r \in orphan /\ UNCHANGED <<sidecar, text, mixed>>
  <2>1. StoreTypeOK' /\ PairsMatch'
    BY <1>1, <1>4 DEF ApiInv, ApiTypeOK, StoreTypeOK, PairsMatch, Exists, Parses
  <2> QED BY <1>1, <1>4, <2>1, FillEnds
<1>5. CASE /\ r \notin orphan /\ sidecar' = [sidecar EXCEPT ![k] = new]
           /\ text' = [text EXCEPT ![k] = "whole"]
           /\ mixed' = IF r \in stirred THEN mixed \union {k} ELSE mixed
  <2> HIDE DEF new
  <2>1. /\ StoreTypeOK' /\ sidecar'[k] = new /\ text'[k] = "whole"
        /\ \A j \in ApiKey \ {k} : sidecar'[j] = sidecar[j] /\ text'[j] = text[j]
    BY <1>1, <1>2, <1>3, <1>5 DEF ApiInv, ApiTypeOK, StoreTypeOK
  <2>2. PairsMatch'
    BY <1>1, <1>2, <1>3, <1>5, <2>1 DEF ApiInv, PairsMatch, Exists, Parses
  <2> QED BY <1>1, <1>5, <2>1, <2>2, FillEnds
<1>6. CASE /\ r \notin orphan /\ text[k] # "cut" /\ UNCHANGED <<sidecar, mixed>>
           /\ text' = [text EXCEPT ![k] = "garbled"]
  <2>1. /\ StoreTypeOK' /\ text'[k] = "garbled"
        /\ \A j \in ApiKey \ {k} : text'[j] = text[j]
    BY <1>1, <1>2, <1>6 DEF ApiInv, ApiTypeOK, StoreTypeOK
  <2>2. PairsMatch'
    BY <1>1, <1>2, <1>6, <2>1 DEF ApiInv, PairsMatch, Exists, Parses
  <2>3. k \in worn
    BY <1>1, <1>2, <1>6 DEF ApiInv, Intact, OneFiller, Filling
  <2> QED BY <1>1, <1>6, <2>1, <2>2, <2>3, FillEnds
<1> QED BY <1>4, <1>5, <1>6 DEF FillSidecar

LEMMA ApiAmendFails == ASSUME ApiInv, NEW r \in Writer, AmendFails(r) PROVE ApiInv'
<1> DEFINE c == call[r]
           k == c.key
<1>1. /\ r \in Request /\ r \notin Reader /\ c.op # "batch" /\ k \in ApiKey
      /\ c.pc \in {"amend", "fill"}
      /\ Status(r, 500) /\ orphan' = orphan \ {r}
      /\ UNCHANGED <<payload, sidecar, mixed, stirred>>
  BY WriterFits DEF AmendFails, Call
<1>2. CASE c.pc = "amend"
  <2>1. UNCHANGED <<text, worn, orphan>>
    BY <1>1, <1>2 DEF AmendFails, Filling, ApiInv, Intact, Detached
  <2> QED BY <1>1, <1>2, <2>1, ApiQuietStatus DEF Same, store
<1>3. CASE c.pc = "fill" /\ r \in orphan
  <2>1. UNCHANGED <<text, worn>>
    BY <1>3 DEF AmendFails, Filling
  <2>2. StoreTypeOK' /\ PairsMatch'
    BY <1>1, <2>1 DEF ApiInv, ApiTypeOK, StoreTypeOK, PairsMatch, Exists, Parses
  <2> QED BY <1>1, <1>3, <2>1, <2>2, FillEnds
<1>4. CASE c.pc = "fill" /\ r \notin orphan
  <2>1. /\ text' \in {text, [text EXCEPT ![k] = "garbled"]}
        /\ worn' = worn \union {k}
    BY <1>4 DEF AmendFails, Filling
  <2>2. /\ StoreTypeOK' /\ text'[k] \in {text[k], "garbled"}
        /\ \A j \in ApiKey \ {k} : text'[j] = text[j]
    BY <1>1, <2>1 DEF ApiInv, ApiTypeOK, StoreTypeOK
  <2>3. PairsMatch'
    BY <1>1, <2>1, <2>2 DEF ApiInv, PairsMatch, Exists, Parses
  <2> QED BY <1>1, <1>4, <2>1, <2>2, <2>3, FillEnds
<1> QED BY <1>1, <1>2, <1>3, <1>4

LEMMA ApiStartBatch ==
  ASSUME ApiInv, NEW r \in Writer, NEW keys \in SUBSET ApiKey, StartBatch(r, keys) PROVE ApiInv'
<1>1. /\ call[r] = NoCall /\ reply[r] = NoReply /\ Same /\ stirred' = stirred
      /\ r \in Request /\ r \notin Reader /\ call[r].op # "batch" /\ call[r].pc = "new"
  BY WriterFits DEF StartBatch, Unstirred
<1>2. CASE ~AllGated(keys)
  <2> DEFINE a == [NoReply EXCEPT !.status = 403, !.keys = keys]
  <2>1. Replies(r, a)
    BY <1>2 DEF StartBatch
  <2>2. a = [NoReply EXCEPT !.status = 403, !.keys = keys]
    OBVIOUS
  <2> HIDE DEF a
  <2>3. a \in Reply /\ a.deleted = {} /\ a.failed = {}
    <3>1. a.deleted = {} /\ a.failed = {}
      BY <2>2 DEF NoReply
    <3>2. a \in Reply
      <4> DEFINE x == [NoReply EXCEPT !.status = 403]
      <4>1. x \in Reply
        BY StatusReply
      <4>2. a = [x EXCEPT !.keys = keys]
        BY <2>2
      <4> HIDE DEF x
      <4> QED BY <4>1, <4>2 DEF Reply
    <3> QED BY <3>1, <3>2
  <2> QED BY <1>1, <2>1, <2>3, ApiQuietAnswer
<1>3. CASE AllGated(keys)
  <2> DEFINE c == [NoCall EXCEPT !.pc = "batch", !.op = "batch", !.left = keys]
             a == [NoReply EXCEPT !.keys = keys]
  <2>1. call' = [call EXCEPT ![r] = c] /\ reply' = [reply EXCEPT ![r] = a]
    BY <1>1, <1>3 DEF StartBatch, ApiInv, ApiTypeOK
  <2>2. "batch" \in Phases /\ "batch" \in CallOps
    BY DEF Phases, CallOps
  <2>3. c \in Call
    BY <2>2, ApiBlanks, CallFields
  <2>4. c.pc = "batch" /\ c.op = "batch" /\ c.left = keys
    BY DEF NoCall
  <2>5. a = [status |-> 0, etag |-> Nothing, body |-> Nothing, asked |-> NoRange, bytes |-> {},
             last |-> 0, keys |-> keys, deleted |-> {}, failed |-> {}]
    BY DEF NoReply
  <2> HIDE DEF a, c
  <2>6. a \in Reply /\ a.status = 0 /\ a.keys = keys /\ a.deleted = {} /\ a.failed = {}
    BY <2>5, ApiBlanks DEF Reply
  <2>7. Fits(r, c, a, payload, stirred')
    BY <1>1, <1>3, <2>4, <2>6 DEF Fits, Unanswered, Looked, Holds, Counted, AllGated
  <2> QED BY <1>1, <2>1, <2>3, <2>4, <2>6, <2>7, ApiQuietStep
<1> QED BY <1>2, <1>3

LEMMA ApiBatchDelete ==
  ASSUME ApiInv, NEW r \in Writer, NEW k \in ApiKey, BatchDelete(r, k) PROVE ApiInv'
<1> DEFINE ok == Parses(k) /\ ~sidecar[k].locked
           c == call[r]
           a == reply[r]
           d == [c EXCEPT !.left = c.left \ {k}]
           b == IF ok THEN [a EXCEPT !.deleted = a.deleted \union {k}]
                ELSE [a EXCEPT !.failed = a.failed \union {k}]
<1>1. /\ r \in Request /\ r \notin Reader /\ c \in Call /\ a \in Reply /\ c.pc = "batch"
      /\ k \in c.left /\ Counted(c, a)
  BY WriterFits DEF BatchDelete, Fits
<1>2. call' = [call EXCEPT ![r] = d] /\ reply' = [reply EXCEPT ![r] = b]
  <2>1. call' = [call EXCEPT ![r].left = @ \ {k}]
    BY DEF BatchDelete
  <2>2. reply' = [reply EXCEPT ![r] = b]
    BY DEF BatchDelete
  <2>3. [call EXCEPT ![r].left = @ \ {k}] = [call EXCEPT ![r] = d]
    BY DEF ApiInv, ApiTypeOK, Call
  <2> QED BY <2>1, <2>2, <2>3
<1>3. /\ d \in Call /\ d.pc = "batch" /\ d.op = c.op /\ d.left = c.left \ {k}
  BY <1>1 DEF Call
<1>4. /\ b \in Reply /\ b.status = a.status /\ b.keys = a.keys
      /\ \/ b.deleted = a.deleted \union {k} /\ b.failed = a.failed
         \/ b.deleted = a.deleted /\ b.failed = a.failed \union {k}
  BY <1>1 DEF Reply
<1>5. /\ StoreTypeOK' /\ PairsMatch' /\ Intact' /\ stirred \subseteq stirred'
      /\ \A q \in Request : call[q].pc \in {"open", "amend", "fill"} /\ q \notin stirred' =>
           payload'[call[q].key] = payload[call[q].key]
  <2>1. CASE ok
    <3>1. Removes(k)
      BY <2>1 DEF BatchDelete
    <3> HIDE DEF d
    <3> QED BY <1>1, <1>2, <1>3, <3>1, RemovedPair
  <2>2. CASE ~ok
    <3>1. Same /\ stirred' = stirred
      BY <2>2 DEF BatchDelete, Unstirred
    <3>2. StoreTypeOK' /\ PairsMatch'
      BY <3>1 DEF ApiInv, ApiTypeOK, StoreTypeOK, PairsMatch, Exists, Parses, Same, store
    <3>3. UNCHANGED <<payload, text, worn, orphan>>
      BY <3>1 DEF Same, store
    <3>4. Intact'
      <4> HIDE DEF d
      <4> QED BY <1>1, <1>2, <1>3, <3>3, SameFilling
    <3> QED BY <3>1, <3>2, <3>3, <3>4
  <2> QED BY <2>1, <2>2
<1> HIDE DEF b, d
<1>6. Counted(d, b)
  <2>1. k \in a.keys /\ k \notin Denied /\ k \notin a.deleted /\ k \notin a.failed
    BY <1>1 DEF Counted
  <2> QED BY <1>1, <1>3, <1>4, <2>1 DEF Counted
<1>7. Fits(r, d, b, payload', stirred')
  BY <1>1, <1>3, <1>6 DEF Fits, Unanswered, Looked, Holds
<1> QED BY <1>1, <1>2, <1>3, <1>4, <1>5, <1>7, ApiStep

LEMMA ApiEndBatch == ASSUME ApiInv, NEW r \in Writer, EndBatch(r) PROVE ApiInv'
<1> DEFINE c == call[r]
           a == reply[r]
           d == [NoCall EXCEPT !.pc = "done", !.op = c.op]
           b == [a EXCEPT !.status = 200]
<1>1. /\ r \in Request /\ r \notin Reader /\ c \in Call /\ a \in Reply /\ c.pc = "batch"
      /\ c.left = {} /\ Counted(c, a) /\ Same /\ stirred' = stirred
  BY WriterFits DEF EndBatch, Fits, Unstirred
<1>2. call' = [call EXCEPT ![r] = d] /\ reply' = [reply EXCEPT ![r] = b]
  BY DEF EndBatch, Replies
<1>3. d \in Call /\ d.pc = "done" /\ d.op = c.op
  BY <1>1, ApiBlanks DEF Call, Phases
<1>4. /\ b \in Reply /\ b.status = 200 /\ b.keys = a.keys /\ b.deleted = a.deleted
      /\ b.failed = a.failed
  BY <1>1 DEF Reply
<1> HIDE DEF b, d
<1>5. Fits(r, d, b, payload, stirred')
  BY <1>1, <1>3, <1>4 DEF Fits, Unanswered, Looked, Holds, Counted
<1> QED BY <1>1, <1>2, <1>3, <1>4, <1>5, ApiQuietStep

LEMMA ApiNextInv == ApiInv /\ [ApiNext]_apiVars => ApiInv'
<1> SUFFICES ASSUME ApiInv, [ApiNext]_apiVars PROVE ApiInv'
  OBVIOUS
<1>1. CASE UNCHANGED apiVars
  BY <1>1 DEF apiVars, store, ApiInv, ApiTypeOK, StoreTypeOK, PairsMatch, Exists, Parses, Intact,
              Detached, OneFiller, Filling
<1>2. CASE ApiNext
  BY <1>2, ApiGetWhole, ApiHead, ApiGetPart, ApiStartPartCopy, ApiOpenWhole, ApiReadRange,
     ApiStartPut, ApiStartCopy, ApiStartAmend, ApiDelete, ApiOpenSource,
     ApiCheckOverwrite, ApiStore, ApiHeadCopy, ApiCutSidecar, ApiFillSidecar, ApiAmendFails,
     ApiEndBatch, ApiStartBatch, ApiBatchDelete DEF ApiNext
<1> QED BY <1>1, <1>2

\* Whatever other requests do between its calls, an answer with a body delivers bytes
\* that exist; unless its object was replaced meanwhile or its sidecar half written
\* when it was read, they are the bytes the range header means of the content the
\* ETag names (get_object, parse_range, upload_part_copy).
THEOREM AnswersDescribeBodies == ApiSpec => []ResponseDescribesBody
<1>1. ApiInv => ResponseDescribesBody
  BY DEF ApiInv, Fits, Described, ResponseDescribesBody, Request
<1> QED BY <1>1, ApiInitInv, ApiNextInv, PTL DEF ApiSpec

\* A sidecar that can be read describes the payload beside it and its encryption,
\* unless a request wrote back what it had read before the object was replaced; it
\* cannot be read only while a request for tags or a lock writes it, or after two of
\* them overlapped or one broke off (put_object, copy_object, put_object_tagging,
\* write_meta_at, delete_object).
THEOREM SidecarsMatch == ApiSpec => []SidecarMatches
<1>1. ApiInv => SidecarMatches
  BY DEF ApiInv, SidecarMatches, PairsMatch, Intact, OneFiller, Parses
<1> QED BY <1>1, ApiInitInv, ApiNextInv, PTL DEF ApiSpec

\* A multi-object delete deletes no key the caller may not delete and answers for
\* each key once, however deletions and other requests interleave (delete_objects).
THEOREM BatchesAccountForKeys == ApiSpec => []BatchAccounted
<1>1. ApiInv => BatchAccounted
  BY DEF ApiInv, Fits, Counted, BatchAccounted, Request
<1> QED BY <1>1, ApiInitInv, ApiNextInv, PTL DEF ApiSpec
-----------------------------------------------------------------------------
(* Paged listings.                                                          *)

Pager ==
  [pc : {"idle", "list", "page", "done", "stuck"}, start : Nat, first : Nat, max : Nat,
   delim : BOOLEAN, unseen : SUBSET ListedEntry, found : SUBSET ListedEntry]
Page == [contents : SUBSET ListedEntry, prefixes : SUBSET Nat]

ListTypeOK ==
  /\ present \subseteq ListedEntry /\ indexed \in BOOLEAN
  /\ pager \in Pager /\ pages \in Seq(Page)
  /\ steady \subseteq present /\ everSeen \subseteq ListedEntry
  /\ pager.pc = "idle" => pages = <<>>
  /\ pager.pc # "idle" => present \subseteq everSeen /\ unsettled \subseteq rewritten

\* What is found was there; what must be shown is found when its turn comes, by this
\* entry of its key or another.
Gathered ==
  /\ pager.found \subseteq everSeen
  /\ IF indexed THEN \A d, e \in pager.found : KeyOf[d] = KeyOf[e] => d = e
     ELSE pager.found \subseteq Prefixed
  /\ pager.pc = "list" /\ ~indexed => Expected \subseteq pager.unseen \union pager.found
  /\ pager.pc = "page" => \A e \in Expected : \E d \in pager.found : KeyOf[d] = KeyOf[e]

InGroup(e) == pager.delim /\ GroupOf[e] # 0
Shown(e) == IF InGroup(e) THEN Covered(e) ELSE PagesWith(KeyOf[e]) # {}

\* The pages have what lies up to the place they have come to, and nothing else.
Progress ==
  /\ pager.pc \in {"list", "page"} =>
       /\ \A e \in Expected : pager.first < KeyOf[e] /\ KeyOf[e] <= pager.start => Shown(e)
       /\ pager.first <= pager.start
       /\ \A i \in 1 .. Len(pages) : \A e \in pages[i].contents : KeyOf[e] <= pager.start
  /\ pager.pc = "done" => \A e \in Expected : pager.first < KeyOf[e] => Shown(e)
  /\ pager.pc = "stuck" => pager.max = 0

PagesFit ==
  \A i \in 1 .. Len(pages) :
    /\ Cardinality(pages[i].contents) + Cardinality(pages[i].prefixes) <= pager.max
    /\ \A e \in pages[i].contents :
         /\ e \in everSeen /\ KeyOf[e] > pager.first /\ ~InGroup(e)
         /\ IF indexed THEN \A d \in pages[i].contents : KeyOf[d] = KeyOf[e] => d = e
            ELSE e \in Prefixed
Once ==
  \A i, j \in 1 .. Len(pages) :
    (\E d \in pages[i].contents, e \in pages[j].contents : KeyOf[d] = KeyOf[e]) => i = j

ListInv == ListTypeOK /\ Gathered /\ Progress /\ PagesFit /\ Once

\* Keys are numbers from 1, in the order of the entries; the entries of a key are in
\* one group and begin with the prefix or not together.
LEMMA KeysOrdered ==
  /\ \A e \in ListedEntry : e \in Nat /\ KeyOf[e] \in Nat /\ KeyOf[e] # 0
  /\ \A d, e \in ListedEntry : d <= e => KeyOf[d] <= KeyOf[e]
  /\ \A d, e \in ListedEntry : KeyOf[d] = KeyOf[e] =>
       GroupOf[d] = GroupOf[e] /\ (d \in Prefixed <=> e \in Prefixed)
BY ListingAssumption DEF ListedEntry

LEMMA Least ==
  ASSUME NEW S \in SUBSET Nat, S # {}
  PROVE  \E x \in S : \A y \in S : x <= y
<1> DEFINE R == OpToRel(<, Nat)
<1>1. IsWellFoundedOn(R, Nat)
  BY NatLessThanWellFounded
<1>2. \A a, b \in Nat : a < b => <<a, b>> \in R
  BY DEF OpToRel
<1> HIDE DEF R
<1>3. PICK x \in S : \A y \in S : ~ (<<y, x>> \in R)
  BY <1>1, WFMin
<1>4. \A y \in S : ~(y < x)
  BY <1>2, <1>3
<1> QED BY <1>4

LEMMA Largest ==
  ASSUME NEW S \in SUBSET ListedEntry, S # {}
  PROVE  Max(S) \in S /\ \A k \in S : k <= Max(S)
<1> USE ListingAssumption DEF ListedEntry
<1> DEFINE T == {u \in Nat : \A k \in S : k <= u}
<1>1. T \in SUBSET Nat /\ LastEntry \in T
  OBVIOUS
<1>2. PICK u \in T : \A y \in T : u <= y
  <2> HIDE DEF T
  <2> QED BY <1>1, Least
<1>3. u \in S
  <2> SUFFICES ASSUME u \notin S PROVE FALSE
    OBVIOUS
  <2>1. \A k \in S : k \in Nat /\ 1 <= k /\ k < u
    OBVIOUS
  <2>2. u - 1 \in Nat
    <3>1. PICK k \in S : TRUE
      OBVIOUS
    <3>2. 1 < u
      BY <2>1, <3>1
    <3> QED BY <3>2
  <2>3. u - 1 \in T
    BY <2>1, <2>2
  <2> QED BY <2>2, <2>3, <1>2
<1>4. \A k \in S : u >= k
  OBVIOUS
<1>5. Max(S) \in S /\ \A k \in S : Max(S) >= k
  BY <1>3, <1>4 DEF Max
<1> QED BY <1>5

LEMMA EntriesFinite ==
  ASSUME NEW S \in SUBSET ListedEntry
  PROVE  /\ IsFiniteSet(S) /\ Cardinality(S) \in Nat
         /\ \A T \in SUBSET S : /\ IsFiniteSet(T) /\ Cardinality(T) \in Nat
                                /\ Cardinality(T) <= Cardinality(S)
<1>1. IsFiniteSet(ListedEntry)
  BY ListingAssumption, FS_Interval DEF ListedEntry
<1>2. IsFiniteSet(S)
  BY <1>1, FS_Subset
<1> QED BY <1>2, FS_Subset, FS_CardinalityType

\* The keys of a page: those before any of its keys, too, and as many as there are
\* places.
LEMMA FirstOnes ==
  ASSUME NEW S \in SUBSET ListedEntry, NEW n \in Nat
  PROVE  LET page == FirstKeys(S, n) IN
           /\ page \subseteq S /\ Cardinality(page) \in Nat /\ Cardinality(page) <= n
           /\ \A j \in page, k \in S : k <= j => k \in page
           /\ ~(Cardinality(S) > n) => page = S
           /\ page = {} /\ S # {} => n = 0
<1> DEFINE page == FirstKeys(S, n)
           Before(k) == {j \in S : j < k}
<1>1. /\ page \subseteq S /\ Cardinality(page) \in Nat
      /\ \A k \in S : k \in page <=> Cardinality(Before(k)) < n
      /\ \A k : Cardinality(Before(k)) \in Nat
  <2>1. page \subseteq S /\ \A k : Before(k) \in SUBSET S
    BY DEF FirstKeys
  <2>2. \A k \in S : k \in page <=> Cardinality(Before(k)) < n
    BY DEF FirstKeys
  <2> HIDE DEF page, Before
  <2> QED BY <2>1, <2>2, EntriesFinite
<1>2. \A k \in S : k \in Nat
  BY ListingAssumption DEF ListedEntry
<1> HIDE DEF page
<1>3. ASSUME NEW j \in page, NEW k \in S, k <= j PROVE k \in page
  <2>1. Before(k) \in SUBSET Before(j) /\ Before(j) \in SUBSET ListedEntry
    BY <1>1, <1>2, <1>3
  <2>2. Cardinality(Before(k)) <= Cardinality(Before(j))
    <3> HIDE DEF Before
    <3> QED BY <2>1, EntriesFinite
  <2>3. Cardinality(Before(j)) < n
    BY <1>1
  <2>4. Cardinality(Before(j)) \in Nat /\ Cardinality(Before(k)) \in Nat
    BY <1>1
  <2> HIDE DEF Before
  <2>5. Cardinality(Before(k)) < n
    BY <2>2, <2>3, <2>4
  <2> QED BY <2>5, <1>1 DEF Before
<1>4. Cardinality(page) <= n
  <2>1. CASE page = {}
    BY <2>1, FS_EmptySet
  <2>2. CASE page # {}
    <3>1. Max(page) \in page /\ \A k \in page : k <= Max(page)
      BY <2>2, <1>1, Largest
    <3> DEFINE m == Max(page)
    <3>2. page \ {m} \subseteq Before(m) /\ Before(m) \in SUBSET ListedEntry
      BY <3>1, <1>1, <1>2
    <3>3. IsFiniteSet(page) /\ Cardinality(page \ {m}) = Cardinality(page) - 1
      <4>1. IsFiniteSet(page)
        BY <1>1, EntriesFinite
      <4> QED BY <4>1, <3>1, FS_RemoveElement
    <3>4. Cardinality(page \ {m}) <= Cardinality(Before(m))
      <4> HIDE DEF Before, m
      <4> QED BY <3>2, EntriesFinite
    <3>5. Cardinality(Before(m)) < n
      BY <1>1, <3>1
    <3> HIDE DEF Before, m
    <3> QED BY <3>3, <3>4, <3>5, <1>1
  <2> QED BY <2>1, <2>2
<1>5. ASSUME ~(Cardinality(S) > n) PROVE page = S
  <2> SUFFICES ASSUME NEW k \in S PROVE k \in page
    BY <1>1
  <2>1. Before(k) \in SUBSET (S \ {k}) /\ S \ {k} \in SUBSET ListedEntry
    BY <1>2
  <2>2. IsFiniteSet(S) /\ Cardinality(S) \in Nat /\ Cardinality(S \ {k}) = Cardinality(S) - 1
    <3>1. IsFiniteSet(S) /\ Cardinality(S) \in Nat
      BY EntriesFinite
    <3> QED BY <3>1, FS_RemoveElement
  <2>3. Cardinality(Before(k)) <= Cardinality(S \ {k})
    <3> HIDE DEF Before
    <3> QED BY <2>1, EntriesFinite
  <2>4. Cardinality(Before(k)) \in Nat
    BY <1>1
  <2> HIDE DEF Before
  <2>5. Cardinality(Before(k)) < n
    BY <2>2, <2>3, <2>4, <1>5
  <2> QED BY <2>5, <1>1 DEF Before
<1>6. ASSUME page = {}, S # {} PROVE n = 0
  <2>1. PICK k \in S : \A j \in S : k <= j
    <3>1. S \in SUBSET Nat
      BY <1>2
    <3> QED BY <3>1, <1>6, Least
  <2>2. Before(k) = {}
    BY <2>1, <1>2
  <2>3. Cardinality(Before(k)) = 0
    <3> HIDE DEF Before
    <3> QED BY <2>2, FS_EmptySet
  <2>4. ~(Cardinality(Before(k)) < n)
    BY <1>1, <1>6
  <2> HIDE DEF Before
  <2> QED BY <2>3, <2>4
<1> QED BY <1>1, <1>3, <1>4, <1>5, <1>6 DEF page

\* Keys and common prefixes together are no more than the keys they come from.
LEMMA PageSize ==
  ASSUME NEW p \in SUBSET ListedEntry, NEW delim \in BOOLEAN
  PROVE  /\ ShownKeys(p, delim) \in SUBSET p /\ ShownPrefixes(p, delim) \in SUBSET Nat
         /\ IsFiniteSet(ShownPrefixes(p, delim))
         /\ Cardinality(ShownKeys(p, delim)) + Cardinality(ShownPrefixes(p, delim))
              <= Cardinality(p)
<1>1. ShownKeys(p, delim) \in SUBSET p /\ ShownPrefixes(p, delim) \in SUBSET Nat
  <2>1. GroupOf \in [ListedEntry -> Nat]
    BY ListingAssumption
  <2> QED BY <2>1 DEF ShownKeys, ShownPrefixes
<1>2. CASE ~delim
  <2>1. ShownKeys(p, delim) = p /\ ShownPrefixes(p, delim) = {}
    BY <1>2 DEF ShownKeys, ShownPrefixes
  <2>2. Cardinality(p) \in Nat /\ Cardinality({}) = 0 /\ IsFiniteSet({})
    BY EntriesFinite, FS_EmptySet
  <2> QED BY <2>1, <2>2, <1>1
<1>3. CASE delim
  <2> DEFINE A == {k \in p : GroupOf[k] = 0}
             B == {k \in p : GroupOf[k] # 0}
             f == [k \in B |-> GroupOf[k]]
  <2>1. ShownKeys(p, delim) = A /\ ShownPrefixes(p, delim) = {f[k] : k \in B}
    BY <1>3 DEF ShownKeys, ShownPrefixes
  <2>2. A \in SUBSET ListedEntry /\ B \in SUBSET ListedEntry /\ A \union B = p /\ A \intersect B = {}
    OBVIOUS
  <2>3. DOMAIN f = B
    OBVIOUS
  <2> HIDE DEF A, B, f
  <2>4. /\ IsFiniteSet(A) /\ Cardinality(A) \in Nat /\ IsFiniteSet(B) /\ Cardinality(B) \in Nat
        /\ Cardinality(p) \in Nat
    BY <2>2, EntriesFinite
  <2>5. Cardinality(A \union B) = Cardinality(A) + Cardinality(B) - Cardinality(A \intersect B)
    BY <2>4, FS_Union
  <2>6. Cardinality({}) = 0
    BY FS_EmptySet
  <2>7. /\ IsFiniteSet({f[k] : k \in B})
        /\ Cardinality({f[k] : k \in B}) <= Cardinality(B)
    <3>1. f \in Surjection(B, {f[k] : k \in B})
      BY DEF f, Surjection
    <3> QED BY <2>4, <3>1, FS_Surjection
  <2>8. Cardinality({f[k] : k \in B}) \in Nat
    BY <2>7, FS_CardinalityType
  <2>9. Cardinality(p) = Cardinality(A) + Cardinality(B)
    <3>1. Cardinality(p) = Cardinality(A) + Cardinality(B) - 0
      BY <2>2, <2>5, <2>6
    <3> QED BY <2>4, <3>1
  <2>10. Cardinality(A) + Cardinality({f[k] : k \in B}) <= Cardinality(p)
    BY <2>4, <2>7, <2>8, <2>9
  <2> QED BY <1>1, <2>1, <2>7, <2>10
<1> QED BY <1>2, <1>3

LEMMA InitList == ListInit => ListInv
<1> SUFFICES ASSUME ListInit PROVE ListInv
  OBVIOUS
<1>1. /\ pager.pc = "idle" /\ pages = <<>> /\ steady = {} /\ everSeen = {} /\ pager.found = {}
      /\ present \subseteq ListedEntry /\ indexed \in BOOLEAN /\ NoPager \in Pager
      /\ pager = NoPager /\ Len(pages) = 0 /\ pages \in Seq(Page)
  BY DEF ListInit, NoPager, Pager
<1>2. ListTypeOK
  BY <1>1 DEF ListTypeOK
<1>3. Gathered /\ Progress
  BY <1>1 DEF Gathered, Progress
<1>4. PagesFit /\ Once
  BY <1>1 DEF PagesFit, Once
<1> QED BY <1>2, <1>3, <1>4 DEF ListInv

\* A step that makes no page and takes the listing no further.
LEMMA ListGoesOn ==
  ASSUME ListInv, UNCHANGED <<pages, indexed>>, ListTypeOK', Gathered',
         \/ pager'.pc = pager.pc
         \/ pager.pc = "list" /\ pager'.pc = "page",
         pager'.start = pager.start, pager'.first = pager.first,
         pager'.max = pager.max, pager'.delim = pager.delim,
         Expected' \subseteq Expected, everSeen \subseteq everSeen'
  PROVE  ListInv'
<1>1. \A k : (InGroup(k)' <=> InGroup(k)) /\ (Shown(k)' <=> Shown(k))
  BY DEF InGroup, Shown, Covered, PagesWith
<1>2. Progress'
  <2> HIDE DEF Expected
  <2> QED BY <1>1 DEF ListInv, Progress
<1>3. PagesFit'
  BY <1>1 DEF ListInv, PagesFit
<1>4. Once'
  BY DEF ListInv, Once
<1> QED BY <1>2, <1>3, <1>4 DEF ListInv

LEMMA StartKeeps ==
  ASSUME ListInv, NEW start \in Nat, NEW max \in Nat, NEW delim \in BOOLEAN,
         StartListing(start, max, delim)
  PROVE  ListInv'
<1>1. /\ pager' = [pc |-> "list", start |-> start, first |-> start, max |-> max,
                   delim |-> delim, unseen |-> ListedEntry, found |-> {}]
      /\ steady' = present /\ everSeen' = present /\ rewritten' = unsettled
      /\ UNCHANGED <<present, unsettled, indexed, pages>>
      /\ pages = <<>> /\ present \subseteq ListedEntry /\ indexed \in BOOLEAN
      /\ pages \in Seq(Page)
  BY DEF StartListing, bucketVars, ListInv, ListTypeOK
<1>2. /\ pager' \in Pager /\ pager'.pc = "list" /\ pager'.start = start /\ pager'.first = start
      /\ pager'.unseen = ListedEntry /\ pager'.found = {}
  BY <1>1 DEF Pager
<1>3. Len(pages') = 0
  BY <1>1
<1>4. ListTypeOK'
  BY <1>1, <1>2 DEF ListTypeOK
<1>5. Gathered'
  BY <1>1, <1>2 DEF Gathered, Expected
<1>6. Progress'
  <2>1. \A e \in Expected' : KeyOf[e] \in Nat
    BY <1>1, KeysOrdered DEF Expected
  <2>2. \A e \in Expected' : ~(start < KeyOf[e] /\ KeyOf[e] <= start)
    BY <2>1
  <2> QED BY <1>2, <1>3, <2>2 DEF Progress
<1>7. PagesFit' /\ Once'
  BY <1>3 DEF PagesFit, Once
<1> QED BY <1>4, <1>5, <1>6, <1>7 DEF ListInv

\* Every key has its row in the index.
LEMMA RowOfKey ==
  ASSUME NEW S \in SUBSET ListedEntry, NEW e \in S
  PROVE  \E d \in Rows(S) : KeyOf[d] = KeyOf[e]
<1> DEFINE T == {d \in S : KeyOf[d] = KeyOf[e]}
<1>1. T \in SUBSET Nat /\ T # {}
  BY KeysOrdered
<1>2. PICK d \in T : \A c \in T : d <= c
  <2> HIDE DEF T
  <2> QED BY <1>1, Least
<1>3. \A c \in S : c < d => KeyOf[c] # KeyOf[d]
  BY <1>2, KeysOrdered
<1> QED BY <1>2, <1>3 DEF Rows

LEMMA GatherKeeps ==
  ASSUME ListInv, ListIndex \/ EndWalk \/ \E e \in ListedEntry : WalkEntry(e)
  PROVE  ListInv'
<1>1. /\ pager.pc = "list" /\ pager \in Pager
      /\ UNCHANGED <<present, unsettled, indexed, pages, steady, rewritten, everSeen>>
      /\ steady \subseteq present /\ present \subseteq everSeen /\ present \subseteq ListedEntry
      /\ unsettled \subseteq rewritten
  BY DEF ListIndex, EndWalk, WalkEntry, bucketVars, listHistory, ListInv, ListTypeOK
<1>2. Expected' = Expected /\ Expected \subseteq present \intersect Prefixed
  BY <1>1 DEF Expected
<1>3. CASE ListIndex
  <2> DEFINE rows == Rows(present) \intersect (Prefixed \union CaseTwins)
  <2>1. pager' = [pager EXCEPT !.pc = "page", !.found = rows] /\ indexed
    BY <1>3 DEF ListIndex
  <2>2. /\ rows \subseteq present
        /\ \A d, e \in rows : KeyOf[d] = KeyOf[e] => d = e
    BY <1>1, KeysOrdered DEF Rows
  <2>3. \A e \in Expected : \E d \in rows : KeyOf[d] = KeyOf[e]
    <3>1. ASSUME NEW e \in Expected PROVE \E d \in rows : KeyOf[d] = KeyOf[e]
      <4>1. PICK d \in Rows(present) : KeyOf[d] = KeyOf[e]
        BY <1>1, <1>2, RowOfKey
      <4>2. d \in ListedEntry /\ e \in ListedEntry /\ e \in Prefixed
        BY <1>1, <1>2 DEF Rows
      <4>3. d \in Prefixed
        BY <4>1, <4>2, KeysOrdered
      <4> QED BY <4>1, <4>3
    <3> QED BY <3>1
  <2> HIDE DEF rows
  <2>4. /\ pager' \in Pager /\ pager'.pc = "page" /\ pager'.start = pager.start
        /\ pager'.first = pager.first /\ pager'.max = pager.max /\ pager'.delim = pager.delim
        /\ pager'.found = rows
    BY <1>1, <2>1, <2>2 DEF Pager
  <2>5. ListTypeOK'
    BY <1>1, <2>4 DEF ListInv, ListTypeOK
  <2>6. Gathered'
    <3> HIDE DEF Expected
    <3> QED BY <1>1, <1>2, <2>1, <2>2, <2>3, <2>4 DEF Gathered
  <2> QED BY <1>1, <1>2, <2>4, <2>5, <2>6, ListGoesOn
<1>4. CASE EndWalk
  <2>1. pager' = [pager EXCEPT !.pc = "page"] /\ pager.unseen = {} /\ ~indexed
    BY <1>4 DEF EndWalk
  <2>2. /\ pager' \in Pager /\ pager'.pc = "page" /\ pager'.start = pager.start
        /\ pager'.first = pager.first /\ pager'.max = pager.max /\ pager'.delim = pager.delim
        /\ pager'.found = pager.found
    BY <1>1, <2>1 DEF Pager
  <2>3. ListTypeOK'
    BY <1>1, <2>2 DEF ListInv, ListTypeOK
  <2>4. Gathered'
    <3> HIDE DEF Expected
    <3>1. \A e \in Expected : e \in pager.found
      BY <1>1, <2>1 DEF ListInv, Gathered
    <3> QED BY <1>1, <1>2, <2>1, <2>2, <3>1 DEF ListInv, Gathered
  <2> QED BY <1>1, <1>2, <2>2, <2>3, <2>4, ListGoesOn
<1>5. ASSUME NEW e \in ListedEntry, WalkEntry(e) PROVE ListInv'
  <2> DEFINE left == pager.unseen \ {e}
             now == IF Listed(e) THEN pager.found \union {e} ELSE pager.found
  <2>1. pager' = [pager EXCEPT !.unseen = left, !.found = now] /\ ~indexed
    BY <1>5 DEF WalkEntry
  <2>2. left \in SUBSET ListedEntry /\ now \in SUBSET ListedEntry
    BY <1>1 DEF Pager
  <2>3. /\ now \subseteq everSeen /\ now \subseteq Prefixed
        /\ e \in Expected => e \in now
        /\ pager.found \subseteq now
    BY <1>1, <1>2, <2>1 DEF Listed, Expected, ListInv, Gathered
  <2>4. /\ pager' \in Pager /\ pager'.pc = "list" /\ pager'.start = pager.start
        /\ pager'.first = pager.first /\ pager'.max = pager.max /\ pager'.delim = pager.delim
        /\ pager'.unseen = left /\ pager'.found = now
    <3> HIDE DEF left, now
    <3> QED BY <1>1, <2>1, <2>2 DEF Pager
  <2>5. ListTypeOK'
    BY <1>1, <2>4 DEF ListInv, ListTypeOK
  <2>6. Gathered'
    <3> HIDE DEF now, Expected
    <3> QED BY <1>1, <1>2, <2>1, <2>3, <2>4 DEF ListInv, Gathered
  <2> QED BY <1>1, <1>2, <2>4, <2>5, <2>6, ListGoesOn
<1> QED BY <1>3, <1>4, <1>5

LEMMA ChangeKeeps ==
  ASSUME ListInv,
         \/ \E e \in ListedEntry : PutKey(e)
         \/ \E k \in Nat : RemoveKey(k) \/ Unsettle(k) \/ Settle(k)
  PROVE  ListInv'
<1>1. /\ UNCHANGED <<indexed, pager, pages>> /\ steady' \subseteq steady
      /\ everSeen \subseteq everSeen' /\ steady' \subseteq present' /\ rewritten \subseteq rewritten'
      /\ present' \subseteq ListedEntry /\ everSeen' \subseteq ListedEntry
      /\ (present \subseteq everSeen => present' \subseteq everSeen')
      /\ (unsettled \subseteq rewritten => unsettled' \subseteq rewritten')
  BY DEF PutKey, RemoveKey, Unsettle, Settle, listHistory, ListInv, ListTypeOK
<1>2. ListTypeOK'
  BY <1>1 DEF ListInv, ListTypeOK
<1>3. Expected' \subseteq Expected
  BY <1>1 DEF Expected
<1>4. Gathered'
  <2> HIDE DEF Expected
  <2> QED BY <1>1, <1>3 DEF ListInv, Gathered
<1> QED BY <1>1, <1>2, <1>3, <1>4, ListGoesOn

LEMMA EndKeeps == ASSUME ListInv, EndListing PROVE ListInv'
<1>1. /\ pager' = NoPager /\ pages' = <<>> /\ steady' = {} /\ everSeen' = {}
      /\ UNCHANGED <<present, indexed>>
  BY DEF EndListing, bucketVars
<1>2. NoPager \in Pager /\ NoPager.pc = "idle" /\ NoPager.found = {} /\ Len(pages') = 0
      /\ pages' \in Seq(Page)
  BY <1>1 DEF NoPager, Pager
<1>3. ListTypeOK'
  BY <1>1, <1>2 DEF ListInv, ListTypeOK
<1>4. Gathered' /\ Progress'
  BY <1>1, <1>2 DEF Gathered, Progress
<1>5. PagesFit' /\ Once'
  BY <1>1, <1>2 DEF PagesFit, Once
<1> QED BY <1>3, <1>4, <1>5 DEF ListInv

\* A page goes as far as its token, and shows all that was found up to there.
LEMMA PageKeeps == ASSUME ListInv, MakePage PROVE ListInv'
<1> DEFINE filtered == {e \in pager.found : KeyOf[e] > pager.start}
           truncated == Cardinality(filtered) > pager.max
           page == FirstKeys(filtered, pager.max)
           token == NextToken(page, pager.delim)
           new == [contents |-> ShownKeys(page, pager.delim),
                   prefixes |-> ShownPrefixes(page, pager.delim)]
           next == IF ~truncated THEN "done" ELSE IF token = 0 THEN "stuck" ELSE "list"
           start == IF truncated THEN token ELSE pager.start
           n == Len(pages)
<1>1. /\ pager.pc = "page" /\ pages' = Append(pages, new)
      /\ pager' = [pager EXCEPT !.pc = next, !.start = start, !.unseen = ListedEntry, !.found = {}]
      /\ UNCHANGED <<present, unsettled, indexed, steady, rewritten, everSeen>>
      /\ Expected' = Expected
  BY DEF MakePage, bucketVars, listHistory, Expected
<1>2. /\ pager \in Pager /\ pages \in Seq(Page) /\ n \in Nat /\ pager.max \in Nat
      /\ filtered \in SUBSET ListedEntry /\ pager.delim \in BOOLEAN
      /\ pager.start \in Nat /\ pager.first \in Nat /\ pager.first <= pager.start
      /\ Expected \subseteq ListedEntry
  BY <1>1 DEF ListInv, ListTypeOK, Pager, Progress, Expected
<1> HIDE DEF filtered, Expected
<1>3. /\ page \subseteq filtered /\ Cardinality(page) \in Nat /\ Cardinality(page) <= pager.max
      /\ \A j \in page, k \in filtered : k <= j => k \in page
      /\ ~truncated => page = filtered
      /\ page = {} /\ filtered # {} => pager.max = 0
  BY <1>2, FirstOnes
<1>4. /\ page = {} => token = 0
      /\ page # {} => /\ Max(page) \in page /\ token = KeyOf[Max(page)]
                      /\ token \in Nat /\ token # 0
                      /\ \A e \in page : e <= Max(page) /\ KeyOf[e] <= token
  <2>1. page \in SUBSET ListedEntry
    BY <1>2, <1>3
  <2> HIDE DEF page
  <2>2. page # {} => Max(page) \in page /\ \A e \in page : e <= Max(page)
    BY <2>1, Largest
  <2> QED BY <2>1, <2>2, KeysOrdered DEF NextToken
<1>5. /\ new \in Page /\ new.contents = ShownKeys(page, pager.delim)
      /\ new.prefixes = ShownPrefixes(page, pager.delim)
      /\ new.contents \subseteq page
      /\ Cardinality(new.contents) + Cardinality(new.prefixes) <= pager.max
  <2>1. page \in SUBSET ListedEntry
    BY <1>2, <1>3
  <2> HIDE DEF page
  <2>2. /\ ShownKeys(page, pager.delim) \in SUBSET page
        /\ ShownPrefixes(page, pager.delim) \in SUBSET Nat
        /\ Cardinality(ShownKeys(page, pager.delim)) + Cardinality(ShownPrefixes(page, pager.delim))
             <= Cardinality(page)
    BY <2>1, <1>2, PageSize
  <2>3. new \in Page
    BY <2>1, <2>2 DEF Page
  <2>4. /\ Cardinality(ShownKeys(page, pager.delim)) \in Nat
        /\ Cardinality(ShownPrefixes(page, pager.delim)) \in Nat
    <3>1. Cardinality(ShownKeys(page, pager.delim)) \in Nat
      BY <2>1, <2>2, EntriesFinite
    <3>2. IsFiniteSet(ShownPrefixes(page, pager.delim))
      BY <2>1, <1>2, PageSize
    <3> QED BY <3>1, <3>2, FS_CardinalityType
  <2>5. Cardinality(ShownKeys(page, pager.delim)) + Cardinality(ShownPrefixes(page, pager.delim))
          <= pager.max
    BY <2>2, <2>4, <1>2, <1>3
  <2> QED BY <2>2, <2>3, <2>5
<1>6. /\ \A e \in page : InGroup(e) => GroupOf[e] \in new.prefixes
      /\ \A e \in page : ~InGroup(e) => e \in new.contents
      /\ \A e \in new.contents : ~InGroup(e)
  BY <1>5, <1>2 DEF InGroup, ShownKeys, ShownPrefixes
<1> HIDE DEF page, new, token, truncated
<1>7. next \in {"done", "stuck", "list"} /\ start \in Nat
  BY <1>2, <1>3, <1>4
<1>8. /\ pager' \in Pager /\ pager'.pc = next /\ pager'.start = start
      /\ pager'.first = pager.first /\ pager'.max = pager.max /\ pager'.delim = pager.delim
      /\ pager'.found = {} /\ pager'.unseen = ListedEntry
  <2> HIDE DEF next, start
  <2> QED BY <1>1, <1>2, <1>7 DEF Pager
<1>9. /\ pages' \in Seq(Page) /\ Len(pages') = n + 1 /\ pages'[n + 1] = new
      /\ \A i \in 1 .. n : pages'[i] = pages[i]
  BY <1>1, <1>2, <1>5
<1> HIDE DEF n
<1>10. ListTypeOK'
  BY <1>1, <1>7, <1>8, <1>9 DEF ListInv, ListTypeOK
<1>11. Gathered'
  BY <1>1, <1>2, <1>8, <1>7 DEF ListInv, ListTypeOK, Gathered
<1>12. \A e : (InGroup(e)' <=> InGroup(e)) /\ (Shown(e) => Shown(e)')
  <2>1. \A e : InGroup(e)' <=> InGroup(e)
    BY <1>8 DEF InGroup
  <2>2. 1 .. n \subseteq 1 .. n + 1
    BY <1>2
  <2>3. \A e : (Covered(e) => Covered(e)') /\ (PagesWith(KeyOf[e]) # {} => PagesWith(KeyOf[e])' # {})
    BY <1>9, <2>2 DEF Covered, PagesWith, n
  <2> QED BY <2>1, <2>3 DEF Shown
<1>13. \A d \in page : \A e \in ListedEntry : KeyOf[d] = KeyOf[e] => Shown(e)'
  <2> SUFFICES ASSUME NEW d \in page, NEW e \in ListedEntry, KeyOf[d] = KeyOf[e]
               PROVE  Shown(e)'
    OBVIOUS
  <2>1. n + 1 \in 1 .. Len(pages')
    BY <1>2, <1>9
  <2>2. GroupOf[d] = GroupOf[e]
    BY <1>2, <1>3, KeysOrdered
  <2>3. InGroup(d) <=> InGroup(e)
    BY <2>2 DEF InGroup
  <2>4. CASE InGroup(e)
    BY <1>6, <1>9, <1>12, <2>1, <2>2, <2>3, <2>4 DEF Shown, Covered
  <2>5. CASE ~InGroup(e)
    <3>1. d \in pages'[n + 1].contents
      BY <1>6, <1>9, <2>3, <2>5
    <3>2. n + 1 \in PagesWith(KeyOf[e])'
      BY <2>1, <3>1 DEF PagesWith
    <3> QED BY <1>12, <2>5, <3>2 DEF Shown
  <2> QED BY <2>4, <2>5
<1>14. /\ \A e \in page : e \in everSeen /\ KeyOf[e] > pager.start /\ (~indexed => e \in Prefixed)
       /\ indexed => \A d, e \in page : KeyOf[d] = KeyOf[e] => d = e
  BY <1>3 DEF ListInv, Gathered, filtered
<1>15. \A e \in Expected : KeyOf[e] > pager.start => \E d \in filtered : KeyOf[d] = KeyOf[e]
  BY <1>1 DEF ListInv, Gathered, filtered
\* An old page has no key beyond the place it started from.
<1>16. \A i \in 1 .. n : \A e \in pages[i].contents :
         e \in ListedEntry /\ KeyOf[e] \in Nat /\ KeyOf[e] <= pager.start
  <2> SUFFICES ASSUME NEW i \in 1 .. n, NEW e \in pages[i].contents
               PROVE  e \in ListedEntry /\ KeyOf[e] \in Nat /\ KeyOf[e] <= pager.start
    OBVIOUS
  <2>1. i \in 1 .. Len(pages)
    BY DEF n
  <2>2. pages[i] \in Page
    BY <1>2, <2>1
  <2>3. e \in ListedEntry
    BY <2>2 DEF Page
  <2> QED BY <1>1, <2>1, <2>3, KeysOrdered DEF ListInv, Progress
<1>17. \A i \in 1 .. n + 1 : i \in 1 .. n \/ i = n + 1
  BY <1>2
<1>18. Progress'
  <2>1. ASSUME truncated, token # 0
        PROVE  /\ \A e \in Expected : pager.first < KeyOf[e] /\ KeyOf[e] <= token => Shown(e)'
               /\ pager.first <= token
               /\ \A i \in 1 .. n + 1 : \A e \in pages'[i].contents : KeyOf[e] <= token
    <3>1. /\ page # {} /\ Max(page) \in page /\ token = KeyOf[Max(page)] /\ token \in Nat
          /\ \A e \in page : KeyOf[e] <= token
      BY <2>1, <1>4
    <3>2. token > pager.start
      BY <3>1, <1>14
    <3>3. ASSUME NEW e \in Expected, pager.first < KeyOf[e], KeyOf[e] <= token
          PROVE  Shown(e)'
      <4>1. e \in ListedEntry /\ KeyOf[e] \in Nat
        BY <1>2, KeysOrdered
      <4>2. CASE KeyOf[e] <= pager.start
        BY <4>2, <3>3, <1>1, <1>12 DEF ListInv, Progress
      <4>3. CASE KeyOf[e] > pager.start
        <5>1. PICK d \in filtered : KeyOf[d] = KeyOf[e]
          BY <4>3, <1>15
        <5>2. /\ d \in ListedEntry /\ Max(page) \in ListedEntry /\ Max(page) \in filtered
              /\ d \in Nat /\ Max(page) \in Nat
          BY <1>2, <1>3, <3>1, KeysOrdered
        <5>3. CASE d <= Max(page)
          <6>1. d \in page
            BY <1>3, <3>1, <5>3
          <6> QED BY <1>13, <4>1, <5>1, <6>1
        <5>4. CASE Max(page) <= d
          <6>1. token <= KeyOf[d] /\ KeyOf[d] <= token
            BY <3>1, <3>3, <5>1, <5>2, <5>4, KeysOrdered
          <6>2. KeyOf[Max(page)] = KeyOf[e]
            BY <3>1, <4>1, <5>1, <6>1
          <6> QED BY <1>13, <3>1, <4>1, <6>2
        <5> QED BY <5>2, <5>3, <5>4
      <4> QED BY <4>1, <4>2, <4>3, <1>2
    <3>4. ASSUME NEW i \in 1 .. n + 1, NEW e \in pages'[i].contents PROVE KeyOf[e] <= token
      <4>1. CASE i = n + 1
        BY <4>1, <1>5, <1>9, <3>1
      <4>2. CASE i \in 1 .. n
        <5>1. KeyOf[e] \in Nat /\ KeyOf[e] <= pager.start
          BY <4>2, <1>9, <1>16
        <5> QED BY <5>1, <3>1, <3>2, <1>2
      <4> QED BY <4>1, <4>2, <1>17
    <3> QED BY <3>1, <3>2, <3>3, <3>4, <1>2
  <2>2. ASSUME ~truncated
        PROVE  \A e \in Expected : pager.first < KeyOf[e] => Shown(e)'
    <3> SUFFICES ASSUME NEW e \in Expected, pager.first < KeyOf[e]
                 PROVE  Shown(e)'
      OBVIOUS
    <3>1. e \in ListedEntry /\ KeyOf[e] \in Nat
      BY <1>2, KeysOrdered
    <3>2. CASE KeyOf[e] <= pager.start
      BY <3>2, <1>1, <1>12 DEF ListInv, Progress
    <3>3. CASE KeyOf[e] > pager.start
      BY <3>1, <3>3, <2>2, <1>3, <1>13, <1>15
    <3> QED BY <3>1, <3>2, <3>3, <1>2
  <2>3. ASSUME truncated, token = 0 PROVE pager.max = 0
    <3>1. page = {}
      BY <2>3, <1>4
    <3>2. filtered # {}
      <4> SUFFICES ASSUME filtered = {} PROVE FALSE
        OBVIOUS
      <4>1. Cardinality(filtered) = 0
        BY FS_EmptySet
      <4> QED BY <4>1, <2>3, <1>2 DEF truncated
    <3> QED BY <3>1, <3>2, <1>3
  <2>4. CASE truncated /\ token # 0
    <3>1. pager'.pc = "list" /\ pager'.start = token
      BY <2>4, <1>8
    <3> QED BY <3>1, <2>1, <2>4, <1>1, <1>8, <1>9 DEF Progress
  <2>5. CASE truncated /\ token = 0
    <3>1. pager'.pc = "stuck"
      BY <2>5, <1>8
    <3> QED BY <3>1, <2>3, <2>5, <1>8 DEF Progress
  <2>6. CASE ~truncated
    <3>1. pager'.pc = "done"
      BY <2>6, <1>8
    <3> QED BY <3>1, <2>2, <2>6, <1>1, <1>8 DEF Progress
  <2> QED BY <2>4, <2>5, <2>6
<1>19. PagesFit'
  <2> SUFFICES ASSUME NEW i \in 1 .. n + 1
               PROVE  /\ Cardinality(pages'[i].contents) + Cardinality(pages'[i].prefixes)
                           <= pager.max
                      /\ \A e \in pages'[i].contents :
                           /\ e \in everSeen /\ KeyOf[e] > pager.first /\ ~InGroup(e)
                           /\ IF indexed
                              THEN \A d \in pages'[i].contents : KeyOf[d] = KeyOf[e] => d = e
                              ELSE e \in Prefixed
    BY <1>1, <1>8, <1>9, <1>12 DEF PagesFit
  <2>1. CASE i = n + 1
    <3>1. \A e \in new.contents : KeyOf[e] \in Nat /\ KeyOf[e] > pager.start
      BY <1>2, <1>3, <1>5, <1>14, KeysOrdered
    <3>2. \A e \in new.contents : KeyOf[e] > pager.first
      BY <3>1, <1>2
    <3> QED BY <2>1, <3>2, <1>5, <1>6, <1>9, <1>14
  <2>2. CASE i \in 1 .. n
    <3>1. pages'[i] = pages[i] /\ i \in 1 .. Len(pages)
      BY <2>2, <1>9 DEF n
    <3> QED BY <3>1 DEF ListInv, PagesFit
  <2> QED BY <2>1, <2>2, <1>17
<1>20. Once'
  <2>1. \A i \in 1 .. n : \A d \in pages[i].contents, e \in new.contents : KeyOf[d] # KeyOf[e]
    BY <1>2, <1>5, <1>14, <1>16
  <2>2. ASSUME NEW i \in 1 .. n, NEW j \in 1 .. n,
               \E d \in pages[i].contents, e \in pages[j].contents : KeyOf[d] = KeyOf[e]
        PROVE  i = j
    BY <2>2 DEF ListInv, Once, n
  <2> SUFFICES ASSUME NEW i \in 1 .. n + 1, NEW j \in 1 .. n + 1,
                      \E d \in pages'[i].contents, e \in pages'[j].contents : KeyOf[d] = KeyOf[e]
               PROVE  i = j
    BY <1>9 DEF Once
  <2> QED BY <2>1, <2>2, <1>9, <1>17
<1> QED BY <1>10, <1>11, <1>18, <1>19, <1>20 DEF ListInv

LEMMA NextList == ListInv /\ [ListNext]_listVars => ListInv'
<1> SUFFICES ASSUME ListInv, [ListNext]_listVars PROVE ListInv'
  OBVIOUS
<1>1. CASE UNCHANGED listVars
  <2>1. /\ UNCHANGED <<present, unsettled, indexed, pager, pages, steady, rewritten, everSeen>>
        /\ Expected' = Expected
    BY <1>1 DEF listVars, bucketVars, listHistory, Expected
  <2> HIDE DEF Expected
  <2>2. ListTypeOK' /\ Gathered'
    BY <2>1 DEF ListInv, ListTypeOK, Gathered
  <2> QED BY <2>1, <2>2, ListGoesOn
<1>2. ASSUME NEW start \in {0, 2}, NEW max \in MaxKeys, NEW delim \in BOOLEAN,
             StartListing(start, max, delim)
      PROVE  ListInv'
  BY <1>2, StartKeeps DEF MaxKeys
<1>3. {KeyOf[e] : e \in ListedEntry} \subseteq Nat
  BY KeysOrdered
<1> QED BY <1>1, <1>2, <1>3, GatherKeeps, ChangeKeeps, EndKeeps, PageKeeps DEF ListNext

\* Whatever is stored, removed or rewritten between two directory entries or two
\* pages, a listing that ends has shown every object that was there all the time and
\* not being rewritten, on one page, as itself or under its common prefix; a key shows
\* twice there only if it had two entries and directories were walked; no page is
\* larger than asked for
\* (list_objects_v1, list_objects_v2, walk_dir, split_by_delimiter).
THEOREM ListingsComplete == ListSpec => []PagingComplete
<1>1. ASSUME ListInv PROVE PagingComplete
  <2>1. ASSUME NEW k, PagesWith(k) # {} PROVE Cardinality(PagesWith(k)) = 1
    <3>1. PICK i \in PagesWith(k) : TRUE
      BY <2>1
    <3>2. PagesWith(k) = {i}
      BY <1>1 DEF PagesWith, ListInv, Once
    <3> QED BY <3>2, FS_Singleton
  <2>2. ASSUME NEW e \in ListedEntry, InGroup(e) PROVE PagesWith(KeyOf[e]) = {}
    <3> SUFFICES ASSUME NEW i \in 1 .. Len(pages), NEW d \in pages[i].contents,
                        KeyOf[d] = KeyOf[e]
                 PROVE  FALSE
      BY DEF PagesWith
    <3>1. pages[i] \in Page /\ ~InGroup(d)
      BY <1>1 DEF ListInv, ListTypeOK, PagesFit
    <3>2. d \in ListedEntry
      BY <3>1 DEF Page
    <3> QED BY <2>2, <3>1, <3>2, KeysOrdered DEF InGroup
  <2>3. \A i \in 1 .. Len(pages) : \A e \in pages[i].contents : PagesWith(KeyOf[e]) # {}
    BY DEF PagesWith
  <2>4. ASSUME pager.pc = "done", NEW e \in Expected, KeyOf[e] > pager.first
        PROVE  IF InGroup(e) THEN PagesWith(KeyOf[e]) = {} /\ Covered(e)
               ELSE Cardinality(PagesWith(KeyOf[e])) = 1
    <3>1. e \in ListedEntry
      BY <1>1 DEF Expected, ListInv, ListTypeOK
    <3>2. pager.first < KeyOf[e]
      BY <1>1, <2>4, <3>1, KeysOrdered DEF ListInv, ListTypeOK, Pager
    <3>3. Shown(e)
      BY <1>1, <2>4, <3>2 DEF ListInv, Progress
    <3> QED BY <2>1, <2>2, <3>1, <3>3 DEF Shown
  <2>5. pager.pc = "stuck" => pager.max = 0
    BY <1>1 DEF ListInv, Progress
  <2>6. ASSUME NEW i \in 1 .. Len(pages)
        PROVE  /\ Cardinality(pages[i].contents) + Cardinality(pages[i].prefixes) <= pager.max
               /\ \A e \in pages[i].contents :
                    /\ e \in everSeen /\ KeyOf[e] > pager.first
                    /\ Cardinality(PagesWith(KeyOf[e])) = 1
                    /\ IF indexed THEN \A d \in pages[i].contents : KeyOf[d] = KeyOf[e] => d = e
                       ELSE e \in Prefixed
    BY <1>1, <2>1, <2>3 DEF ListInv, PagesFit
  <2> HIDE DEF PagesWith, Covered, Expected
  <2> QED BY <2>4, <2>5, <2>6 DEF PagingComplete, InGroup
<1> QED BY <1>1, InitList, NextList, PTL DEF ListSpec
=============================================================================
