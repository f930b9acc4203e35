---------------------------- MODULE ConsoleSession ----------------------------
(***************************************************************************)
(* Who the web console takes a browser for: logins with an access key or   *)
(* through Keycloak, the two cookies they leave in the browser, and the    *)
(* layers every console request passes.                                    *)
(***************************************************************************)
EXTENDS Naturals, FiniteSets

CONSTANTS
  Browser, Scripts,\* clients; those that take tokens from the answer's body
  Account, Admin,  \* access keys; the one of MAXIO_ACCESS_KEY
  SsoAccount,      \* the account of Keycloak users (KEYCLOAK_CONSOLE_ACCESS_KEY)
  TenantOf,        \* account or bucket -> its tenant
  SessionBucket,   \* buckets
  Knows,           \* browser -> the <<account, secret>> pairs its user knows
  Keycloak,        \* Keycloak is configured
  TokenMaxAge,     \* TOKEN_MAX_AGE_SECS
  AccessLife,      \* how long a Keycloak access token lasts
  MaxTime, MaxSecret, MaxRealmKey  \* bounds

ASSUME SessionAssumption ==
  /\ Scripts \subseteq Browser /\ {Admin, SsoAccount} \subseteq Account
  /\ Keycloak \in BOOLEAN
  /\ TokenMaxAge \in Nat /\ AccessLife \in Nat /\ {MaxTime, MaxSecret, MaxRealmKey} \subseteq Nat

VARIABLES
  secrets,         \* account -> its secret, as the server loaded it; 0 if it has none
  jar,             \* browser -> its cookies: [session, refresh]
  jwks,            \* realm keys the server has cached
  realmKey,        \* the key Keycloak signs with; it publishes this one and the one before
  time,
  unread,          \* buckets whose `.bucket.json` is there and does not parse
  served           \* the last request, if it was served: [by, as, bucket]

sessionVars == <<secrets, jar, jwks, realmKey, time, unread, served>>

NoToken == [kind |-> "none", account |-> Admin, mark |-> 0, at |-> 0]
EmptyJar == [session |-> NoToken, refresh |-> NoToken]
NotServed == [by |-> "none", as |-> Admin, bucket |-> "none"]

SessionInit ==
  /\ secrets = [a \in Account |-> 1]
  /\ jar = [b \in Browser |-> EmptyJar]
  /\ jwks = {} /\ realmKey = 1 /\ time = 0 /\ unread = {}
  /\ served = NotServed

RealmKeys == {k \in {realmKey - 1, realmKey} : k > 0}

-----------------------------------------------------------------------------
(* Tokens.                                                                  *)

\* generate_session_token: signed with the secret, whose fingerprint it carries.
SessionToken(a) == [kind |-> "hmac", account |-> a, mark |-> secrets[a], at |-> time]

\* Mutant: the account is looked up and the signature left alone.
VerifyAccountOnly(t) ==
  secrets[t.account] # 0 /\ time - t.at <= TokenMaxAge

\* lookup_by_session_fingerprint and verify_session_token: the credential of today
\* has this fingerprint, made this signature, and the token is not too old.
VerifySession(t) ==
  secrets[t.account] # 0 /\ secrets[t.account] = t.mark /\ time - t.at <= TokenMaxAge

\* A Keycloak access token: the key that signed it, and when it expires.
AccessToken == [kind |-> "jwt", account |-> SsoAccount, mark |-> realmKey, at |-> time + AccessLife]
RefreshToken == [kind |-> "refresh", account |-> SsoAccount, mark |-> 0, at |-> time]

\* decoding_key_for_kid: a key the cache lacks makes the server fetch the set anew,
\* if Keycloak can be reached.
JwksAfter(t, reachable) == IF t.mark \in jwks \/ ~reachable THEN jwks ELSE RealmKeys

\* validate_access_token.
ValidAccess(t, keys) == t.mark \in keys /\ time <= t.at

\* resolve_console_principal: whether the token names anyone.
Resolves(t, keys) ==
  CASE t.kind = "hmac" -> VerifySession(t)
    [] t.kind = "jwt" -> Keycloak /\ ValidAccess(t, keys)
    [] OTHER -> FALSE

KeysFor(t, reachable) == IF t.kind = "jwt" /\ Keycloak THEN JwksAfter(t, reachable) ELSE jwks

-----------------------------------------------------------------------------
(* Logins.                                                                  *)

\* set_keycloak_session_cookies: the second Set-Cookie field replaces the first, so
\* a browser gets the refresh token only.  The body has both tokens.
SetCookies(b, session, refresh) ==
  jar' = [jar EXCEPT ![b] = IF b \in Scripts THEN [session |-> session, refresh |-> refresh]
                            ELSE [@ EXCEPT !.refresh = refresh]]

\* login.  One that the limiter or the credentials turn away changes nothing.
Login(b, a, s) ==
  /\ <<a, s>> \in Knows[b] /\ secrets[a] = s
  /\ jar' = [jar EXCEPT ![b].session = SessionToken(a)]
  /\ UNCHANGED <<secrets, jwks, realmKey, time, unread, served>>

\* keycloak_login, when the token endpoint grants it.
KeycloakLogin(b) ==
  /\ Keycloak
  /\ SetCookies(b, AccessToken, RefreshToken)
  /\ UNCHANGED <<secrets, jwks, realmKey, time, unread, served>>

\* keycloak_refresh, with the token in the cookie, when it is granted.
KeycloakRefresh(b) ==
  /\ Keycloak /\ jar[b].refresh.kind = "refresh"
  /\ SetCookies(b, AccessToken, RefreshToken)
  /\ UNCHANGED <<secrets, jwks, realmKey, time, unread, served>>

\* logout, one of the protected routes: it clears the session, or with Keycloak
\* the cookie whose header field comes second.
Logout(b, reachable) ==
  LET t == jar[b].session
      keys == KeysFor(t, reachable) IN
    /\ jwks' = keys
    /\ IF Resolves(t, keys)
         THEN jar' = [jar EXCEPT ![b] = IF Keycloak THEN [@ EXCEPT !.refresh = NoToken]
                                        ELSE [@ EXCEPT !.session = NoToken]]
         ELSE UNCHANGED jar
    /\ UNCHANGED <<secrets, realmKey, time, unread, served>>

-----------------------------------------------------------------------------
(* Requests.                                                                *)

\* console_bucket_gate: the administrator sees every bucket, others those of their
\* tenant; an account the server does not know sees none.  Settings that cannot be
\* read are left to the handler, and many handlers never read them.
SeesBucket(a, k) ==
  \/ k \in unread
  \/ a = Admin
  \/ secrets[a] # 0 /\ TenantOf[a] = TenantOf[k]

\* console_auth_middleware, console_tenant_middleware, console_csrf_middleware, in
\* this order; a request that changes something and comes from another origin is
\* crossSite.
ConsoleRequest(b, k, crossSite, reachable) ==
  LET t == jar[b].session
      keys == KeysFor(t, reachable) IN
    /\ jwks' = keys
    /\ IF Resolves(t, keys) /\ SeesBucket(t.account, k) /\ ~crossSite
         THEN served' = [by |-> b, as |-> t.account, bucket |-> k]
         ELSE served' = NotServed
    /\ UNCHANGED <<secrets, jar, realmKey, time, unread>>

-----------------------------------------------------------------------------
(* The world: time passes and browsers drop cookies that ran out, the       *)
(* server is restarted with other credentials, Keycloak takes a new key.    *)

SessionTick ==
  /\ time < MaxTime /\ time' = time + 1
  /\ jar' = [b \in Browser |->
       IF jar[b].session.kind = "jwt" /\ jar[b].session.at < time'
         THEN [jar[b] EXCEPT !.session = NoToken] ELSE jar[b]]
  /\ served' = NotServed
  /\ UNCHANGED <<secrets, jwks, realmKey, unread>>

SessionRestart(a, s) ==
  /\ secrets[a] # s /\ secrets' = [secrets EXCEPT ![a] = s]
  /\ jwks' = {} /\ served' = NotServed
  /\ UNCHANGED <<jar, realmKey, time, unread>>

RealmRotates ==
  /\ realmKey < MaxRealmKey /\ realmKey' = realmKey + 1
  /\ UNCHANGED <<secrets, jar, jwks, time, unread, served>>

\* Another request writes the bucket's settings in place (set_versioning, say): the file
\* is cut, and filled unless the server dies or the disk fails.
CutSettings(k) ==
  /\ k \notin unread /\ unread' = unread \union {k} /\ served' = NotServed
  /\ UNCHANGED <<secrets, jar, jwks, realmKey, time>>

FillSettings(k) ==
  /\ k \in unread /\ unread' = unread \ {k} /\ served' = NotServed
  /\ UNCHANGED <<secrets, jar, jwks, realmKey, time>>

SessionNext ==
  \/ \E b \in Browser :
       \/ \E a \in Account, s \in 1 .. MaxSecret : Login(b, a, s)
       \/ KeycloakLogin(b) \/ KeycloakRefresh(b)
       \/ \E reachable \in BOOLEAN : Logout(b, reachable)
       \/ \E k \in SessionBucket, crossSite, reachable \in BOOLEAN :
            ConsoleRequest(b, k, crossSite, reachable)
  \/ \E a \in Account \ {Admin}, s \in 0 .. MaxSecret : SessionRestart(a, s)
  \/ \E k \in SessionBucket : CutSettings(k) \/ FillSettings(k)
  \/ SessionTick \/ RealmRotates

SessionSpec == SessionInit /\ [][SessionNext]_sessionVars

-----------------------------------------------------------------------------
(* Properties.                                                              *)

\* A console request is served only to someone who knows the secret the account
\* has today, or as the account of Keycloak users: a session does not outlive a change
\* of the secret or the removal of the account.  It stays within the account's tenant
\* unless the bucket's settings cannot be read: then the tenant check
\* lets every session pass.
ServedToOwner ==
  served.by # "none" =>
    /\ \/ <<served.as, secrets[served.as]>> \in Knows[served.by]
       \/ Keycloak /\ served.as = SsoAccount
    /\ \/ served.as = Admin \/ served.bucket \in unread
       \/ TenantOf[served.as] = TenantOf[served.bucket]
=============================================================================
