--------------------------- MODULE Authentication ----------------------------
(***************************************************************************)
(* AuthService of the core service, for one user: refresh tokens, which    *)
(* are exchanged for new ones, and logging out.  A token is read, revoked  *)
(* and replaced by database calls of their own, so two requests can hold   *)
(* the same token and a logout can fall between.  Access tokens are not    *)
(* stored and run out by themselves.                                       *)
(***************************************************************************)
EXTENDS Naturals, FiniteSets

CONSTANTS Token,    \* refresh tokens that can be issued
          Visitor,  \* requests of the user that are served at once
          NoToken

ASSUME TokenAssumption == Token \subseteq Nat
ASSUME NoTokenAssumption == NoToken \notin Token

VARIABLES tokens,     \* rows of the refresh_tokens table
          session,    \* history: the token that was issued at the login a token descends from
          visit,      \* where each request is, and the token it presented
          exchanged,  \* history: how often a token was exchanged for a new one
          ended,      \* history: sessions that time or an error has ended
          loggedOut,  \* history: sessions that a logout was to end
          shared,     \* history: tokens that two requests held at once, or that could not be revoked
          crossed     \* history: sessions with a refresh under way at a logout

sessionVars == <<tokens, session, visit, exchanged, ended, loggedOut, shared, crossed>>

SessionsTypeOK ==
    /\ tokens \in [Token -> {"unissued", "live", "revoked", "expired"}]
    /\ session \in [Token -> Token \cup {NoToken}]
    /\ visit \in [Visitor -> [at : {"idle", "revoke", "issue"}, token : Token \cup {NoToken}]]
    /\ exchanged \in [Token -> Nat]
    /\ ended \subseteq Token /\ loggedOut \subseteq Token /\ crossed \subseteq Token /\ shared \subseteq Token

Away == [at |-> "idle", token |-> NoToken]

SessionsInit ==
    /\ tokens = [t \in Token |-> "unissued"]
    /\ session = [t \in Token |-> NoToken]
    /\ visit = [v \in Visitor |-> Away]
    /\ exchanged = [t \in Token |-> 0]
    /\ ended = {} /\ loggedOut = {} /\ shared = {} /\ crossed = {}

-----------------------------------------------------------------------------

\* generateTokenPair inserts a row for a new token; ids are given out in order.
Insert(t) ==
    /\ tokens[t] = "unissued" /\ \A u \in Token : u < t => tokens[u] # "unissued"
    /\ tokens' = [tokens EXCEPT ![t] = "live"]

\* Register, Login and VerifyMFAForLogin all end with a new token, which begins
\* a session, once the user is known.
Login(t) ==
    /\ Insert(t)
    /\ session' = [session EXCEPT ![t] = t]
    /\ UNCHANGED <<visit, exchanged, ended, loggedOut, shared, crossed>>

\* At the end of a refresh: the token belongs to the session of the token it
\* was exchanged for.
GenerateTokenPair(v, t) ==
    /\ visit[v].at = "issue" /\ Insert(t)
    /\ session' = [session EXCEPT ![t] = session[visit[v].token]]
    /\ exchanged' = [exchanged EXCEPT ![visit[v].token] = @ + 1]
    /\ visit' = [visit EXCEPT ![v] = Away]
    /\ UNCHANGED <<ended, loggedOut, shared, crossed>>

\* RefreshToken finds the row; a revoked or an expired token is refused.
PresentTokenUnchecked(v, t) ==
    /\ visit[v].at = "idle" /\ tokens[t] # "unissued"
    /\ visit' = [visit EXCEPT ![v] = [at |-> "revoke", token |-> t]]
    /\ shared' = IF \E w \in Visitor : visit[w].token = t THEN shared \cup {t} ELSE shared
    /\ UNCHANGED <<tokens, session, exchanged, ended, loggedOut, crossed>>

PresentToken(v, t) == tokens[t] = "live" /\ PresentTokenUnchecked(v, t)

\* The presented token is revoked; an error of that update is ignored.
RefreshToken(v, updated) ==
    /\ visit[v].at = "revoke"
    /\ LET t == visit[v].token
       IN /\ tokens' = IF updated THEN [tokens EXCEPT ![t] = "revoked"] ELSE tokens
          /\ shared' = IF updated THEN shared ELSE shared \cup {t}
    /\ visit' = [visit EXCEPT ![v].at = "issue"]
    /\ UNCHANGED <<session, exchanged, ended, loggedOut, crossed>>

\* An error of the insert: the old token is gone and there is no new one.
TokenPairFails(v) ==
    /\ visit[v].at = "issue"
    /\ ended' = ended \cup {session[visit[v].token]}
    /\ visit' = [visit EXCEPT ![v] = Away]
    /\ UNCHANGED <<tokens, session, exchanged, loggedOut, shared, crossed>>

TokenExpires(t) ==
    /\ tokens[t] = "live"
    /\ tokens' = [tokens EXCEPT ![t] = "expired"]
    /\ ended' = ended \cup {session[t]}
    /\ UNCHANGED <<session, visit, exchanged, loggedOut, shared, crossed>>

\* Logout: one update of all the tokens of the user that are not revoked.
RevokedIfExpired(row) == IF row = "expired" THEN "revoked" ELSE row

Revoked(row) == IF row \in {"live", "expired"} THEN "revoked" ELSE row

Refreshing == {session[visit[v].token] : v \in {w \in Visitor : visit[w].token # NoToken}}

Logout ==
    /\ tokens' = [t \in Token |-> Revoked(tokens[t])]
    /\ loggedOut' = loggedOut \cup {session[t] : t \in {u \in Token : tokens[u] = "live"}}
                            \cup Refreshing
    /\ crossed' = crossed \cup Refreshing
    /\ UNCHANGED <<session, visit, exchanged, ended, shared>>

SessionsNext ==
    \/ \E t \in Token : Login(t)
    \/ \E v \in Visitor, t \in Token : GenerateTokenPair(v, t)
    \/ \E v \in Visitor, t \in Token : PresentToken(v, t)
    \/ \E v \in Visitor, updated \in BOOLEAN : RefreshToken(v, updated)
    \/ \E v \in Visitor : TokenPairFails(v)
    \/ \E t \in Token : TokenExpires(t)
    \/ Logout

SessionsSpec == SessionsInit /\ [][SessionsNext]_sessionVars

-----------------------------------------------------------------------------
(* Properties. *)

\* A refresh token is exchanged once, unless two requests held it at the same
\* time or it could not be revoked: reading it and revoking it are two steps.
ExchangedOnce == \A t \in Token : exchanged[t] > 1 => t \in shared

\* A session that a logout was to end has a usable token only if a refresh of
\* it was under way then: the refresh inserts its token after the logout.
LogoutIsFinal ==
    \A t \in Token : tokens[t] = "live" /\ session[t] \in loggedOut => session[t] \in crossed

\* A user stays logged in until a logout, time or an error ends the session: it
\* has a token that is usable, or a refresh that is about to issue one.
SessionLasts ==
    \A s \in Token : session[s] = s =>
        \/ \E t \in Token : session[t] = s /\ tokens[t] = "live"
        \/ s \in ended \cup loggedOut \cup Refreshing

-----------------------------------------------------------------------------
(***************************************************************************)
(* MFAService of the core service, for one user, and the column of the     *)
(* role, which an administrator changes in the same row.  Setting up,      *)
(* enabling and disabling MFA read the row of the user and save all of it  *)
(* (gorm Save); the recovery codes are rows of their own, written after.   *)
(* One code stands for the ten of a batch.                                 *)
(***************************************************************************)

CONSTANTS Secret,    \* TOTP keys, in the order in which they are generated
          Dialog,    \* requests of the user that are served at once
          MaxRoles   \* bound: how often the role is changed

ASSUME MaxRolesAssumption == MaxRoles \in Nat
ASSUME SecretAssumption == Secret \subseteq Nat \ {0}

VARIABLES userRow,     \* the columns of the users table: MFA, its key and the role
          codes,       \* rows of the recovery_codes table: the batch, and whether it is used
          dialog,      \* where each request is, and what it has read
          generated,   \* the keys that have been generated
          confirmed,   \* history: keys the user has shown a valid code of
          logins,      \* history: how often the code of a batch has let the user in
          roleSet,     \* history: the role that was set last
          overtaken,   \* history: a request saved a row that it had read before the role changed
          codesRaced   \* history: batches that two requests worked with at once

mfaVars == <<userRow, codes, dialog, generated, confirmed, logins, roleSet, overtaken, codesRaced>>

UserRow == [enabled : BOOLEAN, secret : Secret \cup {0}, role : 0..MaxRoles]
NoUserRow == [enabled |-> FALSE, secret |-> 0, role |-> 0]
Code == [batch : Secret, used : BOOLEAN]
Quiet == [at |-> "idle", row |-> NoUserRow, batch |-> 0]

DialogPlace == {"idle", "secret", "enable", "disable", "newCodes", "noCodes", "useCode"}

MfaTypeOK ==
    /\ userRow \in UserRow
    /\ codes \subseteq Code
    /\ dialog \in [Dialog -> [at : DialogPlace, row : UserRow, batch : Secret \cup {0}]]
    /\ generated \subseteq Secret /\ confirmed \subseteq Secret
    /\ logins \in [Secret -> Nat]
    /\ roleSet \in 0..MaxRoles
    /\ overtaken \in BOOLEAN /\ codesRaced \subseteq Secret

MfaInit ==
    /\ userRow = NoUserRow
    /\ codes = {}
    /\ dialog = [d \in Dialog |-> Quiet]
    /\ generated = {} /\ confirmed = {}
    /\ logins = [b \in Secret |-> 0]
    /\ roleSet = 0
    /\ overtaken = FALSE /\ codesRaced = {}

-----------------------------------------------------------------------------

\* A request reads the row.
ReadUser(d, place, row, batch) ==
    /\ dialog[d].at = "idle"
    /\ dialog' = [dialog EXCEPT ![d] = [at |-> place, row |-> row, batch |-> batch]]

\* ... and saves all of its columns, whatever has become of them meanwhile.
SaveUser(d, place, next) ==
    /\ dialog[d].at = place
    /\ userRow' = dialog[d].row
    /\ overtaken' = (overtaken \/ dialog[d].row.role # userRow.role)
    /\ dialog' = [dialog EXCEPT ![d].at = next]

\* A key is generated that nobody has had before.
Fresh(k) == k \notin generated /\ \A j \in Secret : j < k => j \in generated

ReadForSetup(d, k) ==
    /\ ~userRow.enabled /\ Fresh(k)
    /\ ReadUser(d, "secret", [userRow EXCEPT !.secret = k], k)
    /\ generated' = generated \cup {k}
    /\ UNCHANGED <<userRow, codes, confirmed, logins, roleSet, overtaken, codesRaced>>

SetupMFA(d) ==
    /\ SaveUser(d, "secret", "newCodes")
    /\ UNCHANGED <<codes, generated, confirmed, logins, roleSet, codesRaced>>

\* generateRecoveryCodes: the codes there are go, and a new batch is inserted.
GenerateRecoveryCodes(d) ==
    /\ dialog[d].at = "newCodes"
    /\ codes' = {[batch |-> dialog[d].batch, used |-> FALSE]}
    /\ dialog' = [dialog EXCEPT ![d] = Quiet]
    /\ UNCHANGED <<userRow, generated, confirmed, logins, roleSet, overtaken, codesRaced>>

\* The user shows a code that is valid for the key in the row that was read.
ReadForEnableUnverified(d) ==
    /\ ~userRow.enabled /\ userRow.secret # 0
    /\ ReadUser(d, "enable", [userRow EXCEPT !.enabled = TRUE], 0)
    /\ UNCHANGED <<userRow, codes, generated, confirmed, logins, roleSet, overtaken, codesRaced>>

ReadForEnable(d) ==
    /\ ~userRow.enabled /\ userRow.secret # 0
    /\ ReadUser(d, "enable", [userRow EXCEPT !.enabled = TRUE], 0)
    /\ confirmed' = confirmed \cup {userRow.secret}
    /\ UNCHANGED <<userRow, codes, generated, logins, roleSet, overtaken, codesRaced>>

VerifyAndEnableMFA(d) ==
    /\ SaveUser(d, "enable", "idle")
    /\ UNCHANGED <<codes, generated, confirmed, logins, roleSet, codesRaced>>

ReadForDisable(d) ==
    /\ userRow.enabled
    /\ ReadUser(d, "disable", [userRow EXCEPT !.enabled = FALSE, !.secret = 0], 0)
    /\ UNCHANGED <<userRow, codes, generated, confirmed, logins, roleSet, overtaken, codesRaced>>

DisableMFA(d) ==
    /\ SaveUser(d, "disable", "noCodes")
    /\ UNCHANGED <<codes, generated, confirmed, logins, roleSet, codesRaced>>

DeleteCodes(d) ==
    /\ dialog[d].at = "noCodes"
    /\ codes' = {}
    /\ dialog' = [dialog EXCEPT ![d] = Quiet]
    /\ UNCHANGED <<userRow, generated, confirmed, logins, roleSet, overtaken, codesRaced>>

\* RegenerateRecoveryCodes: a new batch for a user who shows a valid code.
\* Bound: the batches take their names from Secret.
RegenerateRecoveryCodes(d, k) ==
    /\ userRow.enabled /\ Fresh(k)
    /\ ReadUser(d, "newCodes", userRow, k)
    /\ generated' = generated \cup {k}
    /\ UNCHANGED <<userRow, codes, confirmed, logins, roleSet, overtaken, codesRaced>>

\* VerifyRecoveryCode finds an unused code that matches ...
MatchCodeUsedOrNot(d, c) ==
    /\ userRow.enabled /\ c \in codes
    /\ ReadUser(d, "useCode", userRow, c.batch)
    /\ codesRaced' = IF \E e \in Dialog : dialog[e].at = "useCode" /\ dialog[e].batch = c.batch
                     THEN codesRaced \cup {c.batch} ELSE codesRaced
    /\ UNCHANGED <<userRow, codes, generated, confirmed, logins, roleSet, overtaken>>

MatchCode(d, c) == ~c.used /\ MatchCodeUsedOrNot(d, c)

\* ... and saves it as used: Save inserts the row again if it has been deleted.
\* The error of the save is ignored, and the user let in.
VerifyRecoveryCode(d, saved) ==
    /\ dialog[d].at = "useCode"
    /\ LET b == dialog[d].batch
       IN /\ codes' = IF saved THEN {c \in codes : c.batch # b} \cup {[batch |-> b, used |-> TRUE]}
                      ELSE codes
          /\ codesRaced' = IF saved THEN codesRaced ELSE codesRaced \cup {b}
          /\ logins[b] < 2   \* bound: what a code is used for more often shows nothing new
          /\ logins' = [logins EXCEPT ![b] = @ + 1]
    /\ dialog' = [dialog EXCEPT ![d] = Quiet]
    /\ UNCHANGED <<userRow, generated, confirmed, roleSet, overtaken>>

\* SetUserRole of RBACService writes one column.
SetRoleColumn ==
    /\ roleSet < MaxRoles
    /\ roleSet' = roleSet + 1
    /\ userRow' = [userRow EXCEPT !.role = roleSet + 1]
    /\ UNCHANGED <<codes, dialog, generated, confirmed, logins, overtaken, codesRaced>>

\* An error of the database call that is next ends the request; the deletion of
\* codes ignores it.
DialogFails(d) ==
    /\ dialog[d].at \notin {"idle", "useCode"}
    /\ dialog' = [dialog EXCEPT ![d] = Quiet]
    /\ UNCHANGED <<userRow, codes, generated, confirmed, logins, roleSet, overtaken, codesRaced>>

MfaNext ==
    \/ \E d \in Dialog, k \in Secret : ReadForSetup(d, k)
    \/ \E d \in Dialog : SetupMFA(d)
    \/ \E d \in Dialog : GenerateRecoveryCodes(d)
    \/ \E d \in Dialog : ReadForEnable(d)
    \/ \E d \in Dialog : VerifyAndEnableMFA(d)
    \/ \E d \in Dialog : ReadForDisable(d)
    \/ \E d \in Dialog : DisableMFA(d)
    \/ \E d \in Dialog : DeleteCodes(d)
    \/ \E d \in Dialog, k \in Secret : RegenerateRecoveryCodes(d, k)
    \/ \E d \in Dialog, c \in codes : MatchCode(d, c)
    \/ \E d \in Dialog, saved \in BOOLEAN : VerifyRecoveryCode(d, saved)
    \/ SetRoleColumn
    \/ \E d \in Dialog : DialogFails(d)

MfaSpec == MfaInit /\ [][MfaNext]_mfaVars

-----------------------------------------------------------------------------
(* Properties. *)

\* MFA is enabled only with a key that the user has shown a valid code of, also
\* when two set-ups, or a set-up and an enabling, overlap: the row is saved as
\* a whole, so the key and the flag in it were read together.
EnabledKeyIsConfirmed == userRow.enabled => userRow.secret \in confirmed

\* A recovery code lets the user in once, unless two requests matched it before
\* either had saved it as used, or the save failed.
CodeUsedOnce == \A b \in Secret : logins[b] > 1 => b \in codesRaced

\* The role in the row is the one that was set last, unless a request for MFA
\* read the row before the change and saved all of it afterwards.
RoleChangeStands == userRow.role = roleSet \/ overtaken

-----------------------------------------------------------------------------
(***************************************************************************)
(* APIKeyService of the core service: rows of keys in the database.  An    *)
(* update reads the row, changes it and saves all of it, which makes a row *)
(* that is gone anew; a revocation and the time of the last use write one  *)
(* column.  Nothing locks the row between a read and a write.              *)
(***************************************************************************)

CONSTANTS ApiKey,      \* keys of a user
          ApiClient,   \* requests under way at once
          MaxKeyCalls, \* bound: requests ever begun
          NoRow

ASSUME ApiKeyAssumption == MaxKeyCalls \in Nat

VARIABLES apiKeys,   \* the rows
          apiCall,   \* where each request is, and the row it has read
          keyCalls,  \* requests begun
          created,   \* history: keys that were created
          revoked,   \* history: keys whose revocation or deletion has been answered
          readBefore      \* history: keys that were revoked or deleted after an update had read them

apiKeyVars == <<apiKeys, apiCall, keyCalls, created, revoked, readBefore>>

ScopeSet == {{"read"}, {"read", "write"}}
ApiKeyRow == [active : BOOLEAN, scopes : ScopeSet]
ApiCall == [at : {"idle", "update", "touch"}, key : ApiKey, row : ApiKeyRow \cup {NoRow}]

ApiKeysTypeOK ==
    /\ apiKeys \in [ApiKey -> ApiKeyRow \cup {NoRow}]
    /\ \A c \in ApiClient : apiCall[c] = NoRow \/ apiCall[c] \in ApiCall
    /\ keyCalls \in 0..MaxKeyCalls
    /\ {created, revoked, readBefore} \subseteq SUBSET ApiKey

ApiKeysInit ==
    /\ apiKeys = [k \in ApiKey |-> NoRow]
    /\ apiCall = [c \in ApiClient |-> NoRow]
    /\ keyCalls = 0 /\ created = {} /\ revoked = {} /\ readBefore = {}

KeyCallBegins == keyCalls < MaxKeyCalls /\ keyCalls' = keyCalls + 1

-----------------------------------------------------------------------------
(* Creation, revocation and deletion are one statement each. *)

CreateApiKey(k, scopes) ==
    /\ KeyCallBegins /\ k \notin created
    /\ apiKeys' = [apiKeys EXCEPT ![k] = [active |-> TRUE, scopes |-> scopes]]
    /\ created' = created \cup {k}
    /\ UNCHANGED <<apiCall, revoked, readBefore>>

\* Updates that have read the key and have yet to save it.
BeingUpdated(k) == \E c \in ApiClient : apiCall[c] # NoRow /\ apiCall[c].at = "update"
                                                           /\ apiCall[c].key = k

KeyEnds(k) ==
    /\ revoked' = revoked \cup {k}
    /\ readBefore' = IF BeingUpdated(k) THEN readBefore \cup {k} ELSE readBefore

RevokeApiKey(k) ==
    /\ KeyCallBegins /\ apiKeys[k] # NoRow
    /\ apiKeys' = [apiKeys EXCEPT ![k].active = FALSE]
    /\ KeyEnds(k)
    /\ UNCHANGED <<apiCall, created>>

DeleteApiKey(k) ==
    /\ KeyCallBegins /\ apiKeys[k] # NoRow
    /\ apiKeys' = [apiKeys EXCEPT ![k] = NoRow]
    /\ KeyEnds(k)
    /\ UNCHANGED <<apiCall, created>>

-----------------------------------------------------------------------------
(* An update, and the use of a key. *)

ReadsKey(c, k, place) ==
    /\ KeyCallBegins /\ apiCall[c] = NoRow
    /\ apiKeys[k] # NoRow
    /\ apiCall' = [apiCall EXCEPT ![c] = [at |-> place, key |-> k, row |-> apiKeys[k]]]
    /\ UNCHANGED <<apiKeys, created, revoked, readBefore>>

GetForUpdate(c, k) == ReadsKey(c, k, "update")

CallAt(c, place) == apiCall[c] # NoRow /\ apiCall[c].at = place

\* The name and the description do not matter here; scopes are changed or left.
UpdateApiKey(c, scopes) ==
    /\ CallAt(c, "update")
    /\ apiKeys' = [apiKeys EXCEPT ![apiCall[c].key] = [apiCall[c].row EXCEPT !.scopes = scopes]]
    /\ apiCall' = [apiCall EXCEPT ![c] = NoRow]
    /\ UNCHANGED <<keyCalls, created, revoked, readBefore>>

\* Only a key that is active is found. One that has expired is refused.
ValidateKey(c, k) == apiKeys[k] # NoRow /\ apiKeys[k].active /\ ReadsKey(c, k, "touch")

TouchSavesRow(c) ==
    /\ CallAt(c, "touch")
    /\ apiKeys' = [apiKeys EXCEPT ![apiCall[c].key] = apiCall[c].row]
    /\ apiCall' = [apiCall EXCEPT ![c] = NoRow]
    /\ UNCHANGED <<keyCalls, created, revoked, readBefore>>

\* last_used_at and last_used_ip are updated, and no other column.
TouchKey(c) ==
    /\ CallAt(c, "touch")
    /\ apiCall' = [apiCall EXCEPT ![c] = NoRow]
    /\ UNCHANGED <<apiKeys, keyCalls, created, revoked, readBefore>>

ApiKeysNext ==
    \/ \E k \in ApiKey, scopes \in ScopeSet : CreateApiKey(k, scopes)
    \/ \E k \in ApiKey : RevokeApiKey(k)
    \/ \E k \in ApiKey : DeleteApiKey(k)
    \/ \E c \in ApiClient, k \in ApiKey : GetForUpdate(c, k)
    \/ \E c \in ApiClient, scopes \in ScopeSet : UpdateApiKey(c, scopes)
    \/ \E c \in ApiClient, k \in ApiKey : ValidateKey(c, k)
    \/ \E c \in ApiClient : TouchKey(c)

-----------------------------------------------------------------------------
\* A key that was revoked or deleted is never good again, whoever uses it meanwhile,
\* unless an update had read it before: that saves the whole row as it was.
RevokedIsFinal ==
    \A k \in revoked \ readBefore : apiKeys[k] = NoRow \/ ~apiKeys[k].active
==============================================================================
