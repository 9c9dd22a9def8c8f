---------------------------- MODULE AccountLinks ----------------------------
(***************************************************************************)
(* OAuthService and registration of the core service, for one email        *)
(* address: how its user comes to be, which accounts at the providers can  *)
(* log the user in, and unlinking them.  Looking an account up, looking    *)
(* the user up, creating the user and linking are database calls of their  *)
(* own; the tables have unique keys on the email address and on provider   *)
(* and account.                                                            *)
(***************************************************************************)
EXTENDS Naturals, FiniteSets

CONSTANTS Account,     \* accounts at the providers that have this address
          Provider,    \* the providers, each the set of the accounts it has
          Caller,      \* requests that are served at once
          NoAccount

ASSUME ProviderAssumption == IsFiniteSet(Account) /\ Provider \subseteq SUBSET Account

VARIABLES user,       \* the row of the user: absent, without a password, or with one
          linked,     \* rows of the oauth_accounts table
          caller,     \* where each request is
          unlinkRace, \* history: two requests unlinked at the same time
          brokenLink, \* history: a user was created whose account could not be linked
          severalGone \* history: unlinking a provider removed several accounts at once

linkVars == <<user, linked, caller, unlinkRace, brokenLink, severalGone>>

CallerPlace == {"idle", "findUser", "createUser", "checkLink", "link", "unlink"}
Gone == [at |-> "idle", account |-> NoAccount, provider |-> {}, new |-> FALSE]

LinksTypeOK ==
    /\ user \in {"absent", "passwordless", "password"}
    /\ linked \subseteq Account
    /\ caller \in [Caller -> [at : CallerPlace, account : Account \cup {NoAccount},
                              provider : Provider \cup {{}}, new : BOOLEAN]]
    /\ unlinkRace \in BOOLEAN /\ brokenLink \in BOOLEAN /\ severalGone \in BOOLEAN

LinksInit ==
    /\ user = "absent" /\ linked = {}
    /\ caller = [c \in Caller |-> Gone]
    /\ unlinkRace = FALSE /\ brokenLink = FALSE /\ severalGone = FALSE

-----------------------------------------------------------------------------

\* Register: the user does not exist when it looks, and the unique key on the
\* address refuses a second one, so the two calls are one step.
RegisterUser ==
    /\ user = "absent"
    /\ user' = "password"
    /\ UNCHANGED <<linked, caller, unlinkRace, brokenLink, severalGone>>

\* LoginOrRegisterWithOAuth: the account is not linked.  (If it is, the user is
\* logged in and nothing here changes.)
CallBack(c, a) ==
    /\ caller[c].at = "idle" /\ a \notin linked
    /\ caller' = [caller EXCEPT ![c] = [Gone EXCEPT !.at = "findUser", !.account = a]]
    /\ UNCHANGED <<user, linked, unlinkRace, brokenLink, severalGone>>

LoginOrRegisterWithOAuth(c) ==
    /\ caller[c].at = "findUser"
    /\ caller' = [caller EXCEPT ![c].at = IF user = "absent" THEN "createUser" ELSE "checkLink"]
    /\ UNCHANGED <<user, linked, unlinkRace, brokenLink, severalGone>>

\* createUserWithOAuth: a user without a password; if the address is taken by
\* now the insert fails, and the request with it.
CreateUserWithOAuth(c) ==
    /\ caller[c].at = "createUser"
    /\ IF user = "absent"
       THEN /\ user' = "passwordless"
            /\ caller' = [caller EXCEPT ![c].at = "checkLink", ![c].new = TRUE]
       ELSE /\ caller' = [caller EXCEPT ![c] = Gone]
            /\ UNCHANGED user
    /\ UNCHANGED <<linked, unlinkRace, brokenLink, severalGone>>

\* linkOAuthAccount looks whether somebody else has the account (nobody does:
\* the address has one user) and inserts the link; the unique key refuses one
\* that is there.
LinkOAuthAccount(c) ==
    /\ caller[c].at = "checkLink"
    /\ linked' = linked \cup {caller[c].account}
    /\ caller' = [caller EXCEPT ![c] = Gone]
    /\ UNCHANGED <<user, unlinkRace, brokenLink, severalGone>>

\* The insert fails.  A user that was created for it stays, without the link.
LinkFails(c) ==
    /\ caller[c].at = "checkLink"
    /\ caller' = [caller EXCEPT ![c] = Gone]
    /\ brokenLink' = (brokenLink \/ caller[c].new)
    /\ UNCHANGED <<user, linked, unlinkRace, severalGone>>

-----------------------------------------------------------------------------

\* UnlinkOAuthAccount reads the user and counts the linked accounts ...
CountUnguarded(c, p) ==
    /\ caller[c].at = "idle" /\ user # "absent"
    /\ caller' = [caller EXCEPT ![c] = [Gone EXCEPT !.at = "unlink", !.provider = p]]
    /\ unlinkRace' = (unlinkRace \/ \E d \in Caller : caller[d].at = "unlink")
    /\ UNCHANGED <<user, linked, brokenLink, severalGone>>

Count(c, p) ==
    /\ user = "password" \/ Cardinality(linked) > 1
    /\ CountUnguarded(c, p)

\* ... and deletes all those that are with the provider.
UnlinkOAuthAccount(c) ==
    /\ caller[c].at = "unlink"
    /\ LET removed == linked \cap caller[c].provider
       IN /\ linked' = linked \ removed
          /\ severalGone' = (severalGone \/ Cardinality(removed) > 1)
    /\ caller' = [caller EXCEPT ![c] = Gone]
    /\ UNCHANGED <<user, unlinkRace, brokenLink>>

LinksNext ==
    \/ RegisterUser
    \/ \E c \in Caller, a \in Account : CallBack(c, a)
    \/ \E c \in Caller : LoginOrRegisterWithOAuth(c)
    \/ \E c \in Caller : CreateUserWithOAuth(c)
    \/ \E c \in Caller : LinkOAuthAccount(c)
    \/ \E c \in Caller : LinkFails(c)
    \/ \E c \in Caller, p \in Provider : Count(c, p)
    \/ \E c \in Caller : UnlinkOAuthAccount(c)

LinksSpec == LinksInit /\ [][LinksNext]_linkVars

-----------------------------------------------------------------------------
(* Properties. *)

\* A user always keeps a way to log in: a password, or an account that is
\* linked or being linked.  The exceptions are two unlinkings at once, which
\* both count before either deletes; a provider with several accounts of the
\* user, which one unlinking removes together; and a link that failed after its
\* user had been created.
CanAlwaysLogIn ==
    user = "passwordless" =>
        \/ linked # {} \/ \E c \in Caller : caller[c].at = "checkLink"
        \/ unlinkRace \/ severalGone \/ brokenLink

=============================================================================
