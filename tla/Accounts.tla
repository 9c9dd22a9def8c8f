------------------------------ MODULE Accounts -------------------------------
(***************************************************************************)
(* The parts of the system that decide who may do what, and how much of    *)
(* it: sessions, multi-factor authentication, linked accounts, the role    *)
(* cache, API keys, the keys that encrypt secrets, SSH keys and            *)
(* connections, subscriptions with their quotas, preview domains with      *)
(* their links, the limiter of creations, the resources of environments,   *)
(* the policies of their networks and the controller that makes them what  *)
(* they are in the cluster. Each has its own rows and locks and none waits *)
(* for another, so a behaviour of all of them, seen through the variables  *)
(* of one, is a behaviour of that one. `focus' says which of them moves;   *)
(* the others stay as they started, so that TLC looks at each of them and  *)
(* not at their product.                                                   *)
(***************************************************************************)
EXTENDS Authentication, AccountLinks, RoleCache, KeyRotation, SshAccess,
        Subscriptions, PreviewDomains, CreationRateLimiter,
        ResourceAdjustments, NetworkIsolation, DevBoxController

VARIABLE focus

vars == <<focus, sessionVars, mfaVars, linkVars, roleVars, keyVars,
          sshKeyVars, sshVars, subscriptionVars, previewVars, limiterVars,
          adjustVars, networkVars, apiKeyVars, controllerVars>>

Init ==
    /\ focus \in {"sessions", "mfa", "links", "roles", "keys", "sshKeys",
                  "ssh", "subscriptions", "previews", "creations",
                  "resources", "network", "apiKeys", "controller"}
    /\ SessionsInit /\ MfaInit /\ LinksInit /\ RoleCacheInit
    /\ KeysInit /\ SshKeysInit /\ SshConnectionsInit /\ SubscriptionsInit
    /\ PreviewInit /\ LimiterInit /\ AdjustInit /\ NetworkInit /\ ApiKeysInit /\ ControllerInit
    \* Whether a user has a record of usage tells the others nothing.
    /\ focus # "resources" => hasRecord

OthersStay(part) ==
    /\ UNCHANGED focus
    /\ part # "sessions" => UNCHANGED sessionVars
    /\ part # "mfa" => UNCHANGED mfaVars
    /\ part # "links" => UNCHANGED linkVars
    /\ part # "roles" => UNCHANGED roleVars
    /\ part # "keys" => UNCHANGED keyVars
    /\ part # "sshKeys" => UNCHANGED sshKeyVars
    /\ part # "ssh" => UNCHANGED sshVars
    /\ part # "subscriptions" => UNCHANGED subscriptionVars
    /\ part # "previews" => UNCHANGED previewVars
    /\ part # "creations" => UNCHANGED limiterVars
    /\ part # "resources" => UNCHANGED adjustVars
    /\ part # "network" => UNCHANGED networkVars
    /\ part # "apiKeys" => UNCHANGED apiKeyVars
    /\ part # "controller" => UNCHANGED controllerVars

Next ==
    \/ focus = "sessions" /\ SessionsNext /\ OthersStay("sessions")
    \/ focus = "mfa" /\ MfaNext /\ OthersStay("mfa")
    \/ focus = "links" /\ LinksNext /\ OthersStay("links")
    \/ focus = "roles" /\ RoleCacheNext /\ OthersStay("roles")
    \/ focus = "keys" /\ KeysNext /\ OthersStay("keys")
    \/ focus = "sshKeys" /\ SshKeysNext /\ OthersStay("sshKeys")
    \/ focus = "ssh" /\ SshConnectionsNext /\ OthersStay("ssh")
    \/ focus = "subscriptions" /\ SubscriptionsNext /\ OthersStay("subscriptions")
    \/ focus = "previews" /\ PreviewNext /\ OthersStay("previews")
    \/ focus = "creations" /\ LimiterNext /\ OthersStay("creations")
    \/ focus = "resources" /\ AdjustNext /\ OthersStay("resources")
    \/ focus = "network" /\ NetworkNext /\ OthersStay("network")
    \/ focus = "apiKeys" /\ ApiKeysNext /\ OthersStay("apiKeys")
    \/ focus = "controller" /\ ControllerNext /\ OthersStay("controller")

Spec == Init /\ [][Next]_vars

-----------------------------------------------------------------------------
\* The rows, the caches and the requests have the shapes they should.
TypeOK ==
    /\ SessionsTypeOK /\ MfaTypeOK /\ LinksTypeOK /\ RoleCacheTypeOK
    /\ KeysTypeOK /\ SshKeysTypeOK /\ SshConnectionsTypeOK /\ SubscriptionsTypeOK
    /\ PreviewTypeOK /\ LimiterTypeOK /\ AdjustTypeOK /\ NetworkTypeOK
    /\ ApiKeysTypeOK /\ ControllerTypeOK

\* What is good for one use is used once, but for the races its part names: a
\* refresh token (auth_service.go) and a recovery code (mfa_service.go).
UsedOnce == ExchangedOnce /\ CodeUsedOnce

\* Users can do what they may and no more, but for the races and failures the
\* parts name: a session lasts until it is ended and not beyond, an API key until
\* it is revoked, the user keeps a way to log in, MFA is on only with a key they
\* hold, a changed role is in the row, and in the caches after a bounded time, a
\* preview is found under a name that was verified and through as many links as
\* there may be, and environments reach each other only where both were told to.
AccessIsRight ==
    /\ SessionLasts /\ LogoutIsFinal
    /\ CanAlwaysLogIn /\ EnabledKeyIsConfirmed
    /\ RoleChangeStands /\ RoleChangeIsSeen /\ StalenessBounded
    /\ PreviewIsAuthorised
    /\ IsolatedIsProtected /\ AccessIsMutual
    /\ RevokedIsFinal

\* What is counted and listed in two places agrees: the active key with what it
\* encrypted, the default SSH key, the connections with the slots they take, the
\* plan with the quota, a preview domain with what was made for it, the creations
\* with the order of their times, an environment's resources with what its user is
\* charged for, and its status with what there is of it in the cluster.
RecordsAgree ==
    /\ KeyRowsInOrder /\ NamesItsKey
    /\ OneDefaultKey /\ SlotsAreAccounted
    /\ OneActiveSubscription /\ QuotaFollowsPlan /\ QuotaOvershootBounded
    /\ NothingOutlivesDomain /\ OldestFirst
    /\ UsageOvershootBounded /\ UsageIsTrue /\ PodIsMadeAgain
    /\ RunningIsComplete /\ StoppedHasNoPod
==============================================================================
