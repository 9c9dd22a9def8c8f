------------------------------- MODULE GitSync -------------------------------
(***************************************************************************)
(* The git services of the container service, for one user, provider and   *)
(* environment: the connection and the linked repository in their maps,    *)
(* the checkout of the environment, and the clones and syncs that requests,*)
(* webhooks and the automatic sync start.  Nothing excludes two of them    *)
(* from running at once.                                                   *)
(***************************************************************************)
EXTENDS Naturals

CONSTANTS GitCaller,     \* the calls of the services
          MaxConnects,   \* bound: times the user connects
          MaxRepos,      \* bound: records made for a link
          MaxCommits     \* bound: commits pushed to the remote branch

ASSUME GitAssumption == MaxConnects \in Nat \ {0} /\ MaxRepos \in Nat \ {0} /\ MaxCommits \in Nat \ {0}

VARIABLES gitConnection,  \* the stored connection, 0 for none
          madeConnections,
          gitRepo,        \* the stored repository: record, its connection, SyncStatus
          madeRepos,
          head,           \* the last commit of the remote branch
          origin,         \* the commit of the remote-tracking branch, 0 before a clone
          workspace,      \* the commit that is checked out, 0 before a clone
          gitCall         \* each call: where it is, and what it holds

gitVars == <<gitConnection, madeConnections, gitRepo, madeRepos, head, origin, workspace,
             gitCall>>

RepoIds == 0..MaxRepos
ConnectionIds == 0..MaxConnects

GitTypeOK ==
    /\ gitConnection \in ConnectionIds /\ madeConnections \in ConnectionIds
    /\ gitRepo \in [id : RepoIds, conn : ConnectionIds,
                    status : {"pending", "syncing", "synced", "failed"}]
    /\ madeRepos \in RepoIds
    /\ head \in 1..MaxCommits /\ origin \in 0..MaxCommits /\ workspace \in 0..MaxCommits
    /\ gitCall \in [GitCaller -> [at : {"idle", "link", "token", "clone", "fetch", "reset", "synced"},
                                  then : {"link", "clone", "fetch"},
                                  id : RepoIds, conn : ConnectionIds, since : 0..MaxCommits]]

NoRepo == [id |-> 0, conn |-> 0, status |-> "pending"]
IdleGitCall == [at |-> "idle", then |-> "link", id |-> 0, conn |-> 0, since |-> 0]

GitInit ==
    /\ gitConnection = 0 /\ madeConnections = 0
    /\ gitRepo = NoRepo /\ madeRepos = 0
    /\ head = 1 /\ origin = 0 /\ workspace = 0
    /\ gitCall = [g \in GitCaller |-> IdleGitCall]

Working(g) == gitCall[g].at \in {"clone", "fetch", "reset", "synced"}

-----------------------------------------------------------------------------
(* GitOAuthService. *)

\* A new connection takes the place of the one that was stored.
Connect ==
    /\ madeConnections < MaxConnects
    /\ madeConnections' = madeConnections + 1
    /\ gitConnection' = madeConnections'
    /\ UNCHANGED <<gitRepo, madeRepos, head, origin, workspace, gitCall>>

DeleteConnection ==
    /\ gitConnection # 0
    /\ gitConnection' = 0
    /\ UNCHANGED <<madeConnections, gitRepo, madeRepos, head, origin, workspace, gitCall>>

-----------------------------------------------------------------------------
(* GitRepositoryService. *)

\* The check that it is not linked yet; the record is stored after a call to the provider.
BeginLink(g) ==
    /\ gitCall[g].at = "idle"
    /\ gitConnection # 0 /\ gitRepo.id = 0 /\ madeRepos < MaxRepos
    /\ madeRepos' = madeRepos + 1
    /\ gitCall' = [gitCall EXCEPT ![g] = [IdleGitCall EXCEPT !.at = "link", !.id = madeRepos',
                                                             !.conn = gitConnection]]
    /\ UNCHANGED <<gitConnection, madeConnections, gitRepo, head, origin, workspace>>

LinkRepository(g) ==
    /\ gitCall[g].at = "link"
    /\ gitRepo' = [id |-> gitCall[g].id, conn |-> gitCall[g].conn, status |-> "pending"]
    /\ gitCall' = [gitCall EXCEPT ![g] = IdleGitCall]
    /\ UNCHANGED <<gitConnection, madeConnections, madeRepos, head, origin, workspace>>

UnlinkRepository ==
    /\ gitRepo.id # 0
    /\ gitRepo' = NoRepo
    /\ UNCHANGED <<gitConnection, madeConnections, madeRepos, head, origin, workspace, gitCall>>

\* A record that is no longer stored is not found.
UpdateSyncStatus(id, status) ==
    gitRepo' = IF gitRepo.id = id THEN [gitRepo EXCEPT !.status = status] ELSE gitRepo

-----------------------------------------------------------------------------
(* GitSyncService.  A call that cannot find its connection by the record's *)
(* identifier returns and leaves the status alone.                         *)

BeginGitCall(g, then) ==
    /\ gitCall[g].at = "idle"
    /\ gitRepo.id # 0 /\ gitConnection = gitRepo.conn
    /\ gitCall' = [gitCall EXCEPT ![g] = [at |-> "token", then |-> then, id |-> gitRepo.id,
                                          conn |-> gitRepo.conn, since |-> head]]
    /\ UNCHANGED <<gitConnection, madeConnections, gitRepo, madeRepos, head, origin, workspace>>

CloneRepository(g) == BeginGitCall(g, "clone")

\* By request, by a webhook for a push, by a retried webhook, or automatically.
SyncRepository(g) == BeginGitCall(g, "fetch")

\* The token is valid, or it is refreshed and the connection the call holds is
\* stored again, whatever was stored in the meantime.
GetValidToken(g) ==
    /\ gitCall[g].at = "token"
    /\ gitConnection' \in {gitConnection, gitCall[g].conn}
    /\ UpdateSyncStatus(gitCall[g].id, "syncing")
    /\ gitCall' = [gitCall EXCEPT ![g].at = gitCall[g].then]
    /\ UNCHANGED <<madeConnections, madeRepos, head, origin, workspace>>

TokenRefused(g) ==
    /\ gitCall[g].at = "token"
    /\ gitCall' = [gitCall EXCEPT ![g] = IdleGitCall]
    /\ UNCHANGED <<gitConnection, madeConnections, gitRepo, madeRepos, head, origin, workspace>>

\* git clone needs an empty directory, so that no second clone succeeds.
CloneRuns(g) ==
    /\ gitCall[g].at = "clone" /\ workspace = 0
    /\ origin' = head /\ workspace' = head
    /\ gitCall' = [gitCall EXCEPT ![g].at = "synced"]
    /\ UNCHANGED <<gitConnection, madeConnections, gitRepo, madeRepos, head>>

\* git fetch, in a checkout that there is.
FetchRuns(g) ==
    /\ gitCall[g].at = "fetch" /\ workspace # 0
    /\ origin' = head
    /\ gitCall' = [gitCall EXCEPT ![g].at = "reset"]
    /\ UNCHANGED <<gitConnection, madeConnections, gitRepo, madeRepos, head, workspace>>

\* git reset --hard to the remote-tracking branch, as the last fetch left it.
ResetRuns(g) ==
    /\ gitCall[g].at = "reset"
    /\ workspace' = origin
    /\ gitCall' = [gitCall EXCEPT ![g].at = "synced"]
    /\ UNCHANGED <<gitConnection, madeConnections, gitRepo, madeRepos, head, origin>>

FailUnrecorded(g) ==
    /\ gitCall[g].at \in {"clone", "fetch", "reset"}
    /\ gitCall' = [gitCall EXCEPT ![g] = IdleGitCall]
    /\ UNCHANGED <<gitConnection, madeConnections, gitRepo, madeRepos, head, origin, workspace>>

\* A command fails: no checkout, another command's lock, the network, or a webhook's
\* request that has been answered and takes its context with it.
GitCommandFails(g) ==
    /\ gitCall[g].at \in {"clone", "fetch", "reset"}
    /\ UpdateSyncStatus(gitCall[g].id, "failed")
    /\ gitCall' = [gitCall EXCEPT ![g] = IdleGitCall]
    /\ UNCHANGED <<gitConnection, madeConnections, madeRepos, head, origin, workspace>>

RecordSynced(g) ==
    /\ gitCall[g].at = "synced"
    /\ UpdateSyncStatus(gitCall[g].id, "synced")
    /\ gitCall' = [gitCall EXCEPT ![g] = IdleGitCall]
    /\ UNCHANGED <<gitConnection, madeConnections, madeRepos, head, origin, workspace>>

\* Someone pushes to the remote branch.
Push ==
    /\ head < MaxCommits
    /\ head' = head + 1
    /\ UNCHANGED <<gitConnection, madeConnections, gitRepo, madeRepos, origin, workspace, gitCall>>

GitNext ==
    \/ Connect \/ DeleteConnection \/ UnlinkRepository \/ Push
    \/ \E g \in GitCaller : BeginLink(g)
    \/ \E g \in GitCaller : LinkRepository(g)
    \/ \E g \in GitCaller : CloneRepository(g)
    \/ \E g \in GitCaller : SyncRepository(g)
    \/ \E g \in GitCaller : GetValidToken(g)
    \/ \E g \in GitCaller : TokenRefused(g)
    \/ \E g \in GitCaller : CloneRuns(g)
    \/ \E g \in GitCaller : FetchRuns(g)
    \/ \E g \in GitCaller : ResetRuns(g)
    \/ \E g \in GitCaller : GitCommandFails(g)
    \/ \E g \in GitCaller : RecordSynced(g)

GitSpec == GitInit /\ [][GitNext]_gitVars

-----------------------------------------------------------------------------
(* Properties. *)

\* A repository says syncing only while a call is working on it, whatever calls
\* overlap and however they fail.
SyncingIsUnderWay ==
    gitRepo.status = "syncing" => \E g \in GitCaller : Working(g) /\ gitCall[g].id = gitRepo.id

\* A call that is about to report success left the checkout at a commit no older
\* than the head of the branch when it began, though others fetch and reset too.
SyncedIsCurrent == \A g \in GitCaller : gitCall[g].at = "synced" => workspace >= gitCall[g].since

=============================================================================
