# Cloud DevBox System: TLA+ models, checks and proofs

This directory holds a formal model of the parts of the Cloud DevBox System
that carry its concurrency and its state: TLA+ modules, TLC configurations that
check them on small instances, and proofs that TLAPS checks for every instance.
Paths below are relative to the repository's `src/`.  `PROJECT.json` lists the
components, the runs, the mutants that show that each property can fail, the
source lines of every definition, the findings, the hazards and the theorems.

1. Inventory of the system
2. Modules
3. What the runs check
4. What is proved
5. Where the code departs from what it says
6. What is not modelled
7. What remains

## 1. Inventory of the system

The system gives users remote development environments ("DevBoxes") on
Kubernetes.  It is a set of services, each one process with state in memory
guarded by mutexes (Go: `container`, `realtime`, `core`; Rust: `gateway`,
`media`), Postgres and Redis behind them, and clients (`apps/`, `packages/sdk`).

```
 client --HTTP--> gateway --HTTP--> core        (Postgres, Redis, payment and
                     |        \                  OAuth providers, webhooks)
                     |         \--> container   (Kubernetes, git, object storage,
                     |          \                DNS, SSH, Prometheus)
                   Redis         \-> realtime   (WebSockets)
                                  \-> media
```

Requests run in goroutines of their own.  Services in one process call each
other and share maps under mutexes; `core` shares rows of Postgres between
requests, each call a transaction of its own unless said otherwise; what takes
long is done by a goroutine after the request was answered.  Most hazards are of
three kinds: something is checked under a lock or read from a row and acted on
after others have moved; one step of several fails and what was done stays; a
goroutine finishes work whose record has changed or gone.

| part | code | state | what is hard about it | what makes it correct | module |
|---|---|---|---|---|---|
| EnvironmentService | container `environment_service.go` | map id -> environment | goroutines keep a pointer and write it outside the lock while `Reconcile` runs | removed environments stay removed, deletes end | EnvironmentLifecycle |
| Environment state machine | container `models/lifecycle.go` | transition table, timestamps | which timestamp exists in which phase | the policies find the timestamps they need | EnvironmentLifecycle |
| LifecycleService | `lifecycle_service.go` | delete confirmations, checker | unlocked decisions carried out later; an answer races the end of its window | abandoned environments are reclaimed, an answer in time is honoured | EnvironmentLifecycle |
| ActivityTracker | `activity_tracker.go` | SSH counts | disconnects without connects | counts stay counts | EnvironmentLifecycle |
| Creation rate limiter | `environment_service.go` | creation times of a user | check and record are two sections | bounded overshoot | CreationRateLimiter |
| DevBox controller | `k8s/controller/devbox_controller.go` | Kubernetes objects | six calls any of which fails, two Reconciles at once, a namespace going down | a running DevBox has its objects, a stopped one no pod | DevBoxController |
| Deployment pipeline | `deployment_service.go` | deployments, versions, cluster objects | rollbacks and deletions overlapping the pipeline | running means deployed, deleted means gone, everything settles | Deployments |
| Autoscaling | `autoscaling_service.go` | configurations with their cooldowns | two metrics in one pass, alerts, registration, no cooldown | no measurement scales sooner than the cooldown in force, nor beyond the limits | Adaptation |
| Previews | `preview_service.go`, `proxy_service.go` | domain, DNS record, certificate, share links | calls to providers between the locks | verified names only, no more links than allowed, nothing outlives its domain | PreviewDomains |
| Custom domains | `customdomain_service.go` | verification jobs | cancelled and cleaned-up jobs that go on | verified means found and certificate requested | DomainVerification |
| Hot reload, file watcher | `hotreload_service.go`, `filewatcher_service.go` | subscribers' channels, watchers | slices shifted in place under a reader; a configuration set past the watchers | told once, nobody told while it is off | HotReload |
| SSH access | `ssh_service.go` | keys, connections, slots | rotation in three sections; two maps under two locks | one default key, slots are accounted for | SshAccess |
| Git | `git_repository_service.go`, `git_sync_service.go`, `git_oauth_service.go` | connections, links, sync status, checkout | overlapping syncs, failing commands, tokens going away | a synced checkout is current | GitSync |
| Backups | `code_backup_service.go`, `database_backup_service.go`, `config_backup_service.go` | chains, hash table, versions | files hashed and then copied; failure after the table is replaced; retention against chains; checksums taken from an import | an incremental backup has its parents and its files, versions are in order | Backups |
| Disaster recovery | `disaster_recovery_service.go` | replication queue, regions | a failover fails between switch and check | the primary is active and has a replica | DisasterRecovery |
| Monitoring, alerts | `monitoring_service.go`, `alert_service.go` | samples, rules, alerts, notification channel | rules deleted or changed while their alerts are open; full channel | one open alert, for what was last measured | Alerts |
| Quotas, resources | `quota_service.go`, `resource_service.go` | usage, pods | check, change and count are separate calls | usage is what was adjusted, overshoot bounded | ResourceAdjustments |
| Network isolation | `network_service.go` | network policies | three and two calls for one promise | isolated is protected, access is mutual | NetworkIsolation |
| Sessions, MFA, API keys | core `auth_service.go`, `mfa_service.go`, `apikey_service.go` | rows of tokens, users, codes, keys | read-decide-write without a transaction | good for one use, final logout and revocation | Authentication |
| OAuth | `oauth_service.go` | users, linked accounts | count, then delete | a user can always log in | AccountLinks |
| RBAC | `rbac_service.go` | role row, two cache entries | a fill after the delete | staleness bounded | RoleCache |
| Templates | `template_service.go`, `template_version_service.go` | template, versions | two bumps from one number | the version is recorded, the next number free | TemplateVersions |
| Payments, invoices | `payment_service.go`, `invoice_service.go`, `*_provider.go` | rows | notices lost, repeated, overlapping queries, asked again while a trade waits; lost writes | paid means received, credited once and for good | Payments |
| Billing | `billing_service.go` | subscription, quota rows | two requests; writes that fail in between; a saved row takes its old plan back | one subscription, the quota of the plan asked for last | Subscriptions |
| Webhooks | `webhook_service.go` | deliveries | goroutines with copies of the row, saves lost unseen, crash, retry on demand | outcome is true, deliveries end | WebhookDeliveries |
| Security service | `security_service.go` | key rows, key in memory | rotation in four calls | data names the key that encrypts it | KeyRotation |
| Gateway proxy | gateway `handlers.rs`, `discovery.rs` | breaker, gauge | answers arrive in another breaker state | only probes decide, the breaker recovers | GatewayProxy |
| Gateway rate limiter | `rate_limit.rs` | Redis counter | window boundaries, expiry | bounds per window, refusals end | GatewayRateLimit |
| Collaboration hub | realtime `websocket_service.go` | hub loop, channels, pumps | bounded queues, channels closed under a sender | no closed channel is used, dead clients go | CollaborationHub |
| CRDT engine, editing | `crdt_engine.go` | documents, clocks | an edit is many calls on a document others change | no rune lost, versions tell texts apart | CollaborationEditing |
| Collaboration sessions | `collaboration_service.go`, `history_service.go`, `cursor_service.go` | sessions, history index, cursors | find and join are two sections; trimming | they meet in one session, the index leads to its operations | CollaborationSessions |
| Meeting signalling | `signaling_service.go` | rooms, roster, connections | leave in two sections, writers that are gone | membership, one sharer | MeetingRoom |
| Meeting controls | `meeting_service.go`, `screen_share_service.go` | roster, shared screen | entries written while a join copies the slice | hosts' decisions stay | MeetingControls |
| Recordings | `recording_service.go` | recordings, storage | deleted while processed | one at a time, storage is listed | Recordings |
| Video quality | `quality_service.go` | samples, delays | frequent measurements | changes keep their delays | Adaptation |

Nothing of the conflict resolver, the media service, the clients, the SDKs and
the SQL is modelled (section 6).

Which of these actually run: `server.go` of each service constructs
EnvironmentService, MonitoringService and others (container), the hub,
CollaborationService and SignalingService (realtime), and auth, MFA, RBAC,
templates and OAuth (core).  LifecycleService, NetworkService and the services of
meeting controls, recordings and video quality are constructed by tests only;
they are modelled as running, as they are written to be used.  So is
FileWatcherService, which nothing constructs: the route that sets a hot reload
configuration is HotReloadService's own.

## 2. Modules

| module | models | in the composition | proofs |
|---|---|---|---|
| `EnvironmentLifecycle` | EnvironmentService, lifecycle state machine, LifecycleService, ActivityTracker | itself one of four | `EnvironmentLifecycleProofs` |
| `CollaborationHub` | hub, handlers, ReadPump, WritePump | | `RealtimeProofs` |
| `MeetingRoom` | one meeting of SignalingService, its handlers and writers | | `RealtimeProofs` |
| `Payments` | payments, providers, notices, invoices | | `PaymentsProofs` |
| `GatewayProxy` | request gauge, circuit breaker, proxy_request | `Gateway` | `GatewayProofs` |
| `GatewayRateLimit` | both Redis rate limiting algorithms | `Gateway` | `GatewayProofs` |
| `Authentication` | refresh tokens; MFA; API keys | `Accounts` | `AccountsProofs` |
| `CreationRateLimiter` | the limiter in front of Create | `Accounts` | `AccountsProofs` |
| `AccountLinks`, `RoleCache`, `KeyRotation`, `SshAccess`, `Subscriptions`, `PreviewDomains`, `ResourceAdjustments`, `NetworkIsolation`, `DevBoxController` | one part each of section 1 | `Accounts` | `AccountsProofs` |
| `CollaborationEditing` | the text algorithm as operators, and edits of several clients | `Contents` | `ContentsProofs` |
| `CollaborationSessions`, `MeetingControls`, `HotReload`, `TemplateVersions`, `Backups`, `GitSync` | one part each | `Contents` | `ContentsProofs` |
| `Adaptation` | autoscaling; video quality | `BackgroundWork` | `BackgroundWorkProofs` |
| `Deployments`, `DomainVerification`, `DisasterRecovery`, `WebhookDeliveries`, `Alerts`, `Recordings` | one part each | `BackgroundWork` | `BackgroundWorkProofs` |
| `BackgroundJobs` | what a piece of work in the background promises: the abstract specification | refined by `BackgroundWork` | |

**Compositions.**  `Accounts`, `Contents`, `BackgroundWork` and `Gateway` put together
parts that belong to one question and share no state.  Each part has its own
rows, maps and locks and waits for none of the others, so a behaviour of all of
them projects to a behaviour of each, and a property of one part's variables
holds of the composition if and only if it holds of the part.  The variable
`focus`, chosen at the start, says which part moves; the others stutter.  TLC
thus explores the sum of the parts and not their product.  For three parts of
`Accounts` the projection is the theorem `PartsAreImplemented` (section 4).
Parts that do interact are in one module: the four of `EnvironmentLifecycle`;
payments with invoices; plans with quotas; the resource service with the quota
service; previews with their share links; the monitoring loop with
the alert pass and the notification worker; the git services; sessions with
their cursors and history.

**Refinement.**  `BackgroundJobs` is the promise of work done after the request
was answered: it is begun at most once, closed once, never reopened, and every
job is closed in the end.  `BackgroundWork!Abstract` is the refinement mapping
(`INSTANCE BackgroundJobs WITH ...`): verifications of domains, copies of
backups, failovers, notifications and recordings are its jobs.  A deployment is
not: a rollback reopens it, and nor is a webhook delivery, which the user may
retry; for those there is `WorkEnds`.

**Conventions.**  What the code does while it holds one lock, and one call of a
database, a cluster or a provider, is one action.  What it does between is a
step of its own, also when it should not be: an unlocked write that another
goroutine can observe half done is two actions.  A call that fails is another
disjunct, and what was done before it stays.  Time is a Tick that ages
timestamps (`now.Sub(t)`), up to a constant beyond which no comparison of the
code tells ages apart; times to live that matter only as "over" or "not over"
are an action that ends them.  Every bound on how often something may happen
is a constant with a comment `bound:`.  Users and networks are not fair;
goroutines, clocks and `select` are.  Variables that only record what happened
are marked `history`.  No module declares a RECURSIVE operator.  Definitions
that come directly before the definition of a similar name
(`TransitionWithoutSuspendTime` before `Transition`) are mutants: plausible slips
that `PROJECT.json` exchanges for the real definition to show that a property
notices.

### Services with a module of their own

*EnvironmentLifecycle.*  `env` holds the Environment objects (phase and the ages
of CreatedAt, UpdatedAt, StoppedAt and LastActivityTime), `cache` the keys of
`EnvironmentService.environments`, `namespaces` the Kubernetes namespaces,
`pendingDeletes` the age of each delete confirmation, `conns` the SSH connection
counts, `thr` the locals of the goroutines inside EnvironmentService (`pc` says
which unlocked part they are in) and `chk` those of the lifecycle checker.  An
environment object can outlive its key in `cache`: goroutines hold pointers.
`Create`, `Start`, `Stop`, `Suspend`, `Archive`, `Restart`, `Delete` and `Update`
are the locked sections of the requests.  `Reconcile` is the controller call
with an empty status and any of its outcomes (which `DevBoxController` has call by
call); `ReconcileFailed`, `UpdatePhaseFromDevBox` and `UpdateTimesFromDevBox` are
what Create and Start do afterwards without the lock.  The checker's loop is
`CheckAllEnvironments` (takes the list), `CheckConnected`/`CheckEnvironment`
(decides, on unlocked reads), one of the `Execute*` actions (carries out what was
decided), then `CheckPendingDeletes` and `DeleteExpired`.

*CollaborationHub.*  `broadcast` is the hub's queue, `registered` its session map,
`hub`/`notice` the hub's goroutine in the middle of queueing a notice to itself,
`mutex` the CollaborationService lock that JoinSession holds while it registers,
`reader` and `writer` the places of the two pumps, `send` and `closed` the
clients' channels.  The two unbuffered channels of the hub are the joint steps
`RegisterClient` and `UnregisterClient`.  A panic (a send on a closed channel)
stops every goroutine.

*MeetingRoom.*  `room` and `connections` are the keys of the room's and the
service's map; `left` and `sharing` flags of the roster, which only grows;
`handler` and `writer` the two goroutines of a connection; `replies` its channel.
JoinMeeting holds the room's mutex throughout and is one action; LeaveMeeting is
two.  `Relay` stands for the messages that only broadcast.

*Payments.*  Rows of payments and invoices, the trade at the provider, and
handlers: each has at most one request or notice in hand and a copy of the rows
it read.  `ReadFor...` takes the copy, the action named as the method saves the
whole row (gorm `Save`) and so undoes what was written since; `DatabaseFails`
ends a handler between any two calls.  WeChat and Alipay differ in what they
answer to a query: the id that WeChat is asked with it does not know.  A trade
that waits makes the row pending again, which keeps its id, so that later queries
are answered too and may credit.  An invoice's `from` says which payments are in
AmountPaid; `crossed` are those that were credited while another handler held a
copy of the invoice, and may so have been undone.

*Gateway.*  `GatewayProxy` has the breaker (`state`, `failure_count`,
`success_count`, `last_failure`), the requests inside `send().await` with their
ages, and the gauge; `probe` is history: the requests admitted to test the
service since the breaker last opened.  `GatewayRateLimit` is the limiter for one
key; which algorithm is in use is a variable that Init chooses.  Both run
atomically in Redis.

### Parts of Accounts

*Authentication* has three: `tokens`, `session` and the visitors who hold a token
between their calls; `userRow`, `codes` and the dialogs that set up, enable, use
and remove MFA with a copy of the user's row; the rows of API keys and clients
who update and use them.  *AccountLinks*: the user, the linked accounts and
callers between look-up, creation and link, or between count and delete.
*RoleCache*: the version of the role in the database and in the two cache
entries with their ages, and askers between reading and filling.
*KeyRotation*: the rows of keys by version, the key in memory, rotators and
writers.  *SshAccess*: keys and rotations; connections, slots and the two locks
`mu` and `envMu`.  *Subscriptions*: subscription rows, the quota and its use;
`asked` is the plan asked for last.  A change of plan sets the quota and not the
row: gorm's Save writes the id of the old Plan, which was loaded with the row, back
into it.
*PreviewDomains*: the domain's entry, its DNS record and certificate, links and
the calls under way.  *CreationRateLimiter*: `counts`, ages of creations; `Check`
and `Record`.  *ResourceAdjustments*: pods' resources, the usage and adjustments
with what they read.  *NetworkIsolation*: the policies of two environments and
the calls that make and delete them.  *DevBoxController*: the objects in the
cluster, the phase, and two Reconciles with the place each has reached.

### Parts of Contents

*CollaborationEditing*: `StartEdit` (look the document up), `DrawClock`, and per
rune `LookUp`, `CreateInsertOperation`/`CreateDeleteOperation`, `Apply`; then
`Acknowledge`; `EndSession` takes the document out of the map while clients go
on.  *CollaborationSessions*: `GetOrCreateSession` and `JoinSession` are apart, as
in the handler; positions of the history against its entries.
*MeetingControls*: roster entries, and a join between copying the slice and
storing it.  *HotReload*: the array behind the subscribers' slice, slot by
slot; watchers under updates and under the API, which sets the configuration
past them (`SetHotReloadConfig`).  *TemplateVersions*: the template row, version
rows and editors who hold a copy.  *Backups*: code, database and configuration,
three state machines.  A backup of code hashes a file (`HashFile`), opens it again
and copies it (`CopyFile`), replaces the table (`StoreHashes`) and closes the archive
(`CompleteBackup`), with edits between any two; `damaged` are those that copied
something else than they had hashed, or were not closed as they should.  A
configuration's version has the checksum it was stored with, which for an
imported one is whatever the import says.  *GitSync*: connection, links, the
checkout and calls with the command they are at.

### Parts of BackgroundWork

*Deployments*: the pipeline's place, rollbacks and deletions at theirs, the
workload, service and ingress.  *DomainVerification*: jobs in the map and their
runners.  *DisasterRecovery*: the queue, replicas, active regions, failovers.
*WebhookDeliveries*: the status of each row, which is all of it that is ever read,
and the runs with their own numbers of attempts; each save may be lost (`unsaved`
where it was the outcome's).
*Alerts*: samples, rules, alerts and `activeAlertKeys`, the pass in progress, the
channel, the worker.  *Recordings*: status, what is listed, what is stored.
*Adaptation* has two: for autoscaling the configuration with its own limits and
cooldowns, the ages of the last scalings as the service keeps them, and how long
ago they really were; for video quality the samples with their ages, the
participant's state, and how far apart changes were.

## 3. What the runs check

Every run is finite and takes at most about three minutes with two workers.  All
properties are listed in the runs; each can fail, as at least one mutant per
property shows.

| run (module, configuration) | properties | distinct states |
|---|---|---|
| `lifecycle_safety` (`MCEnvironmentLifecycle`) | TypeOK, TimestampsAreThere, KeepHonoured, NoResurrection | 1,564,087 |
| `lifecycle_liveness` (`EnvironmentLifecycle`, `...Live.cfg`) | NothingIsStuck, AbandonedAreReclaimed | 107,473 |
| `gateway` (`Gateway`) | TypeOK, HalfOpenAwaitsProbes, WindowsHold, Recovers, RefusalEnds | 11,132 |
| `hub` (`CollaborationHub`) | HubTypeOK, RegisteredIsOpen, DeadClientsAreRemoved, JoinsReturn | 102,075 |
| `meeting` (`MeetingRoom`) | MeetingTypeOK, MembersAreConnected, AtMostOneSharer, OccupiedWhileActive, GoneClientsLeave | 141,946 |
| `payments` (`Payments`) | PaymentsTypeOK, PaidMeansReceived, CreditedOnce, ReceivedIsCredited | 448,439 |
| `accounts` (`Accounts`) | TypeOK, UsedOnce, AccessIsRight, RecordsAgree, OvershootBounded | 1,440,919 |
| `contents` (`MCContents`) | TypeOK, EditsAreKept, ChangesAreTold, VersionsAgree, CopiesAreTrue, TextsGrow | 1,413,318 |
| `background` (`BackgroundWork`) | TypeOK, StatusIsTrue, AdaptsSlowly, WorkEnds, WorkIsClosed | 77,494 |
| `doc_deleted_namespace`, `doc_hub_broadcast`, `doc_screen_share` | one each, violated: section 5 | |

A property of a composition is the conjunction of the properties of its parts
that answer one question (what is good for one use; who may do what; what is
counted in two places; what a status says); each conjunct has a name, a comment
and its definition in the part's module.

Instances, and why the bounds are enough.

* *Lifecycle.*  Environments share nothing but the limiter (a part of its own)
  and the checker's list, which is handled one after another, so one
  environment shows what its requests, its reconciliations and the checker do
  to it.  Two request goroutines (symmetric) allow any two unlocked parts to
  overlap, and a third with the checker.  Durations are 0 or 1 with ages up to
  2: every rule can be false and true, before and after any step.  The liveness
  run has one request goroutine and an SSH connection.
* *Gateway.*  Two requests and thresholds of 2 make each counter of the breaker
  pass through a middle value; the breaker's timeout and the HTTP client's are
  equal, as in the code, where both are 30 s.  The limiter's window of 4
  instants with a limit of 3 lets requests lie on both sides of its end.
* *Hub.*  With queues of one a single message fills them; two clients are a
  sender and a receiver.  The deadlocks and panics of section 5 all appear.
* *Meeting.*  The third connection finds the meeting full, ended, or with a place
  freed; a channel of one with one message left in the socket is the smallest
  in which a reader blocks for ever.
* *Payments.*  Two payments through the two providers for one invoice, each of
  what is due when it is made, so that both can be for the whole; two handlers are
  two deliveries of one notice, a notice and a query, or a payment and a void; a
  query can be asked again and again while the trade waits.  A third handler adds
  nothing that two steps of the second do not.
* *Accounts.*  Two requests per part, three where a third finds what two of them
  left (creations, SSH calls, adjusted pods); two of what is contended for and
  where a middle is needed three (tokens that replace one another, keys that
  succeed one another).  Limits of one or two are reached and exceeded; of plans one
  has a limit and one has none.
* *Contents.*  Three connections of two users and two runes, typed at one place
  or at the same time; three subscribers, since the slice that is shifted in
  place repeats or skips from the third on; two editors of a template and three
  versions; a history of two entries, the third of which trims it to one, so that
  entries are both in order and moved; three numbers of configurations in a list of
  two; four backups of databases make a chain of a parent, a child and its child
  beside another, three of code with two contents of the file a chain with an edit in
  any place; two syncs that overlap, two links, two commits; three visits to a
  session of two; two users in two entries of a meeting, and a third join is
  refused by the bound.
* *Background.*  Two rollbacks and a deletion beside the pipeline; two jobs of
  one domain; two backups for a queue of one, two regions, two failovers;
  deliveries to two webhooks, one of which the user retries; two rules for one key;
  two recordings; cooldowns of none and of two ticks, limits at and beyond the number
  of replicas; delays of 2 and 4 instants with a window of 2, so that a raise can
  follow a lowering within either.

CHECK_DEADLOCK is off where a system may stop: the lifecycle (environment ids are
not reused: once the last is deleted and ages are saturated nothing is left), the
hub (a panic ends the process), and the compositions and payments, whose bounds
on the number of requests run out.

Fairness and its reasons.

* `EnvironmentLifecycle`: weak fairness of Tick (clocks advance), of each
  goroutine inside a request (Go schedules it, API calls return), and of the
  checker (its ticker fires and it is one goroutine).  None for users.
* `GatewayProxy`: Tick; clients keep sending (WF of Send), a request that is
  answered again and again is not disconnected each time (SF of Succeed), and the
  HTTP client's timeout ends failing ones (WF of Fail).  Recovers is about what
  happens when clients keep coming: without requests an open circuit stays open.
  `GatewayRateLimit`: Tick, and the client keeps asking.
* `CollaborationHub`: Go's `select` chooses at random among ready channels, hence
  SF of the hub's cleanup tick and of registrations.  DeadClientsAreRemoved and
  JoinsReturn are conditional on HubRuns, because the hub can wait for itself
  for ever or panic (section 5).
* `MeetingRoom`: WF of each handler and each writer goroutine; what a peer that is
  gone left in the socket is read, what a live peer sends is not promised.
* `Payments`: WF of a handler's next call, SF of a notice's handling and delivery:
  providers repeat a notice until it is answered, and a database that fails
  again and again does not fail always.
* `BackgroundWork`: WF of the goroutines that were started (pipeline, rollbacks,
  runners of verifications, copies, failovers, deliveries, the pass over the
  alert rules, recordings); SF of handling a notification, which
  needs `AlertService`'s mutex: the pass over the rules holds it again and again.
  Where the parts start no fair action is enabled, so the parts that do not move owe
  nothing.  After a crash, and where the save of a delivery's outcome was lost,
  DeliveriesEnd promises nothing: those are the code's gaps named in section 5.

## 4. What is proved

The theorems are `Spec => []Inv`, action properties, or that a composition
implements its parts, for every value of the constants that satisfies the
modules' ASSUMEs.

* `EnvironmentLifecycleProofs`: TypeCorrect, TimestampsThere (with DormantIsTimed
  and RunningIsTimed), KeepIsHonoured, RemovedStaysRemoved.  The inductive
  invariant joins the properties with what the goroutines' places imply: a
  goroutine about to write the phase Running holds the time it is going to write
  next; a goroutine between the two writes of the timestamps keeps an environment
  Running without activity; the environments the checker is about to delete have
  had their confirmation taken away in the same locked section.
  TransitionFacts, about the transition table, carries the timestamps of dormant
  environments: Archived is reached only from phases that have a StoppedAt.
* `RealtimeProofs`, of the hub: HubTyping, RegisteredStaysOpen.  The strengthening
  is that a client whose channel is closed had been registered, and that nothing
  registers a client twice.  Of a meeting: MeetingTyping, Membership, OneSharer,
  Occupied, EndIsFinal.  The four state properties are inductive together; OneSharer
  needs that handleScreenShare looks at every entry of the roster, departed ones
  included, which is also what section 5 complains about.
* `GatewayProofs`, of the breaker: ProxyTyping, BreakerIsConsistent, and
  OldRequestsAreTimingOut, []HalfOpenAwaitsProbes: for any two timeouts, a request from
  before the circuit opened that is in flight while it is half-open has been so for the
  breaker's whole timeout.  With equal timeouts, as the gateway sets them, the HTTP client
  gives it up at that very instant.  The strengthening is that while the circuit is open
  every request in flight is at least as old as the last failure.  Of the
  limiter, and with it of the gateway: TypeCorrect, WindowsAreKept, PartsAreImplemented.
  What the script has counted is exactly what was let through since the counter was
  made, at the instant Window - ttl, where at least one request was; when the counter
  goes, that instant leaves the window with it, so that what is left is at most
  Limit - 1 of the old count.  While the pipeline's counter lives, nothing has been let
  through since it was last renewed.  Both are facts about the sums of the last n
  instants (UpTo), and about how they move when an instant passes.
* `PaymentsProofs`: TypeCorrect, PaidWasReceived, CreditIsGivenOnce.  That a paid
  invoice was paid for needs a fact about every copy a handler holds as well:
  whoever is about to write "paid", or a row in which it is, has seen the
  provider's answer.  That a payment is credited once needs that, where no two
  handlers met and no write was lost, at most one handler holds the payment and
  none does once it has been credited; and that the credit stays needs that every
  copy of the invoice that is held has it too, where none was held while it was given.
* `AccountsProofs`: TypeCorrect, AccessIsAsItShould, RecordsAlwaysAgree,
  GoodForOneUse, PartsAreImplemented, LimiterTyped and OvershootIsBounded.  All
  fourteen parts of `Accounts` have an inductive invariant, and AccountsInv, their
  conjunction, gives the three properties.  What each needs beyond its property:
  - tokens: one that nobody shared is revoked before the one who holds it issues
    another; a session that is to end has begun, and a refresh under way carries it
    on only if the logout crossed it;
  - recovery codes: rows not yet inserted belong to one dialog; whatever a request
    has read of the user and will save is a flag with its confirmed key;
  - linked accounts: unless two unlinkings overlap, one that has counted the
    accounts of a user without a password has two of them before it;
  - role cache: what a cache or a request holds was superseded no longer ago than it
    is old, and than the requests it went through took;
  - encryption keys: while rotations do not overlap, the one under way owns the
    active row, versions differ, and a store that no rotation crosses names a row of
    the key in memory;
  - SSH keys: a key that is being rotated is no default that is still there, unless
    it was one when it was read or was chosen since;
  - SSH connections: an identifier that was not registered twice is in the list once
    while it is in the map, and until the one call that took it out of the map has
    taken it out of the list;
  - subscriptions: without two requests at once, the request under way knows the one
    active row, and if it is setting quotas they are of the plan asked for last; the
    usage and the requests that have passed the check stay in their bound together;
  - previews: what a deletion has gone past is gone or could not be deleted, and a
    verification that a deletion or a new name crossed is known to have been; the
    links that are there and those about to be are counted together;
  - creations: a prefix of the list goes and a new entry is the youngest;
  - resources: what requests that have been checked ask for, together with the usage,
    stays in its bound; with one request at most for each pod the usage is what the
    pods have more than at first, where a pod counts with what it had when the
    request that is changing it read it;
  - networks: a request that is isolating an environment has made the policies before
    the one it is at, unless the environment was stripped of them; while a pair is
    settled one request at most works on it, and access is one way only between its
    two halves;
  - API keys: an update that read a key before it was revoked is the only one that
    can bring it back;
  - controller: a Reconcile that is at a step has made what the steps before it make,
    and a pod of a stopped DevBox was made by a Reconcile that has not looked at it
    yet.
* `FiniteSums`: lemmas for the three modules of compositions that need them.  They
  say of the community modules' sum, a fold with an element chosen at each step,
  that it does not depend on the choice, how it changes with one value, and how sums
  compare.  Induction is replaced by Least, a smallest counterexample, which the
  library's WFMin gives without an operator parameter.  RecursionExists says that a
  function whose value is defined from its value at an earlier argument exists; the
  chains of backups and the filter of the history are such functions, of which
  nothing follows before that.
* `ContentsProofs`: TypeCorrect, EditsAreAlwaysKept, TextsAlwaysGrow,
  ChangesAreAlwaysTold, VersionsAlwaysAgree and CopiesAreAlwaysTrue: every property
  of the run `contents`.  All ten parts have an inductive invariant, and ContentsInv is
  their conjunction.  The strengthenings:
  - editing: every rune an edit has brought in is in the document that the edit looked
    up first, except one, which is about to be applied and is in no document yet; edits
    bring in runes of their own, and a document has none twice; an edit's clock is below
    the user's.  TextsAlwaysGrow is about insertion and the marking of a deletion: each
    old character has a place in the new text, in the same order (Grows);
  - sessions: a seat has the colour of its place unless another joined since the colour
    was drawn, and whose cursor is shown has joined; the entries of a history are in
    the order of time, and the index is what they make it, before and after trimming;
  - controls: the array that a join copied has the entries as they are, but for those
    that were written since it was copied, and nobody leaves meanwhile;
  - hot reload: the array a notification walks is the current one or an earlier one,
    which is not written any more; until somebody unsubscribes, its slots hold the
    subscribers that were found, and those it has passed were told or were too slow.
    The arrays have at most four slots, so this theorem is for up to four subscribers.
    A change that is told was reported, or waited, while the configuration was on;
    an update that turns it off is still to stop the watcher, unless the API has set
    it since;
  - templates: a version that is being made follows the number it was computed from,
    and until a first version is stored the template is as it was made;
  - configurations: the list is in the order of its numbers, none above the last one
    given, and only an imported one has a checksum that is not its own; of two that
    follow one another and are alike, the later was not checked, or the earlier was
    imported with a checksum of something else;
  - backups of code: while nothing overlapped, failed or was removed, one backup is under
    way at most, an incremental one names the latest completed one, and the table of
    hashes is what that one hashed; so the file is in the chain when the table says it
    need not be copied, if the archive it is in has what was hashed.  Backups of
    databases: the parent was made earlier and is completed, and once a dump has
    begun it is there, or a user has deleted it;
  - git: the remote-tracking branch and the checkout only go forward, so that what a
    call brought into them is there when it reports.
* `BackgroundWorkProofs`: TypeCorrect, RecordsAreTrue, NothingIsDrivenToAndFro and
  WorkIsBegunAndClosedOnce, for all eight parts.  The strengthenings:
  - deployments: until a deletion begins the pipeline adds to the cluster in its
    order, and there are records and rollbacks only when it is done; what a deletion
    has passed is gone, unless it could not be deleted;
  - verifications: what a goroutine has found stays found; one that nobody cancelled
    has the status of its place, and keeps others from starting once it has begun;
  - recovery: a backup is queued once and before it has replicas; a failover that has
    switched found one, and of failovers that do not meet only one is between its
    steps, with its target active;
  - webhooks: before the user retries it, a delivery has one goroutine, which stops at
    the first webhook that accepts; as saves may be lost, the row may say less than the
    goroutines know and never more;
  - alerts: the alert that is open for a key is one of that key; what a pass has
    looked at agrees with the sample already while the pass goes on; a notification
    is waiting to be sent, or dropped, only while it is pending;
  - recordings: everything stored has an address, and one that is deleted before its
    upload has strayed;
  - scaling: the ages that the service keeps are those of what really happened;
    video: an age the service keeps is never older than the change it is of, because
    a participant who registers again starts with young ones, and a sample that is
    kept is young (Recent).

  WorkIsBegunAndClosedOnce is the safety of the refinement of `BackgroundJobs`: the
  state of a piece of work starts as the abstract one does, and every step of the
  system is a step of the abstract specification, or none (WorkFollows, with a lemma
  per kind of work).

Assumptions beyond types are few: thresholds and delays are positive (but for
cooldowns, of which any may be none); sets of
requests, accounts, links, pods, subscribers and alert rules are finite where they
are counted; there is a payment, an invoice, a handler, a plan, an SSH key, a caller
and some contents for a template and a configuration; the values that stand for none
(`NoToken`, `NoCaller`, `NoEnv`) are none of theirs, and no environment has the name
of a policy of the isolation (the code names the others allow-from-<environment>).

Only model-checked: the liveness properties (NothingIsStuck, AbandonedAreReclaimed,
Recovers, RefusalEnds, DeadClientsAreRemoved, JoinsReturn, GoneClientsLeave,
ReceivedIsCredited, WorkEnds) and with them the liveness of the refinement
WorkIsClosed: the prover handles neither fairness nor ENABLED.  Every invariant that a
passing run checks is also proved, and so are the action properties NoResurrection and
TextsGrow.

## 5. Where the code departs from what it says

With a run that shows it (`findings` of `PROJECT.json`):

* `doc_deleted_namespace`.  `EnvironmentService.Delete` hands Reconcile a
  DeletionTimestamp that is the zero time, whose `IsZero()` is true; Reconcile
  takes the creating branch, makes anew whatever is missing, and handleDeletion
  is never called.  A deleted environment leaves its namespace.
* `doc_hub_broadcast`.  The hub's loop queues join and leave notices to its own
  broadcast channel and is the only one to empty it: when the channel is full the
  hub waits for itself.
* `doc_screen_share`.  A participant who leaves while sharing keeps ScreenSharing
  in the roster, and nobody may share in that meeting any more.

Without a run, met while modelling.  The properties name these as their
exceptions, or are stated so that they hold beside them.

* *Lifecycle.*  Deleting is a terminal phase in the table, yet an update after a
  Reconcile in flight overwrites it (the environment still gets removed).  A
  delete confirmation survives the restart of its environment.  The creation
  timeout is measured from CreatedAt, also on a restart, and the archive's
  retention from StoppedAt.  The checker suspends on a decision it took earlier,
  also if the environment has become active since.
* *Creation limit.*  Check and Record are not one section: up to `clients - 1`
  creations beyond the limit, which is the bound OvershootBounded states.
* *Controller.*  The work queue has no consumer; every call passes an empty
  status; in a namespace that is being taken down, what is still there counts as
  made.
* *Gateway.*  The breaker's and the HTTP client's timeouts are both 30 s
  (`config.rs:91`, `discovery.rs:87`), so a request from before the circuit opened
  can be answered in the instant in which it is half-open and the client about to
  give up, and is then counted as a probe.  `active_requests` is not
  taken back when a client disconnects.  The Lua script's fixed window lets
  through up to 2 * limit - 1 requests in a window's length.
* *Hub.*  `CleanupInactiveClients` closes the channel of a client whose reader may
  be about to send on it: the process panics.
* *Editing.*  applyInsert skips every character of a smaller site or clock,
  concurrent or not, so a rune typed in the middle of one's own text lands at its
  end.  Rune `i` of an insert takes clock + i while the user's clock advances by
  one, so ids repeat; replicas then need not converge.
* *Collaboration sessions.*  LeaveSession has no caller: participants keep their
  seats, and after MaxParticipants joins a session is full until it ends.
  Colours are drawn from an unlocked `len(Participants)`.  The REST handler makes a
  second active session.  Clients stay connected to a session that has ended, and
  their edits, cursors and history make its state anew; history is never
  cleared.
* *Meetings.*  HandleSignalingWebSocket, under the comment "Get the connection from
  the service", makes a second SignalingConnection with a channel of its own and
  runs the writer on that one; what the room broadcasts is never delivered.  The
  reader can wait for ever to put an error on a channel whose writer has
  returned, and then never leaves the meeting.
* *Meeting controls.*  Roles and mutes written while a join copies the slice are
  lost.  One co-host entry, even of someone who has left or rejoined, authorises.
  A sharer who leaves keeps the share until it is forced to stop; a share can
  start after leaving or after the end.  Meetings ended by the last leave stay
  in both services' maps.
* *Recordings and video.*  A recording deleted while processed is uploaded for
  nobody; the storage's refusal to delete is ignored; the end of a meeting leaves
  its recording in progress.  The three calls for better video need not be
  consecutive; critical losses can raise audio-only to 360p; ForceQuality does
  not restart the delays.
* *Payments.*  QueryPaymentStatus ignores a failed save and credits anyway; a
  failure between recording success and MarkInvoicePaid loses the credit, as the
  next notice finds the payment done; overlapping deliveries credit twice; saves
  of whole rows let VoidInvoice, FinalizeInvoice or another credit undo a payment
  (`crossed`); a query of a trade that waits takes the row from processing back to
  pending; WeChat is queried with the prepay id; a void invoice can be paid.
* *Billing.*  ChangePlan (`billing_service.go:176-179`) sets PlanID on a
  subscription whose Plan was preloaded, and gorm's Save puts the old plan's id
  back: the quotas are the new plan's, the subscription stays with the old one.  Two
  requests can create two active subscriptions; ChangePlan's stale save can revive
  a cancelled one.
* *Sessions and MFA.*  Two refreshes can exchange one token; a refresh in flight
  survives a logout; the error of a revocation is ignored, and so is that of saving
  a used recovery code.  A stale save of the user's row reverts a change of role
  or of MFA.  An API key's stale save undoes a revocation or makes a deleted row
  anew.
* *OAuth and roles.*  Two accounts unlinked at once leave a user without a
  password with no way to log in; a failure after the user was created leaves it
  unlinked.  SetUserRole does not delete the entry of the permissions, and
  InvalidateUserPermissions has no caller.
* *Templates.*  Update makes no version; two versions bumped from one number can
  move the template backwards and block the next.
* *Encryption keys.*  What was stored before a rotation cannot be decrypted after
  it; a store during a rotation names the wrong key; while no row is active a
  store fails on the unique master id.
* *Webhooks.*  The goroutines share the loop's variable (`webhook_service.go`
  259-280, built as Go 1.21), so that a delivery may go to another webhook;
  next_retry_at is never set, so what a crash interrupts stays pending.  The error
  of every save of a delivery is ignored (296, 318, 329, 418): when the outcome's is
  lost the delivery stays retrying for ever, and nobody works on it.
* *Deployments.*  Deletion does not stop the pipeline; a failed rollback says
  Failed although the old workload runs, and does not restore the configuration.
* *Autoscaling.*  The number of replicas is taken to be two; one pass can scale
  both up and down; registering anew after unregistering forgets the cooldown.
  Cooldowns are not validated: with none, as in
  `performance_monitoring_test.go:308-315`, the processor and the memory both scale
  up in one pass, and every pass scales again; one shorter than the time of a pass
  counts as none in the model.  Alerts wait for no cooldown.
* *Previews and custom domains.*  A name changed during its verification becomes
  active unverified; the certificate of an old name is kept; links made during a
  deletion survive it.  A pending job is not seen, so a second one starts; the
  goroutine does not look at its cancellation (comment at
  `customdomain_service.go:268`); "active" is said when a certificate was only
  requested.
* *Hot reload.*  A notification that meets an unsubscription skips or repeats a
  subscriber or panics on a closed channel; ConfigBackupService's listeners
  likewise.  The route that sets the configuration (`preview_handlers.go:423`) stops
  no watcher; UpdateWatcherConfig, which would, has no caller.  Nobody is told all
  the same, as NotifyFileChange reads the configuration again.
* *SSH.*  A rotated default key is looked up first and made later, so that a
  deletion between reappears as its replacement; the same connection registered
  twice leaks a slot; RegisterConnection and CleanupStaleConnections take two
  locks in opposite orders and can wait for each other (comment at
  `ssh_service.go:828`).
* *Git.*  A reconnection has a new id, and links of the old one never sync again;
  a token refresh stores a deleted connection back; a webhook's sync runs under the
  context of the request, which ends with it (`git_handlers.go:432`); the status of
  overlapping syncs is the last writer's.
* *Backups.*  The hash table is replaced before the backup is known to have
  succeeded, so the next incremental one misses what changed; DeleteBackup and
  clean-ups do not look at children; a record deleted during its dump leaves the
  file.  A file is hashed and then opened again and copied
  (`code_backup_service.go:328-353`, 430-467): what is edited between is archived
  under the old hash, and what is edited back is not archived at all later.  The
  errors of the deferred Close of tar, gzip and file (287-298, 392-400) are ignored,
  so an archive cut short counts as completed.  Checksums of imported configuration
  versions are taken as they come (`config_backup_service.go:498-517`): the next save
  may be skipped as unchanged, or made although nothing changed.  Trimmed versions
  leave their files.
* *Disaster recovery.*  A backup queued before its archive is written is
  replicated as complete with metadata only; a full queue drops; a failover that
  fails after the switch leaves the old primary inactive; the old primary's
  IsPrimary is never reset.
* *Alerts.*  Two rules of one metric and severity open and resolve each other's
  alert; Duration is ignored; deleting a rule leaves its alert open; errors of
  Prometheus read as zero usage; a dropped notification stays pending.
* *Quotas.*  A user without a record panics in MustParse("") on an increase; only
  adjustments are counted, and overlapping ones twice; storage counts even if the
  volume was not resized.
* *Network.*  A failure between the two calls leaves one-way access; policies
  deleted during an isolation leave it reported done with policies missing.

## 6. What is not modelled

* The media service: its handlers and `main.rs` use an `SfuService` with
  operations that `sfu.rs`, which has an `SfuRouter`, does not define
  (`handlers.rs:13`), so there is no program whose behaviour a model could follow.
* The conflict resolver: operations are never passed to it.
* Authentication and routing in the gateway: stateless.  The command line,
  desktop and web clients and the SDKs: one request at a time, or rendering.  The
  SQL: its unique keys are assumptions of the modules that rely on them.
* Validation of requests, logging, formats, signatures and encodings everywhere;
  dashboards and exports, which compute an object from their arguments; the text
  of proxy, SSH client and Dockerfile configurations; the requests to providers'
  APIs beyond what they answer.
* Inside the modelled parts: ActivityTracker's event channel (events may be
  dropped), the notification channel of LifecycleService; load balancing between
  instances, of which the registry holds one per service, and health checks,
  which nothing calls; Redis' rounding of expiries; SerializeDocument and
  ImportHistory, which have no caller; audio flags and statistics of meetings;
  blocked addresses, security events and audit logs, which are single statements;
  ResourceQuota objects and single ports of the network; the cache of template
  lists; backup schedules, which only say when.  The notes of `PROJECT.json` say
  this per component.

## 7. What remains

The model covers the state-changing operations that the container, core and
realtime services and the gateway carry out concurrently.  Worth adding, should
the code change: the controller's work queue once it has a consumer (and then the
refinement of EnvironmentLifecycle's one-step Reconcile by DevBoxController); the
media service once it builds; LeaveSession once it has a caller.  Of the safety
that the runs check nothing is left unproved.  Within reach of the prover are further
facts about single parts, first of them the refinement just named, and hot reload for
any number of subscribers once the model's arrays have any size.
