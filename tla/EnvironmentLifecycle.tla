------------------------ MODULE EnvironmentLifecycle ------------------------
(***************************************************************************)
(* The life of development environments in the container service: the      *)
(* request handlers of EnvironmentService, the goroutine of                *)
(* LifecycleService that suspends, archives and deletes idle environments, *)
(* the delete confirmations, and the activity that resets the idle timer.  *)
(*                                                                         *)
(* An environment is a heap object (env) that a request goroutine keeps a  *)
(* pointer to while it works without the lock, and an entry of the map     *)
(* EnvironmentService.environments (cache).  Locked sections are single    *)
(* steps; what the code does between them is a step of its own.            *)
(*                                                                         *)
(* Time is measured in ages: a timestamp field holds now.Sub(field), is    *)
(* Nil for a nil pointer, and grows by one with Tick up to MaxAge, which   *)
(* is larger than every duration it is compared with.                      *)
(***************************************************************************)
EXTENDS Integers, FiniteSets

CONSTANTS
    Envs,                  \* environment ids (uuid.New, never used twice)
    NoEnv,                 \* "no environment" in a goroutine's locals
    Threads,               \* request goroutines
    Checker,               \* the goroutine of runLifecycleChecker
    CreatingTimeout,       \* LifecycleConfig.CreatingTimeoutDuration
    AutoStopInactivity,    \* LifecycleConfig.AutoStopInactivityDuration
    AutoDeleteStopped,     \* LifecycleConfig.AutoDeleteStoppedDuration
    AutoArchiveSuspended,  \* LifecycleConfig.AutoArchiveSuspendedDuration
    AutoDeleteArchived,    \* LifecycleConfig.AutoDeleteArchivedDuration
    FailedRetention,       \* LifecycleConfig.FailedRetentionDuration
    NotificationLeadTime,  \* LifecycleConfig.NotificationLeadTime
    ConfirmWindow,         \* the 24 hours of RequestDeleteConfirmation
    MaxAge,                \* bound: ages saturate here
    MaxConns               \* bound: open SSH connections per environment

Durations == {CreatingTimeout, AutoStopInactivity, AutoDeleteStopped,
              AutoArchiveSuspended, AutoDeleteArchived, FailedRetention,
              NotificationLeadTime, ConfirmWindow}

ASSUME LifecycleAssumption ==
    /\ NoEnv \notin Envs
    /\ Checker \notin Threads
    /\ Durations \subseteq Nat
    /\ MaxAge \in Nat
    /\ \A d \in Durations : d < MaxAge
    /\ MaxConns \in Nat

VARIABLES
    env,             \* the Environment objects
    cache,           \* keys of EnvironmentService.environments
    namespaces,      \* Kubernetes namespaces that exist, by environment
    pendingDeletes,  \* age of the delete confirmation, Nil if there is none
    conns,           \* ActivityTracker.sshConnections
    thr,             \* locals of the goroutines inside EnvironmentService
    chk              \* locals of the lifecycle checker

vars == <<env, cache, namespaces, pendingDeletes, conns, thr, chk>>

Goroutines == Threads \cup {Checker}

-----------------------------------------------------------------------------
(***************************************************************************)
(* Ages.                                                                   *)
(***************************************************************************)
Nil == -1
Ages == 0 .. MaxAge
OptAges == Nil .. MaxAge
Older(a) == IF a = Nil \/ a = MaxAge THEN a ELSE a + 1

-----------------------------------------------------------------------------
(***************************************************************************)
(* models.StateMachine.                                                    *)
(***************************************************************************)
Phases == {"Creating", "Running", "Stopped", "Failed", "Suspended",
           "Archived", "Deleting"}

ValidTransitions ==
    (({"Creating"}  \X {"Running", "Failed"})
     \cup ({"Running"}   \X {"Stopped", "Suspended", "Failed", "Deleting"})
     \cup ({"Stopped"}   \X {"Creating", "Deleting", "Archived"})
     \cup ({"Suspended"} \X {"Creating", "Stopped", "Archived", "Deleting"})
     \cup ({"Failed"}    \X {"Creating", "Deleting"})
     \cup ({"Archived"}  \X {"Creating", "Deleting"}))

CanTransition(from, to) == <<from, to>> \in ValidTransitions

\* Mutant: a suspension does not set StoppedAt.
TransitionWithoutSuspendTime(r, to) ==
    IF ~CanTransition(r.phase, to) THEN r
    ELSE [r EXCEPT !.phase = to,
                   !.updated = 0,
                   !.stopped = IF to = "Running" THEN Nil
                               ELSE IF to = "Stopped" THEN 0
                               ELSE @]

\* The environment after Transition(env, to): unchanged if it is refused.
Transition(r, to) ==
    IF ~CanTransition(r.phase, to) THEN r
    ELSE [r EXCEPT !.phase = to,
                   !.updated = 0,
                   !.stopped = IF to = "Running" THEN Nil
                               ELSE IF to \in {"Stopped", "Suspended"} THEN 0
                               ELSE @]

-----------------------------------------------------------------------------
(***************************************************************************)
(* State.                                                                  *)
(***************************************************************************)
\* StartedAt is left out: it is only assigned together with LastActivityTime,
\* which checkEnvironment prefers to it.
Environments == [phase    : Phases \cup {"None"},
                 created  : Ages,
                 updated  : Ages,
                 stopped  : OptAges,
                 activity : OptAges]

Unallocated == [phase |-> "None", created |-> 0, updated |-> 0,
                stopped |-> Nil, activity |-> Nil]

\* What Reconcile leaves in devbox.Status.Phase ("" if it sets nothing).
DevBoxPhases == {"", "Creating", "Running", "Failed"}

Pcs == {"idle", "restart", "reconcile", "fail", "phase", "times",
        "delete", "remove"}
Ops == {"none", "Create", "Start", "Delete"}

Locals == [pc : Pcs, op : Ops, env : Envs \cup {NoEnv},
           status : DevBoxPhases,
           at : OptAges]       \* age of devbox.Status.LastActivityTime

Idle == [pc |-> "idle", op |-> "none", env |-> NoEnv, status |-> "",
         at |-> Nil]

Actions == {"none", "auto_suspend", "auto_archive", "auto_delete",
            "creating_timeout", "failed_cleanup", "notify_auto_stop",
            "notify_auto_delete", "notify_auto_archive",
            "request_delete_confirmation"}

\* todo: environments still to visit; action: the result of checkEnvironment
\* for chk.env.
CheckerLocals == [pc : {"idle", "check", "exec", "request", "expire"},
                  todo : SUBSET Envs, env : Envs \cup {NoEnv},
                  action : Actions]

CheckerIdle == [pc |-> "idle", todo |-> {}, env |-> NoEnv, action |-> "none"]

TypeOK ==
    /\ env \in [Envs -> Environments]
    /\ cache \in SUBSET Envs
    /\ namespaces \in SUBSET Envs
    /\ pendingDeletes \in [Envs -> OptAges]
    /\ conns \in [Envs -> 0 .. MaxConns]
    /\ thr \in [Goroutines -> Locals]
    /\ chk \in CheckerLocals

Init ==
    /\ env = [e \in Envs |-> Unallocated]
    /\ cache = {}
    /\ namespaces = {}
    /\ pendingDeletes = [e \in Envs |-> Nil]
    /\ conns = [e \in Envs |-> 0]
    /\ thr = [g \in Goroutines |-> Idle]
    /\ chk = CheckerIdle

-----------------------------------------------------------------------------
(***************************************************************************)
(* checkEnvironment: what the checker decides about an environment whose   *)
(* fields it reads as r, without the lock.                                 *)
(***************************************************************************)
LastActivity(r) == IF r.activity = Nil THEN r.created ELSE r.activity

\* The thresholds of one rule: warn in the last NotificationLeadTime before
\* limit, act from limit on.
Rule(age, limit, warn, act) ==
    IF age >= limit THEN act
    ELSE IF age >= limit - NotificationLeadTime THEN warn
    ELSE "none"

\* Mutant: failed environments are not cleaned up.
CheckedActionWithoutCleanup(r, pending) ==
    CASE r.phase = "Creating" /\ r.created > CreatingTimeout -> "creating_timeout"
      [] r.phase = "Running" ->
            Rule(LastActivity(r), AutoStopInactivity,
                 "notify_auto_stop", "auto_suspend")
      [] r.phase = "Stopped" /\ r.stopped # Nil /\ ~pending ->
            Rule(r.stopped, AutoDeleteStopped,
                 "notify_auto_delete", "request_delete_confirmation")
      [] r.phase = "Suspended" /\ r.stopped # Nil ->
            Rule(r.stopped, AutoArchiveSuspended,
                 "notify_auto_archive", "auto_archive")
      [] r.phase = "Archived" /\ r.stopped # Nil
             /\ r.stopped >= AutoDeleteArchived -> "auto_delete"
      [] OTHER -> "none"

CheckedAction(r, pending) ==
    CASE r.phase = "Creating" /\ r.created > CreatingTimeout -> "creating_timeout"
      [] r.phase = "Running" ->
            Rule(LastActivity(r), AutoStopInactivity,
                 "notify_auto_stop", "auto_suspend")
      [] r.phase = "Stopped" /\ r.stopped # Nil /\ ~pending ->
            Rule(r.stopped, AutoDeleteStopped,
                 "notify_auto_delete", "request_delete_confirmation")
      [] r.phase = "Suspended" /\ r.stopped # Nil ->
            Rule(r.stopped, AutoArchiveSuspended,
                 "notify_auto_archive", "auto_archive")
      [] r.phase = "Archived" /\ r.stopped # Nil
             /\ r.stopped >= AutoDeleteArchived -> "auto_delete"
      [] r.phase = "Failed" /\ r.updated >= FailedRetention -> "failed_cleanup"
      [] OTHER -> "none"

CheckerAt(pc) == chk.pc = pc /\ thr[Checker].pc = "idle"

\* The checker's locals after checkEnvironment read r for e.
Visited(e, r) ==
    LET a == CheckedAction(r, pendingDeletes[e] # Nil)
    IN  [pc |-> IF a = "none" THEN "check" ELSE "exec", todo |-> chk.todo \ {e},
         env |-> IF a = "none" THEN NoEnv ELSE e, action |-> a]

-----------------------------------------------------------------------------
(***************************************************************************)
(* The two data races on an Environment object.  A transition reads the    *)
(* phase, writes it and then writes the timestamps, all under the lock,    *)
(* but updateEnvironmentFromDevBox writes the phase, and checkEnvironment  *)
(* reads phase and timestamps, without it.                                 *)
(***************************************************************************)
PhaseWriters(e) == {t \in Threads : thr[t].pc = "phase" /\ thr[t].env = e}

\* thr after the writers in W wrote the phase of their environment between
\* the read and the write of a transition: what they wrote is lost.
Overwritten(W) ==
    [g \in Goroutines |-> IF g \in W THEN [thr[g] EXCEPT !.pc = "times"]
                          ELSE thr[g]]

\* While e is moved to phase "to", the checker may read the new phase together
\* with the old timestamps.
ReadMeanwhile(e, to) ==
    \/ UNCHANGED chk
    \/ /\ CheckerAt("check")
       /\ e \in chk.todo
       /\ chk' = Visited(e, [env[e] EXCEPT !.phase = to])

-----------------------------------------------------------------------------
(***************************************************************************)
(* EnvironmentService: the requests.  A request for an environment that is *)
(* not in the map, or of another user, or in a phase from which the        *)
(* transition is refused returns an error and changes nothing.             *)
(***************************************************************************)
Entered(pc, op, e) == [Idle EXCEPT !.pc = pc, !.op = op, !.env = e]
Goto(g, pc) == thr' = [thr EXCEPT ![g].pc = pc]
Return(g) == thr' = [thr EXCEPT ![g] = Idle]

\* Create stores the new object and goes on to Reconcile.  The creation rate
\* limit in front of it is modelled in CreationRateLimiter.
Create(t, e) ==
    /\ thr[t].pc = "idle"
    /\ env[e].phase = "None"
    /\ env' = [env EXCEPT ![e] = [Unallocated EXCEPT !.phase = "Creating"]]
    /\ cache' = cache \cup {e}
    /\ thr' = [thr EXCEPT ![t] = Entered("reconcile", "Create", e)]
    /\ UNCHANGED <<namespaces, pendingDeletes, conns, chk>>

\* A request that looks e up and moves it to phase "to" under the lock.
\* next is the state in which the lock leaves the locals of goroutine t.
LockedTransition(t, e, to, next) ==
    /\ e \in cache
    /\ CanTransition(env[e].phase, to)
    /\ env' = [env EXCEPT ![e] = Transition(@, to)]
    /\ \E W \in SUBSET PhaseWriters(e) :
          thr' = [Overwritten(W) EXCEPT ![t] = next]
    /\ ReadMeanwhile(e, to)
    /\ UNCHANGED <<cache, namespaces, pendingDeletes, conns>>

Start(t, e) ==
    /\ thr[t].pc = "idle"
    /\ LockedTransition(t, e, "Creating", Entered("reconcile", "Start", e))

Stop(t, e) ==
    /\ thr[t].pc = "idle"
    /\ LockedTransition(t, e, "Stopped", Idle)

Suspend(t, e) ==
    /\ thr[t].pc = "idle"
    /\ LockedTransition(t, e, "Suspended", Idle)

Archive(t, e) ==
    /\ thr[t].pc = "idle"
    /\ LockedTransition(t, e, "Archived", Idle)

\* Restart is Stop, whose error is only logged, followed by Start.
Restart(t, e) ==
    /\ thr[t].pc = "idle"
    /\ \/ LockedTransition(t, e, "Stopped", Entered("restart", "Start", e))
       \/ /\ e \in cache
          /\ ~CanTransition(env[e].phase, "Stopped")
          /\ thr' = [thr EXCEPT ![t] = Entered("restart", "Start", e)]
          /\ UNCHANGED <<env, cache, namespaces, pendingDeletes, conns, chk>>

RestartStart(t) ==
    /\ thr[t].pc = "restart"
    /\ \/ LockedTransition(t, thr[t].env, "Creating",
                           [thr[t] EXCEPT !.pc = "reconcile"])
       \/ /\ \/ thr[t].env \notin cache
             \/ ~CanTransition(env[thr[t].env].phase, "Creating")
          /\ Return(t)
          /\ UNCHANGED <<env, cache, namespaces, pendingDeletes, conns, chk>>

\* The outcomes of controller.Reconcile for a DevBox with an empty status:
\* the phase it leaves in the status, by the phase of the pod ("" without a pod
\* or for another pod phase), and whether it returns an error, either from
\* setFailed or because the pod cannot be read.
ReconcileOutcomes ==
    {o \in [status : DevBoxPhases, err : {"nil", "error"}] :
        o.err = "error" => o.status \in {"", "Failed"}}

\* The namespace is the first resource reconcileCreating ensures: it exists
\* afterwards unless that very step failed.
EnsuresNamespace(e, o) ==
    \/ namespaces' = namespaces \cup {e}
    \/ o.err = "error" /\ o.status = "Failed" /\ UNCHANGED namespaces

\* Mutant: the status has no LastActivityTime.
ReconcileWithoutActivity(t) ==
    /\ thr[t].pc = "reconcile"
    /\ \E o \in ReconcileOutcomes :
          /\ thr' = [thr EXCEPT ![t].pc = IF o.err = "nil" THEN "phase" ELSE "fail",
                                ![t].status = o.status]
          /\ EnsuresNamespace(thr[t].env, o)
    /\ UNCHANGED <<env, cache, pendingDeletes, conns, chk>>

Reconcile(t) ==
    /\ thr[t].pc = "reconcile"
    /\ \E o \in ReconcileOutcomes :
          /\ thr' = [thr EXCEPT ![t].pc = IF o.err = "nil" THEN "phase" ELSE "fail",
                                ![t].status = o.status,
                                ![t].at = IF o.status = "Running" THEN 0 ELSE Nil]
          /\ EnsuresNamespace(thr[t].env, o)
    /\ UNCHANGED <<env, cache, pendingDeletes, conns, chk>>

\* Reconcile returned an error: the environment is marked failed if the state
\* machine allows it.  Create then returns, Start goes on to
\* updateEnvironmentFromDevBox.
ReconcileFailed(t) ==
    LET e == thr[t].env
        next == IF thr[t].op = "Create" THEN Idle
                ELSE [thr[t] EXCEPT !.pc = "phase"]
    IN  /\ thr[t].pc = "fail"
        /\ env' = [env EXCEPT ![e] = Transition(@, "Failed")]
        /\ IF CanTransition(env[e].phase, "Failed")
           THEN /\ \E W \in SUBSET PhaseWriters(e) :
                      thr' = [Overwritten(W) EXCEPT ![t] = next]
                /\ ReadMeanwhile(e, "Failed")
           ELSE thr' = [thr EXCEPT ![t] = next] /\ UNCHANGED chk
        /\ UNCHANGED <<cache, namespaces, pendingDeletes, conns>>

\* updateEnvironmentFromDevBox writes the object without the lock and without
\* the state machine: first the phase, then the timestamps.
UpdatePhaseFromDevBox(t) ==
    /\ thr[t].pc = "phase"
    /\ env' = IF thr[t].status = "" THEN env
              ELSE [env EXCEPT ![thr[t].env].phase = thr[t].status]
    /\ Goto(t, "times")
    /\ UNCHANGED <<cache, namespaces, pendingDeletes, conns, chk>>

\* Mutant: the updated object is stored in the map again.
UpdateTimesAndStore(t) ==
    /\ thr[t].pc = "times"
    /\ env' = IF thr[t].at = Nil THEN env
              ELSE [env EXCEPT ![thr[t].env].activity = thr[t].at]
    /\ cache' = cache \cup {thr[t].env}
    /\ Return(t)
    /\ UNCHANGED <<namespaces, pendingDeletes, conns, chk>>

UpdateTimesFromDevBox(t) ==
    /\ thr[t].pc = "times"
    /\ env' = IF thr[t].at = Nil THEN env
              ELSE [env EXCEPT ![thr[t].env].activity = thr[t].at]
    /\ Return(t)
    /\ UNCHANGED <<cache, namespaces, pendingDeletes, conns, chk>>

\* Delete, in three steps: mark (without the state machine), reconcile, forget.
MarkDeleting(g, e) ==
    /\ e \in cache
    /\ env' = [env EXCEPT ![e].phase = "Deleting"]
    /\ thr' = [thr EXCEPT ![g] = Entered("delete", "Delete", e)]
    /\ UNCHANGED <<cache, namespaces, pendingDeletes, conns>>

Delete(t, e) ==
    /\ thr[t].pc = "idle"
    /\ MarkDeleting(t, e)
    /\ UNCHANGED chk

\* Mutant: Delete returns the error of Reconcile.
DeleteReconcileOrReturn(g) ==
    /\ thr[g].pc = "delete"
    /\ \E o \in ReconcileOutcomes :
          /\ EnsuresNamespace(thr[g].env, o)
          /\ IF o.err = "nil" THEN Goto(g, "remove") ELSE Return(g)
    /\ UNCHANGED <<env, cache, pendingDeletes, conns, chk>>

\* DeletionTimestamp points to the zero time, for which IsZero() is true:
\* Reconcile goes on to reconcileCreating, not to handleDeletion.  Its error
\* is logged and the DevBox status is dropped.
DeleteReconcile(g) ==
    /\ thr[g].pc = "delete"
    /\ \E o \in ReconcileOutcomes : EnsuresNamespace(thr[g].env, o)
    /\ Goto(g, "remove")
    /\ UNCHANGED <<env, cache, pendingDeletes, conns, chk>>

RemoveFromCache(g) ==
    /\ thr[g].pc = "remove"
    /\ cache' = cache \ {thr[g].env}
    /\ Return(g)
    /\ UNCHANGED <<env, namespaces, pendingDeletes, conns, chk>>

Update(e) ==
    /\ e \in cache
    /\ env' = [env EXCEPT ![e].updated = 0]
    /\ UNCHANGED <<cache, namespaces, pendingDeletes, conns, thr, chk>>

-----------------------------------------------------------------------------
(***************************************************************************)
(* ActivityTracker.handleEvent and the user's answer to a confirmation.    *)
(***************************************************************************)
UpdateActivity(e) ==
    /\ e \in cache
    /\ env' = [env EXCEPT ![e].activity = 0]
    /\ UNCHANGED <<cache, namespaces, pendingDeletes, thr, chk>>

RecordActivity(e) == UpdateActivity(e) /\ UNCHANGED conns

SSHConnect(e) ==
    /\ conns[e] < MaxConns
    /\ UpdateActivity(e)
    /\ conns' = [conns EXCEPT ![e] = @ + 1]

\* Mutant: the counter is decremented unconditionally.
SSHDisconnectUnguarded(e) ==
    /\ UpdateActivity(e)
    /\ conns' = [conns EXCEPT ![e] = @ - 1]

SSHDisconnect(e) ==
    /\ UpdateActivity(e)
    /\ conns' = [conns EXCEPT ![e] = IF @ > 0 THEN @ - 1 ELSE @]

ConfirmKeepEnvironment(e) ==
    /\ pendingDeletes[e] # Nil
    /\ pendingDeletes' = [pendingDeletes EXCEPT ![e] = Nil]
    /\ UNCHANGED <<env, cache, namespaces, conns, thr, chk>>

-----------------------------------------------------------------------------
(***************************************************************************)
(* The lifecycle checker.                                                  *)
(***************************************************************************)
\* checkAllEnvironments copies the map under the lock and walks the copy.
CheckAllEnvironments ==
    /\ CheckerAt("idle")
    /\ chk' = [chk EXCEPT !.pc = "check", !.todo = cache]
    /\ UNCHANGED <<env, cache, namespaces, pendingDeletes, conns, thr>>

\* An environment with an open SSH connection is active.
CheckConnected(e) ==
    /\ CheckerAt("check")
    /\ e \in chk.todo
    /\ env[e].phase = "Running" /\ conns[e] > 0
    /\ env' = IF e \in cache THEN [env EXCEPT ![e].activity = 0] ELSE env
    /\ chk' = [chk EXCEPT !.todo = @ \ {e}]
    /\ UNCHANGED <<cache, namespaces, pendingDeletes, conns, thr>>

CheckEnvironment(e) ==
    /\ CheckerAt("check")
    /\ e \in chk.todo
    /\ ~(env[e].phase = "Running" /\ conns[e] > 0)
    /\ chk' = Visited(e, env[e])
    /\ UNCHANGED <<env, cache, namespaces, pendingDeletes, conns, thr>>

Checked == [CheckerIdle EXCEPT !.pc = "check", !.todo = chk.todo]

\* The phase a lifecycle action moves the environment to.
Target(action) ==
    CASE action = "auto_suspend" -> "Suspended"
      [] action = "auto_archive" -> "Archived"
      [] action = "creating_timeout" -> "Failed"

\* executeLifecycleAction for the actions that use the state machine; a
\* refused transition is logged.
ExecuteTransition ==
    LET e == chk.env
    IN  /\ CheckerAt("exec")
        /\ chk.action \in {"auto_suspend", "auto_archive", "creating_timeout"}
        /\ e \in cache
        /\ env' = [env EXCEPT ![e] = Transition(@, Target(chk.action))]
        /\ \E W \in SUBSET PhaseWriters(e) :
              /\ W # {} => CanTransition(env[e].phase, Target(chk.action))
              /\ thr' = Overwritten(W)
        /\ chk' = Checked
        /\ UNCHANGED <<cache, namespaces, pendingDeletes, conns>>

ExecuteDelete ==
    /\ CheckerAt("exec")
    /\ chk.action \in {"auto_delete", "failed_cleanup"}
    /\ MarkDeleting(Checker, chk.env)
    /\ chk' = Checked

\* The environment's lock is released before the confirmation is stored.
ExecuteRequest ==
    /\ CheckerAt("exec")
    /\ chk.action = "request_delete_confirmation"
    /\ chk.env \in cache
    /\ chk' = [chk EXCEPT !.pc = "request"]
    /\ UNCHANGED <<env, cache, namespaces, pendingDeletes, conns, thr>>

RequestDeleteConfirmation ==
    /\ CheckerAt("request")
    /\ pendingDeletes' = [pendingDeletes EXCEPT ![chk.env] = 0]
    /\ chk' = Checked
    /\ UNCHANGED <<env, cache, namespaces, conns, thr>>

\* The environment is gone, or the action only sends a notification.
ExecuteNothing ==
    /\ CheckerAt("exec")
    /\ \/ chk.env \notin cache
       \/ chk.action \in {"notify_auto_stop", "notify_auto_delete",
                          "notify_auto_archive"}
    /\ chk' = Checked
    /\ UNCHANGED <<env, cache, namespaces, pendingDeletes, conns, thr>>

\* Mutant: the expired confirmations stay in the map.
CheckPendingDeletesKeeping ==
    /\ CheckerAt("check") /\ chk.todo = {}
    /\ chk' = [CheckerIdle EXCEPT !.pc = "expire",
                  !.todo = {e \in Envs : pendingDeletes[e] > ConfirmWindow}]
    /\ UNCHANGED <<env, cache, namespaces, pendingDeletes, conns, thr>>

\* CheckPendingDeletes takes the expired confirmations out of the map under
\* its lock, and then deletes their environments one by one.
CheckPendingDeletes ==
    LET expired == {e \in Envs : pendingDeletes[e] > ConfirmWindow}
    IN  /\ CheckerAt("check") /\ chk.todo = {}
        /\ pendingDeletes' = [e \in Envs |-> IF e \in expired THEN Nil
                                             ELSE pendingDeletes[e]]
        /\ chk' = [CheckerIdle EXCEPT !.pc = "expire", !.todo = expired]
        /\ UNCHANGED <<env, cache, namespaces, conns, thr>>

DeleteExpired(e) ==
    /\ CheckerAt("expire")
    /\ e \in chk.todo
    /\ \/ MarkDeleting(Checker, e)
       \/ /\ e \notin cache
          /\ UNCHANGED <<env, cache, namespaces, pendingDeletes, conns, thr>>
    /\ chk' = [chk EXCEPT !.todo = @ \ {e}]

CheckDone ==
    /\ CheckerAt("expire") /\ chk.todo = {}
    /\ chk' = CheckerIdle
    /\ UNCHANGED <<env, cache, namespaces, pendingDeletes, conns, thr>>

-----------------------------------------------------------------------------
(***************************************************************************)
(* Time, and the specification.                                            *)
(***************************************************************************)
Aged(r) ==
    IF r.phase = "None" THEN r
    ELSE [r EXCEPT !.created = Older(@), !.updated = Older(@),
                   !.stopped = Older(@), !.activity = Older(@)]

Tick ==
    /\ env' = [e \in Envs |-> Aged(env[e])]
    /\ pendingDeletes' = [e \in Envs |-> Older(pendingDeletes[e])]
    /\ thr' = [g \in Goroutines |-> [thr[g] EXCEPT !.at = Older(@)]]
    /\ UNCHANGED <<cache, namespaces, conns, chk>>

\* What users do: requests, one at a time or as a BatchOperation, activity in
\* the environment, answers.
UserStep(e) ==
    \/ \E t \in Threads :
          Create(t, e) \/ Start(t, e) \/ Stop(t, e) \/ Suspend(t, e)
          \/ Archive(t, e) \/ Restart(t, e) \/ Delete(t, e)
    \/ Update(e) \/ RecordActivity(e) \/ SSHConnect(e) \/ SSHDisconnect(e)
    \/ ConfirmKeepEnvironment(e)

\* What a goroutine inside a request goes on to do.
RequestStep(g) ==
    \/ g \in Threads /\ (\/ RestartStart(g) \/ Reconcile(g) \/ ReconcileFailed(g)
                         \/ UpdatePhaseFromDevBox(g) \/ UpdateTimesFromDevBox(g))
    \/ DeleteReconcile(g) \/ RemoveFromCache(g)

CheckerStep ==
    \/ CheckAllEnvironments
    \/ \E e \in Envs : CheckConnected(e) \/ CheckEnvironment(e) \/ DeleteExpired(e)
    \/ ExecuteTransition \/ ExecuteDelete \/ ExecuteRequest
    \/ RequestDeleteConfirmation \/ ExecuteNothing
    \/ CheckPendingDeletes \/ CheckDone

Work ==
    \/ \E e \in Envs : UserStep(e)
    \/ \E g \in Goroutines : RequestStep(g)
    \/ CheckerStep

Next == Work \/ Tick

Spec == Init /\ [][Next]_vars

\* Clocks advance and goroutines are scheduled; users owe nothing.
Fairness ==
    /\ WF_vars(Tick)
    /\ WF_vars(CheckerStep)
    /\ \A g \in Goroutines : WF_vars(RequestStep(g))

FairSpec == Spec /\ Fairness

-----------------------------------------------------------------------------
(***************************************************************************)
(* Properties.                                                             *)
(***************************************************************************)
\* The auto-delete, auto-archive and permanent-delete rules of
\* checkEnvironment skip an environment whose StoppedAt is nil.  No dormant
\* environment escapes them: whatever requests, reconciliations and checks
\* race, a stopped, suspended or archived environment has its StoppedAt.
DormantHasStoppedAt ==
    \A e \in Envs : env[e].phase \in {"Stopped", "Suspended", "Archived"}
                        => env[e].stopped # Nil

\* A running environment has a LastActivityTime, so that checkEnvironment
\* measures inactivity from activity and not from CreatedAt, except while the
\* goroutine that wrote the phase has not written the timestamps yet.
RunningHasActivity ==
    \A e \in Envs : env[e].phase = "Running"
        => \/ env[e].activity # Nil
           \/ \E t \in Threads : thr[t].pc = "times" /\ thr[t].env = e
                                 /\ thr[t].at # Nil

\* What the rules of checkEnvironment measure from is there.
TimestampsAreThere == DormantHasStoppedAt /\ RunningHasActivity

\* ConfirmKeepEnvironment and CheckPendingDeletes exclude each other: an
\* environment the checker is about to delete for lack of an answer has no
\* confirmation the user could still, in vain, succeed to answer.
KeepHonoured ==
    chk.pc = "expire" => \A e \in chk.todo : pendingDeletes[e] = Nil

\* An environment that left the map of EnvironmentService never comes back:
\* the goroutines that still hold a pointer to it only write the object.
NoResurrection ==
    [][\A e \in Envs : env[e].phase # "None" /\ e \notin cache => e \notin cache']_vars

\* Delete always gets as far as removing the environment from the map, even
\* when Reconcile fails or another request overwrites the phase Deleting.
DeleteCompletes ==
    \A g \in Goroutines, e \in Envs :
        thr[g].op = "Delete" /\ thr[g].env = e ~> e \notin cache

\* An environment that users leave alone is reclaimed: if requests, activity
\* and answers cease and no SSH connection stays open, the map of
\* EnvironmentService is eventually and forever empty, whatever phase each
\* environment was in and however its goroutines ended.
AbandonedAreReclaimed ==
    \/ \E e \in Envs : []<><<UserStep(e)>>_vars
    \/ \E e \in Envs : []<>(conns[e] > 0)
    \/ <>[](cache = {})

\* No environment stays in Creating: the pod comes up, the creation fails or
\* the checker times it out, even if users keep calling (a restart counts as
\* leaving Creating).
NoStuckCreating ==
    \A e \in Envs : []<>(e \notin cache \/ env[e].phase # "Creating")

\* Neither a deletion nor a creation hangs, whatever the requests that race it.
NothingIsStuck == DeleteCompletes /\ NoStuckCreating

-----------------------------------------------------------------------------
(***************************************************************************)
(* What a comment of the code promises and the code does not keep.         *)
(***************************************************************************)
\* devbox_controller.go: "Delete all associated resources".  Once an
\* environment has left the map and no goroutine works on it any more, its
\* namespace is gone: but Delete never reaches handleDeletion.
DeletedLeavesNoNamespace ==
    \A e \in namespaces \ cache : \E g \in Goroutines : thr[g].env = e
=============================================================================
