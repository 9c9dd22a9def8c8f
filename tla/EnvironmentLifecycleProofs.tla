--------------------- MODULE EnvironmentLifecycleProofs ---------------------
(***************************************************************************)
(* Proofs of the safety properties of EnvironmentLifecycle, for every      *)
(* number of environments and goroutines and all durations.                *)
(***************************************************************************)
EXTENDS EnvironmentLifecycle, TLAPS

-----------------------------------------------------------------------------
(***************************************************************************)
(* The operators the actions are built from.                               *)
(***************************************************************************)
\* Time keeps an age an age and never clears or sets a timestamp.
LEMMA OlderAges ==
    /\ \A a \in Ages : Older(a) \in Ages
    /\ \A a \in OptAges : Older(a) \in OptAges /\ (Older(a) = Nil <=> a = Nil)
  BY LifecycleAssumption DEF Older, Ages, OptAges, Nil

Dormant(r) == r.phase \in {"Stopped", "Suspended", "Archived"}

\* Transition yields an environment, never one that newly runs, and keeps
\* StoppedAt set in dormant environments: Stopped and Suspended set it, and
\* Archived is reached from those two only.
LEMMA TransitionFacts ==
    ASSUME NEW r \in Environments, NEW to \in Phases \ {"Running"}
    PROVE  /\ Transition(r, to) \in Environments
           /\ (Dormant(r) => r.stopped # Nil)
                 => (Dormant(Transition(r, to)) => Transition(r, to).stopped # Nil)
           /\ Transition(r, to).phase = "Running" => r.phase = "Running"
           /\ Transition(r, to).activity = r.activity
<1>1. CASE ~CanTransition(r.phase, to)
  BY <1>1 DEF Transition
<1>2. CASE CanTransition(r.phase, to)
  <2>1. Transition(r, to) =
          [r EXCEPT !.phase = to, !.updated = 0,
                    !.stopped = IF to \in {"Stopped", "Suspended"} THEN 0 ELSE @]
    BY <1>2 DEF Transition
  <2>2. to = "Archived" => r.phase \in {"Stopped", "Suspended"}
    BY <1>2 DEF CanTransition, ValidTransitions
  <2>3. 0 \in Ages /\ 0 \in OptAges /\ 0 # Nil
    BY LifecycleAssumption DEF Ages, OptAges, Nil
  <2> QED
    BY <2>1, <2>2, <2>3 DEF Environments, Phases, Dormant
<1> QED
  BY <1>1, <1>2

\* A visit leaves the checker with a decision about the visited environment,
\* or without one at the next environment.
LEMMA VisitedFacts ==
    ASSUME chk \in CheckerLocals, NEW e \in Envs, NEW r
    PROVE  /\ Visited(e, r) \in CheckerLocals
           /\ Visited(e, r).pc \in {"check", "exec"}
<1> DEFINE a == CheckedAction(r, pendingDeletes[e] # Nil)
<1>1. a \in Actions
  <2>1. \A age, limit : \A warn, act \in Actions : Rule(age, limit, warn, act) \in Actions
    BY DEF Rule, Actions
  <2> QED
    BY <2>1 DEF CheckedAction, Actions
<1>2. Visited(e, r) = [pc |-> IF a = "none" THEN "check" ELSE "exec",
                       todo |-> chk.todo \ {e},
                       env |-> IF a = "none" THEN NoEnv ELSE e, action |-> a]
  BY DEF Visited
<1> HIDE DEF a
<1> QED
  BY <1>1, <1>2 DEF CheckerLocals

-----------------------------------------------------------------------------
(***************************************************************************)
(* The inductive invariant.                                                *)
(***************************************************************************)
\* A goroutine inside a request works on an environment.
BusyHasEnv == \A g \in Goroutines : thr[g].pc # "idle" => thr[g].env \in Envs

\* A DevBox status with phase Running has a LastActivityTime.
RunningStatusHasTime ==
    \A g \in Goroutines : thr[g].pc \in {"fail", "phase"} /\ thr[g].status = "Running"
                              => thr[g].at # Nil

IInv ==
    /\ TypeOK
    /\ BusyHasEnv
    /\ RunningStatusHasTime
    /\ DormantHasStoppedAt
    /\ RunningHasActivity
    /\ KeepHonoured

LEMMA IdleFacts == Idle \in Locals /\ Idle.pc = "idle" /\ CheckerIdle \in CheckerLocals
  BY LifecycleAssumption DEF Idle, Locals, Pcs, Ops, DevBoxPhases, OptAges, Nil,
                             CheckerIdle, CheckerLocals, Actions

LEMMA EnteredFacts ==
    \A pc \in {"restart", "reconcile", "delete"}, op \in {"Create", "Start", "Delete"},
       e \in Envs :
        /\ Entered(pc, op, e) \in Locals
        /\ Entered(pc, op, e).pc = pc
        /\ Entered(pc, op, e).env = e
  BY IdleFacts DEF Entered, Idle, Locals, DevBoxPhases, Pcs, Ops

\* The initial state satisfies the invariant.
LEMMA InitInv == Init => IInv
<1> SUFFICES ASSUME Init PROVE IInv
  OBVIOUS
<1>1. Unallocated \in Environments /\ Unallocated.phase = "None"
  BY LifecycleAssumption DEF Unallocated, Environments, Phases, Ages, OptAges, Nil
<1>2. TypeOK
  BY <1>1, IdleFacts, LifecycleAssumption DEF Init, TypeOK, OptAges, Nil
<1>3. BusyHasEnv /\ RunningStatusHasTime
  BY IdleFacts DEF Init, BusyHasEnv, RunningStatusHasTime
<1>4. DormantHasStoppedAt /\ RunningHasActivity
  BY <1>1 DEF Init, DormantHasStoppedAt, RunningHasActivity
<1>5. KeepHonoured
  BY DEF Init, KeepHonoured, CheckerIdle
<1> QED
  BY <1>2, <1>3, <1>4, <1>5 DEF IInv

-----------------------------------------------------------------------------
(***************************************************************************)
(* What a step of the invariant depends on, one fact per variable.         *)
(***************************************************************************)
\* thr after some racing phase writes of e were overwritten and goroutine t
\* went on to next.
LEMMA OverwrittenFacts ==
    ASSUME IInv, NEW e \in Envs, NEW W \in SUBSET PhaseWriters(e)
    PROVE  /\ Overwritten(W) \in [Goroutines -> Locals]
           /\ \A g \in Goroutines :
                 /\ Overwritten(W)[g] = thr[g]
                    \/ /\ thr[g].pc = "phase"
                       /\ Overwritten(W)[g].pc = "times"
                 /\ Overwritten(W)[g].env = thr[g].env
                 /\ Overwritten(W)[g].status = thr[g].status
                 /\ Overwritten(W)[g].at = thr[g].at
<1>1. \A g \in Goroutines : thr[g] \in Locals
  BY DEF IInv, TypeOK
<1>2. \A g \in W : g \in Goroutines /\ thr[g].pc = "phase"
  BY DEF PhaseWriters, Goroutines
<1> QED
  BY <1>1, <1>2 DEF Overwritten, Locals, Pcs

\* A transition under the lock, to a phase other than Running, made by a
\* goroutine that is not applying a DevBox status.
LEMMA TransitionStep ==
    ASSUME IInv, NEW t \in Goroutines, NEW e \in Envs,
           NEW to \in Phases \ {"Running"},
           NEW next \in Locals,
           thr[t].pc \notin {"phase", "times"},
           next.pc # "idle" => next.env \in Envs,
           next.pc \in {"fail", "phase"} /\ next.status = "Running" => next.at # Nil,
           env' = [env EXCEPT ![e] = Transition(@, to)],
           \E W \in SUBSET PhaseWriters(e) : thr' = [Overwritten(W) EXCEPT ![t] = next],
           ReadMeanwhile(e, to),
           UNCHANGED <<cache, namespaces, pendingDeletes, conns>>
    PROVE  IInv'
<1>1. PICK W \in SUBSET PhaseWriters(e) : thr' = [Overwritten(W) EXCEPT ![t] = next]
  OBVIOUS
<1>2. env[e] \in Environments /\ thr \in [Goroutines -> Locals]
  BY DEF IInv, TypeOK
<1>3. env'[e] = Transition(env[e], to) /\ \A x \in Envs \ {e} : env'[x] = env[x]
  BY DEF IInv, TypeOK
<1>4. thr' \in [Goroutines -> Locals] /\ thr'[t] = next
      /\ \A g \in Goroutines \ {t} : thr'[g] = Overwritten(W)[g]
  BY <1>1, OverwrittenFacts
<1>5. \/ chk' = chk
      \/ chk.pc = "check" /\ chk' \in CheckerLocals /\ chk'.pc \in {"check", "exec"}
  BY VisitedFacts DEF ReadMeanwhile, CheckerAt, IInv, TypeOK
<1>6. TypeOK'
  BY <1>2, <1>4, <1>5, TransitionFacts DEF IInv, TypeOK
<1>7. BusyHasEnv'
  BY <1>4, OverwrittenFacts DEF IInv, BusyHasEnv
<1>8. RunningStatusHasTime'
  BY <1>4, OverwrittenFacts DEF IInv, RunningStatusHasTime
<1>9. DormantHasStoppedAt'
  BY <1>2, <1>3, TransitionFacts DEF IInv, DormantHasStoppedAt, Dormant
<1>10. RunningHasActivity'
  <2> SUFFICES ASSUME NEW x \in Envs, env'[x].phase = "Running", env'[x].activity = Nil
               PROVE  \E u \in Threads : thr'[u].pc = "times" /\ thr'[u].env = x
                                         /\ thr'[u].at # Nil
    BY DEF RunningHasActivity
  <2>1. env[x].phase = "Running" /\ env[x].activity = Nil
    BY <1>2, <1>3, TransitionFacts
  <2>2. PICK u \in Threads : thr[u].pc = "times" /\ thr[u].env = x /\ thr[u].at # Nil
    BY <2>1 DEF IInv, RunningHasActivity
  <2>3. u \in Goroutines \ {t} /\ thr'[u] = thr[u]
    BY <2>2, <1>4, OverwrittenFacts DEF Goroutines
  <2> QED
    BY <2>2, <2>3
<1>11. KeepHonoured'
  BY <1>5 DEF IInv, KeepHonoured
<1> QED
  BY <1>6, <1>7, <1>8, <1>9, <1>10, <1>11 DEF IInv

\* The requests that are one transition under the lock, and the steps of
\* Restart.
LEMMA LockedTransitionStep ==
    ASSUME IInv, NEW t \in Goroutines, NEW e \in Envs,
           NEW to \in Phases \ {"Running"}, NEW next \in Locals,
           thr[t].pc \notin {"phase", "times"},
           next.pc # "idle" => next.env \in Envs,
           next.pc \in {"fail", "phase"} /\ next.status = "Running" => next.at # Nil,
           LockedTransition(t, e, to, next)
    PROVE  IInv'
  BY TransitionStep DEF LockedTransition

\* A goroutine that is not applying a DevBox status goes on to next; objects
\* and confirmations stay as they are.
LEMMA GotoStep ==
    ASSUME IInv, NEW t \in Goroutines, NEW next \in Locals,
           thr[t].pc # "times",
           next.pc # "idle" => next.env \in Envs,
           next.pc \in {"fail", "phase"} /\ next.status = "Running" => next.at # Nil,
           thr' = [thr EXCEPT ![t] = next],
           cache' \in SUBSET Envs, namespaces' \in SUBSET Envs,
           UNCHANGED <<env, pendingDeletes, conns, chk>>
    PROVE  IInv'
<1>1. TypeOK'
  BY DEF IInv, TypeOK
<1>2. thr'[t] = next /\ \A g \in Goroutines \ {t} : thr'[g] = thr[g]
  BY DEF IInv, TypeOK
<1>3. BusyHasEnv' /\ RunningStatusHasTime'
  BY <1>2 DEF IInv, BusyHasEnv, RunningStatusHasTime
<1>4. DormantHasStoppedAt' /\ KeepHonoured'
  BY DEF IInv, DormantHasStoppedAt, KeepHonoured
<1>5. RunningHasActivity'
  BY <1>2 DEF IInv, RunningHasActivity, Goroutines
<1> QED
  BY <1>1, <1>3, <1>4, <1>5 DEF IInv

\* A step that may set or renew timestamps, and clears none.
Stamps ==
    \A e \in Envs : /\ env'[e].phase = env[e].phase
                    /\ env[e].stopped # Nil => env'[e].stopped # Nil
                    /\ env[e].activity # Nil => env'[e].activity # Nil

LEMMA StampStep ==
    ASSUME IInv, env' \in [Envs -> Environments], Stamps,
           conns' \in [Envs -> 0 .. MaxConns],
           chk' = chk \/ (chk' \in CheckerLocals /\ chk'.pc # "expire"),
           UNCHANGED <<cache, namespaces, pendingDeletes, thr>>
    PROVE  IInv'
  BY DEF IInv, TypeOK, BusyHasEnv, RunningStatusHasTime, DormantHasStoppedAt,
         RunningHasActivity, KeepHonoured, Stamps

\* Delete marks an environment.
LEMMA MarkDeletingStep ==
    ASSUME IInv, NEW g \in Goroutines, NEW e \in Envs, thr[g].pc = "idle",
           MarkDeleting(g, e),
           chk' \in CheckerLocals,
           chk'.pc = "expire" => chk.pc = "expire" /\ chk'.todo \subseteq chk.todo
    PROVE  IInv'
<1> DEFINE next == Entered("delete", "Delete", e)
<1>1. next \in Locals /\ next.pc = "delete" /\ next.env = e
  BY EnteredFacts
<1> HIDE DEF next
<1>2. env' = [env EXCEPT ![e].phase = "Deleting"] /\ thr' = [thr EXCEPT ![g] = next]
      /\ UNCHANGED <<cache, namespaces, pendingDeletes, conns>>
  BY DEF MarkDeleting, next
<1>3. thr'[g] = next /\ \A h \in Goroutines \ {g} : thr'[h] = thr[h]
  BY <1>2 DEF IInv, TypeOK
<1>4. env'[e].phase = "Deleting" /\ \A x \in Envs \ {e} : env'[x] = env[x]
  BY <1>2 DEF IInv, TypeOK, Environments
<1>5. TypeOK'
  BY <1>1, <1>2 DEF IInv, TypeOK, Environments, Phases
<1>6. BusyHasEnv' /\ RunningStatusHasTime'
  BY <1>1, <1>3 DEF IInv, BusyHasEnv, RunningStatusHasTime
<1>7. DormantHasStoppedAt'
  BY <1>4 DEF IInv, DormantHasStoppedAt
<1>8. RunningHasActivity'
  BY <1>3, <1>4 DEF IInv, RunningHasActivity, Goroutines
<1>9. KeepHonoured'
  BY <1>2 DEF IInv, KeepHonoured
<1> QED
  BY <1>5, <1>6, <1>7, <1>8, <1>9 DEF IInv

-----------------------------------------------------------------------------
(***************************************************************************)
(* Every action preserves the invariant.                                   *)
(***************************************************************************)
LEMMA CreateStep ==
    ASSUME IInv, NEW t \in Threads, NEW e \in Envs, Create(t, e)
    PROVE  IInv'
<1> DEFINE new == [Unallocated EXCEPT !.phase = "Creating"]
           next == Entered("reconcile", "Create", e)
<1>1. new \in Environments /\ new.phase = "Creating"
  BY LifecycleAssumption DEF Unallocated, Environments, Phases, Ages, OptAges, Nil
<1>2. next \in Locals /\ next.pc = "reconcile" /\ next.env = e
  BY EnteredFacts
<1>3. env' = [env EXCEPT ![e] = new] /\ thr' = [thr EXCEPT ![t] = next]
      /\ cache' = cache \cup {e} /\ UNCHANGED <<namespaces, pendingDeletes, conns, chk>>
      /\ thr[t].pc = "idle" /\ t \in Goroutines
  BY DEF Create, Goroutines
<1> HIDE DEF new, next
<1>4. thr'[t] = next /\ \A h \in Goroutines \ {t} : thr'[h] = thr[h]
  BY <1>3 DEF IInv, TypeOK
<1>5. env'[e] = new /\ \A x \in Envs \ {e} : env'[x] = env[x]
  BY <1>3 DEF IInv, TypeOK
<1>6. TypeOK'
  BY <1>1, <1>2, <1>3 DEF IInv, TypeOK
<1>7. BusyHasEnv' /\ RunningStatusHasTime'
  BY <1>2, <1>4 DEF IInv, BusyHasEnv, RunningStatusHasTime
<1>8. DormantHasStoppedAt'
  BY <1>1, <1>5 DEF IInv, DormantHasStoppedAt
<1>9. RunningHasActivity'
  BY <1>1, <1>3, <1>4, <1>5 DEF IInv, RunningHasActivity, Goroutines
<1>10. KeepHonoured'
  BY <1>3 DEF IInv, KeepHonoured
<1> QED
  BY <1>6, <1>7, <1>8, <1>9, <1>10 DEF IInv

LEMMA UserPreserves ==
    ASSUME IInv, NEW e \in Envs, UserStep(e)
    PROVE  IInv'
<1>1. ASSUME NEW t \in Threads,
             Start(t, e) \/ Stop(t, e) \/ Suspend(t, e) \/ Archive(t, e) \/ Restart(t, e)
      PROVE  IInv'
  <2>1. t \in Goroutines /\ thr[t].pc = "idle"
    BY <1>1 DEF Goroutines, Start, Stop, Suspend, Archive, Restart
  <2>2. /\ Entered("reconcile", "Start", e) \in Locals
        /\ Entered("reconcile", "Start", e).pc = "reconcile"
        /\ Entered("reconcile", "Start", e).env = e
        /\ Entered("restart", "Start", e) \in Locals
        /\ Entered("restart", "Start", e).pc = "restart"
        /\ Entered("restart", "Start", e).env = e
    BY EnteredFacts
  <2>3. {"Creating", "Stopped", "Suspended", "Archived"} \subseteq Phases \ {"Running"}
    BY DEF Phases
  <2>4. CASE Start(t, e)
    BY <2>1, <2>2, <2>3, <2>4, LockedTransitionStep DEF Start
  <2>5. CASE Stop(t, e) \/ Suspend(t, e) \/ Archive(t, e)
    BY <2>1, <2>3, <2>5, IdleFacts, LockedTransitionStep DEF Stop, Suspend, Archive
  <2>6. CASE LockedTransition(t, e, "Stopped", Entered("restart", "Start", e))
    BY <2>1, <2>2, <2>3, <2>6, LockedTransitionStep
  <2>7. CASE /\ thr' = [thr EXCEPT ![t] = Entered("restart", "Start", e)]
             /\ UNCHANGED <<env, cache, namespaces, pendingDeletes, conns, chk>>
    <3>1. cache' \in SUBSET Envs /\ namespaces' \in SUBSET Envs
      BY <2>7 DEF IInv, TypeOK
    <3> QED
      BY <2>1, <2>2, <2>7, <3>1, GotoStep
  <2> QED
    BY <1>1, <2>4, <2>5, <2>6, <2>7 DEF Restart
<1>2. ASSUME NEW t \in Threads, Delete(t, e)
      PROVE  IInv'
  BY <1>2, MarkDeletingStep DEF Delete, Goroutines, IInv, TypeOK
<1>3. CASE Update(e) \/ RecordActivity(e) \/ SSHConnect(e) \/ SSHDisconnect(e)
  <2>1. env' \in [Envs -> Environments]
    BY <1>3, LifecycleAssumption
       DEF Update, RecordActivity, SSHConnect, SSHDisconnect, UpdateActivity,
           IInv, TypeOK, Environments, Ages, OptAges, Nil
  <2>2. Stamps
    BY <1>3 DEF Update, RecordActivity, SSHConnect, SSHDisconnect, UpdateActivity,
                IInv, TypeOK, Environments, Nil, Stamps
  <2>3. conns' \in [Envs -> 0 .. MaxConns]
    BY <1>3, LifecycleAssumption
       DEF Update, RecordActivity, SSHConnect, SSHDisconnect, UpdateActivity, IInv, TypeOK
  <2>4. UNCHANGED <<cache, namespaces, pendingDeletes, thr>> /\ chk' = chk
    BY <1>3 DEF Update, RecordActivity, SSHConnect, SSHDisconnect, UpdateActivity
  <2> QED
    BY <2>1, <2>2, <2>3, <2>4, StampStep
<1>4. CASE ConfirmKeepEnvironment(e)
  <2>1. TypeOK'
    BY <1>4, LifecycleAssumption DEF ConfirmKeepEnvironment, IInv, TypeOK, OptAges, Nil
  <2>2. KeepHonoured'
    BY <1>4 DEF ConfirmKeepEnvironment, IInv, TypeOK, KeepHonoured, CheckerLocals
  <2> QED
    BY <1>4, <2>1, <2>2
       DEF ConfirmKeepEnvironment, IInv, BusyHasEnv, RunningStatusHasTime,
           DormantHasStoppedAt, RunningHasActivity
<1> QED
  BY <1>1, <1>2, <1>3, <1>4, CreateStep DEF UserStep

LEMMA RequestPreserves ==
    ASSUME IInv, NEW g \in Goroutines, RequestStep(g)
    PROVE  IInv'
<1> DEFINE e == thr[g].env
<1>1. thr[g] \in Locals /\ thr \in [Goroutines -> Locals]
      /\ cache \in SUBSET Envs /\ namespaces \in SUBSET Envs
  BY DEF IInv, TypeOK
<1>2. thr[g].pc # "idle" => e \in Envs
  BY DEF IInv, BusyHasEnv
<1>3. CASE g \in Threads /\ RestartStart(g)
  <2> DEFINE next == [thr[g] EXCEPT !.pc = "reconcile"]
  <2>1. next \in Locals /\ next.pc = "reconcile" /\ next.env = e /\ e \in Envs
    BY <1>1, <1>2, <1>3 DEF Locals, Pcs, RestartStart
  <2>2. "Creating" \in Phases \ {"Running"}
    BY DEF Phases
  <2>3. CASE LockedTransition(g, e, "Creating", next)
    <3> HIDE DEF next
    <3> QED
      BY <1>3, <2>1, <2>2, <2>3, LockedTransitionStep DEF RestartStart
  <2>4. CASE Return(g) /\ UNCHANGED <<env, cache, namespaces, pendingDeletes, conns, chk>>
    BY <1>1, <1>3, <2>4, IdleFacts, GotoStep DEF Return, RestartStart
  <2> QED
    BY <1>3, <2>3, <2>4 DEF RestartStart
<1>4. CASE g \in Threads /\ Reconcile(g)
  <2>1. PICK o \in ReconcileOutcomes :
          /\ thr' = [thr EXCEPT ![g].pc = IF o.err = "nil" THEN "phase" ELSE "fail",
                                ![g].status = o.status,
                                ![g].at = IF o.status = "Running" THEN 0 ELSE Nil]
          /\ EnsuresNamespace(e, o)
    BY <1>4 DEF Reconcile
  <2> DEFINE next == [thr[g] EXCEPT !.pc = IF o.err = "nil" THEN "phase" ELSE "fail",
                                    !.status = o.status,
                                    !.at = IF o.status = "Running" THEN 0 ELSE Nil]
  <2>2. thr' = [thr EXCEPT ![g] = next]
    BY <1>1, <2>1 DEF Locals
  <2>3. o.status \in DevBoxPhases
    <3>1. \A x \in ReconcileOutcomes : x.status \in DevBoxPhases
      BY DEF ReconcileOutcomes, DevBoxPhases
    <3> QED
      BY <2>1, <3>1
  <2>4. 0 \in OptAges /\ Nil \in OptAges /\ 0 # Nil
    BY LifecycleAssumption DEF OptAges, Nil
  <2>5. next \in Locals /\ next.env = e /\ (next.status = "Running" => next.at # Nil)
    BY <1>1, <2>3, <2>4 DEF Locals, Pcs
  <2>6. thr[g].pc = "reconcile" /\ UNCHANGED <<env, cache, pendingDeletes, conns, chk>>
    BY <1>4 DEF Reconcile
  <2>7. namespaces' \in SUBSET Envs /\ cache' \in SUBSET Envs
    BY <1>1, <1>2, <2>1, <2>6 DEF EnsuresNamespace
  <2> HIDE DEF next
  <2> QED
    BY <1>2, <2>2, <2>5, <2>6, <2>7, GotoStep
<1>5. CASE g \in Threads /\ ReconcileFailed(g)
  <2> DEFINE next == IF thr[g].op = "Create" THEN Idle ELSE [thr[g] EXCEPT !.pc = "phase"]
  <2>1. thr[g].pc = "fail" /\ e \in Envs
        /\ UNCHANGED <<cache, namespaces, pendingDeletes, conns>>
    BY <1>2, <1>5 DEF ReconcileFailed
  <2>2. /\ next \in Locals
        /\ next.pc # "idle" => next.env \in Envs
        /\ next.pc \in {"fail", "phase"} /\ next.status = "Running" => next.at # Nil
    BY <1>1, <2>1, IdleFacts DEF Locals, Pcs, IInv, RunningStatusHasTime
  <2>3. env' = [env EXCEPT ![e] = Transition(@, "Failed")]
    BY <1>5 DEF ReconcileFailed
  <2>4. CASE CanTransition(env[e].phase, "Failed")
    <3>1. /\ \E W \in SUBSET PhaseWriters(e) : thr' = [Overwritten(W) EXCEPT ![g] = next]
          /\ ReadMeanwhile(e, "Failed")
      BY <1>5, <2>4 DEF ReconcileFailed
    <3>2. "Failed" \in Phases \ {"Running"}
      BY DEF Phases
    <3> HIDE DEF next
    <3> QED
      BY <2>1, <2>2, <2>3, <3>1, <3>2, TransitionStep
  <2>5. CASE ~CanTransition(env[e].phase, "Failed")
    <3>1. env' = env
      BY <2>1, <2>3, <2>5 DEF Transition, IInv, TypeOK
    <3>2. thr' = [thr EXCEPT ![g] = next] /\ chk' = chk
      BY <1>5, <2>5 DEF ReconcileFailed
    <3> HIDE DEF next
    <3> QED
      BY <1>1, <2>1, <2>2, <3>1, <3>2, GotoStep
  <2> QED
    BY <2>4, <2>5
<1>6. CASE g \in Threads /\ UpdatePhaseFromDevBox(g)
  <2>1. /\ e \in Envs /\ thr[g].pc = "phase"
        /\ thr' = [thr EXCEPT ![g].pc = "times"]
        /\ UNCHANGED <<cache, namespaces, pendingDeletes, conns, chk>>
    BY <1>2, <1>6 DEF UpdatePhaseFromDevBox, Goto
  <2>2. \/ env' = env
        \/ /\ thr[g].status \in {"Creating", "Running", "Failed"}
           /\ env' = [env EXCEPT ![e].phase = thr[g].status]
    BY <1>1, <1>6 DEF UpdatePhaseFromDevBox, Locals, DevBoxPhases
  <2>3. /\ thr' \in [Goroutines -> Locals]
        /\ thr'[g].pc = "times" /\ thr'[g].env = e /\ thr'[g].at = thr[g].at
        /\ \A h \in Goroutines \ {g} : thr'[h] = thr[h]
    BY <1>1, <2>1 DEF Locals, Pcs
  <2>4. \A x \in Envs : \/ env'[x] = env[x]
                        \/ /\ x = e /\ thr[g].status \in {"Creating", "Running", "Failed"}
                           /\ env'[x].phase = thr[g].status
    BY <2>2 DEF IInv, TypeOK, Environments
  <2>5. TypeOK'
    BY <2>1, <2>2, <2>3 DEF IInv, TypeOK, Environments, Phases
  <2>6. BusyHasEnv' /\ RunningStatusHasTime'
    BY <2>1, <2>3 DEF IInv, BusyHasEnv, RunningStatusHasTime
  <2>7. DormantHasStoppedAt'
    BY <2>4 DEF IInv, DormantHasStoppedAt
  <2>8. RunningHasActivity'
    <3> SUFFICES ASSUME NEW x \in Envs, env'[x].phase = "Running", env'[x].activity = Nil
                 PROVE  \E u \in Threads : thr'[u].pc = "times" /\ thr'[u].env = x
                                           /\ thr'[u].at # Nil
      BY DEF RunningHasActivity
    <3>1. CASE env'[x] = env[x]
      BY <2>1, <2>3, <3>1 DEF IInv, RunningHasActivity, Goroutines
    <3>2. CASE x = e /\ thr[g].status = "Running"
      BY <1>6, <2>1, <2>3, <3>2 DEF IInv, RunningStatusHasTime
    <3> QED
      BY <2>4, <3>1, <3>2
  <2>9. KeepHonoured'
    BY <2>1 DEF IInv, KeepHonoured
  <2> QED
    BY <2>5, <2>6, <2>7, <2>8, <2>9 DEF IInv
<1>7. CASE g \in Threads /\ UpdateTimesFromDevBox(g)
  <2>1. /\ e \in Envs /\ thr[g].pc = "times"
        /\ thr' = [thr EXCEPT ![g] = Idle]
        /\ UNCHANGED <<cache, namespaces, pendingDeletes, conns, chk>>
    BY <1>2, <1>7 DEF UpdateTimesFromDevBox, Return
  <2>2. \/ thr[g].at = Nil /\ env' = env
        \/ thr[g].at # Nil /\ env' = [env EXCEPT ![e].activity = thr[g].at]
    BY <1>7 DEF UpdateTimesFromDevBox
  <2>3. thr'[g] = Idle /\ \A h \in Goroutines \ {g} : thr'[h] = thr[h]
    BY <1>1, <2>1
  <2>4. env' \in [Envs -> Environments] /\ Stamps
    <3>1. thr[g].at \in OptAges
      BY <1>1 DEF Locals
    <3>2. CASE env' = env
      BY <3>2 DEF IInv, TypeOK, Stamps
    <3>3. CASE thr[g].at # Nil /\ env' = [env EXCEPT ![e].activity = thr[g].at]
      BY <2>1, <3>1, <3>3 DEF IInv, TypeOK, Environments, Stamps
    <3> QED
      BY <2>2, <3>2, <3>3
  <2>5. TypeOK'
    BY <2>1, <2>4, IdleFacts DEF IInv, TypeOK
  <2>6. BusyHasEnv' /\ RunningStatusHasTime'
    BY <2>3, IdleFacts DEF IInv, BusyHasEnv, RunningStatusHasTime
  <2>7. DormantHasStoppedAt'
    BY <2>4 DEF IInv, DormantHasStoppedAt, Stamps
  <2>8. thr[g].at # Nil => env'[e].activity # Nil
    BY <2>1, <2>2 DEF IInv, TypeOK, Environments
  <2>9. RunningHasActivity'
    BY <2>3, <2>4, <2>8 DEF IInv, RunningHasActivity, Goroutines, Stamps
  <2>10. KeepHonoured'
    BY <2>1 DEF IInv, KeepHonoured
  <2> QED
    BY <2>5, <2>6, <2>7, <2>9, <2>10 DEF IInv
<1>8. CASE DeleteReconcile(g)
  <2> DEFINE next == [thr[g] EXCEPT !.pc = "remove"]
  <2>1. thr' = [thr EXCEPT ![g] = next] /\ thr[g].pc = "delete" /\ e \in Envs
        /\ UNCHANGED <<env, cache, pendingDeletes, conns, chk>>
    BY <1>1, <1>2, <1>8 DEF DeleteReconcile, Goto
  <2>2. next \in Locals /\ next.pc = "remove" /\ next.env = e
    BY <1>1 DEF Locals, Pcs
  <2>3. namespaces' \in SUBSET Envs /\ cache' \in SUBSET Envs
    BY <1>1, <1>8, <2>1 DEF DeleteReconcile, EnsuresNamespace
  <2> HIDE DEF next
  <2> QED
    BY <2>1, <2>2, <2>3, GotoStep
<1>9. CASE RemoveFromCache(g)
  BY <1>1, <1>9, IdleFacts, GotoStep DEF RemoveFromCache, Return
<1> QED
  BY <1>3, <1>4, <1>5, <1>6, <1>7, <1>8, <1>9 DEF RequestStep

LEMMA CheckerPreserves ==
    ASSUME IInv, CheckerStep
    PROVE  IInv'
<1>1. chk \in CheckerLocals /\ thr \in [Goroutines -> Locals] /\ Checker \in Goroutines
      /\ env \in [Envs -> Environments] /\ conns \in [Envs -> 0 .. MaxConns]
      /\ pendingDeletes \in [Envs -> OptAges] /\ cache \in SUBSET Envs
  BY DEF IInv, TypeOK, Goroutines
<1>2. Checked \in CheckerLocals /\ Checked.pc = "check"
  BY <1>1, IdleFacts DEF Checked, CheckerLocals, CheckerIdle
<1>3. Stamps \/ env' # env
  BY DEF Stamps
<1>4. CASE /\ chk' \in CheckerLocals /\ chk'.pc # "expire"
           /\ UNCHANGED <<env, cache, namespaces, pendingDeletes, conns, thr>>
  BY <1>1, <1>3, <1>4, StampStep
<1>5. CASE CheckAllEnvironments
  <2>1. chk' \in CheckerLocals /\ chk'.pc = "check"
    BY <1>1, <1>5 DEF CheckAllEnvironments, CheckerLocals
  <2> QED
    BY <1>4, <1>5, <2>1 DEF CheckAllEnvironments
<1>6. ASSUME NEW e \in Envs, CheckConnected(e)
      PROVE  IInv'
  <2>1. chk' \in CheckerLocals /\ chk'.pc # "expire"
    BY <1>1, <1>6 DEF CheckConnected, CheckerAt, CheckerLocals
  <2>2. env' \in [Envs -> Environments] /\ Stamps
    <3>1. 0 \in OptAges /\ 0 # Nil
      BY LifecycleAssumption DEF OptAges, Nil
    <3>2. CASE env' = env
      BY <1>1, <1>3, <3>2
    <3>3. CASE env' = [env EXCEPT ![e].activity = 0]
      BY <1>1, <3>1, <3>3 DEF Environments, Stamps
    <3> QED
      BY <1>6, <3>2, <3>3 DEF CheckConnected
  <2>3. UNCHANGED <<cache, namespaces, pendingDeletes, thr>> /\ conns' = conns
    BY <1>6 DEF CheckConnected
  <2> QED
    BY <1>1, <2>1, <2>2, <2>3, StampStep
<1>7. ASSUME NEW e \in Envs, CheckEnvironment(e)
      PROVE  IInv'
  <2>1. chk' \in CheckerLocals /\ chk'.pc # "expire"
    BY <1>1, <1>7, VisitedFacts DEF CheckEnvironment
  <2> QED
    BY <1>4, <1>7, <2>1 DEF CheckEnvironment
<1>8. ASSUME NEW e \in Envs, DeleteExpired(e)
      PROVE  IInv'
  <2>1. /\ chk' \in CheckerLocals /\ chk'.pc = "expire" /\ chk.pc = "expire"
        /\ chk'.todo \subseteq chk.todo /\ thr[Checker].pc = "idle"
    BY <1>1, <1>8 DEF DeleteExpired, CheckerAt, CheckerLocals
  <2>2. CASE MarkDeleting(Checker, e)
    BY <1>1, <2>1, <2>2, MarkDeletingStep
  <2>3. CASE UNCHANGED <<env, cache, namespaces, pendingDeletes, conns, thr>>
    BY <2>1, <2>3
       DEF IInv, TypeOK, BusyHasEnv, RunningStatusHasTime, DormantHasStoppedAt,
           RunningHasActivity, KeepHonoured
  <2> QED
    BY <1>8, <2>2, <2>3 DEF DeleteExpired
<1>9. CASE ExecuteTransition
  <2> DEFINE e == chk.env
             to == Target(chk.action)
  <2>1. to \in Phases \ {"Running"}
    BY <1>9 DEF ExecuteTransition, Target, Phases
  <2>2. /\ e \in Envs /\ thr[Checker].pc = "idle"
        /\ env' = [env EXCEPT ![e] = Transition(@, to)]
        /\ UNCHANGED <<cache, namespaces, pendingDeletes, conns>>
        /\ chk' = Checked
    BY <1>1, <1>9 DEF ExecuteTransition, CheckerAt
  <2>3. PICK W \in SUBSET PhaseWriters(e) : thr' = Overwritten(W)
    BY <1>9 DEF ExecuteTransition
  <2> HIDE DEF to
  <2>4. env'[e] = Transition(env[e], to) /\ \A x \in Envs \ {e} : env'[x] = env[x]
    BY <1>1, <2>2
  <2>5. TypeOK'
    BY <1>1, <1>2, <2>1, <2>2, <2>3, TransitionFacts, OverwrittenFacts DEF IInv, TypeOK
  <2>6. BusyHasEnv' /\ RunningStatusHasTime'
    BY <2>2, <2>3, OverwrittenFacts DEF IInv, BusyHasEnv, RunningStatusHasTime
  <2>7. DormantHasStoppedAt'
    BY <1>1, <2>1, <2>2, <2>4, TransitionFacts DEF IInv, DormantHasStoppedAt, Dormant
  <2>8. RunningHasActivity'
    <3> SUFFICES ASSUME NEW x \in Envs, env'[x].phase = "Running", env'[x].activity = Nil
                 PROVE  \E u \in Threads : thr'[u].pc = "times" /\ thr'[u].env = x
                                           /\ thr'[u].at # Nil
      BY DEF RunningHasActivity
    <3>1. env[x].phase = "Running" /\ env[x].activity = Nil
      BY <1>1, <2>1, <2>2, <2>4, TransitionFacts
    <3>2. PICK u \in Threads : thr[u].pc = "times" /\ thr[u].env = x /\ thr[u].at # Nil
      BY <3>1 DEF IInv, RunningHasActivity
    <3>3. thr'[u] = thr[u]
      BY <2>2, <2>3, <3>2, OverwrittenFacts DEF Goroutines
    <3> QED
      BY <3>2, <3>3
  <2>9. KeepHonoured'
    BY <1>2, <2>2 DEF KeepHonoured
  <2> QED
    BY <2>5, <2>6, <2>7, <2>8, <2>9 DEF IInv
<1>10. CASE ExecuteDelete
  <2>1. chk.env \in Envs /\ thr[Checker].pc = "idle" /\ MarkDeleting(Checker, chk.env)
        /\ chk' = Checked
    BY <1>1, <1>10 DEF ExecuteDelete, MarkDeleting, CheckerAt
  <2> QED
    BY <1>1, <1>2, <2>1, MarkDeletingStep
<1>11. CASE ExecuteRequest
  <2>1. chk' \in CheckerLocals /\ chk'.pc = "request"
    BY <1>1, <1>11 DEF ExecuteRequest, CheckerLocals
  <2> QED
    BY <1>4, <1>11, <2>1 DEF ExecuteRequest
<1>12. CASE RequestDeleteConfirmation
  <2>1. pendingDeletes' \in [Envs -> OptAges]
    <3>1. 0 \in OptAges
      BY LifecycleAssumption DEF OptAges, Nil
    <3> QED
      BY <1>1, <1>12, <3>1 DEF RequestDeleteConfirmation
  <2> QED
    BY <1>2, <1>12, <2>1
       DEF RequestDeleteConfirmation, IInv, TypeOK, BusyHasEnv, RunningStatusHasTime,
           DormantHasStoppedAt, RunningHasActivity, KeepHonoured
<1>13. CASE ExecuteNothing
  BY <1>2, <1>4, <1>13 DEF ExecuteNothing
<1>14. CASE CheckPendingDeletes
  <2> DEFINE expired == {e \in Envs : pendingDeletes[e] > ConfirmWindow}
  <2>1. /\ pendingDeletes' = [e \in Envs |-> IF e \in expired THEN Nil ELSE pendingDeletes[e]]
        /\ chk' = [CheckerIdle EXCEPT !.pc = "expire", !.todo = expired]
        /\ UNCHANGED <<env, cache, namespaces, conns, thr>>
    BY <1>14 DEF CheckPendingDeletes
  <2>2. expired \in SUBSET Envs
    OBVIOUS
  <2> HIDE DEF expired
  <2>3. chk' \in CheckerLocals /\ chk'.todo = expired
    BY <2>1, <2>2, IdleFacts DEF CheckerIdle, CheckerLocals
  <2>4. pendingDeletes' \in [Envs -> OptAges]
    <3>1. Nil \in OptAges
      BY LifecycleAssumption DEF OptAges, Nil
    <3> QED
      BY <1>1, <2>1, <3>1
  <2>5. KeepHonoured'
    BY <2>1, <2>2, <2>3 DEF KeepHonoured
  <2> QED
    BY <2>1, <2>3, <2>4, <2>5
       DEF IInv, TypeOK, BusyHasEnv, RunningStatusHasTime, DormantHasStoppedAt,
           RunningHasActivity
<1>15. CASE CheckDone
  BY <1>4, <1>15, IdleFacts DEF CheckDone, CheckerIdle
<1> QED
  BY <1>5, <1>6, <1>7, <1>8, <1>9, <1>10, <1>11, <1>12, <1>13, <1>14, <1>15 DEF CheckerStep

LEMMA TickPreserves ==
    ASSUME IInv, Tick
    PROVE  IInv'
<1>1. \A e \in Envs : /\ env'[e] = Aged(env[e]) /\ env[e] \in Environments
                      /\ env'[e] \in Environments
                      /\ env'[e].phase = env[e].phase
                      /\ env'[e].stopped = Nil <=> env[e].stopped = Nil
                      /\ env'[e].activity = Nil <=> env[e].activity = Nil
  BY OlderAges DEF Tick, Aged, IInv, TypeOK, Environments
<1>2. \A g \in Goroutines :
         /\ thr'[g] \in Locals /\ thr'[g].pc = thr[g].pc /\ thr'[g].env = thr[g].env
         /\ thr'[g].status = thr[g].status
         /\ thr'[g].at = Nil <=> thr[g].at = Nil
  BY OlderAges DEF Tick, IInv, TypeOK, Locals
<1>3. env' \in [Envs -> Environments] /\ thr' \in [Goroutines -> Locals]
  BY <1>1, <1>2 DEF Tick
<1>4. \A e \in Envs : pendingDeletes[e] = Nil => pendingDeletes'[e] = Nil
  BY OlderAges DEF Tick, IInv, TypeOK
<1>5. pendingDeletes' \in [Envs -> OptAges]
  BY OlderAges DEF Tick, IInv, TypeOK
<1>6. TypeOK'
  BY <1>3, <1>5 DEF Tick, IInv, TypeOK
<1>7. BusyHasEnv' /\ RunningStatusHasTime'
  BY <1>2 DEF IInv, BusyHasEnv, RunningStatusHasTime
<1>8. DormantHasStoppedAt'
  BY <1>1 DEF IInv, DormantHasStoppedAt
<1>9. RunningHasActivity'
  BY <1>1, <1>2 DEF IInv, RunningHasActivity, Goroutines
<1>10. KeepHonoured'
  BY <1>4 DEF Tick, IInv, TypeOK, KeepHonoured, CheckerLocals
<1> QED
  BY <1>6, <1>7, <1>8, <1>9, <1>10 DEF IInv

LEMMA NextInv == IInv /\ [Next]_vars => IInv'
<1> SUFFICES ASSUME IInv, [Next]_vars PROVE IInv'
  OBVIOUS
<1>1. CASE UNCHANGED vars
  BY <1>1 DEF vars, IInv, TypeOK, BusyHasEnv, RunningStatusHasTime,
              DormantHasStoppedAt, RunningHasActivity, KeepHonoured
<1> QED
  BY <1>1, UserPreserves, RequestPreserves, CheckerPreserves, TickPreserves DEF Next, Work

-----------------------------------------------------------------------------
(***************************************************************************)
(* The theorems.                                                           *)
(***************************************************************************)
LEMMA Invariance == Spec => []IInv
  BY InitInv, NextInv, PTL DEF Spec

\* The variables keep their types: ages stay within their bounds, goroutines
\* and the checker only hold ids of environments, and the SSH connection count
\* of ActivityTracker never becomes negative.
THEOREM TypeCorrect == Spec => []TypeOK
<1>1. IInv => TypeOK
  BY DEF IInv
<1> QED
  BY <1>1, Invariance, PTL

\* StateMachine.Transition and the racy writes of updateEnvironmentFromDevBox
\* never leave a stopped, suspended or archived environment without StoppedAt,
\* so that checkEnvironment never skips it.
THEOREM DormantIsTimed == Spec => []DormantHasStoppedAt
<1>1. IInv => DormantHasStoppedAt
  BY DEF IInv
<1> QED
  BY <1>1, Invariance, PTL

\* The only window in which a running environment has no LastActivityTime is
\* inside updateEnvironmentFromDevBox.
THEOREM RunningIsTimed == Spec => []RunningHasActivity
<1>1. IInv => RunningHasActivity
  BY DEF IInv
<1> QED
  BY <1>1, Invariance, PTL

\* Every rule of the checker finds the time it measures from.
THEOREM TimestampsThere == Spec => []TimestampsAreThere
  BY DormantIsTimed, RunningIsTimed, PTL DEF TimestampsAreThere

\* A confirmation that CheckPendingDeletes acts on can no longer be answered.
THEOREM KeepIsHonoured == Spec => []KeepHonoured
<1>1. IInv => KeepHonoured
  BY DEF IInv
<1> QED
  BY <1>1, Invariance, PTL

\* Only Create puts an environment into the map, and only a new one.
THEOREM RemovedStaysRemoved == Spec => NoResurrection
<1> DEFINE Stays == \A e \in Envs : env[e].phase # "None" /\ e \notin cache => e \notin cache'
<1>1. [Next]_vars => [Stays]_vars
  <2> SUFFICES ASSUME Next PROVE Stays
    OBVIOUS
  <2>1. ASSUME NEW e \in Envs, UserStep(e) PROVE Stays
    BY <2>1 DEF UserStep, Create, Start, Stop, Suspend, Archive, Restart, Delete,
                MarkDeleting, LockedTransition, Update, RecordActivity, SSHConnect,
                SSHDisconnect, UpdateActivity, ConfirmKeepEnvironment
  <2>2. ASSUME NEW g \in Goroutines, RequestStep(g) PROVE Stays
    BY <2>2 DEF RequestStep, RestartStart, LockedTransition, Reconcile, ReconcileFailed,
                UpdatePhaseFromDevBox, UpdateTimesFromDevBox, DeleteReconcile,
                RemoveFromCache
  <2>3. CASE CheckerStep
    BY <2>3 DEF CheckerStep, CheckAllEnvironments, CheckConnected, CheckEnvironment,
                DeleteExpired, MarkDeleting, ExecuteTransition, ExecuteDelete,
                ExecuteRequest, RequestDeleteConfirmation, ExecuteNothing,
                CheckPendingDeletes, CheckDone
  <2>4. CASE Tick
    BY <2>4 DEF Tick
  <2> QED
    BY <2>1, <2>2, <2>3, <2>4 DEF Next, Work
<1> QED
  BY <1>1, PTL DEF Spec, NoResurrection
=============================================================================
