-------------------------- MODULE DevBoxController ---------------------------
(***************************************************************************)
(* The controller that brings a DevBox to the cluster: Reconcile, one call *)
(* of the Kubernetes API after the other, any of which may fail, and more  *)
(* than one Reconcile of a DevBox at once (environment_service.go calls it *)
(* from Create, Start and Delete, always with an empty status; the status  *)
(* a call leaves is what a later call may be given).  The cluster starts   *)
(* pods, loses them, and takes down a namespace object by object once it   *)
(* has been deleted; meanwhile nothing can be made in it, and what is      *)
(* still there counts as existing.                                         *)
(***************************************************************************)
EXTENDS Naturals, Sequences

CONSTANT Reconciler    \* the goroutines that may be in Reconcile

VARIABLES objects,      \* what exists in the cluster of the DevBox
          terminating,  \* its namespace has been deleted and is being taken down
          podPhase,     \* the phase of the pod
          kept,         \* DevBoxStatus.Phase as the last Reconcile left it
          reconcile,    \* where each Reconcile is
          takenAway,    \* history: objects that were made and then removed
          statusUnread  \* history: a Reconcile could not read the status since kept was set

controllerVars == <<objects, terminating, podPhase, kept, reconcile, takenAway,
                    statusUnread>>

\* The steps of reconcileCreating, in their order.
Steps == <<"namespace", "pvc", "config", "pod", "service">>
Object == {Steps[i] : i \in DOMAIN Steps}
DevBoxPhase == {"", "Creating", "Running", "Stopped", "Failed"}
ReconcilePlace == {"idle", "running", "stopping", "stopped", "deleting", "status"} \cup Object

ControllerTypeOK ==
    /\ objects \subseteq Object /\ takenAway \subseteq Object
    /\ {terminating, statusUnread} \subseteq BOOLEAN
    /\ podPhase \in {"Pending", "Running", "Failed"}
    /\ kept \in DevBoxPhase
    /\ reconcile \in [Reconciler -> ReconcilePlace]

ControllerInit ==
    /\ objects = {} /\ terminating = FALSE /\ podPhase = "Pending"
    /\ kept = "" /\ reconcile = [c \in Reconciler |-> "idle"]
    /\ takenAway = {} /\ statusUnread = FALSE

At(c, place) == reconcile' = [reconcile EXCEPT ![c] = place]

-----------------------------------------------------------------------------
(* Reconcile begins with the step that the phase it is given calls for.      *)

Reconcile(c, phase) ==
    /\ reconcile[c] = "idle"
    /\ phase \in {"", kept}
    /\ CASE phase \in {"", "Creating"} -> At(c, "namespace")
         [] phase = "Running" -> At(c, "running")
         [] phase = "Stopped" -> At(c, "stopped")
         [] phase = "Failed" -> UNCHANGED reconcile
    /\ UNCHANGED <<objects, terminating, podPhase, kept, takenAway, statusUnread>>

\* A DevBox with a deletion timestamp, whatever its phase.
HandleDeletion(c) ==
    /\ reconcile[c] = "idle"
    /\ At(c, "deleting")
    /\ UNCHANGED <<objects, terminating, podPhase, kept, takenAway, statusUnread>>

After(step) == IF step = "service" THEN "status"
               ELSE Steps[(CHOOSE i \in DOMAIN Steps : Steps[i] = step) + 1]

\* Everything but a namespace needs one that is not being taken down.
Creatable(o) == ~terminating /\ (o = "namespace" \/ "namespace" \in objects)

FailureIgnored(c, o) ==
    /\ reconcile[c] = o
    /\ objects' = IF Creatable(o) THEN objects \cup {o} ELSE objects
    /\ takenAway' = takenAway \ objects'
    /\ At(c, After(o))
    /\ UNCHANGED <<terminating, kept, statusUnread>>

\* Creating succeeds if the object is made, and if it exists already.
Ensure(c, o) ==
    /\ reconcile[c] = o
    /\ o \in objects \/ Creatable(o)
    /\ objects' = objects \cup {o}
    /\ takenAway' = takenAway \ objects'
    /\ At(c, After(o))
    /\ UNCHANGED <<terminating, kept, statusUnread>>

EnsureNamespace(c) == Ensure(c, "namespace") /\ UNCHANGED podPhase
EnsurePVC(c) == Ensure(c, "pvc") /\ UNCHANGED podPhase
EnsureSSHConfigMap(c) == Ensure(c, "config") /\ UNCHANGED podPhase
EnsurePod(c) ==
    /\ Ensure(c, "pod")
    /\ podPhase' = IF "pod" \in objects THEN podPhase ELSE "Pending"
EnsureService(c) == Ensure(c, "service") /\ UNCHANGED podPhase

\* setFailed: what was made before the failure stays.
SetFailed(c, o) ==
    /\ reconcile[c] = o /\ o \in Object
    /\ kept' = "Failed"
    /\ At(c, "idle")
    /\ UNCHANGED <<objects, terminating, podPhase, takenAway, statusUnread>>

\* The pod that is found tells the phase, also if it is one that is going away.
\* Without a pod, or if the call fails, the status stays as it was.
CheckAndUpdateStatus(c) ==
    /\ reconcile[c] = "status"
    /\ \/ /\ "pod" \in objects
          /\ kept' = IF podPhase = "Pending" THEN "Creating" ELSE podPhase
          /\ statusUnread' = FALSE
       \/ /\ "pod" \notin objects
          /\ UNCHANGED <<kept, statusUnread>>
       \/ /\ statusUnread' = TRUE
          /\ UNCHANGED kept
    /\ At(c, "idle")
    /\ UNCHANGED <<objects, terminating, podPhase, takenAway>>

-----------------------------------------------------------------------------
(* A DevBox that runs or has been stopped. *)

\* reconcileRunning: a pod that is gone is made again, one that has not been used
\* for long is stopped; the call for it may fail.
ReconcileRunning(c) ==
    /\ reconcile[c] = "running"
    /\ \/ "pod" \notin objects /\ kept' = "Creating" /\ At(c, "namespace")
       \/ "pod" \in objects /\ UNCHANGED kept /\ At(c, "stopping")
       \/ UNCHANGED kept /\ At(c, "idle")
    /\ UNCHANGED <<objects, terminating, podPhase, takenAway, statusUnread>>

StopFirst(c) ==
    /\ reconcile[c] = "stopping"
    /\ kept' = "Stopped"
    /\ At(c, "idle")
    /\ UNCHANGED <<objects, terminating, podPhase, takenAway, statusUnread>>

StopDevBox(c) ==
    /\ reconcile[c] = "stopping"
    /\ \/ /\ objects' = objects \ {"pod"}
          /\ takenAway' = takenAway \cup (objects \cap {"pod"})
          /\ kept' = "Stopped"
       \/ UNCHANGED <<objects, takenAway, kept>>
    /\ At(c, "idle")
    /\ UNCHANGED <<terminating, podPhase, statusUnread>>

\* reconcileStopped deletes the namespace if the DevBox has been stopped for long,
\* handleDeletion does in any case; the call may fail.
DeleteResources(c) ==
    /\ reconcile[c] \in {"stopped", "deleting"}
    /\ \/ "namespace" \in objects /\ terminating' = TRUE
       \/ UNCHANGED terminating
    /\ At(c, "idle")
    /\ UNCHANGED <<objects, podPhase, kept, takenAway, statusUnread>>

-----------------------------------------------------------------------------
(* The cluster. *)

PodMoves(phase) ==
    /\ "pod" \in objects /\ podPhase # phase /\ phase # "Pending"
    /\ podPhase' = phase
    /\ UNCHANGED <<objects, terminating, kept, reconcile, takenAway, statusUnread>>

PodEvicted ==
    /\ "pod" \in objects
    /\ objects' = objects \ {"pod"} /\ takenAway' = takenAway \cup {"pod"}
    /\ UNCHANGED <<terminating, podPhase, kept, reconcile, statusUnread>>

\* The namespace goes last.
Terminate(o) ==
    /\ terminating /\ o \in objects
    /\ o = "namespace" => objects = {"namespace"}
    /\ objects' = objects \ {o} /\ takenAway' = takenAway \cup {o}
    /\ terminating' = (o # "namespace")
    /\ UNCHANGED <<podPhase, kept, reconcile, statusUnread>>

ControllerNext ==
    \/ \E c \in Reconciler, phase \in DevBoxPhase : Reconcile(c, phase)
    \/ \E c \in Reconciler : HandleDeletion(c)
    \/ \E c \in Reconciler : EnsureNamespace(c)
    \/ \E c \in Reconciler : EnsurePVC(c)
    \/ \E c \in Reconciler : EnsureSSHConfigMap(c)
    \/ \E c \in Reconciler : EnsurePod(c)
    \/ \E c \in Reconciler : EnsureService(c)
    \/ \E c \in Reconciler, o \in Object : SetFailed(c, o)
    \/ \E c \in Reconciler : CheckAndUpdateStatus(c)
    \/ \E c \in Reconciler : ReconcileRunning(c)
    \/ \E c \in Reconciler : StopDevBox(c)
    \/ \E c \in Reconciler : DeleteResources(c)
    \/ \E phase \in {"Running", "Failed"} : PodMoves(phase)
    \/ PodEvicted
    \/ \E o \in Object : Terminate(o)

-----------------------------------------------------------------------------
(* Properties. *)

\* A DevBox that is reported to run has everything it needs, or lost it after it had
\* it: whatever fails, and however calls of Reconcile overlap, none goes on without
\* an object that was never made.
RunningIsComplete == kept = "Running" => Object \ objects \subseteq takenAway

\* A DevBox that is reported as stopped has no pod, unless a call that is under way
\* made one, or that call could not read how the pod is.
StoppedHasNoPod ==
    kept = "Stopped" /\ "pod" \in objects
        => statusUnread \/ \E c \in Reconciler : reconcile[c] \in {"status", "stopping"} \cup Object
==============================================================================
