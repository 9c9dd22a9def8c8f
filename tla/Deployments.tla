---------------------------- MODULE Deployments ----------------------------
(***************************************************************************)
(* DeploymentService of the container service, for one deployment: its     *)
(* entry in the map, its version records, what it has in the cluster, and  *)
(* the goroutines at work on it: the pipeline, rollbacks and deletions.    *)
(* The lock covers each look at the maps and not the calls in between.     *)
(* Build and push are simulated by the code and cannot fail.  A deployment *)
(* runs through the pipeline once, so its records all have its version.    *)
(***************************************************************************)
EXTENDS Naturals, FiniteSets

CONSTANTS RollbackCall,  \* requests that roll back
          DeleteCall,    \* requests that delete
          MaxRollbacks   \* bound: rollbacks that are begun

ASSUME MaxRollbacksAssumption == MaxRollbacks \in Nat

VARIABLES entry,        \* deployments[id] is present
          phase,        \* Phase of the object, which goroutines keep after the deletion
          pipeline,     \* where runDeploymentPipeline is
          image,        \* ImageInfo: absent, built, or pushed and with a digest
          record,       \* versions[id]: absent, active, or rolled back to (and active)
          cluster,      \* which of the deployment's objects exist in Kubernetes
          rollback,     \* where each rollback is
          deletion,     \* where each deletion is
          begun,        \* how many rollbacks were begun
          late,         \* history: the pipeline has made an object since a deletion began
          undeleted     \* history: objects that a deletion could not delete

deploymentVars == <<entry, phase, pipeline, image, record, cluster, rollback, deletion,
                    begun, late, undeleted>>

DeploymentPhase == {"Pending", "Building", "Pushing", "Deploying", "Running", "Failed", "RolledBack"}
ClusterObject == {"Deployment", "Service", "Ingress"}

DeploymentsTypeOK ==
    /\ entry \in BOOLEAN /\ phase \in DeploymentPhase
    /\ pipeline \in {"none", "build", "push", "pushed", "deployment", "service", "ingress", "record", "done"}
    /\ image \in {"none", "built", "pushed"} /\ record \in {"none", "active", "rolledBack"}
    /\ cluster \subseteq ClusterObject /\ undeleted \subseteq ClusterObject
    /\ rollback \in [RollbackCall -> {"idle", "update", "complete", "failed"}]
    /\ deletion \in [DeleteCall -> {"idle", "Deployment", "Service", "Ingress", "entry", "done"}]
    /\ begun \in 0..MaxRollbacks /\ late \in BOOLEAN

DeploymentsInit ==
    /\ entry = FALSE /\ phase = "Pending" /\ pipeline = "none"
    /\ image = "none" /\ record = "none" /\ cluster = {}
    /\ rollback = [r \in RollbackCall |-> "idle"]
    /\ deletion = [d \in DeleteCall |-> "idle"]
    /\ begun = 0 /\ late = FALSE /\ undeleted = {}

Deleting == \E d \in DeleteCall : deletion[d] # "idle"

\* updateDeploymentPhase looks the deployment up and finds none after a deletion.
SetPhase(p) == phase' = IF entry THEN p ELSE phase

-----------------------------------------------------------------------------
(* The pipeline. *)

CreateDeployment ==
    /\ pipeline = "none"
    /\ entry' = TRUE /\ phase' = "Pending" /\ pipeline' = "build"
    /\ UNCHANGED <<image, record, cluster, rollback, deletion, begun, late, undeleted>>

BuildImage ==
    /\ pipeline = "build"
    /\ SetPhase("Building") /\ pipeline' = "push"
    /\ UNCHANGED <<entry, image, record, cluster, rollback, deletion, begun, late, undeleted>>

\* The image has been built.
PushImage ==
    /\ pipeline = "push"
    /\ image' = "built" /\ SetPhase("Pushing") /\ pipeline' = "pushed"
    /\ UNCHANGED <<entry, record, cluster, rollback, deletion, begun, late, undeleted>>

ImagePushed ==
    /\ pipeline = "pushed"
    /\ image' = "pushed" /\ SetPhase("Deploying") /\ pipeline' = "deployment"
    /\ UNCHANGED <<entry, record, cluster, rollback, deletion, begun, late, undeleted>>

\* Create or update the object; the ingress is made if the deployment has one,
\* and its failure is no failure of the deployment.
MakeObject(object, place, next) ==
    /\ pipeline = place
    /\ cluster' = cluster \cup {object}
    /\ late' = (late \/ Deleting)
    /\ pipeline' = next
    /\ UNCHANGED <<entry, image, record, rollback, deletion, begun, undeleted>>

DeployToK8s ==
    \/ MakeObject("Deployment", "deployment", "service") /\ UNCHANGED phase
    \/ MakeObject("Service", "service", "ingress") /\ UNCHANGED phase
    \/ MakeObject("Ingress", "ingress", "record") /\ phase' = "Running"
    \/ /\ pipeline = "ingress"
       /\ pipeline' = "record" /\ phase' = "Running"
       /\ UNCHANGED <<entry, image, record, cluster, rollback, deletion, begun, late, undeleted>>

DeployFailsSilently ==
    /\ pipeline \in {"deployment", "service"}
    /\ pipeline' = "done" /\ UNCHANGED phase
    /\ UNCHANGED <<entry, image, record, cluster, rollback, deletion, begun, late, undeleted>>

DeployFails ==
    /\ pipeline \in {"deployment", "service"}
    /\ pipeline' = "done" /\ SetPhase("Failed")
    /\ UNCHANGED <<entry, image, record, cluster, rollback, deletion, begun, late, undeleted>>

\* The record is kept under the id whether or not the deployment is still there.
CreateVersionRecord ==
    /\ pipeline = "record"
    /\ record' = "active" /\ pipeline' = "done"
    /\ late' = (late \/ Deleting)
    /\ UNCHANGED <<entry, phase, image, cluster, rollback, deletion, begun, undeleted>>

-----------------------------------------------------------------------------
(* Rollback. *)

RollbackUnchecked(r) ==
    /\ rollback[r] = "idle" /\ begun < MaxRollbacks
    /\ entry
    /\ phase' = "Deploying"
    /\ rollback' = [rollback EXCEPT ![r] = "update"] /\ begun' = begun + 1
    /\ UNCHANGED <<entry, pipeline, image, record, cluster, deletion, late, undeleted>>

\* The version must have been recorded.
Rollback(r) ==
    /\ rollback[r] = "idle" /\ begun < MaxRollbacks
    /\ entry /\ record # "none"
    /\ phase' = "Deploying"
    /\ rollback' = [rollback EXCEPT ![r] = "update"] /\ begun' = begun + 1
    /\ UNCHANGED <<entry, pipeline, image, record, cluster, deletion, late, undeleted>>

\* The update fails when the object is gone, and can fail otherwise.
UpdateForRollback(r) ==
    /\ rollback[r] = "update"
    /\ \/ "Deployment" \in cluster /\ rollback' = [rollback EXCEPT ![r] = "complete"]
       \/ rollback' = [rollback EXCEPT ![r] = "failed"]
    /\ UNCHANGED <<entry, phase, pipeline, image, record, cluster, deletion, begun, late, undeleted>>

CompleteRollback(r) ==
    /\ rollback[r] = "complete"
    /\ phase' = "RolledBack"
    /\ record' = IF record = "none" THEN "none" ELSE "rolledBack"
    /\ rollback' = [rollback EXCEPT ![r] = "idle"]
    /\ UNCHANGED <<entry, pipeline, image, cluster, deletion, begun, late, undeleted>>

RollbackFails(r) ==
    /\ rollback[r] = "failed"
    /\ phase' = "Failed"
    /\ rollback' = [rollback EXCEPT ![r] = "idle"]
    /\ UNCHANGED <<entry, pipeline, image, record, cluster, deletion, begun, late, undeleted>>

-----------------------------------------------------------------------------
(* Deletion: the three objects, whose errors are ignored, then the entry. *)

DeleteDeployment(d) ==
    /\ deletion[d] = "idle" /\ entry
    /\ deletion' = [deletion EXCEPT ![d] = "Deployment"]
    /\ UNCHANGED <<entry, phase, pipeline, image, record, cluster, rollback, begun, late, undeleted>>

AfterObject(object) ==
    CASE object = "Deployment" -> "Service" [] object = "Service" -> "Ingress" [] OTHER -> "entry"

DeleteObject(d) ==
    \E object \in ClusterObject :
        /\ deletion[d] = object
        /\ \/ cluster' = cluster \ {object} /\ UNCHANGED undeleted
           \/ undeleted' = undeleted \cup (cluster \cap {object}) /\ UNCHANGED cluster
        /\ deletion' = [deletion EXCEPT ![d] = AfterObject(object)]
        /\ UNCHANGED <<entry, phase, pipeline, image, record, rollback, begun, late>>

DropEntry(d) ==
    /\ deletion[d] = "entry"
    /\ entry' = FALSE /\ record' = "none"
    /\ deletion' = [deletion EXCEPT ![d] = "done"]
    /\ UNCHANGED <<phase, pipeline, image, cluster, rollback, begun, late, undeleted>>

PipelineStep ==
    BuildImage \/ PushImage \/ ImagePushed \/ DeployToK8s \/ DeployFails \/ CreateVersionRecord

DeploymentsNext ==
    \/ CreateDeployment
    \/ BuildImage
    \/ PushImage
    \/ ImagePushed
    \/ DeployToK8s
    \/ DeployFails
    \/ CreateVersionRecord
    \/ \E r \in RollbackCall : Rollback(r)
    \/ \E r \in RollbackCall : UpdateForRollback(r)
    \/ \E r \in RollbackCall : CompleteRollback(r)
    \/ \E r \in RollbackCall : RollbackFails(r)
    \/ \E d \in DeleteCall : DeleteDeployment(d)
    \/ \E d \in DeleteCall : DeleteObject(d)
    \/ \E d \in DeleteCall : DropEntry(d)

\* The goroutine of the pipeline runs, and so do those of the requests.
DeploymentsFairness ==
    /\ WF_deploymentVars(PipelineStep)
    /\ \A r \in RollbackCall :
           WF_deploymentVars(UpdateForRollback(r) \/ CompleteRollback(r) \/ RollbackFails(r))

DeploymentsSpec == DeploymentsInit /\ [][DeploymentsNext]_deploymentVars /\ DeploymentsFairness

-----------------------------------------------------------------------------
(* Properties. *)

\* A deployment that is said to be running or rolled back has its workload and
\* its service in the cluster and a pushed image, unless it is being deleted:
\* no rollback that overlaps another, or the end of the pipeline, says so early.
RunningIsDeployed ==
    phase \in {"Running", "RolledBack"} /\ ~Deleting =>
        {"Deployment", "Service"} \subseteq cluster /\ image = "pushed"

\* What is left of a deployment after its deletion was made by the pipeline,
\* which a deletion does not stop, or could not be deleted.
DeletedIsGone ==
    ~entry /\ Deleting /\ ~late => cluster \subseteq undeleted /\ record = "none"

\* Every deployment comes to an end: the phases of the pipeline and of a
\* rollback do not last, unless the deployment is deleted.
DeploymentsSettle ==
    entry ~> (phase \in {"Running", "Failed", "RolledBack"} \/ ~entry)

=============================================================================
