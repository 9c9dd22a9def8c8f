--------------------------- MODULE BackgroundWork ----------------------------
(***************************************************************************)
(* What the container and the core services do in the background after a   *)
(* request has been answered: the pipeline of a deployment, the            *)
(* verification of a custom domain, the replication of backups and         *)
(* failovers, deliveries to webhooks, alerts and their notifications, the  *)
(* recordings of meetings and the quality of their video; and the          *)
(* autoscaler. Each has its own records and locks and none waits for       *)
(* another, so a behaviour of all of them, seen through the variables of   *)
(* one, is a behaviour of that one. `focus' says which of them moves; the  *)
(* others stay as they started, so that TLC looks at each of them and not  *)
(* at their product.                                                       *)
(***************************************************************************)
EXTENDS Deployments, DomainVerification, DisasterRecovery, WebhookDeliveries,
        Adaptation, Alerts, Recordings

VARIABLE focus

vars == <<focus, deploymentVars, verificationVars, recoveryVars, webhookVars,
          scalingVars, alertVars, recordingVars, qualityVars>>

Init ==
    /\ focus \in {"deployments", "verifications", "recovery", "webhooks",
                  "scaling", "alerts", "recordings", "quality"}
    /\ DeploymentsInit /\ VerificationInit /\ RecoveryInit /\ WebhooksInit
    /\ AutoscalingInit /\ AlertsInit /\ RecordingsInit /\ QualityInit
    \* Which regions are active at the start tells the others nothing.
    /\ focus # "recovery" => active = {Primary}

OthersStay(part) ==
    /\ UNCHANGED focus
    /\ part # "deployments" => UNCHANGED deploymentVars
    /\ part # "verifications" => UNCHANGED verificationVars
    /\ part # "recovery" => UNCHANGED recoveryVars
    /\ part # "webhooks" => UNCHANGED webhookVars
    /\ part # "scaling" => UNCHANGED scalingVars
    /\ part # "alerts" => UNCHANGED alertVars
    /\ part # "recordings" => UNCHANGED recordingVars
    /\ part # "quality" => UNCHANGED qualityVars

Next ==
    \/ focus = "deployments" /\ DeploymentsNext /\ OthersStay("deployments")
    \/ focus = "verifications" /\ VerificationNext /\ OthersStay("verifications")
    \/ focus = "recovery" /\ RecoveryNext /\ OthersStay("recovery")
    \/ focus = "webhooks" /\ WebhooksNext /\ OthersStay("webhooks")
    \/ focus = "scaling" /\ AutoscalingNext /\ OthersStay("scaling")
    \/ focus = "alerts" /\ AlertsNext /\ OthersStay("alerts")
    \/ focus = "recordings" /\ RecordingsNext /\ OthersStay("recordings")
    \/ focus = "quality" /\ QualityNext /\ OthersStay("quality")

\* Nothing that is fair can be done where the parts start: those that do not move
\* owe nothing.
Spec ==
    /\ Init /\ [][Next]_vars
    /\ DeploymentsFairness /\ VerificationFairness /\ RecoveryFairness /\ WebhooksFairness
    /\ AlertsFairness /\ RecordingsFairness

-----------------------------------------------------------------------------
\* Records, goroutines and queues have the shapes they should.
TypeOK ==
    /\ DeploymentsTypeOK /\ VerificationTypeOK /\ RecoveryTypeOK
    /\ WebhooksTypeOK /\ AutoscalingTypeOK /\ AlertsTypeOK /\ RecordingsTypeOK
    /\ QualityTypeOK

\* What a status says is so, but for the races and failures the parts name: a
\* deployment that runs has its workload, a verified domain its certificate
\* requested, a primary region a replica to serve, a delivery reached a webhook,
\* an open alert is the one for what was last measured, a complete recording is
\* stored, and what was deleted is gone.
StatusIsTrue ==
    /\ RunningIsDeployed /\ DeletedIsGone
    /\ VerifiedIsProvisioned /\ PrimaryCanServe /\ OutcomeIsTrue
    /\ OneLiveAlert /\ AlertFollowsSample
    /\ OneRecording /\ StorageIsListed

\* What follows measurements is not driven to and fro by them: a service is scaled, and
\* the quality of video changed, no oftener than the cooldowns and delays configured
\* for it allow (autoscaling_service.go, quality_service.go), and video is not left
\* better than the network carries.
AdaptsSlowly == ScalesApart /\ ChangesApart /\ PoorVideoIsLowered

\* Deployments and deliveries come to an end, and certificates that were requested
\* are issued, and no notification is in hand and no recording processed for ever,
\* as long as goroutines run and the process lives.
WorkEnds ==
    /\ DeploymentsSettle /\ DeliveriesEnd
    /\ (certificate.pending > 0) ~> (certificate.pending = 0)
    /\ []<>(InHand = {}) /\ []<>(BeingProcessed = {})

-----------------------------------------------------------------------------
(* Refinement: the goroutines that verify domains, copy backups, fail over,  *)
(* notify and process recordings are jobs as BackgroundJobs has them.        *)

Works ==
    ({"verification"} \X Job) \cup ({"replication"} \X Replicas) \cup ({"failover"} \X Failover)
        \cup ({"notification"} \X Notification) \cup ({"recording"} \X Recording)

VerificationState(j) ==
    CASE runner[j] = "none" -> "absent"
      [] runner[j] = "ended" /\ jobs[j].status \in Ended -> "closed"
      [] OTHER -> "open"

ReplicationState(x) ==
    CASE replica[x] = "none" -> "absent"
      [] replica[x] = "pending" -> "open"
      [] OTHER -> "closed"

FailoverState(f) ==
    CASE failovers[f].status = "none" -> "absent"
      [] failovers[f].status \in {"begun", "switched"} -> "open"
      [] OTHER -> "closed"

\* A notification is begun once the channel had room for it.
NotificationState(n) ==
    CASE notice[n] = "none" \/ n \in toSend \cup dropped -> "absent"
      [] notice[n] = "pending" -> "open"
      [] OTHER -> "closed"

RecordingState(r) ==
    CASE recording[r] \in {"none", "recording"} -> "absent"
      [] recording[r] = "processing" -> "open"
      [] OTHER -> "closed"

WorkState(w) ==
    CASE w[1] = "verification" -> VerificationState(w[2])
      [] w[1] = "replication" -> ReplicationState(w[2])
      [] w[1] = "failover" -> FailoverState(w[2])
      [] w[1] = "notification" -> NotificationState(w[2])
      [] w[1] = "recording" -> RecordingState(w[2])

Abstract == INSTANCE BackgroundJobs WITH Jobs <- Works, job <- [w \in Works |-> WorkState(w)]

\* Whatever is begun in the background is begun once, and closed once and for
\* good, with a result on record (customdomain_service.go runVerification,
\* disaster_recovery_service.go performReplication and performFailover,
\* alert_service.go processNotification, recording_service.go processRecording).
WorkIsClosed == Abstract!Spec
==============================================================================
