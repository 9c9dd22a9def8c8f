-------------------------- MODULE DisasterRecovery --------------------------
(***************************************************************************)
(* DisasterRecoveryService: the replication of backups to the secondary    *)
(* regions through a queue, each copy by a goroutine, and the failovers to *)
(* a secondary region, each by a goroutine.  The health of a region is     *)
(* what a look at it happens to find.                                      *)
(***************************************************************************)
EXTENDS Naturals, Sequences, FiniteSets

CONSTANTS Region,            \* the secondary regions
          Primary,           \* the primary region at the start
          Replicated,        \* the backups
          ReplicationQueue,  \* capacity of the queue
          MaxFailovers       \* bound: failovers

ASSUME RecoveryAssumption == Region # {} /\ ReplicationQueue \in Nat

VARIABLES queue,       \* replicationQueue
          replica,     \* status of the replication of each backup to each region
          primary,     \* primaryRegion
          active,      \* the regions with IsActive
          failovers,   \* the failovers: target and status
          lateFailure  \* history: a failover failed after the regions were switched,
                       \* or two were between their switches and their ends at once

recoveryVars == <<queue, replica, primary, active, failovers, lateFailure>>

Replicas == Replicated \X Region
Failover == 1..MaxFailovers

RecoveryTypeOK ==
    /\ queue \in Seq(Replicated) /\ Len(queue) <= ReplicationQueue
    /\ replica \in [Replicas -> {"none", "pending", "completed", "failed"}]
    /\ primary \in Region \cup {Primary} /\ active \subseteq Region \cup {Primary}
    /\ failovers \in [Failover -> [to : Region, status : {"none", "begun", "switched",
                                                          "completed", "failed"}]]
    /\ lateFailure \in BOOLEAN

RecoveryInit ==
    /\ queue = <<>>
    /\ replica = [x \in Replicas |-> "none"]
    /\ primary = Primary
    /\ \E some \in SUBSET Region : active = some \cup {Primary}
    /\ failovers = [f \in Failover |-> [to |-> CHOOSE r \in Region : TRUE, status |-> "none"]]
    /\ lateFailure = FALSE

-----------------------------------------------------------------------------
(* Replication. *)

QueueUnbounded(b) ==
    /\ \A r \in Region : replica[<<b, r>>] = "none"
    /\ \A i \in 1..Len(queue) : queue[i] # b
    /\ Len(queue) <= ReplicationQueue
    /\ queue' = Append(queue, b)
    /\ UNCHANGED <<replica, primary, active, failovers, lateFailure>>

\* A backup is not queued when the queue is full.
QueueReplication(b) ==
    /\ \A r \in Region : replica[<<b, r>>] = "none"
    /\ \A i \in 1..Len(queue) : queue[i] # b
    /\ Len(queue) < ReplicationQueue
    /\ queue' = Append(queue, b)
    /\ UNCHANGED <<replica, primary, active, failovers, lateFailure>>

\* The worker: one goroutine for each region that is active.
ReplicateBackup ==
    /\ queue # <<>>
    /\ queue' = Tail(queue)
    /\ replica' = [x \in Replicas |->
                      IF x[1] = Head(queue) /\ x[2] \in active THEN "pending" ELSE replica[x]]
    /\ UNCHANGED << primary, active, failovers, lateFailure>>

\* The archive, if there is one by now, is copied and the checksum compared; of a
\* backup that is still being written only the metadata is, with the same status.
PerformReplication(b, r) ==
    /\ replica[<<b, r>>] = "pending"
    /\ replica' = [replica EXCEPT ![<<b, r>>] = "completed"]
    /\ UNCHANGED <<queue, primary, active, failovers, lateFailure>>

FailReplication(b, r) ==
    /\ replica[<<b, r>>] = "pending"
    /\ replica' = [replica EXCEPT ![<<b, r>>] = "failed"]
    /\ UNCHANGED <<queue, primary, active, failovers, lateFailure>>

-----------------------------------------------------------------------------
(* Failover. *)

SetFailover(f, status) == failovers' = [failovers EXCEPT ![f].status = status]

\* To a secondary region that was healthy when it was last looked at.
InitiateFailover(f, r) ==
    /\ failovers[f].status = "none" /\ \A g \in 1..(f - 1) : failovers[g].status # "none"
    /\ failovers' = [failovers EXCEPT ![f] = [to |-> r, status |-> "begun"]]
    /\ UNCHANGED <<queue, replica, primary, active, lateFailure>>

HasReplica(r) == \E b \in Replicated : replica[<<b, r>>] = "completed"

NoReplica(f) ==
    /\ failovers[f].status = "begun" /\ ~HasReplica(failovers[f].to)
    /\ SetFailover(f, "failed")
    /\ UNCHANGED <<queue, replica, primary, active, lateFailure>>

SwitchUnverified(f) ==
    /\ failovers[f].status = "begun"
    /\ active' = (active \ {primary}) \cup {failovers[f].to}
    /\ SetFailover(f, "switched")
    /\ lateFailure' = (lateFailure \/ \E g \in Failover : failovers[g].status = "switched")
    /\ UNCHANGED <<queue, replica, primary>>

\* The region that is primary now is made inactive, then the target active.
SwitchRegions(f) ==
    /\ failovers[f].status = "begun" /\ HasReplica(failovers[f].to)
    /\ active' = (active \ {primary}) \cup {failovers[f].to}
    /\ SetFailover(f, "switched")
    /\ lateFailure' = (lateFailure \/ \E g \in Failover : failovers[g].status = "switched")
    /\ UNCHANGED <<queue, replica, primary>>

\* The target answers, or it does not and nothing is switched back.
VerifyServices(f) ==
    /\ failovers[f].status = "switched"
    /\ \/ SetFailover(f, "completed") /\ primary' = failovers[f].to /\ UNCHANGED lateFailure
       \/ SetFailover(f, "failed") /\ lateFailure' = TRUE /\ UNCHANGED primary
    /\ UNCHANGED <<queue, replica, active>>

RecoveryNext ==
    \/ \E b \in Replicated : QueueReplication(b)
    \/ ReplicateBackup
    \/ \E b \in Replicated, r \in Region : PerformReplication(b, r)
    \/ \E b \in Replicated, r \in Region : FailReplication(b, r)
    \/ \E f \in Failover, r \in Region : InitiateFailover(f, r)
    \/ \E f \in Failover : NoReplica(f)
    \/ \E f \in Failover : SwitchRegions(f)
    \/ \E f \in Failover : VerifyServices(f)

\* The worker and the goroutines run.
RecoveryFairness ==
    /\ WF_recoveryVars(ReplicateBackup)
    /\ \A b \in Replicated, r \in Region :
           WF_recoveryVars(PerformReplication(b, r) \/ FailReplication(b, r))
    /\ \A f \in Failover : WF_recoveryVars(NoReplica(f) \/ SwitchRegions(f) \/ VerifyServices(f))

RecoverySpec == RecoveryInit /\ [][RecoveryNext]_recoveryVars /\ RecoveryFairness

-----------------------------------------------------------------------------
(* Properties. *)

\* A region that became primary by a failover has a completed replica of a backup,
\* and the primary region is active, unless a failover is between its steps, failed
\* there, or met another there.
PrimaryCanServe ==
    /\ primary # Primary => HasReplica(primary)
    /\ \/ lateFailure \/ \E f \in Failover : failovers[f].status = "switched"
       \/ primary \in active

=============================================================================
