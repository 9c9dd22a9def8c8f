------------------------- MODULE ResourceAdjustments -------------------------
(***************************************************************************)
(* ResourceService.AdjustResources with the quota of a user: read the pod, *)
(* compare the increase with what the quota has left, change the pod, add  *)
(* the difference to the usage.  Four calls to two services and no lock    *)
(* over them.  A pod that cannot be changed in place is deleted and made   *)
(* again.  Only these adjustments are ever counted, so that the usage is   *)
(* what has been added since the pods were made.  One resource is modelled *)
(* (CPU; memory goes the same way through the same functions).             *)
(***************************************************************************)
EXTENDS Integers, FiniteSets, Functions

CONSTANTS Pod,             \* environments of the user, one pod each
          AdjustCaller,    \* requests that may be under way at once
          TopCpu,          \* the cores of a pod are 1..TopCpu
          InitialCpu,      \* the cores a pod is made with
          QuotaCpu,        \* what the quota allows to be added
          MaxAdjustments,  \* bound: adjustments ever begun
          NoPod

ASSUME AdjustmentAssumption ==
    /\ TopCpu \in Nat \ {0} /\ InitialCpu \in 1..TopCpu
    /\ QuotaCpu \in Nat /\ MaxAdjustments \in Nat /\ NoPod \notin Pod
    /\ IsFiniteSet(Pod) /\ IsFiniteSet(AdjustCaller) /\ AdjustCaller # {}

VARIABLES cpu,        \* the cores of each pod, 0 if there is no pod
          podWrites,  \* resourceVersion: it changes whenever the pod does
          hasRecord,  \* there is a quota record of the user
          counted,    \* CurrentCPU of that record
          adjust,     \* where each request is, and what it has read
          begun,      \* adjustments begun
          podLost,    \* history: pods that were deleted and could not be made again
          adjustedTwice  \* history: pods that two requests adjusted at once

adjustVars == <<cpu, podWrites, hasRecord, counted, adjust, begun, podLost,
                adjustedTwice>>

AdjustPlace == {"idle", "check", "update", "delete", "create", "count"}
Adjusting == [at : AdjustPlace, pod : Pod \cup {NoPod}, old : 0..TopCpu, new : 0..TopCpu,
              version : Nat]
NoAdjustment == [at |-> "idle", pod |-> NoPod, old |-> 0, new |-> 0, version |-> 0]

AdjustTypeOK ==
    /\ cpu \in [Pod -> 0..TopCpu]
    /\ podWrites \in [Pod -> Nat]
    /\ hasRecord \in BOOLEAN /\ counted \in Int
    /\ adjust \in [AdjustCaller -> Adjusting]
    /\ begun \in 0..MaxAdjustments
    /\ podLost \subseteq Pod /\ adjustedTwice \subseteq Pod

\* An administrator has given the user a quota, or they have the default one.
AdjustInit ==
    /\ cpu = [e \in Pod |-> InitialCpu]
    /\ podWrites = [e \in Pod |-> 0]
    /\ hasRecord \in BOOLEAN
    /\ counted = 0
    /\ adjust = [c \in AdjustCaller |-> NoAdjustment]
    /\ begun = 0 /\ podLost = {} /\ adjustedTwice = {}

Goes(c, place) == adjust' = [adjust EXCEPT ![c].at = place]
GivesUp(c) == adjust' = [adjust EXCEPT ![c] = NoAdjustment]
Written(e) == podWrites' = [podWrites EXCEPT ![e] = @ + 1]

-----------------------------------------------------------------------------
\* The pod is read; without one the request fails at once.
AdjustResources(c, e, new) ==
    /\ adjust[c].at = "idle" /\ begun < MaxAdjustments
    /\ cpu[e] # 0
    /\ adjust' = [adjust EXCEPT ![c] = [at |-> "check", pod |-> e, old |-> cpu[e],
                                        new |-> new, version |-> podWrites[e]]]
    /\ begun' = begun + 1
    /\ adjustedTwice' = IF \E d \in AdjustCaller : adjust[d].pod = e
                        THEN adjustedTwice \cup {e} ELSE adjustedTwice
    /\ UNCHANGED <<cpu, podWrites, hasRecord, counted, podLost>>

Delta(c) == adjust[c].new - adjust[c].old

UsageForgotten(c) == hasRecord /\ Delta(c) <= QuotaCpu

\* A default quota has no current usage to be parsed, and the request panics.
WithinQuota(c) == hasRecord /\ counted + Delta(c) <= QuotaCpu

\* Only an increase is checked.
CheckAdjustment(c) ==
    /\ adjust[c].at = "check"
    /\ IF Delta(c) <= 0 \/ WithinQuota(c)
       THEN Goes(c, "update") ELSE GivesUp(c)
    /\ UNCHANGED <<cpu, podWrites, hasRecord, counted, begun, podLost, adjustedTwice>>

\* The update is refused if the pod has been written since it was read.
ApplyResourceChanges(c) ==
    /\ adjust[c].at = "update"
    /\ LET e == adjust[c].pod
       IN /\ cpu[e] # 0 /\ podWrites[e] = adjust[c].version
          /\ cpu' = [cpu EXCEPT ![e] = adjust[c].new]
          /\ Written(e)
    /\ Goes(c, "count")
    /\ UNCHANGED <<hasRecord, counted, begun, podLost, adjustedTwice>>

\* Most clusters refuse to change the resources of a running pod at all.
UpdateRefused(c) ==
    /\ adjust[c].at = "update"
    /\ Goes(c, "delete")
    /\ UNCHANGED <<cpu, podWrites, hasRecord, counted, begun, podLost, adjustedTwice>>

DeletePod(c) ==
    /\ adjust[c].at = "delete"
    /\ LET e == adjust[c].pod
       IN /\ cpu[e] # 0
          /\ cpu' = [cpu EXCEPT ![e] = 0]
          /\ Written(e)
    /\ Goes(c, "create")
    /\ UNCHANGED <<hasRecord, counted, begun, podLost, adjustedTwice>>

RecreatePod(c) ==
    /\ adjust[c].at = "create"
    /\ LET e == adjust[c].pod
       IN /\ cpu[e] = 0
          /\ cpu' = [cpu EXCEPT ![e] = adjust[c].new]
          /\ Written(e)
    /\ Goes(c, "count")
    /\ UNCHANGED <<hasRecord, counted, begun, podLost, adjustedTwice>>

FailureCounted(c) ==
    /\ adjust[c].at \in {"delete", "create"}
    /\ GivesUp(c)
    /\ counted' = counted + Delta(c)
    /\ podLost' = IF adjust[c].at = "create" /\ cpu[adjust[c].pod] = 0
                  THEN podLost \cup {adjust[c].pod} ELSE podLost
    /\ UNCHANGED <<cpu, podWrites, hasRecord, begun, adjustedTwice>>

\* The cluster refuses to delete or to create: the request gives up where it is.
AdjustmentFails(c) ==
    /\ adjust[c].at \in {"delete", "create"}
    /\ GivesUp(c)
    /\ podLost' = IF adjust[c].at = "create" /\ cpu[adjust[c].pod] = 0
                  THEN podLost \cup {adjust[c].pod} ELSE podLost
    /\ UNCHANGED <<cpu, podWrites, hasRecord, counted, begun, adjustedTwice>>

UpdateUsage(c) ==
    /\ adjust[c].at = "count"
    /\ counted' = counted + Delta(c)
    /\ hasRecord' = TRUE
    /\ GivesUp(c)
    /\ UNCHANGED <<cpu, podWrites, begun, podLost, adjustedTwice>>

AdjustNext ==
    \/ \E c \in AdjustCaller, e \in Pod, new \in 1..TopCpu : AdjustResources(c, e, new)
    \/ \E c \in AdjustCaller : CheckAdjustment(c)
    \/ \E c \in AdjustCaller : ApplyResourceChanges(c)
    \/ \E c \in AdjustCaller : UpdateRefused(c)
    \/ \E c \in AdjustCaller : DeletePod(c)
    \/ \E c \in AdjustCaller : RecreatePod(c)
    \/ \E c \in AdjustCaller : AdjustmentFails(c)
    \/ \E c \in AdjustCaller : UpdateUsage(c)

-----------------------------------------------------------------------------
Checked == {c \in AdjustCaller : adjust[c].at \in AdjustPlace \ {"idle", "check"}}

\* Requests that were all checked before any was counted can take the usage over the
\* quota together, but by no more than all but one of them can ask for.
UsageOvershootBounded ==
    counted + SumFunctionOnSet([c \in AdjustCaller |-> Delta(c)], Checked)
        <= QuotaCpu + (Cardinality(AdjustCaller) - 1) * (TopCpu - 1)

\* Once no request is under way, the usage is what the pods have more than they
\* were made with, unless two requests adjusted one pod at once or a pod was lost:
\* the difference is taken from what was read, and a failure is not counted.
UsageIsTrue ==
    (adjustedTwice \cup podLost = {} /\ \A c \in AdjustCaller : adjust[c].at = "idle")
        => counted = SumFunction([e \in Pod |-> cpu[e] - InitialCpu])

\* An environment is without its pod only while a request is making it again, or
\* because that failed.
PodIsMadeAgain ==
    \A e \in Pod : cpu[e] = 0 =>
        \/ e \in podLost
        \/ \E c \in AdjustCaller : adjust[c].pod = e /\ adjust[c].at = "create"
==============================================================================
