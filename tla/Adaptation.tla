----------------------------- MODULE Adaptation -----------------------------
(***************************************************************************)
(* Two loops that adapt a resource to what is measured and hold back for a *)
(* delay after each change.                                                *)
(*                                                                         *)
(* AutoScalingService of the container service, for one service: the loop  *)
(* that compares two measurements with their thresholds, the alerts, and   *)
(* registration.  Each registered configuration has its own limits and     *)
(* cooldowns, which nobody validates: a cooldown may be none.  Everything  *)
(* runs under one lock, so only the order of the calls matters.  The code  *)
(* takes the number of replicas to be two and records what it would do;    *)
(* the record of an event is what is checked.                              *)
(*                                                                         *)
(* QualityService of the realtime service: the quality of a participant's  *)
(* video follows the average of what was lately measured of the network,   *)
(* down after one delay and up after another and three calls for it.  The  *)
(* service compares times with the clock; here they have ages, which end   *)
(* where nothing depends on them any more.                                 *)
(***************************************************************************)
EXTENDS Integers, Sequences, FiniteSets

-----------------------------------------------------------------------------
(* AutoScalingService. *)

CONSTANTS Cooldowns,                   \* those that can be configured, in ticks; less is as 0
          MaxCooldown,                 \* bound: none of them is greater
          LeastReplicas, MostReplicas  \* the limits that can be configured

ASSUME AutoscalingAssumption ==
    /\ MaxCooldown \in Nat /\ Cooldowns \subseteq 0..MaxCooldown
    /\ LeastReplicas \subseteq Int /\ MostReplicas \subseteq Int

VARIABLES scaling,   \* serviceConfigs: absent, or enabled, the limits and the cooldowns
          sinceUp,   \* age of lastScaleUp; 0 is absent, and so a tick counts from 1
          sinceDown, \* age of lastScaleDown
          events,    \* history: how often the last call scaled up and down, how long after
                     \* the time before, and whether an alert made it
          upAgo,     \* history: how long ago the service was scaled up, since it is registered
          downAgo    \* history: how long ago it was scaled down

scalingVars == <<scaling, sinceUp, sinceDown, events, upAgo, downAgo>>

ReplicaCount == 2
Duration == 0..MaxCooldown
ScaledAge == 0..(MaxCooldown + 1)
Level == {"low", "middle", "high"}  \* below half the threshold, between, above it
NotRegistered == [registered |-> FALSE, enabled |-> FALSE, least |-> 0, most |-> 0,
                  upCooldown |-> 0, downCooldown |-> 0]
Configurations == [registered : {TRUE}, enabled : BOOLEAN, least : LeastReplicas,
                   most : MostReplicas, upCooldown : Cooldowns, downCooldown : Cooldowns]
Quiet == [ups |-> 0, downs |-> 0, upAfter |-> 0, downAfter |-> 0, alert |-> FALSE]

AutoscalingTypeOK ==
    /\ scaling \in Configurations \cup {NotRegistered}
    /\ sinceUp \in ScaledAge /\ sinceDown \in ScaledAge
    /\ events \in [ups : 0..2, downs : 0..2, upAfter : Duration, downAfter : Duration,
                   alert : BOOLEAN]
    /\ upAgo \in Duration /\ downAgo \in Duration

AutoscalingInit ==
    /\ scaling = NotRegistered /\ sinceUp = 0 /\ sinceDown = 0
    /\ events = Quiet /\ upAgo = MaxCooldown /\ downAgo = MaxCooldown

-----------------------------------------------------------------------------

\* Registering again replaces the configuration and keeps the cooldowns.
RegisterService ==
    /\ scaling' \in Configurations
    /\ events' = Quiet /\ UNCHANGED <<sinceUp, sinceDown, upAgo, downAgo>>

UpdateServiceConfig ==
    /\ scaling.registered
    /\ scaling' \in Configurations
    /\ events' = Quiet /\ UNCHANGED <<sinceUp, sinceDown, upAgo, downAgo>>

UnregisterService ==
    /\ scaling' = NotRegistered
    /\ sinceUp' = 0 /\ sinceDown' = 0
    /\ events' = Quiet /\ upAgo' = MaxCooldown /\ downAgo' = MaxCooldown

-----------------------------------------------------------------------------
(* checkAndScale. *)

CooledDown(age, cooldown) == age = 0 \/ age > cooldown

\* What one measurement makes the loop do, after what the one before it did.
TryScaleUpAlways(level, age, config) == level = "high" /\ ReplicaCount < config.most

TryScaleUp(level, age, config) ==
    level = "high" /\ CooledDown(age, config.upCooldown) /\ ReplicaCount < config.most

TryScaleDown(level, age, config) ==
    level = "low" /\ CooledDown(age, config.downCooldown) /\ ReplicaCount > config.least

Count(p) == IF p THEN 1 ELSE 0

\* How long after the time before the last of n at once is.
After(n, ago) == IF n = 1 THEN ago ELSE 0

\* First the processor, then the memory, in less than a tick.
CheckAndScale(cpu, memory) ==
    /\ scaling.enabled
    /\ LET up1 == TryScaleUp(cpu, sinceUp, scaling)
           down1 == TryScaleDown(cpu, sinceDown, scaling)
           up2 == TryScaleUp(memory, IF up1 THEN 1 ELSE sinceUp, scaling)
           down2 == TryScaleDown(memory, IF down1 THEN 1 ELSE sinceDown, scaling)
           ups == Count(up1) + Count(up2)
           downs == Count(down1) + Count(down2)
       IN  /\ sinceUp' = IF up1 \/ up2 THEN 1 ELSE sinceUp
           /\ sinceDown' = IF down1 \/ down2 THEN 1 ELSE sinceDown
           /\ events' = [ups |-> ups, downs |-> downs, alert |-> FALSE,
                         upAfter |-> After(ups, upAgo), downAfter |-> After(downs, downAgo)]
           /\ upAgo' = IF ups > 0 THEN 0 ELSE upAgo
           /\ downAgo' = IF downs > 0 THEN 0 ELSE downAgo
    /\ UNCHANGED scaling

\* A critical alert scales up at once, and starts the cooldown again.
TriggerScaleFromAlert ==
    /\ scaling.enabled /\ ReplicaCount < scaling.most
    /\ sinceUp' = 1
    /\ events' = [Quiet EXCEPT !.ups = 1, !.alert = TRUE]
    /\ upAgo' = 0
    /\ UNCHANGED <<scaling, sinceDown, downAgo>>

Older(age, most) == IF age = 0 \/ age = most THEN age ELSE age + 1
Longer(ago) == IF ago = MaxCooldown THEN ago ELSE ago + 1

ScalingTick ==
    /\ sinceUp' = Older(sinceUp, MaxCooldown + 1)
    /\ sinceDown' = Older(sinceDown, MaxCooldown + 1)
    /\ upAgo' = Longer(upAgo) /\ downAgo' = Longer(downAgo)
    /\ events' = Quiet
    /\ UNCHANGED scaling

AutoscalingNext ==
    \/ RegisterService
    \/ UpdateServiceConfig
    \/ UnregisterService
    \/ \E cpu, memory \in Level : CheckAndScale(cpu, memory)
    \/ TriggerScaleFromAlert
    \/ ScalingTick

AutoscalingSpec == AutoscalingInit /\ [][AutoscalingNext]_scalingVars

-----------------------------------------------------------------------------
(* Properties. *)

\* A measurement scales a service within the limits in force, and never sooner after
\* the last time than the cooldown in force then, whichever configuration, measurement
\* or alert that time was of: so in one pass it is scaled twice in one direction only
\* where there is no cooldown.  (An alert does not wait, and a pass may do both: up for
\* the processor and down for the memory.)
ScalesApart ==
    /\ events.ups > 0 =>
          /\ ReplicaCount + 1 <= scaling.most
          /\ events.alert \/ events.upAfter >= scaling.upCooldown
    /\ events.downs > 0 =>
          /\ ReplicaCount - 1 >= scaling.least
          /\ events.downAfter >= scaling.downCooldown
    /\ scaling.upCooldown > 0 => events.ups <= 1
    /\ scaling.downCooldown > 0 => events.downs <= 1

-----------------------------------------------------------------------------
(* QualityService. *)

CONSTANTS Bandwidth,       \* what is measured, in units in which the thresholds are 1..5
          SampleWindow, UpgradeDelay, DowngradeDelay    \* QualityConfig, in ticks

ASSUME QualityAssumption ==
    /\ Bandwidth \subseteq 0..5
    /\ {SampleWindow, UpgradeDelay, DowngradeDelay} \subseteq Nat \ {0}

VARIABLES samples,      \* ParticipantQualityState.Metrics
          video,        \* the rest of it, LastUpgrade and LastDowngrade as ages
          calledFor,    \* history: the quality that was last called for, and how long after
                        \* LastDowngrade
          lastRaise,    \* history: how long ago video was raised, and how long before that
          lastLowering  \* history: the same of lowerings

qualityVars == <<samples, video, calledFor, lastRaise, lastLowering>>

\* audio only, 360p, 480p, 720p, 1080p
Quality == 0..4

Sample == [age : 0..(SampleWindow - 1), kbps : Bandwidth, poor : BOOLEAN]
Video == [quality : Quality, raised : 0..UpgradeDelay, lowered : 0..DowngradeDelay,
          stable : 0..2]

QualityTypeOK ==
    /\ samples \in Seq(Sample)
    /\ video \in Video
    /\ calledFor \in [quality : Quality, after : 0..DowngradeDelay]
    /\ lastRaise \in [ago : 0..UpgradeDelay, apart : 0..UpgradeDelay]
    /\ lastLowering \in [ago : 0..DowngradeDelay, apart : 0..DowngradeDelay]

\* A participant is registered with 720p.
Registered == [quality |-> 3, raised |-> 0, lowered |-> 0, stable |-> 0]

QualityInit ==
    /\ samples = <<>> /\ video = Registered
    /\ calledFor = [quality |-> 3, after |-> 0]
    /\ lastRaise = [ago |-> UpgradeDelay, apart |-> UpgradeDelay]
    /\ lastLowering = [ago |-> DowngradeDelay, apart |-> DowngradeDelay]

-----------------------------------------------------------------------------
(* The quality that samples call for. *)

Bandwidths(s) == LET sum[i \in 0..Len(s)] == IF i = 0 THEN 0 ELSE sum[i - 1] + s[i].kbps
                 IN sum[Len(s)]

\* Losses or delays are critical on the average of at least half of the samples.
Average(s) ==
    [kbps |-> Bandwidths(s) \div Len(s),
     poor |-> 2 * Cardinality({i \in DOMAIN s : s[i].poor}) >= Len(s)]

\* The thresholds that are reached, but for the lowest, under which there is audio only.
TargetQuality(average) ==
    IF average.poor THEN IF average.kbps < 1 THEN 0 ELSE 1
    ELSE Cardinality({threshold \in 2..5 : average.kbps >= threshold})

-----------------------------------------------------------------------------
(* What is done with the quality. *)

Again(change) == [ago |-> 0, apart |-> change.ago]

LowerUntimed(target) ==
    /\ target < video.quality /\ video.lowered = DowngradeDelay
    /\ video' = [video EXCEPT !.quality = target, !.stable = 0]
    /\ lastLowering' = Again(lastLowering)
    /\ UNCHANGED lastRaise

Lower(target) ==
    /\ target < video.quality /\ video.lowered = DowngradeDelay
    /\ video' = [video EXCEPT !.quality = target, !.lowered = 0, !.stable = 0]
    /\ lastLowering' = Again(lastLowering)
    /\ UNCHANGED lastRaise

\* The calls need not follow one another: nothing but a change takes them back.
RaiseAtThird(target) ==
    /\ target > video.quality /\ video.raised = UpgradeDelay
    /\ IF video.stable < 2
       THEN /\ video' = [video EXCEPT !.stable = @ + 1]
            /\ UNCHANGED lastRaise
       ELSE /\ video' = [video EXCEPT !.quality = target, !.raised = 0, !.stable = 0]
            /\ lastRaise' = Again(lastRaise)
    /\ UNCHANGED lastLowering

LeaveQuality(target) ==
    /\ \/ target = video.quality
       \/ target > video.quality /\ video.raised < UpgradeDelay
       \/ target < video.quality /\ video.lowered < DowngradeDelay
    /\ UNCHANGED <<video, lastRaise, lastLowering>>

ProcessMetrics(kbps, poor) ==
    LET measured == Append(samples, [age |-> 0, kbps |-> kbps, poor |-> poor])
        target == TargetQuality(Average(measured))
    IN /\ \A i \in DOMAIN samples : samples[i].age > 0   \* bound: one sample in a tick
       /\ samples' = measured
       /\ Lower(target) \/ RaiseAtThird(target) \/ LeaveQuality(target)
       /\ calledFor' = [quality |-> target, after |-> video'.lowered]

\* The delays go on from where they were.
ForceQuality(quality) ==
    /\ video' = [video EXCEPT !.quality = quality, !.stable = 0]
    /\ calledFor' = [quality |-> quality, after |-> video.lowered]
    /\ UNCHANGED <<samples, lastRaise, lastLowering>>

RegisterParticipant ==
    /\ samples' = <<>> /\ video' = Registered
    /\ calledFor' = [quality |-> 3, after |-> 0]
    /\ UNCHANGED <<lastRaise, lastLowering>>

Grown(age, most) == IF age = most THEN age ELSE age + 1

\* What is older than the window is dropped with the next sample: here at once. Samples
\* are in order and of different ticks, so it can only be the first.
Recent(s) == IF s # <<>> /\ Head(s).age = SampleWindow - 1 THEN Tail(s) ELSE s

QualityTick ==
    /\ samples' = [i \in DOMAIN Recent(samples) |-> [Recent(samples)[i] EXCEPT !.age = @ + 1]]
    /\ video' = [video EXCEPT !.raised = Grown(@, UpgradeDelay),
                              !.lowered = Grown(@, DowngradeDelay)]
    /\ lastRaise' = [lastRaise EXCEPT !.ago = Grown(@, UpgradeDelay)]
    /\ lastLowering' = [lastLowering EXCEPT !.ago = Grown(@, DowngradeDelay)]
    /\ UNCHANGED calledFor

QualityNext ==
    \/ \E kbps \in Bandwidth, poor \in BOOLEAN : ProcessMetrics(kbps, poor)
    \/ \E quality \in {0, 4} : ForceQuality(quality)
    \/ RegisterParticipant
    \/ QualityTick

-----------------------------------------------------------------------------
\* Video is raised no oftener than once in UpgradeDelay and lowered no oftener than once
\* in DowngradeDelay, whatever is forced or registered between.
ChangesApart == lastRaise.apart = UpgradeDelay /\ lastLowering.apart = DowngradeDelay

\* Video that is better than the network called for when it was last measured had been
\* lowered, or the participant registered, not long before.
PoorVideoIsLowered ==
    video.quality > calledFor.quality => calledFor.after < DowngradeDelay

=============================================================================
