------------------------- MODULE BackgroundWorkProofs -------------------------
(***************************************************************************)
(* What every part of the background work keeps, for any number of jobs,   *)
(* regions, webhooks, alerts and recordings and all limits and delays: the *)
(* shapes of its records, that what a status says is so, and that what     *)
(* follows measurements does so slowly enough; and that verifications,     *)
(* copies of backups, failovers, notifications and recordings are jobs as  *)
(* BackgroundJobs has them.  Each part has its invariant, which its own    *)
(* steps keep; in a step of the whole, one of the parts moves.             *)
(***************************************************************************)
EXTENDS BackgroundWork, SequenceTheorems, FiniteSetTheorems, TLAPS

\* The ages that the service keeps are what really happened: one that it does not keep is
\* the greatest there is.
ScalingInv ==
    /\ AutoscalingTypeOK /\ ScalesApart
    /\ upAgo = IF sinceUp = 0 THEN MaxCooldown ELSE sinceUp - 1
    /\ downAgo = IF sinceDown = 0 THEN MaxCooldown ELSE sinceDown - 1

LEMMA ScalingStarts == AutoscalingInit => ScalingInv
  BY AutoscalingAssumption DEF AutoscalingInit, ScalingInv, AutoscalingTypeOK, ScaledAge,
                               Duration, ScalesApart, Quiet

LEMMA LimitsOf ==
    \A c \in Configurations \cup {NotRegistered} :
        /\ c.least \in Int /\ c.most \in Int
        /\ c.upCooldown \in Duration /\ c.downCooldown \in Duration
<1>1. \A c \in Configurations : /\ c.least \in LeastReplicas /\ c.most \in MostReplicas
                                /\ c.upCooldown \in Cooldowns /\ c.downCooldown \in Cooldowns
  BY Zenon DEF Configurations
<1>2. /\ NotRegistered.least = 0 /\ NotRegistered.most = 0
      /\ NotRegistered.upCooldown = 0 /\ NotRegistered.downCooldown = 0
  BY DEF NotRegistered
<1>3. LeastReplicas \subseteq Int /\ MostReplicas \subseteq Int /\ Cooldowns \subseteq Duration
      /\ 0 \in Duration /\ 0 \in Int
  BY AutoscalingAssumption DEF Duration
<1> QED
  BY <1>1, <1>2, <1>3, Zenon

\* What two measurements make of one direction: they wait for the cooldown, and one of
\* them waits for the other.
LEMMA TwoMeasurements ==
    ASSUME NEW cooldown \in Duration, NEW since \in ScaledAge, NEW first \in BOOLEAN,
           NEW second \in BOOLEAN,
           first => CooledDown(since, cooldown),
           second => CooledDown(IF first THEN 1 ELSE since, cooldown),
           NEW ago, ago = IF since = 0 THEN MaxCooldown ELSE since - 1,
           NEW n, n = Count(first) + Count(second)
    PROVE  /\ n \in 0..2 /\ (n > 0 <=> first \/ second) /\ ago \in Duration
           /\ n > 0 => After(n, ago) >= cooldown
           /\ cooldown > 0 => n <= 1
           /\ After(n, ago) \in Duration
<1> USE AutoscalingAssumption DEF Duration, ScaledAge, CooledDown, Count, After
<1>1. CASE first /\ second
  BY <1>1
<1>2. CASE first /\ ~second
  BY <1>2
<1>3. CASE ~first /\ second
  BY <1>3
<1>4. CASE ~first /\ ~second
  BY <1>4
<1> QED
  BY <1>1, <1>2, <1>3, <1>4

LEMMA CheckStep ==
    ASSUME ScalingInv, NEW cpu \in Level, NEW memory \in Level, CheckAndScale(cpu, memory)
    PROVE  ScalingInv'
<1> DEFINE up1 == TryScaleUp(cpu, sinceUp, scaling)
           down1 == TryScaleDown(cpu, sinceDown, scaling)
           up2 == TryScaleUp(memory, IF up1 THEN 1 ELSE sinceUp, scaling)
           down2 == TryScaleDown(memory, IF down1 THEN 1 ELSE sinceDown, scaling)
           ups == Count(up1) + Count(up2)
           downs == Count(down1) + Count(down2)
<1>1. /\ sinceUp' = IF up1 \/ up2 THEN 1 ELSE sinceUp
      /\ sinceDown' = IF down1 \/ down2 THEN 1 ELSE sinceDown
      /\ events' = [ups |-> ups, downs |-> downs, alert |-> FALSE,
                    upAfter |-> After(ups, upAgo), downAfter |-> After(downs, downAgo)]
      /\ upAgo' = (IF ups > 0 THEN 0 ELSE upAgo) /\ downAgo' = (IF downs > 0 THEN 0 ELSE downAgo)
      /\ scaling' = scaling
  BY DEF CheckAndScale
<1>2. /\ scaling.least \in Int /\ scaling.most \in Int
      /\ scaling.upCooldown \in Duration /\ scaling.downCooldown \in Duration
  BY LimitsOf DEF ScalingInv, AutoscalingTypeOK
<1>3. /\ up1 => CooledDown(sinceUp, scaling.upCooldown)
      /\ up2 => CooledDown(IF up1 THEN 1 ELSE sinceUp, scaling.upCooldown)
      /\ down1 => CooledDown(sinceDown, scaling.downCooldown)
      /\ down2 => CooledDown(IF down1 THEN 1 ELSE sinceDown, scaling.downCooldown)
      /\ {up1, up2, down1, down2} \subseteq BOOLEAN
  BY DEF TryScaleUp, TryScaleDown
<1>4. (up1 \/ up2 => ReplicaCount < scaling.most)
      /\ (down1 \/ down2 => ReplicaCount > scaling.least)
  BY DEF TryScaleUp, TryScaleDown
<1> HIDE DEF up1, down1, up2, down2
<1>5. /\ sinceUp \in ScaledAge /\ sinceDown \in ScaledAge
      /\ upAgo = IF sinceUp = 0 THEN MaxCooldown ELSE sinceUp - 1
      /\ downAgo = IF sinceDown = 0 THEN MaxCooldown ELSE sinceDown - 1
  BY DEF ScalingInv, AutoscalingTypeOK
<1>6. /\ ups \in 0..2 /\ (ups > 0 <=> up1 \/ up2) /\ upAgo \in Duration
      /\ ups > 0 => After(ups, upAgo) >= scaling.upCooldown
      /\ scaling.upCooldown > 0 => ups <= 1
      /\ After(ups, upAgo) \in Duration
  BY <1>2, <1>3, <1>5, TwoMeasurements
<1>7. /\ downs \in 0..2 /\ (downs > 0 <=> down1 \/ down2) /\ downAgo \in Duration
      /\ downs > 0 => After(downs, downAgo) >= scaling.downCooldown
      /\ scaling.downCooldown > 0 => downs <= 1
      /\ After(downs, downAgo) \in Duration
  BY <1>2, <1>3, <1>5, TwoMeasurements
<1> HIDE DEF ups, downs
<1>8. /\ sinceUp' \in ScaledAge /\ sinceDown' \in ScaledAge
      /\ upAgo' \in Duration /\ downAgo' \in Duration
      /\ upAgo' = IF sinceUp' = 0 THEN MaxCooldown ELSE sinceUp' - 1
      /\ downAgo' = IF sinceDown' = 0 THEN MaxCooldown ELSE sinceDown' - 1
  BY <1>1, <1>5, <1>6, <1>7, AutoscalingAssumption DEF ScaledAge, Duration
<1>9. events' \in [ups : 0..2, downs : 0..2, upAfter : Duration, downAfter : Duration,
                   alert : BOOLEAN]
  BY <1>1, <1>6, <1>7
<1>10. ScalesApart'
  BY <1>1, <1>2, <1>4, <1>6, <1>7 DEF ScalesApart, ReplicaCount
<1> QED
  BY <1>1, <1>8, <1>9, <1>10 DEF ScalingInv, AutoscalingTypeOK

LEMMA ScalingStep ==
    ASSUME ScalingInv, [AutoscalingNext]_scalingVars
    PROVE  ScalingInv'
<1> USE AutoscalingAssumption
    DEF ScalingInv, AutoscalingTypeOK, ScalesApart, ScaledAge, Duration, Quiet
<1>1. CASE RegisterService \/ UpdateServiceConfig
  <2>1. /\ scaling' \in Configurations /\ UNCHANGED <<sinceUp, sinceDown, upAgo, downAgo>>
        /\ events' = Quiet
    BY <1>1 DEF RegisterService, UpdateServiceConfig
  <2>2. /\ events'.ups = 0 /\ events'.downs = 0
        /\ events' \in [ups : 0..2, downs : 0..2, upAfter : Duration, downAfter : Duration,
                        alert : BOOLEAN]
    BY <2>1
  <2> QED
    BY <2>1, <2>2
<1>2. CASE UnregisterService
  BY <1>2 DEF UnregisterService
<1>3. ASSUME NEW cpu \in Level, NEW memory \in Level, CheckAndScale(cpu, memory)
      PROVE  ScalingInv'
  BY <1>3, CheckStep
<1>4. CASE TriggerScaleFromAlert
  <2>1. /\ sinceUp' = 1 /\ sinceDown' = sinceDown /\ scaling' = scaling
        /\ upAgo' = 0 /\ downAgo' = downAgo
        /\ events' = [ups |-> 1, downs |-> 0, upAfter |-> 0, downAfter |-> 0, alert |-> TRUE]
        /\ ReplicaCount < scaling.most
    BY <1>4 DEF TriggerScaleFromAlert
  <2>2. /\ events'.ups = 1 /\ events'.downs = 0 /\ events'.alert
        /\ events' \in [ups : 0..2, downs : 0..2, upAfter : Duration, downAfter : Duration,
                        alert : BOOLEAN]
    BY <2>1
  <2>3. scaling.most \in Int
    BY LimitsOf
  <2> QED
    BY <2>1, <2>2, <2>3 DEF ReplicaCount
<1>5. CASE ScalingTick
  BY <1>5 DEF ScalingTick, Older, Longer
<1>6. CASE UNCHANGED scalingVars
  BY <1>6 DEF scalingVars
<1> QED
  BY <1>1, <1>2, <1>3, <1>4, <1>5, <1>6 DEF AutoscalingNext

-----------------------------------------------------------------------------
(* The quality of video. *)

Times(delay) == [ago : 0..delay, apart : 0..delay]

QualityInv ==
    /\ ChangesApart /\ PoorVideoIsLowered
    /\ video \in Video
    /\ calledFor \in [quality : Quality, after : 0..DowngradeDelay]
    /\ lastRaise \in Times(UpgradeDelay) /\ lastLowering \in Times(DowngradeDelay)
    /\ video.raised <= lastRaise.ago /\ video.lowered <= lastLowering.ago

LEMMA QualityStarts == QualityInit => QualityInv
  BY QualityAssumption DEF QualityInit, QualityInv, ChangesApart, PoorVideoIsLowered,
                           Registered, Quality, Video, Times

LEMMA TargetIsQuality == \A average : TargetQuality(average) \in Quality
<1> SUFFICES ASSUME NEW average PROVE TargetQuality(average) \in Quality
  OBVIOUS
<1> DEFINE reached == {threshold \in 2..5 : average.kbps >= threshold}
<1>1. IsFiniteSet(2..5) /\ Cardinality(2..5) = 4
  <2>1. 2 \in Int /\ 5 \in Int /\ 5 - 2 + 1 = 4 /\ ~(2 > 5)
    OBVIOUS
  <2>2. IsFiniteSet(2..5) /\ Cardinality(2..5) = IF 2 > 5 THEN 0 ELSE 5 - 2 + 1
    BY <2>1, FS_Interval
  <2> QED
    BY <2>1, <2>2
<1>2. Cardinality(reached) \in Nat /\ Cardinality(reached) <= 4
  BY <1>1, FS_Subset, FS_CardinalityType
<1> QED
  BY <1>2 DEF TargetQuality, Quality

LEMMA Delays == UpgradeDelay \in Nat \ {0} /\ DowngradeDelay \in Nat \ {0}
  BY QualityAssumption

LEMMA Kept ==
    ASSUME QualityInv
    PROVE  /\ video.quality \in Quality /\ video.raised \in 0..UpgradeDelay
           /\ video.lowered \in 0..DowngradeDelay /\ video.stable \in 0..2
           /\ lastRaise.ago \in 0..UpgradeDelay /\ lastRaise.apart = UpgradeDelay
           /\ lastLowering.ago \in 0..DowngradeDelay /\ lastLowering.apart = DowngradeDelay
           /\ video.raised <= lastRaise.ago /\ video.lowered <= lastLowering.ago
  BY DEF QualityInv, ChangesApart, Video, Times

LEMMA TimesAgain == 
    ASSUME NEW delay \in Nat \ {0}, NEW t \in Times(delay)
    PROVE  Again(t) \in Times(delay) /\ Again(t).ago = 0 /\ Again(t).apart = t.ago
  BY DEF Times, Again

LEMMA ProcessStep ==
    ASSUME QualityInv, NEW kbps \in Bandwidth, NEW poor \in BOOLEAN, ProcessMetrics(kbps, poor)
    PROVE  QualityInv'
<1>1. PICK target \in Quality :
        /\ Lower(target) \/ RaiseAtThird(target) \/ LeaveQuality(target)
        /\ calledFor' = [quality |-> target, after |-> video'.lowered]
  BY TargetIsQuality DEF ProcessMetrics
<1>2. video' \in Video /\ lastRaise' \in Times(UpgradeDelay) /\ lastLowering' \in Times(DowngradeDelay)
  <2>1. CASE Lower(target)
    <3>1. 0 \in 0..2 /\ 0 \in 0..DowngradeDelay
      BY Delays
    <3>2. video' \in Video
      BY <1>1, <2>1, <3>1 DEF Lower, QualityInv, Video
    <3> QED
      BY <2>1, <3>2, TimesAgain, Delays DEF Lower, QualityInv
  <2>2. CASE RaiseAtThird(target) /\ video.stable < 2
    <3>1. video.stable + 1 \in 0..2
      BY <2>2, Kept
    <3> QED
      BY <2>2, <3>1 DEF RaiseAtThird, QualityInv, Video
  <2>3. CASE RaiseAtThird(target) /\ ~(video.stable < 2)
    <3>1. 0 \in 0..2 /\ 0 \in 0..UpgradeDelay
      BY Delays
    <3>2. video' = [video EXCEPT !.quality = target, !.raised = 0, !.stable = 0]
      BY <2>3 DEF RaiseAtThird
    <3>3. video' \in Video
      BY <1>1, <3>1, <3>2 DEF QualityInv, Video
    <3> QED
      BY <2>3, <3>3, TimesAgain, Delays DEF RaiseAtThird, QualityInv
  <2>4. CASE LeaveQuality(target)
    BY <2>4 DEF LeaveQuality, QualityInv
  <2> QED
    BY <1>1, <2>1, <2>2, <2>3, <2>4
<1>3. /\ video'.raised <= lastRaise'.ago /\ lastRaise'.apart = UpgradeDelay
      /\ video'.lowered <= lastLowering'.ago /\ lastLowering'.apart = DowngradeDelay
      /\ video'.quality > target => video'.lowered < DowngradeDelay
  <2>1. CASE Lower(target)
    BY <1>1, <2>1, Kept, Delays DEF Lower, QualityInv, Video, Quality, Again
  <2>2. CASE RaiseAtThird(target) /\ video.stable < 2
    BY <1>1, <2>2, Kept, Delays DEF RaiseAtThird, QualityInv, Video, Quality
  <2>3. CASE RaiseAtThird(target) /\ ~(video.stable < 2)
    <3>1. /\ video' = [video EXCEPT !.quality = target, !.raised = 0, !.stable = 0]
          /\ lastRaise' = Again(lastRaise) /\ lastLowering' = lastLowering
          /\ video.raised = UpgradeDelay
      BY <2>3 DEF RaiseAtThird
    <3>2. video'.quality = target /\ video'.raised = 0 /\ video'.lowered = video.lowered
      BY <3>1 DEF QualityInv, Video
    <3>3. lastRaise'.ago = 0 /\ lastRaise'.apart = lastRaise.ago
      BY <3>1 DEF Again
    <3> QED
      BY <1>1, <3>1, <3>2, <3>3, Kept, Delays DEF Quality
  <2>4. CASE LeaveQuality(target)
    BY <1>1, <2>4, Kept, Delays DEF LeaveQuality, Quality
  <2> QED
    BY <1>1, <2>1, <2>2, <2>3, <2>4
<1>4. /\ calledFor' \in [quality : Quality, after : 0..DowngradeDelay]
      /\ calledFor'.quality = target /\ calledFor'.after = video'.lowered
  BY <1>1, <1>2 DEF Video
<1> QED
  BY <1>2, <1>3, <1>4 DEF QualityInv, ChangesApart, PoorVideoIsLowered

LEMMA ForceStep ==
    ASSUME QualityInv, NEW quality \in {0, 4}, ForceQuality(quality)
    PROVE  QualityInv'
<1>1. quality \in Quality
  BY DEF Quality
<1>2. /\ video' \in Video /\ video'.quality = quality
      /\ video'.raised = video.raised /\ video'.lowered = video.lowered
  <2>1. video' = [video EXCEPT !.quality = quality, !.stable = 0] /\ 0 \in 0..2
    BY DEF ForceQuality
  <2> QED
    BY <1>1, <2>1 DEF QualityInv, Video
<1>3. /\ calledFor' \in [quality : Quality, after : 0..DowngradeDelay]
      /\ calledFor'.quality = quality
  BY <1>1, Kept DEF ForceQuality
<1>4. ~(video'.quality > calledFor'.quality)
  BY <1>1, <1>2, <1>3 DEF Quality
<1> QED
  BY <1>2, <1>3, <1>4 DEF ForceQuality, QualityInv, ChangesApart, PoorVideoIsLowered

LEMMA TickQualityStep ==
    ASSUME QualityInv, QualityTick
    PROVE  QualityInv'
<1> DEFINE raised == Grown(video.raised, UpgradeDelay)
           lowered == Grown(video.lowered, DowngradeDelay)
           raisedAgo == Grown(lastRaise.ago, UpgradeDelay)
           loweredAgo == Grown(lastLowering.ago, DowngradeDelay)
<1>1. /\ raised \in 0..UpgradeDelay /\ lowered \in 0..DowngradeDelay
      /\ raisedAgo \in 0..UpgradeDelay /\ loweredAgo \in 0..DowngradeDelay
      /\ raised <= raisedAgo /\ lowered <= loweredAgo
  BY Kept, Delays DEF Grown
<1>2. /\ video' = [video EXCEPT !.raised = raised, !.lowered = lowered]
      /\ lastRaise' = [lastRaise EXCEPT !.ago = raisedAgo]
      /\ lastLowering' = [lastLowering EXCEPT !.ago = loweredAgo]
      /\ calledFor' = calledFor
  BY DEF QualityTick
<1> HIDE DEF raised, lowered, raisedAgo, loweredAgo
<1>3. /\ video' \in Video /\ video'.quality = video.quality
      /\ video'.raised = raised /\ video'.lowered = lowered
  BY <1>1, <1>2 DEF QualityInv, Video
<1>4. /\ lastRaise' \in Times(UpgradeDelay) /\ lastRaise'.ago = raisedAgo
      /\ lastRaise'.apart = lastRaise.apart
  BY <1>1, <1>2 DEF QualityInv, Times
<1>5. /\ lastLowering' \in Times(DowngradeDelay) /\ lastLowering'.ago = loweredAgo
      /\ lastLowering'.apart = lastLowering.apart
  BY <1>1, <1>2 DEF QualityInv, Times
<1> QED
  BY <1>1, <1>2, <1>3, <1>4, <1>5 DEF QualityInv, ChangesApart, PoorVideoIsLowered

LEMMA QualityStep ==
    ASSUME QualityInv, [QualityNext]_qualityVars
    PROVE  QualityInv'
<1>1. ASSUME NEW kbps \in Bandwidth, NEW poor \in BOOLEAN, ProcessMetrics(kbps, poor)
      PROVE  QualityInv'
  BY <1>1, ProcessStep
<1>2. ASSUME NEW quality \in {0, 4}, ForceQuality(quality) PROVE QualityInv'
  BY <1>2, ForceStep
<1>3. CASE RegisterParticipant
  <2>1. video' = Registered /\ Registered \in Video /\ 0 \in 0..DowngradeDelay
    BY <1>3, Delays DEF RegisterParticipant, Registered, Video, Quality
  <2>2. calledFor' \in [quality : Quality, after : 0..DowngradeDelay]
    BY <1>3, Delays DEF RegisterParticipant, Quality
  <2> QED
    BY <1>3, <2>1, <2>2, Kept, Delays
       DEF RegisterParticipant, Registered, QualityInv, ChangesApart, PoorVideoIsLowered
<1>4. CASE QualityTick
  BY <1>4, TickQualityStep
<1>5. CASE UNCHANGED qualityVars
  BY <1>5 DEF qualityVars, QualityInv, ChangesApart, PoorVideoIsLowered
<1> QED
  BY <1>1, <1>2, <1>3, <1>4, <1>5 DEF QualityNext

\* Samples are of different ticks, oldest first: one that is too old is the first.
SamplesInv ==
    /\ samples \in Seq(Sample)
    /\ \A i, j \in DOMAIN samples : i < j => samples[i].age > samples[j].age

LEMMA SamplesStart == QualityInit => SamplesInv
  BY DEF QualityInit, SamplesInv

LEMMA RecentSamples ==
    ASSUME SamplesInv
    PROVE  /\ Recent(samples) \in Seq(Sample)
           /\ \A i, j \in DOMAIN Recent(samples) :
                  i < j => Recent(samples)[i].age > Recent(samples)[j].age
           /\ \A i \in DOMAIN Recent(samples) : Recent(samples)[i].age < SampleWindow - 1
<1> DEFINE old == samples # <<>> /\ Head(samples).age = SampleWindow - 1
<1>1. \A i \in 1..Len(samples) : /\ samples[i] \in Sample /\ samples[i].age \in 0..(SampleWindow - 1)
                                 /\ i > 1 => samples[i].age < samples[1].age
  <2>1. \A i \in 1..Len(samples) : samples[i] \in Sample
    BY DEF SamplesInv
  <2>2. \A s \in Sample : s.age \in 0..(SampleWindow - 1)
    BY DEF Sample
  <2> QED
    BY <2>1, <2>2 DEF SamplesInv
<1>2. samples # <<>> => /\ Head(samples) = samples[1] /\ Len(samples) \in Nat \ {0}
                        /\ samples[1].age \in 0..(SampleWindow - 1)
  BY <1>1 DEF SamplesInv
<1>3. CASE old
  <2>1. /\ Recent(samples) = Tail(samples) /\ Tail(samples) \in Seq(Sample)
        /\ DOMAIN Tail(samples) = 1..(Len(samples) - 1)
        /\ \A i \in 1..(Len(samples) - 1) : Tail(samples)[i] = samples[i + 1]
    BY <1>3 DEF Recent, SamplesInv
  <2>2. \A i \in 1..(Len(samples) - 1) : i + 1 \in DOMAIN samples /\ i + 1 > 1
    BY <1>3, <1>2 DEF SamplesInv
  <2>3. \A i \in 1..(Len(samples) - 1) : samples[i + 1].age < SampleWindow - 1
    BY <1>1, <1>2, <1>3, <2>2, QualityAssumption DEF SamplesInv
  <2>4. \A i, j \in 1..(Len(samples) - 1) : i < j => samples[i + 1].age > samples[j + 1].age
    BY <2>2 DEF SamplesInv
  <2> QED
    BY <2>1, <2>3, <2>4
<1>4. CASE ~old
  <2>1. Recent(samples) = samples
    BY <1>4 DEF Recent
  <2>2. \A i \in DOMAIN samples : samples[i].age < SampleWindow - 1
    <3>1. SUFFICES ASSUME NEW i \in DOMAIN samples PROVE samples[i].age < SampleWindow - 1
      OBVIOUS
    <3>2. samples # <<>> /\ i \in 1..Len(samples)
      BY DEF SamplesInv
    <3>3. samples[1].age # SampleWindow - 1
      BY <1>4, <1>2, <3>2
    <3> QED
      BY <1>1, <1>2, <3>2, <3>3, QualityAssumption
  <2> QED
    BY <2>1, <2>2 DEF SamplesInv
<1> QED
  BY <1>3, <1>4

LEMMA SamplesStep ==
    ASSUME SamplesInv, [QualityNext]_qualityVars
    PROVE  SamplesInv'
<1>1. ASSUME NEW kbps \in Bandwidth, NEW poor \in BOOLEAN, ProcessMetrics(kbps, poor)
      PROVE  SamplesInv'
  <2> DEFINE new == [age |-> 0, kbps |-> kbps, poor |-> poor]
  <2>1. samples' = Append(samples, new) /\ \A i \in DOMAIN samples : samples[i].age > 0
    BY <1>1 DEF ProcessMetrics
  <2>2. new \in Sample /\ new.age = 0
    BY QualityAssumption DEF Sample
  <2> HIDE DEF new
  <2>3. /\ samples' \in Seq(Sample) /\ DOMAIN samples' = 1..(Len(samples) + 1)
        /\ DOMAIN samples = 1..Len(samples) /\ Len(samples) \in Nat
        /\ samples'[Len(samples) + 1] = new
        /\ \A i \in 1..Len(samples) : samples'[i] = samples[i]
    BY <2>1, <2>2 DEF SamplesInv
  <2> QED
    BY <2>1, <2>2, <2>3 DEF SamplesInv
<1>2. CASE QualityTick
  <2> DEFINE recent == Recent(samples)
  <2>1. samples' = [i \in DOMAIN recent |-> [recent[i] EXCEPT !.age = @ + 1]]
    BY <1>2 DEF QualityTick
  <2>2. /\ recent \in Seq(Sample)
        /\ \A i, j \in DOMAIN recent : i < j => recent[i].age > recent[j].age
        /\ \A i \in DOMAIN recent : recent[i].age < SampleWindow - 1
    BY RecentSamples
  <2> HIDE DEF recent
  <2>3. \A i \in DOMAIN recent : recent[i] \in Sample
    BY <2>2
  <2>4. \A i \in DOMAIN recent :
           samples'[i] \in Sample /\ samples'[i].age = recent[i].age + 1 /\ recent[i].age \in Nat
    <3>1. SUFFICES ASSUME NEW i \in DOMAIN recent
                   PROVE  /\ samples'[i] \in Sample /\ samples'[i].age = recent[i].age + 1
                          /\ recent[i].age \in Nat
      OBVIOUS
    <3>2. /\ samples'[i] = [recent[i] EXCEPT !.age = @ + 1]
          /\ recent[i] \in Sample /\ recent[i].age < SampleWindow - 1
      BY <2>1, <2>2, <2>3
    <3>3. \A s \in Sample : s.age < SampleWindow - 1 =>
             /\ [s EXCEPT !.age = @ + 1] \in Sample /\ [s EXCEPT !.age = @ + 1].age = s.age + 1
             /\ s.age \in Nat
      BY QualityAssumption DEF Sample
    <3> QED
      BY <3>2, <3>3
  <2>5. samples' \in Seq(Sample) /\ DOMAIN samples' = DOMAIN recent
    <3>1. DOMAIN samples' = DOMAIN recent /\ DOMAIN recent = 1..Len(recent) /\ Len(recent) \in Nat
      BY <2>1, <2>2
    <3>2. samples' = [i \in 1..Len(recent) |-> samples'[i]]
      BY <2>1, <3>1
    <3> QED
      BY <2>4, <3>1, <3>2
  <2> QED
    BY <2>2, <2>4, <2>5 DEF SamplesInv
<1>3. CASE RegisterParticipant
  BY <1>3 DEF RegisterParticipant, SamplesInv
<1>4. CASE (\E quality \in {0, 4} : ForceQuality(quality)) \/ UNCHANGED qualityVars
  BY <1>4 DEF ForceQuality, qualityVars, SamplesInv
<1> QED
  BY <1>1, <1>2, <1>3, <1>4 DEF QualityNext

-----------------------------------------------------------------------------
(* Deployments.  Until a deletion begins, the pipeline adds to the cluster   *)
(* in its order, and there are records and rollbacks only when it is done;   *)
(* what a deletion has passed is gone, unless it could not be deleted.       *)

PipelineIsOrdered ==
    /\ pipeline \in {"deployment", "service", "ingress", "record"} => image = "pushed"
    /\ pipeline \in {"service", "ingress", "record"} => "Deployment" \in cluster
    /\ pipeline \in {"ingress", "record"} => "Service" \in cluster
    /\ record # "none" =>
          pipeline = "done" /\ image = "pushed" /\ {"Deployment", "Service"} \subseteq cluster
    /\ \A r \in RollbackCall : rollback[r] # "idle" => record # "none"
    /\ phase \in {"Running", "RolledBack"} =>
          /\ pipeline \in {"record", "done"} /\ image = "pushed"
          /\ {"Deployment", "Service"} \subseteq cluster

Passed(place) ==
    CASE place = "Service" -> {"Deployment"}
      [] place = "Ingress" -> {"Deployment", "Service"}
      [] place \in {"entry", "done"} -> ClusterObject
      [] OTHER -> {}

DeploymentsInv ==
    /\ DeploymentsTypeOK
    /\ entry \/ Deleting => pipeline # "none"
    /\ ~Deleting => PipelineIsOrdered
    /\ ~late => \A d \in DeleteCall : Passed(deletion[d]) \cap cluster \subseteq undeleted
    /\ ~entry /\ Deleting => /\ \E d \in DeleteCall : deletion[d] = "done"
                             /\ ~late => record = "none"

LEMMA DeploymentsStart == DeploymentsInit => DeploymentsInv
<1> SUFFICES ASSUME DeploymentsInit PROVE DeploymentsInv
  OBVIOUS
<1>1. DeploymentsTypeOK
  <2>1. begun \in 0..MaxRollbacks
    BY MaxRollbacksAssumption DEF DeploymentsInit
  <2> QED
    BY <2>1, Zenon DEF DeploymentsInit, DeploymentsTypeOK, DeploymentPhase
<1>3. PipelineIsOrdered
  BY DEF DeploymentsInit, PipelineIsOrdered
<1>2. \A d \in DeleteCall : deletion[d] = "idle" /\ Passed(deletion[d]) = {}
  BY DEF DeploymentsInit, Passed
<1> QED
  BY <1>1, <1>2, <1>3 DEF DeploymentsInit, DeploymentsInv, Deleting

\* The pipeline, which a deletion does not stop.
LEMMA PipelineKeeps ==
    ASSUME DeploymentsInv, CreateDeployment \/ PipelineStep
    PROVE  DeploymentsInv'
<1> USE DEF DeploymentsInv, DeploymentsTypeOK, PipelineIsOrdered, Deleting, DeploymentPhase,
            ClusterObject, SetPhase
<1>1. CASE CreateDeployment
  BY <1>1 DEF CreateDeployment
<1>2. CASE BuildImage \/ PushImage \/ ImagePushed
  BY <1>2 DEF BuildImage, PushImage, ImagePushed
<1>3. CASE DeployToK8s
  <2>1. CASE MakeObject("Deployment", "deployment", "service") /\ UNCHANGED phase
    BY <2>1 DEF MakeObject, Passed
  <2>2. CASE MakeObject("Service", "service", "ingress") /\ UNCHANGED phase
    BY <2>2 DEF MakeObject, Passed
  <2>3. CASE MakeObject("Ingress", "ingress", "record") /\ phase' = "Running"
    BY <2>3 DEF MakeObject, Passed
  <2> QED
    BY <1>3, <2>1, <2>2, <2>3 DEF DeployToK8s
<1>4. CASE DeployFails
  BY <1>4 DEF DeployFails
<1>5. CASE CreateVersionRecord
  BY <1>5 DEF CreateVersionRecord
<1> QED
  BY <1>1, <1>2, <1>3, <1>4, <1>5 DEF PipelineStep

LEMMA RollbackKeeps ==
    ASSUME DeploymentsInv, NEW r \in RollbackCall,
           Rollback(r) \/ UpdateForRollback(r) \/ CompleteRollback(r) \/ RollbackFails(r)
    PROVE  DeploymentsInv'
<1> USE MaxRollbacksAssumption
    DEF DeploymentsInv, DeploymentsTypeOK, PipelineIsOrdered, Deleting, DeploymentPhase
<1>1. CASE Rollback(r)
  BY <1>1 DEF Rollback
<1>2. CASE UpdateForRollback(r)
  BY <1>2 DEF UpdateForRollback
<1>3. CASE CompleteRollback(r)
  BY <1>3 DEF CompleteRollback
<1>4. CASE RollbackFails(r)
  BY <1>4 DEF RollbackFails
<1> QED
  BY <1>1, <1>2, <1>3, <1>4

LEMMA DeletionKeeps ==
    ASSUME DeploymentsInv, NEW d \in DeleteCall,
           DeleteDeployment(d) \/ DeleteObject(d) \/ DropEntry(d)
    PROVE  DeploymentsInv'
<1> USE DEF DeploymentsInv, DeploymentsTypeOK, Deleting, ClusterObject
<1>1. CASE DeleteDeployment(d)
  BY <1>1 DEF DeleteDeployment, Passed
<1>2. CASE DeleteObject(d)
  BY <1>2 DEF DeleteObject, Passed, AfterObject
<1>3. CASE DropEntry(d)
  BY <1>3 DEF DropEntry, Passed
<1> QED
  BY <1>1, <1>2, <1>3

LEMMA DeploymentsKeep ==
    ASSUME DeploymentsInv, [DeploymentsNext]_deploymentVars
    PROVE  DeploymentsInv'
<1>1. CASE UNCHANGED deploymentVars
  BY <1>1 DEF deploymentVars, DeploymentsInv, DeploymentsTypeOK, PipelineIsOrdered, Deleting
<1> QED
  BY <1>1, PipelineKeeps, RollbackKeeps, DeletionKeeps DEF DeploymentsNext, PipelineStep

LEMMA DeploymentsHold == DeploymentsInv => RunningIsDeployed /\ DeletedIsGone
  BY DEF DeploymentsInv, DeploymentsTypeOK, PipelineIsOrdered, RunningIsDeployed, DeletedIsGone,
         Passed, ClusterObject

-----------------------------------------------------------------------------
(* Verifications.  What a goroutine has found stays found; one that nobody   *)
(* cancelled has the status of its place, and keeps others from starting     *)
(* once it has begun; each request for a certificate is of one that made it. *)

JobAgrees(j) ==
    /\ runner[j] = "none" => jobs[j].status = "none" /\ jobs[j].attempts = 0 /\ ~jobs[j].known
    /\ runner[j] \in {"begin", "check"} => jobs[j].attempts <= MaxAttempts
    /\ runner[j] \in {"provision", "complete"} => jobs[j].found
    /\ runner[j] = "ended" => jobs[j].status \in Ended
    /\ runner[j] = "complete" => certificate.pending + certificate.issued > 0
    /\ jobs[j].status = "verified" =>
          jobs[j].found /\ certificate.pending + certificate.issued > 0
    /\ j \notin cancelled /\ runner[j] \notin {"none", "ended"} =>
          jobs[j].known /\ jobs[j].status = IF runner[j] = "begin" THEN "pending" ELSE "verifying"

Requesters == {j \in Job : runner[j] \in {"complete", "ended"}}

VerificationInv ==
    /\ jobs \in [Job -> [status : JobStatus, attempts : 0..(MaxAttempts + 1), known : BOOLEAN,
                         found : BOOLEAN]]
    /\ runner \in [Job -> {"none", "begin", "check", "provision", "complete", "ended"}]
    /\ certificate \in [pending : 0..1, issued : Nat]
    /\ early \in BOOLEAN /\ cancelled \subseteq Job
    /\ \A j \in Job : JobAgrees(j)
    /\ early \/ \A j, k \in Job \ cancelled :
           runner[j] \notin {"none", "ended"} /\ runner[k] \notin {"none", "ended"} => j = k
    /\ certificate.pending + certificate.issued <= Cardinality(Requesters)

LEMMA RequestersAreCounted ==
    /\ Cardinality(Requesters) \in Nat /\ Cardinality(Requesters) <= Cardinality(Job)
    /\ IsFiniteSet(Requesters) /\ IsFiniteSet(Requesters') /\ Cardinality(Requesters') \in Nat
    /\ Requesters \subseteq Requesters' => Cardinality(Requesters) <= Cardinality(Requesters')
<1>1. Requesters \subseteq Job /\ Requesters' \subseteq Job
  BY DEF Requesters
<1> QED
  BY <1>1, JobAssumption, FS_Subset, FS_CardinalityType

LEMMA VerificationStarts == VerificationInit => VerificationInv
<1> SUFFICES ASSUME VerificationInit PROVE VerificationInv
  OBVIOUS
<1> USE MaxAttemptsAssumption DEF VerificationInit
<1>1. \A j \in Job : jobs[j].status = "none" /\ jobs[j].attempts = 0 /\ runner[j] = "none"
                     /\ ~jobs[j].known
  OBVIOUS
<1>2. certificate.pending + certificate.issued <= Cardinality(Requesters)
  BY RequestersAreCounted
<1>3. jobs \in [Job -> [status : JobStatus, attempts : 0..(MaxAttempts + 1), known : BOOLEAN,
                        found : BOOLEAN]]
  BY DEF JobStatus
<1>4. certificate \in [pending : 0..1, issued : Nat]
  OBVIOUS
<1>5. \A j \in Job : JobAgrees(j)
  BY <1>1, <1>4 DEF JobAgrees
<1> QED
  BY <1>1, <1>2, <1>3, <1>4, <1>5 DEF VerificationInv

LEMMA VerificationRequestsKeep ==
    ASSUME VerificationInv,
           \/ \E j \in Job : StartVerification(j) \/ CancelVerification(j)
           \/ CleanupOldJobs
    PROVE  VerificationInv'
<1> USE MaxAttemptsAssumption DEF VerificationInv, JobAgrees, JobStatus, Ended, KnownJobs
<1>1. Requesters \subseteq Requesters' => VerificationInv'
  <2>1. ASSUME NEW j \in Job, StartVerification(j), Requesters \subseteq Requesters'
        PROVE  VerificationInv'
    BY <2>1, RequestersAreCounted DEF StartVerification
  <2>2. ASSUME NEW j \in Job, CancelVerification(j), Requesters \subseteq Requesters'
        PROVE  VerificationInv'
    <3>1. /\ jobs' = [jobs EXCEPT ![j].status = "failed"] /\ cancelled' = cancelled \cup {j}
          /\ runner' = runner /\ certificate' = certificate /\ early' = early
          /\ jobs[j].status \notin Ended
      BY <2>2 DEF CancelVerification
    <3>2. ASSUME NEW k \in Job PROVE JobAgrees(k)'
      <4>1. CASE k = j
        BY <3>1, <4>1, <2>2 DEF CancelVerification
      <4>2. CASE k # j
        BY <3>1, <4>2
      <4> QED
        BY <4>1, <4>2
    <3>3. /\ jobs' \in [Job -> [status : JobStatus, attempts : 0..(MaxAttempts + 1),
                                known : BOOLEAN, found : BOOLEAN]]
          /\ cancelled' \subseteq Job
      BY <3>1
    <3> QED
      BY <2>2, <3>1, <3>2, <3>3, RequestersAreCounted
  <2>3. ASSUME CleanupOldJobs, Requesters \subseteq Requesters' PROVE VerificationInv'
    <3>1. PICK old \in SUBSET {j \in KnownJobs : jobs[j].status \in Ended} :
             jobs' = [j \in Job |-> IF j \in old THEN [jobs[j] EXCEPT !.known = FALSE] ELSE jobs[j]]
      BY <2>3 DEF CleanupOldJobs
    <3>2. UNCHANGED <<runner, certificate, early, cancelled>>
      BY <2>3 DEF CleanupOldJobs
    <3>3. \A k \in Job :
             \/ jobs'[k] = jobs[k]
             \/ jobs[k].status \in Ended /\ jobs'[k] = [jobs[k] EXCEPT !.known = FALSE]
      BY <3>1
    <3>4. ASSUME NEW k \in Job
          PROVE  /\ jobs'[k] \in [status : JobStatus, attempts : 0..(MaxAttempts + 1),
                                  known : BOOLEAN, found : BOOLEAN]
                 /\ JobAgrees(k)'
      <4>1. CASE jobs'[k] = jobs[k]
        BY <3>2, <4>1
      <4>2. CASE jobs[k].status \in Ended /\ jobs'[k] = [jobs[k] EXCEPT !.known = FALSE]
        <5>1. jobs[k] \in [status : JobStatus, attempts : 0..(MaxAttempts + 1),
                           known : BOOLEAN, found : BOOLEAN]
          OBVIOUS
        <5>2. /\ jobs'[k] \in [status : JobStatus, attempts : 0..(MaxAttempts + 1),
                               known : BOOLEAN, found : BOOLEAN]
              /\ jobs'[k].status = jobs[k].status /\ jobs'[k].found = jobs[k].found
              /\ jobs'[k].attempts = jobs[k].attempts /\ ~jobs'[k].known
          BY <4>2, <5>1
        <5> QED
          BY <3>2, <4>2, <5>2
      <4> QED
        BY <3>3, <4>1, <4>2
    <3>5. jobs' \in [Job -> [status : JobStatus, attempts : 0..(MaxAttempts + 1),
                            known : BOOLEAN, found : BOOLEAN]]
      BY <3>1, <3>4
    <3> QED
      BY <2>3, <3>2, <3>4, <3>5, RequestersAreCounted
  <2> QED
    BY <2>1, <2>2, <2>3
<1>2. Requesters \subseteq Requesters'
  BY DEF Requesters, StartVerification, CancelVerification, CleanupOldJobs
<1> QED
  BY <1>1, <1>2

LEMMA RunVerificationKeeps ==
    ASSUME VerificationInv, NEW j \in Job, RunVerification(j)
    PROVE  VerificationInv'
<1> USE MaxAttemptsAssumption DEF VerificationInv, JobAgrees, JobStatus, Ended, MoveJob
<1>1. Requesters \subseteq Requesters'
  BY DEF Requesters, RunVerification, BeginVerification, VerificationTimeout, CheckDNS,
         RequestCertificate, CompleteVerification
<1>2. Cardinality(Requesters) <= Cardinality(Requesters') /\ Cardinality(Requesters') \in Nat
      /\ Cardinality(Requesters) \in Nat
  BY <1>1, RequestersAreCounted
<1>3. CASE BeginVerification(j)
  BY <1>2, <1>3 DEF BeginVerification
<1>4. CASE VerificationTimeout(j)
  BY <1>2, <1>4 DEF VerificationTimeout
<1>5. CASE CheckDNS(j)
  <2>1. /\ runner[j] = "check"
        /\ runner' \in {[runner EXCEPT ![j] = "ended"], [runner EXCEPT ![j] = "provision"], runner}
        /\ UNCHANGED <<certificate, early, cancelled>>
    BY <1>5, Zenon DEF CheckDNS
  <2>2. /\ jobs' \in [Job -> [status : JobStatus, attempts : 0..(MaxAttempts + 1),
                              known : BOOLEAN, found : BOOLEAN]]
        /\ \A k \in Job \ {j} : jobs'[k] = jobs[k]
        /\ jobs'[j].known = jobs[j].known /\ (jobs[j].found => jobs'[j].found)
        /\ jobs'[j].status = IF runner'[j] = "ended" THEN "failed" ELSE jobs[j].status
        /\ runner'[j] = "provision" => jobs'[j].found
        /\ runner'[j] = "check" => jobs'[j].attempts <= MaxAttempts
    BY <1>5 DEF CheckDNS
  <2>3. \A k \in Job : JobAgrees(k)'
    BY <2>1, <2>2
  <2> QED
    BY <1>2, <2>1, <2>2, <2>3
<1>6. CASE RequestCertificate(j)
  <2>1. Requesters' = Requesters \cup {j} /\ j \notin Requesters
    BY <1>6 DEF RequestCertificate, Requesters
  <2>2. Cardinality(Requesters') = Cardinality(Requesters) + 1
    BY <2>1, RequestersAreCounted, FS_AddElement
  <2>3. certificate'.pending = 1 /\ certificate'.issued = certificate.issued
        /\ certificate' \in [pending : 0..1, issued : Nat]
    BY <1>6 DEF RequestCertificate
  <2> QED
    BY <1>2, <1>6, <2>2, <2>3 DEF RequestCertificate
<1>7. CASE CompleteVerification(j)
  BY <1>2, <1>7 DEF CompleteVerification
<1> QED
  BY <1>3, <1>4, <1>5, <1>6, <1>7 DEF RunVerification

LEMMA IssueKeeps ==
    ASSUME VerificationInv, IssueCertificate
    PROVE  VerificationInv'
<1>1. Requesters' = Requesters
  BY DEF IssueCertificate, Requesters
<1>2. /\ certificate' \in [pending : 0..1, issued : Nat]
      /\ certificate'.pending + certificate'.issued = certificate.pending + certificate.issued
  BY DEF IssueCertificate, VerificationInv
<1> QED
  BY <1>1, <1>2 DEF IssueCertificate, VerificationInv, JobAgrees

LEMMA VerificationKeeps ==
    ASSUME VerificationInv, [VerificationNext]_verificationVars
    PROVE  VerificationInv'
<1>1. CASE UNCHANGED verificationVars
  BY <1>1 DEF verificationVars, VerificationInv, JobAgrees, Requesters
<1> QED
  BY <1>1, VerificationRequestsKeep, RunVerificationKeeps, IssueKeeps
     DEF VerificationNext, RunVerification

LEMMA VerificationHolds == VerificationInv => VerificationTypeOK /\ VerifiedIsProvisioned
<1> SUFFICES ASSUME VerificationInv PROVE VerificationTypeOK /\ VerifiedIsProvisioned
  OBVIOUS
<1>1. certificate \in [pending : 0..1, issued : 0..Cardinality(Job)]
  BY RequestersAreCounted, JobAssumption, FS_CardinalityType DEF VerificationInv
<1> QED
  BY <1>1 DEF VerificationInv, VerificationTypeOK, VerifiedIsProvisioned, JobAgrees

-----------------------------------------------------------------------------
(* Disaster recovery.  A backup is queued once and before it has replicas,   *)
(* so that a completed replica is not made again; a failover that has        *)
(* switched found one; and of failovers that do not meet only one is between *)
(* its steps, with its target active.                                        *)

RecoveryInv ==
    /\ RecoveryTypeOK
    /\ \A i \in 1..Len(queue) : \A r \in Region : replica[<<queue[i], r>>] = "none"
    /\ \A i, j \in 1..Len(queue) : queue[i] = queue[j] => i = j
    /\ \A f \in Failover :
          failovers[f].status \in {"switched", "completed"} => HasReplica(failovers[f].to)
    /\ primary # Primary => HasReplica(primary)
    /\ ~lateFailure =>
          /\ \A f \in Failover : failovers[f].status = "switched" => failovers[f].to \in active
          /\ \A f, g \in Failover :
                failovers[f].status = "switched" /\ failovers[g].status = "switched" => f = g
          /\ primary \in active \/ \E f \in Failover : failovers[f].status = "switched"

LEMMA RecoveryStarts == RecoveryInit => RecoveryInv
<1> SUFFICES ASSUME RecoveryInit PROVE RecoveryInv
  OBVIOUS
<1>1. (CHOOSE r \in Region : TRUE) \in Region
  BY RecoveryAssumption
<1>2. failovers \in [Failover -> [to : Region, status : {"none", "begun", "switched",
                                                         "completed", "failed"}]]
  BY <1>1 DEF RecoveryInit
<1>3. queue \in Seq(Replicated) /\ Len(queue) = 0
  BY DEF RecoveryInit
<1>4. primary \in active /\ active \subseteq Region \cup {Primary}
  BY DEF RecoveryInit
<1> QED
  <2>1. RecoveryTypeOK
    <3>1. Len(queue) <= ReplicationQueue
      BY <1>3, RecoveryAssumption
    <3>2. replica \in [Replicas -> {"none", "pending", "completed", "failed"}]
      BY DEF RecoveryInit
    <3> QED
      BY <1>2, <1>3, <1>4, <3>1, <3>2 DEF RecoveryInit, RecoveryTypeOK
  <2>2. primary = Primary /\ \A f \in Failover : failovers[f].status = "none"
    BY DEF RecoveryInit
  <2> QED
    BY <1>3, <1>4, <2>1, <2>2 DEF RecoveryInv

LEMMA ReplicaOf == \A b \in Replicated, r \in Region : <<b, r>> \in Replicas
  BY DEF Replicas

LEMMA QueueKeeps ==
    ASSUME RecoveryInv, NEW b \in Replicated, QueueReplication(b)
    PROVE  RecoveryInv'
<1>1. /\ queue \in Seq(Replicated) /\ Len(queue) \in Nat /\ Len(queue) < ReplicationQueue
      /\ queue' = Append(queue, b) /\ \A i \in 1..Len(queue) : queue[i] # b
      /\ \A r \in Region : replica[<<b, r>>] = "none"
  BY DEF QueueReplication, RecoveryInv, RecoveryTypeOK
<1>2. /\ queue' \in Seq(Replicated) /\ Len(queue') = Len(queue) + 1
      /\ queue'[Len(queue) + 1] = b
      /\ \A i \in 1..Len(queue) : queue'[i] = queue[i]
  BY <1>1
<1>3. \A i \in 1..Len(queue') : i \in 1..Len(queue) \/ i = Len(queue) + 1
  BY <1>1, <1>2
<1> QED
  <2>1. Len(queue') <= ReplicationQueue
    BY <1>1, <1>2, RecoveryAssumption
  <2>2. /\ \A i \in 1..Len(queue') : \A r \in Region : replica[<<queue'[i], r>>] = "none"
        /\ \A i, j \in 1..Len(queue') : queue'[i] = queue'[j] => i = j
    BY <1>1, <1>2, <1>3 DEF RecoveryInv
  <2> QED
    BY <1>2, <2>1, <2>2 DEF QueueReplication, RecoveryInv, RecoveryTypeOK, HasReplica

LEMMA ReplicateKeeps ==
    ASSUME RecoveryInv, ReplicateBackup
    PROVE  RecoveryInv'
<1>1. queue \in Seq(Replicated) /\ queue # <<>> /\ queue' = Tail(queue)
  BY DEF ReplicateBackup, RecoveryInv, RecoveryTypeOK
<1>2. /\ queue' \in Seq(Replicated) /\ Len(queue') = Len(queue) - 1 /\ Len(queue) \in Nat \ {0}
      /\ \A i \in 1..Len(queue') : i + 1 \in 1..Len(queue) /\ queue'[i] = queue[i + 1]
      /\ Head(queue) = queue[1] /\ queue[1] \in Replicated /\ 1 \in 1..Len(queue)
  BY <1>1
<1>3. /\ replica' \in [Replicas -> {"none", "pending", "completed", "failed"}]
      /\ \A b \in Replicated, r \in Region :
            /\ b # queue[1] => replica'[<<b, r>>] = replica[<<b, r>>]
            /\ replica[<<b, r>>] = "completed" => replica'[<<b, r>>] = "completed"
  <2>1. \A i \in 1..Len(queue) : \A r \in Region : replica[<<queue[i], r>>] = "none"
    BY DEF RecoveryInv
  <2>2. \A r \in Region : replica[<<queue[1], r>>] = "none"
    BY <1>2, <2>1
  <2> QED
    BY <1>2, <2>2, ReplicaOf DEF ReplicateBackup, RecoveryInv, RecoveryTypeOK, Replicas
<1>4. ASSUME NEW i \in 1..Len(queue')
      PROVE  \A r \in Region : replica'[<<queue'[i], r>>] = "none"
  <2>1. i + 1 \in 1..Len(queue) /\ queue'[i] = queue[i + 1] /\ i + 1 # 1 /\ 1 \in 1..Len(queue)
    BY <1>2
  <2>2. queue[i + 1] # queue[1] /\ queue[i + 1] \in Replicated
    BY <1>1, <2>1 DEF RecoveryInv
  <2> QED
    BY <1>3, <2>1, <2>2 DEF RecoveryInv
<1>5. \A i, j \in 1..Len(queue') : queue'[i] = queue'[j] => i = j
  BY <1>2 DEF RecoveryInv
<1>6. \A r \in Region : HasReplica(r) => HasReplica(r)'
  BY <1>3 DEF HasReplica
<1>7. Len(queue') <= ReplicationQueue
  BY <1>2, RecoveryAssumption DEF RecoveryInv, RecoveryTypeOK
<1> QED
  BY <1>2, <1>3, <1>4, <1>5, <1>6, <1>7 DEF ReplicateBackup, RecoveryInv, RecoveryTypeOK

LEMMA CopyKeeps ==
    ASSUME RecoveryInv, NEW b \in Replicated, NEW r \in Region,
           PerformReplication(b, r) \/ FailReplication(b, r)
    PROVE  RecoveryInv'
<1>1. /\ replica[<<b, r>>] = "pending"
      /\ \E status \in {"completed", "failed"} : replica' = [replica EXCEPT ![<<b, r>>] = status]
      /\ UNCHANGED <<queue, primary, active, failovers, lateFailure>>
  BY DEF PerformReplication, FailReplication
<1>2. /\ replica' \in [Replicas -> {"none", "pending", "completed", "failed"}]
      /\ \A c \in Replicated, s \in Region :
            /\ replica[<<c, s>>] # "pending" => replica'[<<c, s>>] = replica[<<c, s>>]
  BY <1>1, ReplicaOf DEF RecoveryInv, RecoveryTypeOK
<1>3. \A s \in Region : HasReplica(s) => HasReplica(s)'
  BY <1>2 DEF HasReplica
<1>4. \A i \in 1..Len(queue) : queue[i] \in Replicated
  BY DEF RecoveryInv, RecoveryTypeOK
<1> QED
  BY <1>1, <1>2, <1>3, <1>4 DEF RecoveryInv, RecoveryTypeOK

LEMMA FailoverKeeps ==
    ASSUME RecoveryInv, NEW f \in Failover,
           \/ \E r \in Region : InitiateFailover(f, r)
           \/ NoReplica(f) \/ SwitchRegions(f) \/ VerifyServices(f)
    PROVE  RecoveryInv'
<1> USE DEF RecoveryInv, RecoveryTypeOK, HasReplica, SetFailover
<1>1. ASSUME NEW r \in Region, InitiateFailover(f, r) PROVE RecoveryInv'
  BY <1>1 DEF InitiateFailover
<1>2. CASE NoReplica(f)
  BY <1>2 DEF NoReplica
<1>3. CASE SwitchRegions(f)
  <2>1. /\ failovers[f].status = "begun" /\ failovers[f].to \in Region
        /\ HasReplica(failovers[f].to)
        /\ active' = (active \ {primary}) \cup {failovers[f].to}
        /\ lateFailure' \in BOOLEAN /\ (lateFailure => lateFailure')
        /\ \A g \in Failover : failovers[g].status = "switched" => lateFailure'
        /\ UNCHANGED <<queue, replica, primary>>
    BY <1>3 DEF SwitchRegions
  <2>2. /\ failovers' \in [Failover -> [to : Region, status : {"none", "begun", "switched",
                                                             "completed", "failed"}]]
        /\ failovers'[f].status = "switched" /\ failovers'[f].to = failovers[f].to
        /\ \A g \in Failover \ {f} : failovers'[g] = failovers[g]
    BY <1>3 DEF SwitchRegions
  <2>3. RecoveryTypeOK'
    BY <2>1, <2>2
  <2>4. ~lateFailure' => \A g \in Failover \ {f} : failovers'[g].status # "switched"
    BY <2>1, <2>2
  <2> HIDE DEF RecoveryTypeOK
  <2> QED
    BY <2>1, <2>2, <2>3, <2>4
<1>4. CASE VerifyServices(f)
  <2>1. /\ failovers[f].status = "switched" /\ failovers[f].to \in Region
        /\ UNCHANGED <<queue, replica, active>>
    BY <1>4 DEF VerifyServices
  <2>2. PICK status \in {"completed", "failed"} :
           /\ failovers' = [failovers EXCEPT ![f].status = status]
           /\ IF status = "completed"
              THEN primary' = failovers[f].to /\ lateFailure' = lateFailure
              ELSE lateFailure' = TRUE /\ primary' = primary
    BY <1>4 DEF VerifyServices
  <2>3. /\ failovers' \in [Failover -> [to : Region, status : {"none", "begun", "switched",
                                                             "completed", "failed"}]]
        /\ failovers'[f].status = status /\ failovers'[f].to = failovers[f].to
        /\ \A g \in Failover \ {f} : failovers'[g] = failovers[g]
    BY <2>2
  <2>4. RecoveryTypeOK'
    BY <2>1, <2>2, <2>3
  <2>5. ~lateFailure' => \A g \in Failover : failovers'[g].status # "switched"
    BY <2>1, <2>2, <2>3
  <2>6. ~lateFailure' => primary' \in active'
    BY <2>1, <2>2
  <2>7. \A g \in Failover : failovers'[g].status \in {"switched", "completed"} =>
                               HasReplica(failovers[g].to)'
    BY <2>1, <2>2, <2>3
  <2>8. primary' # Primary => HasReplica(primary)'
    BY <2>1, <2>2
  <2> HIDE DEF RecoveryTypeOK, HasReplica
  <2> QED
    BY <2>1, <2>4, <2>5, <2>6, <2>7, <2>8
<1> QED
  BY <1>1, <1>2, <1>3, <1>4

LEMMA RecoveryKeeps ==
    ASSUME RecoveryInv, [RecoveryNext]_recoveryVars
    PROVE  RecoveryInv'
<1>1. CASE UNCHANGED recoveryVars
  BY <1>1 DEF recoveryVars, RecoveryInv, RecoveryTypeOK, HasReplica
<1> QED
  BY <1>1, QueueKeeps, ReplicateKeeps, CopyKeeps, FailoverKeeps DEF RecoveryNext

LEMMA RecoveryHolds == RecoveryInv => PrimaryCanServe
  BY DEF RecoveryInv, PrimaryCanServe

-----------------------------------------------------------------------------
(* Deliveries.  Before the user retries it, a delivery has one goroutine,    *)
(* which stops at the first webhook that accepts.  Saves may be lost, so the *)
(* row says less than the goroutines know.                                   *)

OnceSent(w) ==
    /\ sender[<<w, "retry">>] = Off
    /\ w > loop \/ (w = loop /\ inserted) =>
          accepted[w] = {} /\ sender[<<w, "first">>] = Off /\ deliveries[w] # "failed"
    /\ deliveries[w] = "failed" =>
          accepted[w] = {} /\ sender[<<w, "first">>] = Off
    /\ sender[<<w, "first">>].at \in {"begin", "send", "fail"} => accepted[w] = {}

WebhooksInv ==
    /\ WebhooksTypeOK
    /\ \A r \in Run : sender[r].at = "begin" => sender[r].attempts <= MaxRetries
    /\ \A r \in Run : sender[r].at = "succeed" => accepted[r[1]] # {}
    /\ \A r \in Run : sender[r].at # "off" => loop # 0 /\ deliveries[r[1]] # "none"
    /\ \A w \in Hook : w > loop => deliveries[w] = "none"
    /\ \A w \in Hook : deliveries[w] = "none" => w \notin retried
    /\ \A w \in Hook : deliveries[w] = "success" => accepted[w] # {}
    /\ \A w \in Hook \ retried : OnceSent(w)
    /\ inserted => loop \in Hook /\ deliveries[loop] # "none"

LEMMA Senders == Off \in Sender /\ Beginning \in Sender
  BY HooksAssumption DEF Off, Beginning, Sender

LEMMA WebhooksStart == WebhooksInit => WebhooksInv
<1> SUFFICES ASSUME WebhooksInit PROVE WebhooksInv
  OBVIOUS
<1>1. WebhooksTypeOK
  <2>1. loop \in 0..Hooks
    BY HooksAssumption DEF WebhooksInit
  <2>2. sender \in [Run -> Sender]
    BY Senders DEF WebhooksInit
  <2>3. deliveries \in [Hook -> Status] /\ accepted \in [Hook -> SUBSET Hook]
    BY DEF WebhooksInit, Status
  <2> QED
    BY <2>1, <2>2, <2>3 DEF WebhooksInit, WebhooksTypeOK
<1>2. \A r \in Run : sender[r] = Off
  BY DEF WebhooksInit
<1>3. \A w \in Hook : <<w, "first">> \in Run /\ <<w, "retry">> \in Run
  BY DEF Run
<1> QED
  BY <1>1, <1>2, <1>3, HooksAssumption
     DEF WebhooksInit, WebhooksInv, OnceSent, Off, Hook

\* The goroutines of a delivery; others are not at work on it.
LEMMA RunsOf ==
    /\ \A w \in Hook : <<w, "first">> \in Run /\ <<w, "retry">> \in Run
    /\ \A r \in Run : /\ r[1] \in Hook /\ r = <<r[1], r[2]>>
                      /\ r[2] = "first" \/ r[2] = "retry"
  BY DEF Run

LEMMA SaveKeeps ==
    ASSUME deliveries \in [Hook -> Status], NEW w \in Hook, NEW status \in Status,
           \E written \in BOOLEAN : Save(w, status, written)
    PROVE  /\ deliveries' \in [Hook -> Status]
           /\ deliveries'[w] = status \/ deliveries'[w] = deliveries[w]
           /\ \A v \in Hook \ {w} : deliveries'[v] = deliveries[v]
<1>1. CASE deliveries' = [deliveries EXCEPT ![w] = status]
  BY <1>1
<1>2. CASE deliveries' = deliveries
  BY <1>2
<1> QED
  BY <1>1, <1>2 DEF Save

LEMMA TriggerKeeps ==
    ASSUME WebhooksInv, NEW new \in BOOLEAN, TriggerEvent(new)
    PROVE  WebhooksInv'
<1> USE HooksAssumption, RunsOf DEF WebhooksInv, WebhooksTypeOK, Hook
<1>1. /\ loop + 1 \in Hook /\ loop \in Nat /\ loop' = loop + 1 /\ inserted' = new
      /\ deliveries' = IF new THEN [deliveries EXCEPT ![loop + 1] = "pending"] ELSE deliveries
      /\ UNCHANGED <<sender, accepted, retried, unsaved, crashed>>
      /\ ~inserted
  BY DEF TriggerEvent
<1>2. /\ deliveries' \in [Hook -> Status]
      /\ \A w \in Hook : \/ deliveries'[w] = deliveries[w]
                         \/ w = loop + 1 /\ deliveries'[w] = "pending"
      /\ new => deliveries'[loop + 1] = "pending"
  BY <1>1 DEF Status
<1>3. loop + 1 \notin retried
  BY <1>1
<1>4. ASSUME NEW w \in Hook \ retried PROVE OnceSent(w)'
  <2>1. OnceSent(w) /\ (w = loop + 1 => w > loop) /\ (w > loop' => w > loop)
    BY <1>1
  <2>2. deliveries'[w] = "failed" => deliveries'[w] = deliveries[w]
    BY <1>2
  <2> HIDE DEF WebhooksInv, WebhooksTypeOK
  <2>3. CASE w = loop + 1
    BY <1>1, <2>1, <2>2, <2>3 DEF OnceSent
  <2>4. CASE w # loop + 1
    BY <1>1, <1>2, <2>1, <2>4 DEF OnceSent
  <2> QED
    BY <2>3, <2>4
<1>5. \A w \in Hook : /\ w > loop' => deliveries'[w] = "none"
                      /\ deliveries'[w] = "none" => w \notin retried
                      /\ deliveries'[w] = "success" => accepted[w] # {}
  BY <1>1, <1>2
<1> QED
  BY <1>1, <1>2, <1>4, <1>5

LEMMA StartKeeps ==
    ASSUME WebhooksInv, StartDelivery
    PROVE  WebhooksInv'
<1> USE HooksAssumption, RunsOf DEF WebhooksInv, WebhooksTypeOK, Hook
<1>1. /\ inserted /\ inserted' = FALSE /\ loop \in Hook
      /\ sender' = [sender EXCEPT ![<<loop, "first">>] = Beginning]
      /\ UNCHANGED <<loop, deliveries, accepted, retried, unsaved, crashed>>
  BY DEF StartDelivery
<1>2. /\ sender' \in [Run -> Sender]
      /\ \A r \in Run : r # <<loop, "first">> => sender'[r] = sender[r]
      /\ sender'[<<loop, "first">>].at = "begin"
      /\ sender'[<<loop, "first">>].attempts = 0
  BY <1>1, Senders DEF Beginning
<1>3. ASSUME NEW w \in Hook \ retried PROVE OnceSent(w)'
  <2>1. CASE w = loop
    <3>1. accepted[w] = {} /\ deliveries[w] # "failed" /\ sender[<<w, "retry">>] = Off
      BY <1>1, <2>1 DEF OnceSent
    <3> QED
      BY <1>1, <1>2, <2>1, <3>1 DEF OnceSent
  <2>2. CASE w # loop
    BY <1>1, <1>2, <2>2 DEF OnceSent
  <2> QED
    BY <2>1, <2>2
<1>4. ASSUME NEW r \in Run
      PROVE  /\ sender'[r].at = "begin" => sender'[r].attempts <= MaxRetries
             /\ sender'[r].at = "succeed" => accepted[r[1]] # {}
             /\ sender'[r].at # "off" => loop # 0 /\ deliveries[r[1]] # "none"
  BY <1>1, <1>2
<1> QED
  BY <1>1, <1>2, <1>3, <1>4

LEMMA SendKeeps ==
    ASSUME WebhooksInv, NEW r \in Run,
           BeginAttempt(r) \/ SendAccepted(r) \/ SendRefused(r)
    PROVE  WebhooksInv'
<1> USE HooksAssumption, RunsOf DEF WebhooksInv, WebhooksTypeOK, Hook
<1>1. CASE BeginAttempt(r)
  <2>1. /\ sender[r].at = "begin" /\ sender[r].attempts <= MaxRetries /\ sender[r] \in Sender
        /\ \E written \in BOOLEAN : Save(r[1], "retrying", written)
        /\ sender' = [sender EXCEPT ![r] = [at |-> "send", attempts |-> sender[r].attempts + 1]]
        /\ UNCHANGED <<loop, inserted, accepted, retried, unsaved, crashed>>
    BY <1>1 DEF BeginAttempt
  <2>2. "retrying" \in Status /\ [at |-> "send", attempts |-> sender[r].attempts + 1] \in Sender
    BY <2>1 DEF Sender, Status
  <2>3. /\ deliveries' \in [Hook -> Status]
        /\ deliveries'[r[1]] = "retrying" \/ deliveries'[r[1]] = deliveries[r[1]]
        /\ \A w \in Hook \ {r[1]} : deliveries'[w] = deliveries[w]
        /\ sender' \in [Run -> Sender] /\ sender'[r].at = "send"
        /\ \A s \in Run \ {r} : sender'[s] = sender[s]
    BY <2>1, <2>2, SaveKeeps
  <2>4. ASSUME NEW w \in Hook \ retried PROVE OnceSent(w)'
    BY <2>1, <2>3 DEF OnceSent, Off
  <2>5. \A w \in Hook :
           /\ deliveries'[w] = "success" => deliveries[w] = "success"
           /\ deliveries'[w] = "none" => deliveries[w] = "none"
           /\ deliveries[w] = "none" => deliveries'[w] = "none"
    BY <2>1, <2>3
  <2> QED
    BY <2>1, <2>3, <2>4, <2>5
<1>2. CASE SendAccepted(r)
  <2>1. /\ sender[r].at = "send" /\ loop \in Hook
        /\ accepted' = [accepted EXCEPT ![r[1]] = accepted[r[1]] \cup {Target(r)}]
        /\ sender' = [sender EXCEPT ![r].at = "succeed"]
        /\ UNCHANGED <<loop, inserted, deliveries, retried, unsaved, crashed>>
    BY <1>2 DEF SendAccepted
  <2>2. /\ accepted' \in [Hook -> SUBSET Hook] /\ accepted'[r[1]] # {}
        /\ \A w \in Hook \ {r[1]} : accepted'[w] = accepted[w]
    BY <2>1 DEF Target
  <2>3. /\ sender' \in [Run -> Sender] /\ sender'[r].at = "succeed"
        /\ \A s \in Run \ {r} : sender'[s] = sender[s]
    BY <2>1 DEF Sender
  <2>4. ASSUME NEW w \in Hook \ retried PROVE OnceSent(w)'
    BY <2>1, <2>2, <2>3 DEF OnceSent, Off
  <2> QED
    BY <2>1, <2>2, <2>3, <2>4
<1>3. CASE SendRefused(r)
  <2>1. /\ sender[r].at = "send"
        /\ UNCHANGED <<loop, inserted, deliveries, accepted, retried, unsaved, crashed>>
    BY <1>3 DEF SendRefused
  <2>2. /\ sender' \in [Run -> Sender]
        /\ sender'[r].at \in {"begin", "fail"} /\ sender'[r].attempts = sender[r].attempts
        /\ sender'[r].at = "begin" => sender[r].attempts <= MaxRetries
        /\ \A s \in Run \ {r} : sender'[s] = sender[s]
    BY <1>3 DEF SendRefused, Sender
  <2>3. ASSUME NEW w \in Hook \ retried PROVE OnceSent(w)'
    BY <2>1, <2>2 DEF OnceSent, Off
  <2> QED
    BY <2>1, <2>2, <2>3
<1> QED
  BY <1>1, <1>2, <1>3

LEMMA RecordKeeps ==
    ASSUME WebhooksInv, NEW r \in Run, RecordOutcome(r)
    PROVE  WebhooksInv'
<1> USE HooksAssumption, RunsOf DEF WebhooksInv, WebhooksTypeOK, Hook
<1>1. PICK status \in {"success", "failed"} :
        /\ sender[r].at = IF status = "success" THEN "succeed" ELSE "fail"
        /\ \E written \in BOOLEAN : Save(r[1], status, written)
        /\ unsaved' \subseteq Hook
        /\ sender' = [sender EXCEPT ![r] = Off]
        /\ UNCHANGED <<loop, inserted, accepted, retried, crashed>>
  BY DEF RecordOutcome, RecordAs
<1>3. /\ deliveries' \in [Hook -> Status]
      /\ deliveries'[r[1]] = status \/ deliveries'[r[1]] = deliveries[r[1]]
      /\ \A w \in Hook \ {r[1]} : deliveries'[w] = deliveries[w]
      /\ sender' \in [Run -> Sender] /\ sender'[r] = Off
      /\ \A s \in Run \ {r} : sender'[s] = sender[s]
  <2>1. status \in Status
    BY DEF Status
  <2>3. /\ deliveries' \in [Hook -> Status]
        /\ deliveries'[r[1]] = status \/ deliveries'[r[1]] = deliveries[r[1]]
        /\ \A w \in Hook \ {r[1]} : deliveries'[w] = deliveries[w]
    BY <1>1, <2>1, SaveKeeps
  <2>4. /\ sender' \in [Run -> Sender] /\ sender'[r] = Off
        /\ \A s \in Run \ {r} : sender'[s] = sender[s]
    BY <1>1, Senders
  <2> QED
    BY <2>3, <2>4
<1>4. ASSUME NEW w \in Hook \ retried PROVE OnceSent(w)'
  BY <1>1, <1>3 DEF OnceSent, Off
<1>5. \A w \in Hook : /\ deliveries'[w] = "success" => accepted[w] # {}
                      /\ deliveries'[w] = "none" <=> deliveries[w] = "none"
  <2>1. deliveries[r[1]] # "none" /\ (status = "success" => accepted[r[1]] # {})
    BY <1>1
  <2> QED
    BY <1>3, <2>1
<1>6. WebhooksTypeOK'
  BY <1>1, <1>3
<1>7. ASSUME NEW s \in Run
      PROVE  /\ sender'[s].at = "begin" => sender'[s].attempts <= MaxRetries
             /\ sender'[s].at = "succeed" => accepted[s[1]] # {}
             /\ sender'[s].at # "off" => loop # 0 /\ deliveries'[s[1]] # "none"
  <2>1. CASE s = r
    BY <1>3, <2>1 DEF Off
  <2>2. CASE s # r
    <3>1. sender'[s] = sender[s] /\ s[1] \in Hook
      BY <1>3, <2>2
    <3> QED
      BY <1>5, <3>1
  <2> QED
    BY <2>1, <2>2
<1>8. inserted' => loop' \in Hook /\ deliveries'[loop'] # "none"
  BY <1>1, <1>5
<1> QED
  BY <1>1, <1>4, <1>5, <1>6, <1>7, <1>8

LEMMA RetryKeeps ==
    ASSUME WebhooksInv, NEW w \in Hook, RetryDelivery(w)
    PROVE  WebhooksInv'
<1> USE HooksAssumption, RunsOf DEF WebhooksInv, WebhooksTypeOK, Hook
<1>1. /\ deliveries[w] # "none" /\ retried' = retried \cup {w}
      /\ \E written \in BOOLEAN : Save(w, "pending", written)
      /\ sender' = [sender EXCEPT ![<<w, "retry">>] = Beginning]
      /\ UNCHANGED <<loop, inserted, accepted, unsaved, crashed>>
  BY DEF RetryDelivery
<1>2. /\ deliveries' \in [Hook -> Status]
      /\ deliveries'[w] = "pending" \/ deliveries'[w] = deliveries[w]
      /\ \A v \in Hook \ {w} : deliveries'[v] = deliveries[v]
      /\ sender' \in [Run -> Sender]
      /\ sender'[<<w, "retry">>].at = "begin" /\ sender'[<<w, "retry">>].attempts = 0
      /\ \A s \in Run \ {<<w, "retry">>} : sender'[s] = sender[s]
  <2>1. /\ deliveries' \in [Hook -> Status]
        /\ deliveries'[w] = "pending" \/ deliveries'[w] = deliveries[w]
        /\ \A v \in Hook \ {w} : deliveries'[v] = deliveries[v]
    <3>1. "pending" \in Status
      BY DEF Status
    <3> QED
      BY <1>1, <3>1, SaveKeeps
  <2>2. /\ sender' \in [Run -> Sender]
        /\ sender'[<<w, "retry">>].at = "begin" /\ sender'[<<w, "retry">>].attempts = 0
        /\ \A s \in Run \ {<<w, "retry">>} : sender'[s] = sender[s]
    BY <1>1, Senders DEF Beginning
  <2> QED
    BY <2>1, <2>2
<1>3. ASSUME NEW v \in Hook \ retried' PROVE OnceSent(v)'
  BY <1>1, <1>2 DEF OnceSent
<1>4. ASSUME NEW v \in Hook
      PROVE  /\ deliveries'[v] = "success" => accepted[v] # {}
             /\ deliveries'[v] = "none" <=> deliveries[v] = "none"
  <2>1. deliveries[w] # "none"
    BY <1>1
  <2>2. CASE v = w
    BY <1>2, <2>1, <2>2
  <2>3. CASE v # w
    BY <1>2, <2>3
  <2> QED
    BY <2>2, <2>3
<1>5. WebhooksTypeOK'
  BY <1>1, <1>2
<1> QED
  BY <1>1, <1>2, <1>3, <1>4, <1>5

LEMMA WebhooksKeep ==
    ASSUME WebhooksInv, [WebhooksNext]_webhookVars
    PROVE  WebhooksInv'
<1>1. CASE UNCHANGED webhookVars
  BY <1>1 DEF webhookVars, WebhooksInv, WebhooksTypeOK, OnceSent
<1>2. CASE Crash
  <2>1. /\ sender' \in [Run -> Sender]
        /\ \A r \in Run : sender'[r] = Off /\ sender'[r].at = "off"
        /\ inserted' = FALSE /\ crashed' = TRUE
        /\ UNCHANGED <<loop, deliveries, accepted, retried, unsaved>>
    BY <1>2, Senders DEF Crash, Off
  <2> QED
    BY <2>1, RunsOf DEF WebhooksInv, WebhooksTypeOK, OnceSent
<1> QED
  BY <1>1, <1>2, TriggerKeeps, StartKeeps, SendKeeps, RecordKeeps, RetryKeeps DEF WebhooksNext

LEMMA WebhooksHold == WebhooksInv => OutcomeIsTrue
  BY DEF WebhooksInv, OnceSent, OutcomeIsTrue

-----------------------------------------------------------------------------
(* Alerts.  The alert that is open for a key is one of that key; what a      *)
(* pass has looked at agrees with the sample already while the pass goes on; *)
(* there are numbers left for the alerts it may open; and a notification is  *)
(* waiting to be sent, or dropped, only while it is pending.                 *)

Alike(r, s) == rules[s] # NoRule /\ rules[s].key = rules[r].key

Follows(r) ==
    \/ rules[r] = NoRule \/ ~rules[r].enabled \/ rules[r].key \in unchecked
    \/ \E s \in Rule \ {r} : Alike(r, s)
    \/ LET k == rules[r].key
       IN IF latest[k] >= rules[r].threshold
          THEN activeKey[k] # 0 /\ alerts[activeKey[k]].value = latest[k]
          ELSE activeKey[k] = 0

AlertsInv ==
    /\ AlertsTypeOK
    /\ \A a \in 1..Len(alerts) : alerts[a].status # "resolved" => activeKey[alerts[a].key] = a
    /\ \A k \in Key : activeKey[k] # 0 =>
          /\ activeKey[k] \in 1..Len(alerts)
          /\ alerts[activeKey[k]].status # "resolved" /\ alerts[activeKey[k]].key = k
    /\ \A r \in pass : rules[r] # NoRule
    /\ Len(alerts) + Cardinality(pass) <= MaxAlerts
    /\ \A r \in Rule \ pass : Follows(r)
    /\ \A n \in Notification : n[1] > Len(alerts) => notice[n] = "none"
    /\ \A n \in toSend \cup dropped : notice[n] = "pending"
    /\ toSend \cap dropped = {}

LEMMA Limits == TopLevel \in Nat \ {0} /\ MaxAlerts \in Nat \ {0} /\ AlertQueue \in Nat \ {0}
  BY AlertBounds

LEMMA PassIsCounted ==
    ASSUME pass \subseteq Rule
    PROVE  IsFiniteSet(pass) /\ Cardinality(pass) \in Nat /\ Cardinality(pass) <= Cardinality(Rule)
           /\ Cardinality(Rule) \in Nat
  BY DefaultRuleAssumption, FS_Subset, FS_CardinalityType

LEMMA AlertsStart == AlertsInit => AlertsInv
<1> SUFFICES ASSUME AlertsInit PROVE AlertsInv
  OBVIOUS
<1>1. /\ latest \in [Key -> 0..TopLevel] /\ activeKey \in [Key -> 0..MaxAlerts]
      /\ alerts \in Seq(Alert) /\ Len(alerts) = 0 /\ channel \in Seq(Notification) /\ Len(channel) = 0
      /\ notice \in [Notification -> {"none", "pending", "sent", "failed"}]
  BY Limits DEF AlertsInit
<1>2. rules \in [Rule -> RuleRow \cup {NoRule}]
  BY Limits DEF AlertsInit, RuleRow
<1>3. AlertsTypeOK
  BY <1>1, <1>2, Limits DEF AlertsInit, AlertsTypeOK
<1>4. Cardinality(pass) = 0
  BY FS_EmptySet DEF AlertsInit
<1>5. \A r \in Rule : Follows(r)
  BY <1>2 DEF AlertsInit, Follows, RuleRow
<1> QED
  BY <1>1, <1>3, <1>4, <1>5, Limits DEF AlertsInit, AlertsInv

LEMMA CollectKeeps ==
    ASSUME AlertsInv, NEW sample \in Samples, CollectMetrics(sample)
    PROVE  AlertsInv'
<1>1. ASSUME NEW r \in Rule PROVE Follows(r)'
  BY DEF CollectMetrics, AlertsInv, AlertsTypeOK, RuleRow, Follows
<1>2. /\ latest' \in [Key -> 0..TopLevel] /\ unchecked' \subseteq Key
      /\ UNCHANGED <<rules, alerts, activeKey, pass, toSend, channel, notice, dropped>>
  BY DEF CollectMetrics, Samples
<1> QED
  BY <1>1, <1>2 DEF AlertsInv, AlertsTypeOK

\* A rule that is set leaves its key to be looked at, and the others as they were.
LEMMA SetRuleKeeps ==
    ASSUME AlertsInv, NEW r \in Rule, NEW row \in RuleRow \cup {NoRule}, NEW k \in Key,
           row # NoRule => row.key = k, rules[r] # NoRule => rules[r].key = k,
           SetRule(r, row, k)
    PROVE  AlertsInv'
<1>1. /\ rules' = [rules EXCEPT ![r] = row] /\ unchecked' = unchecked \cup {k} /\ pass = {}
      /\ UNCHANGED <<latest, alerts, activeKey, pass, toSend, channel, notice, dropped>>
  BY DEF SetRule, Unlocked
<1>2. AlertsTypeOK'
  BY <1>1 DEF AlertsInv, AlertsTypeOK
<1>3. \A s \in Rule \ {r} : rules'[s] = rules[s]
  BY <1>1 DEF AlertsInv, AlertsTypeOK
<1>4. rules'[r] = row
  BY <1>1 DEF AlertsInv, AlertsTypeOK
<1>5. ASSUME NEW s \in Rule PROVE Follows(s)'
  <2>1. CASE s = r
    BY <1>1, <1>4, <2>1 DEF Follows
  <2>2. CASE s # r /\ (rules[s] = NoRule \/ ~rules[s].enabled \/ rules[s].key \in unchecked)
    BY <1>1, <1>3, <2>2 DEF Follows
  <2>3. CASE s # r /\ rules[s].key = k
    BY <1>1, <1>3, <2>3 DEF Follows
  <2>4. CASE s # r /\ rules[s].key # k /\ \E t \in Rule \ {s} : Alike(s, t)
    <3>1. PICK t \in Rule \ {s} : Alike(s, t)
      BY <2>4
    <3>2. t # r
      BY <2>4, <3>1 DEF Alike
    <3>3. Alike(s, t)'
      BY <1>3, <2>4, <3>1, <3>2 DEF Alike
    <3> QED
      BY <3>1, <3>3 DEF Follows
  <2>5. Follows(s)
    BY <1>1 DEF AlertsInv
  <2> QED
    BY <1>1, <1>3, <2>1, <2>2, <2>3, <2>4, <2>5 DEF Follows
<1> QED
  BY <1>1, <1>2, <1>5 DEF AlertsInv

LEMMA RulesKeep ==
    ASSUME AlertsInv, NEW r \in Rule,
           \/ \E k \in Key, threshold \in 1..TopLevel : CreateAlertRule(r, k, threshold)
           \/ \E threshold \in 1..TopLevel, enabled \in BOOLEAN :
                 UpdateAlertRule(r, threshold, enabled)
           \/ DeleteAlertRule(r)
    PROVE  AlertsInv'
<1>1. rules[r] \in RuleRow \cup {NoRule}
  BY DEF AlertsInv, AlertsTypeOK
<1>2. ASSUME NEW k \in Key, NEW threshold \in 1..TopLevel, CreateAlertRule(r, k, threshold)
      PROVE  AlertsInv'
  <2> DEFINE row == [key |-> k, threshold |-> threshold, enabled |-> TRUE]
  <2>1. row \in RuleRow /\ row.key = k
    BY DEF RuleRow
  <2>2. rules[r] = NoRule /\ SetRule(r, row, k)
    BY <1>2 DEF CreateAlertRule
  <2> HIDE DEF row
  <2> QED
    BY <2>1, <2>2, SetRuleKeeps
<1>3. ASSUME NEW threshold \in 1..TopLevel, NEW enabled \in BOOLEAN,
             UpdateAlertRule(r, threshold, enabled)
      PROVE  AlertsInv'
  <2> DEFINE row == [rules[r] EXCEPT !.threshold = threshold, !.enabled = enabled]
  <2>1. rules[r] \in RuleRow /\ SetRule(r, row, rules[r].key)
    BY <1>1, <1>3 DEF UpdateAlertRule
  <2>2. row \in RuleRow /\ row.key = rules[r].key /\ rules[r].key \in Key
    BY <2>1 DEF RuleRow
  <2> HIDE DEF row
  <2> QED
    BY <2>1, <2>2, SetRuleKeeps
<1>4. CASE DeleteAlertRule(r)
  <2>1. rules[r] \in RuleRow /\ SetRule(r, NoRule, rules[r].key)
    BY <1>1, <1>4 DEF DeleteAlertRule
  <2>2. rules[r].key \in Key
    BY <2>1 DEF RuleRow
  <2> QED
    BY <2>1, <2>2, SetRuleKeeps
<1> QED
  BY <1>2, <1>3, <1>4

LEMMA AcknowledgeKeeps ==
    ASSUME AlertsInv, NEW a \in 1..MaxAlerts, AcknowledgeAlert(a)
    PROVE  AlertsInv'
<1>1. /\ a \in 1..Len(alerts) /\ alerts[a].status = "active"
      /\ alerts' = [alerts EXCEPT ![a].status = "acknowledged"]
      /\ UNCHANGED <<latest, rules, activeKey, pass, toSend, channel, notice, dropped, unchecked>>
  BY DEF AcknowledgeAlert
<1>2. alerts \in Seq(Alert) /\ Len(alerts) \in Nat
  BY DEF AlertsInv, AlertsTypeOK
<1>3. \A i \in 1..Len(alerts) : alerts[i] \in Alert
  BY <1>2
<1>4. [alerts[a] EXCEPT !.status = "acknowledged"] \in Alert
  BY <1>1, <1>3 DEF Alert
<1>5. alerts' \in Seq(Alert) /\ Len(alerts') = Len(alerts)
  BY <1>1, <1>2, <1>4, ExceptSeq
<1>6. /\ \A i \in 1..Len(alerts) : alerts'[i].key = alerts[i].key /\ alerts'[i].value = alerts[i].value
      /\ \A i \in 1..Len(alerts) \ {a} : alerts'[i].status = alerts[i].status
      /\ alerts'[a].status = "acknowledged"
  BY <1>1, <1>2, <1>3 DEF Alert
<1>7. ASSUME NEW r \in Rule \ pass PROVE Follows(r)'
  <2>1. Follows(r)
    BY DEF AlertsInv
  <2>2. rules[r] # NoRule => rules[r].key \in Key
    BY DEF AlertsInv, AlertsTypeOK, RuleRow
  <2>3. \A k \in Key : activeKey[k] # 0 => activeKey[k] \in 1..Len(alerts)
    BY DEF AlertsInv
  <2> QED
    BY <1>1, <1>6, <2>1, <2>2, <2>3 DEF Follows, Alike
<1>8. AlertsTypeOK'
  BY <1>1, <1>5 DEF AlertsInv, AlertsTypeOK
<1> QED
  BY <1>1, <1>5, <1>6, <1>7, <1>8 DEF AlertsInv

LEMMA PassBegins ==
    ASSUME AlertsInv, CheckAlerts
    PROVE  AlertsInv'
<1>1. /\ pass' = {r \in Rule : rules[r] # NoRule /\ rules[r].enabled} /\ unchecked' = {}
      /\ Len(alerts) + Cardinality(Rule) <= MaxAlerts
      /\ UNCHANGED <<latest, rules, alerts, activeKey, toSend, channel, notice, dropped>>
  BY DEF CheckAlerts
<1>2. pass' \subseteq Rule
  BY <1>1
<1>3. Cardinality(pass') \in Nat /\ Cardinality(pass') <= Cardinality(Rule) /\ Cardinality(Rule) \in Nat
  BY <1>2, DefaultRuleAssumption, FS_Subset, FS_CardinalityType
<1>4. Len(alerts) \in Nat
  BY DEF AlertsInv, AlertsTypeOK
<1>5. \A r \in Rule \ pass' : Follows(r)'
  BY <1>1 DEF Follows
<1>6. Len(alerts) + Cardinality(pass') <= MaxAlerts
  BY <1>1, <1>3, <1>4, Limits
<1> QED
  BY <1>1, <1>2, <1>5, <1>6 DEF AlertsInv, AlertsTypeOK

\* What a rule does to its own key leaves the other keys to the other rules.
LEMMA OthersFollow ==
    ASSUME AlertsInv, NEW r \in pass, pass' = pass \ {r}, Follows(r)',
           UNCHANGED <<latest, rules, unchecked>>,
           \A k \in Key \ {rules[r].key} :
              /\ activeKey'[k] = activeKey[k]
              /\ activeKey[k] # 0 => alerts'[activeKey[k]].value = alerts[activeKey[k]].value
    PROVE  \A s \in Rule \ pass' : Follows(s)'
<1> SUFFICES ASSUME NEW s \in Rule \ pass', s # r PROVE Follows(s)'
  OBVIOUS
<1>1. Follows(s) /\ rules[r] # NoRule
  BY DEF AlertsInv
<1>2. CASE rules[s].key = rules[r].key
  <2>1. r \in Rule \ {s} /\ Alike(s, r)'
    BY <1>1, <1>2 DEF AlertsInv, AlertsTypeOK, Alike
  <2> QED
    BY <2>1 DEF Follows
<1>3. CASE rules[s].key # rules[r].key
  <2>1. rules[s] # NoRule => rules[s].key \in Key
    BY DEF AlertsInv, AlertsTypeOK, RuleRow
  <2> QED
    BY <1>1, <1>3, <2>1 DEF Follows, Alike
<1> QED
  BY <1>2, <1>3

LEMMA CheckRuleKeeps ==
    ASSUME AlertsInv, NEW r \in Rule, CheckRule(r)
    PROVE  AlertsInv'
<1> DEFINE k == rules[r].key
<1>1. /\ r \in pass /\ toSend = {} /\ pass' = pass \ {r} /\ pass' \subseteq Rule
      /\ UNCHANGED <<latest, rules, channel, dropped, unchecked>>
  BY DEF CheckRule, AlertsInv, AlertsTypeOK
<1>2. /\ rules[r] \in RuleRow /\ k \in Key /\ latest[k] \in 0..TopLevel
      /\ rules[r].threshold \in 1..TopLevel /\ activeKey[k] \in 0..MaxAlerts
  BY <1>1 DEF AlertsInv, AlertsTypeOK, RuleRow
<1>3. /\ Cardinality(pass') = Cardinality(pass) - 1 /\ Cardinality(pass) \in Nat
      /\ Cardinality(pass) # 0 /\ Cardinality(pass') \in Nat
  <2>1. pass \subseteq Rule
    BY DEF AlertsInv, AlertsTypeOK
  <2>2. IsFiniteSet(pass) /\ Cardinality(pass) \in Nat /\ Cardinality(pass') = Cardinality(pass) - 1
    BY <1>1, <2>1, PassIsCounted, FS_RemoveElement
  <2>3. IsFiniteSet(pass') /\ Cardinality(pass') \in Nat
    BY <1>1, DefaultRuleAssumption, FS_Subset, FS_CardinalityType
  <2> QED
    BY <2>2, <2>3
<1>4. /\ alerts \in Seq(Alert) /\ Len(alerts) \in Nat /\ \A i \in 1..Len(alerts) : alerts[i] \in Alert
      /\ Len(alerts) < MaxAlerts
  BY <1>3, Limits DEF AlertsInv, AlertsTypeOK
<1>5. \A j \in Key : activeKey[j] # 0 => activeKey[j] \in 1..Len(alerts)
  BY DEF AlertsInv
<1>6. \A j \in Key \ {k} : activeKey[j] # activeKey[k] \/ activeKey[k] = 0
  BY <1>2 DEF AlertsInv
<1> HIDE DEF k
<1>7. CASE CreateAlert(r)
  <2> DEFINE new == {Len(alerts) + 1} \X Method
             row == [key |-> k, status |-> "active", value |-> latest[k]]
  <2>1. /\ Fires(r) /\ activeKey[k] = 0 /\ alerts' = Append(alerts, row)
        /\ activeKey' = [activeKey EXCEPT ![k] = Len(alerts) + 1] /\ toSend' = new
        /\ notice' = [n \in Notification |-> IF n \in new THEN "pending" ELSE notice[n]]
    BY <1>7 DEF CreateAlert, Current, k
  <2>2. row \in Alert /\ row.key = k /\ row.status = "active" /\ row.value = latest[k]
    BY <1>2 DEF Alert
  <2> HIDE DEF row
  <2>3. /\ alerts' \in Seq(Alert) /\ Len(alerts') = Len(alerts) + 1 /\ alerts'[Len(alerts) + 1] = row
        /\ \A i \in 1..Len(alerts) : alerts'[i] = alerts[i]
    BY <1>4, <2>1, <2>2
  <2>4. /\ activeKey' \in [Key -> 0..MaxAlerts] /\ activeKey'[k] = Len(alerts) + 1
        /\ \A j \in Key \ {k} : activeKey'[j] = activeKey[j]
    BY <1>2, <1>4, <2>1, Limits DEF AlertsInv, AlertsTypeOK
  <2>5. Follows(r)'
    BY <1>1, <2>1, <2>2, <2>3, <2>4 DEF Follows, Fires, k
  <2>6. \A s \in Rule \ pass' : Follows(s)'
    BY <1>1, <1>5, <2>3, <2>4, <2>5, OthersFollow DEF k
  <2>7. new \subseteq Notification /\ \A n \in new : n[1] = Len(alerts) + 1
    BY <1>4, Limits DEF Notification
  <2>8. \A n \in new : n \notin dropped
    BY <1>4, <2>7 DEF AlertsInv
  <2> HIDE DEF new
  <2>9. /\ notice' \in [Notification -> {"none", "pending", "sent", "failed"}]
        /\ \A n \in Notification : notice'[n] = IF n \in new THEN "pending" ELSE notice[n]
    BY <2>1 DEF AlertsInv, AlertsTypeOK
  <2>10. \A n \in Notification : n[1] > Len(alerts') => n[1] > Len(alerts) /\ n \notin new
    BY <1>4, <2>3, <2>7 DEF Notification
  <2>11. \A n \in toSend' \cup dropped' : notice'[n] = "pending"
    BY <1>1, <2>1, <2>7, <2>9 DEF AlertsInv, AlertsTypeOK
  <2>12. AlertsTypeOK'
    BY <1>1, <1>4, <2>1, <2>3, <2>4, <2>7, <2>9, Limits DEF AlertsInv, AlertsTypeOK
  <2>13. \A a \in 1..Len(alerts') : alerts'[a].status # "resolved" => activeKey'[alerts'[a].key] = a
    <3>1. ASSUME NEW a \in 1..Len(alerts), alerts[a].status # "resolved"
          PROVE  activeKey'[alerts[a].key] = a
      <4>1. alerts[a].key \in Key /\ activeKey[alerts[a].key] = a
        BY <1>4, <3>1 DEF AlertsInv, Alert
      <4>2. alerts[a].key # k
        BY <1>4, <2>1, <4>1
      <4> QED
        BY <2>4, <4>1, <4>2
    <3> QED
      BY <1>4, <2>2, <2>3, <2>4, <3>1
  <2>14. \A j \in Key : activeKey'[j] # 0 =>
            /\ activeKey'[j] \in 1..Len(alerts')
            /\ alerts'[activeKey'[j]].status # "resolved" /\ alerts'[activeKey'[j]].key = j
    BY <1>4, <1>5, <2>2, <2>3, <2>4 DEF AlertsInv
  <2>15. Len(alerts') + Cardinality(pass') <= MaxAlerts
    BY <1>3, <1>4, <2>3, Limits DEF AlertsInv
  <2>16. toSend' \cap dropped' = {}
    BY <1>1, <2>1, <2>8
  <2> QED
    BY <1>1, <2>6, <2>9, <2>10, <2>11, <2>12, <2>13, <2>14, <2>15, <2>16 DEF AlertsInv
<1>8. CASE UpdateAlert(r)
  <2> DEFINE a == activeKey[k]
  <2>1. /\ Fires(r) /\ a # 0 /\ alerts' = [alerts EXCEPT ![a].value = latest[k]]
        /\ UNCHANGED <<activeKey, toSend, notice>>
    BY <1>8 DEF UpdateAlert, Current, k
  <2>2. a \in 1..Len(alerts) /\ [alerts[a] EXCEPT !.value = latest[k]] \in Alert
    BY <1>2, <1>4, <1>5, <2>1 DEF Alert
  <2>3. alerts' \in Seq(Alert) /\ Len(alerts') = Len(alerts)
    BY <1>4, <2>1, <2>2, ExceptSeq
  <2>4. /\ \A i \in 1..Len(alerts) : /\ alerts'[i].key = alerts[i].key
                                    /\ alerts'[i].status = alerts[i].status
                                    /\ i # a => alerts'[i].value = alerts[i].value
        /\ alerts'[a].value = latest[k]
    BY <1>4, <2>1, <2>2 DEF Alert
  <2>5. Follows(r)'
    BY <1>1, <2>1, <2>4 DEF Follows, Fires, k
  <2>6. \A s \in Rule \ pass' : Follows(s)'
    BY <1>1, <1>5, <1>6, <2>1, <2>4, <2>5, OthersFollow DEF k
  <2>7. AlertsTypeOK'
    BY <1>1, <2>1, <2>3 DEF AlertsInv, AlertsTypeOK
  <2>8. Len(alerts') + Cardinality(pass') <= MaxAlerts
    BY <1>3, <1>4, <2>3, Limits DEF AlertsInv
  <2> HIDE DEF a
  <2> QED
    BY <1>1, <2>1, <2>3, <2>4, <2>6, <2>7, <2>8 DEF AlertsInv
<1>9. CASE ResolveAlert(r)
  <2> DEFINE a == activeKey[k]
  <2>1. /\ ~Fires(r) /\ a # 0 /\ alerts' = [alerts EXCEPT ![a].status = "resolved"]
        /\ activeKey' = [activeKey EXCEPT ![k] = 0]
        /\ UNCHANGED <<toSend, notice>>
    BY <1>9 DEF ResolveAlert, Current, k
  <2>2. a \in 1..Len(alerts) /\ [alerts[a] EXCEPT !.status = "resolved"] \in Alert
    BY <1>2, <1>4, <1>5, <2>1 DEF Alert
  <2>3. alerts' \in Seq(Alert) /\ Len(alerts') = Len(alerts)
    BY <1>4, <2>1, <2>2, ExceptSeq
  <2>4. /\ \A i \in 1..Len(alerts) : alerts'[i].key = alerts[i].key
        /\ \A i \in 1..Len(alerts) : alerts'[i].value = alerts[i].value
        /\ \A i \in 1..Len(alerts) : i # a => alerts'[i].status = alerts[i].status
        /\ alerts'[a].status = "resolved"
    BY <1>4, <2>1, <2>2 DEF Alert
  <2>5. /\ activeKey' \in [Key -> 0..MaxAlerts] /\ activeKey'[k] = 0
        /\ \A j \in Key \ {k} : activeKey'[j] = activeKey[j]
    BY <1>2, <2>1, Limits DEF AlertsInv, AlertsTypeOK
  <2>6. Follows(r)'
    BY <1>1, <2>1, <2>5 DEF Follows, Fires, k
  <2>7. \A s \in Rule \ pass' : Follows(s)'
    <3>1. \A j \in Key \ {k} :
             /\ activeKey'[j] = activeKey[j]
             /\ activeKey[j] # 0 => alerts'[activeKey[j]].value = alerts[activeKey[j]].value
      BY <1>5, <2>4, <2>5
    <3> QED
      BY <1>1, <2>6, <3>1, OthersFollow DEF k
  <2>8. AlertsTypeOK'
    BY <1>1, <2>1, <2>3, <2>5 DEF AlertsInv, AlertsTypeOK
  <2>9. Len(alerts') + Cardinality(pass') <= MaxAlerts
    BY <1>3, <1>4, <2>3, Limits DEF AlertsInv
  <2>10. \A i \in 1..Len(alerts) : alerts[i].status # "resolved" /\ i # a => alerts[i].key # k
    BY DEF AlertsInv
  <2>11. \A i \in 1..Len(alerts) : alerts[i].key \in Key
    BY <1>4 DEF Alert
  <2>12. \A i \in 1..Len(alerts') : alerts'[i].status # "resolved" => activeKey'[alerts'[i].key] = i
    <3>1. ASSUME NEW i \in 1..Len(alerts), alerts'[i].status # "resolved"
          PROVE  activeKey'[alerts[i].key] = i
      <4>1. i # a /\ alerts[i].status # "resolved"
        BY <2>4, <3>1
      <4>2. alerts[i].key \in Key \ {k} /\ activeKey[alerts[i].key] = i
        BY <2>10, <2>11, <4>1 DEF AlertsInv
      <4> QED
        BY <2>5, <4>2
    <3> QED
      BY <2>3, <2>4, <3>1
  <2>13. \A j \in Key : activeKey'[j] # 0 =>
            /\ activeKey'[j] \in 1..Len(alerts')
            /\ alerts'[activeKey'[j]].status # "resolved" /\ alerts'[activeKey'[j]].key = j
    BY <1>5, <1>6, <2>1, <2>3, <2>4, <2>5 DEF AlertsInv
  <2> HIDE DEF a
  <2> QED
    BY <1>1, <2>1, <2>3, <2>7, <2>8, <2>9, <2>12, <2>13 DEF AlertsInv
<1>10. CASE NothingToDo(r)
  <2>1. ~Fires(r) /\ activeKey[k] = 0 /\ UNCHANGED <<alerts, activeKey, toSend, notice>>
    BY <1>10 DEF NothingToDo, Current, k
  <2>2. Follows(r)'
    BY <1>1, <2>1 DEF Follows, Fires, k
  <2>3. \A s \in Rule \ pass' : Follows(s)'
    BY <1>1, <2>1, <2>2, OthersFollow DEF k
  <2>4. Len(alerts') + Cardinality(pass') <= MaxAlerts
    BY <1>3, <1>4, <2>1, Limits DEF AlertsInv
  <2> QED
    BY <1>1, <2>1, <2>3, <2>4 DEF AlertsInv, AlertsTypeOK
<1> QED
  BY <1>7, <1>8, <1>9, <1>10 DEF CheckRule

LEMMA NotificationsKeep ==
    ASSUME AlertsInv,
           \/ \E n \in Notification : SendAlertNotification(n) \/ ProcessNotification(n)
           \/ NotificationWorker
    PROVE  AlertsInv'
<1>1. channel \in Seq(Notification) /\ Len(channel) \in Nat
  BY DEF AlertsInv, AlertsTypeOK
<1>2. UNCHANGED <<latest, rules, alerts, activeKey, pass, unchecked>>
  BY DEF SendAlertNotification, ProcessNotification, NotificationWorker
<1>3. \A r \in Rule \ pass' : Follows(r)'
  BY <1>2 DEF AlertsInv, Follows, Alike
<1>4. ASSUME NEW n \in Notification, SendAlertNotification(n) PROVE AlertsInv'
  <2>1. channel' \in Seq(Notification) /\ Len(channel') <= AlertQueue
    <3>1. CASE Len(channel) < AlertQueue
      <4>1. channel' = Append(channel, n)
        BY <1>4, <3>1 DEF SendAlertNotification
      <4>2. channel' \in Seq(Notification) /\ Len(channel') = Len(channel) + 1
        BY <1>1, <4>1
      <4> QED
        BY <1>1, <3>1, <4>2, Limits
    <3>2. CASE ~(Len(channel) < AlertQueue)
      BY <1>1, <1>4, <3>2 DEF SendAlertNotification, AlertsInv, AlertsTypeOK
    <3> QED
      BY <3>1, <3>2
  <2> QED
    BY <1>2, <1>3, <1>4, <2>1 DEF SendAlertNotification, AlertsInv, AlertsTypeOK
<1>5. CASE NotificationWorker
  <2>1. channel' \in Seq(Notification) /\ Len(channel') <= AlertQueue
    BY <1>1, <1>5, Limits DEF NotificationWorker, AlertsInv, AlertsTypeOK
  <2> QED
    BY <1>2, <1>3, <1>5, <2>1 DEF NotificationWorker, AlertsInv, AlertsTypeOK
<1>6. ASSUME NEW n \in Notification, ProcessNotification(n) PROVE AlertsInv'
  BY <1>2, <1>3, <1>6 DEF ProcessNotification, InHand, AlertsInv, AlertsTypeOK
<1> QED
  BY <1>4, <1>5, <1>6

LEMMA AlertsKeep ==
    ASSUME AlertsInv, [AlertsNext]_alertVars
    PROVE  AlertsInv'
<1>1. CASE UNCHANGED alertVars
  BY <1>1 DEF alertVars, AlertsInv, AlertsTypeOK, Follows, Alike
<1> QED
  BY <1>1, CollectKeeps, RulesKeep, AcknowledgeKeeps, PassBegins, CheckRuleKeeps, NotificationsKeep
     DEF AlertsNext

LEMMA AlertsHold == AlertsInv => OneLiveAlert /\ AlertFollowsSample
<1> SUFFICES ASSUME AlertsInv PROVE OneLiveAlert /\ AlertFollowsSample
  OBVIOUS
<1>1. OneLiveAlert
  BY DEF AlertsInv, OneLiveAlert, Unresolved
<1>2. AlertFollowsSample
  BY DEF AlertsInv, AlertFollowsSample, Unlocked, Follows, Alike
<1> QED
  BY <1>1, <1>2

-----------------------------------------------------------------------------
(* Recordings.  Everything stored has an address; one that is deleted before *)
(* its upload has strayed.                                                   *)

RecordingsInv ==
    /\ RecordingsTypeOK
    /\ OneRecording /\ StorageIsListed
    /\ stored \subseteq addressed
    /\ \A r \in Recording :
          /\ r \in listed \cup stored => recording[r] # "none"
          /\ recording[r] = "processing" => r \in listed \cup strayed

LEMMA RecordingsStart == RecordingsInit => RecordingsInv
  BY DEF RecordingsInit, RecordingsInv, RecordingsTypeOK, RecordingStatus, OneRecording,
         BeingRecorded, StorageIsListed

LEMMA RecordingsKeep ==
    ASSUME RecordingsInv, [RecordingsNext]_recordingVars
    PROVE  RecordingsInv'
<1> USE DEF RecordingsInv, RecordingsTypeOK, RecordingStatus, OneRecording, BeingRecorded,
            StorageIsListed, Becomes
<1>1. ASSUME NEW request \in {"start", "stop", "delete"}, FindMeeting(request)
      PROVE  RecordingsInv'
  BY <1>1 DEF FindMeeting
<1>2. CASE EndMeeting
  BY <1>2 DEF EndMeeting
<1>3. ASSUME NEW r \in Recording, StartRecording(r) PROVE RecordingsInv'
  BY <1>3 DEF StartRecording
<1>4. ASSUME NEW r \in Recording, StopRecording(r) PROVE RecordingsInv'
  BY <1>4 DEF StopRecording
<1>5. ASSUME NEW r \in Recording, DeleteRecording(r) PROVE RecordingsInv'
  BY <1>5 DEF DeleteRecording
<1>6. ASSUME NEW r \in Recording, ProcessRecording(r) PROVE RecordingsInv'
  BY <1>6 DEF ProcessRecording
<1>7. ASSUME NEW r \in Recording, CleanupOldRecordings(r) PROVE RecordingsInv'
  BY <1>7 DEF CleanupOldRecordings
<1>8. CASE UNCHANGED recordingVars
  BY <1>8 DEF recordingVars
<1> QED
  BY <1>1, <1>2, <1>3, <1>4, <1>5, <1>6, <1>7, <1>8 DEF RecordingsNext

-----------------------------------------------------------------------------
(* What is begun in the background, part by part. *)

Follow(before, after) ==
    \/ after = before
    \/ before = "absent" /\ after = "open"
    \/ before = "open" /\ after = "closed"

LEMMA VerificationsFollow ==
    ASSUME VerificationInv, [VerificationNext]_verificationVars, NEW i \in Job
    PROVE  Follow(VerificationState(i), VerificationState(i)')
<1> USE DEF Follow, VerificationState, Ended
<1>1. /\ runner \in [Job -> {"none", "begin", "check", "provision", "complete", "ended"}]
      /\ \A j \in Job : runner[j] = "ended" => jobs[j].status \in Ended
      /\ jobs \in [Job -> [status : JobStatus, attempts : 0..(MaxAttempts + 1), known : BOOLEAN,
                           found : BOOLEAN]]
  BY DEF VerificationInv, JobAgrees
<1>2. \A j \in Job, status \in JobStatus, place \in {"check", "ended"} :
        MoveJob(j, status, place) =>
            jobs'[j].status = status /\ runner'[j] = place
            /\ (i # j => jobs'[i] = jobs[i] /\ runner'[i] = runner[i])
  BY <1>1 DEF MoveJob
<1>3. ASSUME NEW j \in Job, StartVerification(j)
      PROVE  Follow(VerificationState(i), VerificationState(i)')
  <2>1. runner[j] = "none" /\ runner'[j] = "begin"
        /\ (i # j => jobs'[i] = jobs[i] /\ runner'[i] = runner[i])
    BY <1>1, <1>3 DEF StartVerification
  <2> QED
    BY <2>1
<1>4. ASSUME NEW j \in Job, CancelVerification(j)
      PROVE  Follow(VerificationState(i), VerificationState(i)')
  <2>1. /\ jobs[j].status \notin Ended /\ jobs'[j].status = "failed" /\ runner' = runner
        /\ i # j => jobs'[i] = jobs[i]
    BY <1>1, <1>4 DEF CancelVerification
  <2> QED
    BY <1>1, <2>1
<1>5. CASE CleanupOldJobs
  <2>1. runner' = runner /\ jobs'[i].status = jobs[i].status
    <3>1. PICK old : jobs' = [j \in Job |-> IF j \in old THEN [jobs[j] EXCEPT !.known = FALSE]
                                                          ELSE jobs[j]]
      BY <1>5 DEF CleanupOldJobs
    <3> QED
      BY <1>1, <1>5, <3>1 DEF CleanupOldJobs
  <2> QED
    BY <2>1
<1>6. ASSUME NEW j \in Job, BeginVerification(j)
      PROVE  Follow(VerificationState(i), VerificationState(i)')
  BY <1>2, <1>6 DEF BeginVerification, JobStatus
<1>7. ASSUME NEW j \in Job, VerificationTimeout(j)
      PROVE  Follow(VerificationState(i), VerificationState(i)')
  BY <1>2, <1>7 DEF VerificationTimeout, JobStatus
<1>8. ASSUME NEW j \in Job, CheckDNS(j)
      PROVE  Follow(VerificationState(i), VerificationState(i)')
  <2>1. /\ runner[j] = "check" /\ (i # j => jobs'[i] = jobs[i] /\ runner'[i] = runner[i])
        /\ \/ runner'[j] = "ended" /\ jobs'[j].status = "failed"
           \/ runner'[j] \in {"check", "provision"} /\ jobs'[j].status = jobs[j].status
    BY <1>1, <1>8 DEF CheckDNS
  <2> QED
    BY <2>1
<1>9. ASSUME NEW j \in Job, RequestCertificate(j)
      PROVE  Follow(VerificationState(i), VerificationState(i)')
  <2>1. /\ jobs' = jobs /\ runner[j] = "provision" /\ runner'[j] = "complete"
        /\ i # j => runner'[i] = runner[i]
    BY <1>1, <1>9 DEF RequestCertificate
  <2> QED
    BY <2>1
<1>10. ASSUME NEW j \in Job, CompleteVerification(j)
       PROVE  Follow(VerificationState(i), VerificationState(i)')
  BY <1>2, <1>10 DEF CompleteVerification, JobStatus
<1>11. CASE IssueCertificate \/ UNCHANGED verificationVars
  BY <1>11 DEF IssueCertificate, verificationVars
<1> HIDE DEF Follow, VerificationState, Ended
<1> QED
  BY <1>3, <1>4, <1>5, <1>6, <1>7, <1>8, <1>9, <1>10, <1>11 DEF VerificationNext

LEMMA ReplicationsFollow ==
    ASSUME RecoveryInv, [RecoveryNext]_recoveryVars, NEW x \in Replicas
    PROVE  Follow(ReplicationState(x), ReplicationState(x)')
<1> USE DEF Follow, ReplicationState
<1>1. replica \in [Replicas -> {"none", "pending", "completed", "failed"}]
  BY DEF RecoveryInv, RecoveryTypeOK
<1>2. CASE ReplicateBackup
  <2>1. queue # <<>> /\ replica' = [y \in Replicas |->
            IF y[1] = Head(queue) /\ y[2] \in active THEN "pending" ELSE replica[y]]
    BY <1>2 DEF ReplicateBackup
  <2>2. 1 \in 1..Len(queue) /\ Head(queue) = queue[1]
    BY <2>1 DEF RecoveryInv, RecoveryTypeOK
  <2>3. x[1] = Head(queue) => replica[x] = "none"
    <3>1. x = <<x[1], x[2]>> /\ x[2] \in Region
      BY DEF Replicas
    <3> QED
      BY <2>2, <3>1 DEF RecoveryInv
  <2> QED
    BY <2>1, <2>3
<1>3. ASSUME NEW b \in Replicated, NEW r \in Region,
             PerformReplication(b, r) \/ FailReplication(b, r)
      PROVE  Follow(ReplicationState(x), ReplicationState(x)')
  <2>1. <<b, r>> \in Replicas
    BY DEF Replicas
  <2>2. /\ replica[<<b, r>>] = "pending" /\ replica'[<<b, r>>] \in {"completed", "failed"}
        /\ x # <<b, r>> => replica'[x] = replica[x]
    BY <1>1, <1>3, <2>1 DEF PerformReplication, FailReplication
  <2> QED
    BY <2>2
<1>4. CASE UNCHANGED replica
  BY <1>4
<1> QED
  BY <1>2, <1>3, <1>4 DEF RecoveryNext, QueueReplication, InitiateFailover, NoReplica,
                          SwitchRegions, VerifyServices, recoveryVars

LEMMA FailoversFollow ==
    ASSUME RecoveryInv, [RecoveryNext]_recoveryVars, NEW f \in Failover
    PROVE  Follow(FailoverState(f), FailoverState(f)')
<1> USE DEF Follow, FailoverState, SetFailover
<1>1. failovers \in [Failover -> [to : Region, status : {"none", "begun", "switched",
                                                         "completed", "failed"}]]
  BY DEF RecoveryInv, RecoveryTypeOK
<1>2. \A g \in Failover, status \in {"switched", "completed", "failed"} :
        SetFailover(g, status) => /\ failovers'[g].status = status
                                  /\ f # g => failovers'[f] = failovers[f]
  BY <1>1
<1>3. ASSUME NEW g \in Failover, NEW r \in Region, InitiateFailover(g, r)
      PROVE  Follow(FailoverState(f), FailoverState(f)')
  <2>1. /\ failovers[g].status = "none" /\ failovers'[g].status = "begun"
        /\ f # g => failovers'[f] = failovers[f]
    BY <1>1, <1>3 DEF InitiateFailover
  <2> QED
    BY <2>1
<1> HIDE DEF SetFailover
<1>4. ASSUME NEW g \in Failover, NoReplica(g) \/ SwitchRegions(g) \/ VerifyServices(g)
      PROVE  Follow(FailoverState(f), FailoverState(f)')
  BY <1>2, <1>4 DEF NoReplica, SwitchRegions, VerifyServices
<1>5. CASE UNCHANGED failovers
  BY <1>5
<1> QED
  BY <1>3, <1>4, <1>5 DEF RecoveryNext, QueueReplication, ReplicateBackup, PerformReplication,
                          FailReplication, recoveryVars

LEMMA NotificationsFollow ==
    ASSUME AlertsInv, [AlertsNext]_alertVars, NEW n \in Notification
    PROVE  Follow(NotificationState(n), NotificationState(n)')
<1> USE DEF Follow, NotificationState
<1>1. /\ notice \in [Notification -> {"none", "pending", "sent", "failed"}]
      /\ \A m \in toSend \cup dropped : notice[m] = "pending"
      /\ \A m \in Notification : m[1] > Len(alerts) => notice[m] = "none"
      /\ toSend \cap dropped = {} /\ Len(alerts) \in Nat
  BY DEF AlertsInv, AlertsTypeOK
<1>2. ASSUME NEW r \in Rule, CheckRule(r)
      PROVE  Follow(NotificationState(n), NotificationState(n)')
  <2>1. CASE CreateAlert(r)
    <3> DEFINE new == {Len(alerts) + 1} \X Method
    <3>1. /\ toSend' = new /\ dropped' = dropped /\ toSend = {}
          /\ notice'[n] = IF n \in new THEN "pending" ELSE notice[n]
      BY <1>2, <2>1 DEF CreateAlert, CheckRule
    <3>2. n \in new => notice[n] = "none"
      BY <1>1
    <3> QED
      BY <3>1, <3>2
  <2>2. CASE UNCHANGED <<toSend, dropped, notice>>
    BY <2>2
  <2> QED
    BY <1>2, <2>1, <2>2 DEF CheckRule, UpdateAlert, ResolveAlert, NothingToDo
<1>3. ASSUME NEW m \in Notification, SendAlertNotification(m)
      PROVE  Follow(NotificationState(n), NotificationState(n)')
  <2>1. /\ m \in toSend /\ toSend' = toSend \ {m} /\ notice' = notice
        /\ dropped' = dropped \/ dropped' = dropped \cup {m}
    BY <1>3 DEF SendAlertNotification
  <2> QED
    BY <1>1, <2>1
<1>4. ASSUME NEW m \in Notification, ProcessNotification(m)
      PROVE  Follow(NotificationState(n), NotificationState(n)')
  <2>1. /\ notice[m] = "pending" /\ m \notin toSend \cup dropped
        /\ notice'[m] \in {"sent", "failed"} /\ (n # m => notice'[n] = notice[n])
        /\ toSend' = toSend /\ dropped' = dropped
    BY <1>1, <1>4 DEF ProcessNotification, InHand
  <2> QED
    BY <2>1
<1>5. CASE UNCHANGED <<toSend, dropped, notice>>
  BY <1>5
<1> HIDE DEF Follow, NotificationState
<1>6. CASE \/ \E sample \in Samples : CollectMetrics(sample)
           \/ \E r \in Rule, k \in Key, threshold \in 1..TopLevel : CreateAlertRule(r, k, threshold)
           \/ \E r \in Rule, threshold \in 1..TopLevel, enabled \in BOOLEAN :
                 UpdateAlertRule(r, threshold, enabled)
           \/ \E r \in Rule : DeleteAlertRule(r)
           \/ \E a \in 1..MaxAlerts : AcknowledgeAlert(a)
           \/ CheckAlerts \/ NotificationWorker
  BY <1>5, <1>6 DEF CollectMetrics, CreateAlertRule, UpdateAlertRule, DeleteAlertRule, SetRule,
                    AcknowledgeAlert, CheckAlerts, NotificationWorker
<1> QED
  BY <1>2, <1>3, <1>4, <1>5, <1>6 DEF AlertsNext, alertVars

LEMMA RecordingsFollow ==
    ASSUME RecordingsInv, [RecordingsNext]_recordingVars, NEW r \in Recording
    PROVE  Follow(RecordingState(r), RecordingState(r)')
<1> USE DEF Follow, RecordingState
<1>1. recording \in [Recording -> RecordingStatus]
  BY DEF RecordingsInv, RecordingsTypeOK
<1>2. ASSUME NEW q \in Recording, StartRecording(q) \/ StopRecording(q) \/ ProcessRecording(q)
      PROVE  Follow(RecordingState(r), RecordingState(r)')
  <2>1. /\ r # q => recording'[r] = recording[r]
        /\ \/ recording[q] = "none" /\ recording'[q] = "recording"
           \/ recording[q] = "recording" /\ recording'[q] = "processing"
           \/ recording[q] = "processing" /\ recording'[q] \in {"completed", "failed"}
    BY <1>1, <1>2 DEF StartRecording, StopRecording, ProcessRecording, BeingRecorded, Becomes
  <2> QED
    BY <2>1
<1>3. CASE UNCHANGED recording
  BY <1>3
<1> QED
  BY <1>2, <1>3 DEF RecordingsNext, FindMeeting, EndMeeting, DeleteRecording,
                    CleanupOldRecordings, recordingVars

-----------------------------------------------------------------------------
(* The whole. *)

BackgroundInv ==
    /\ DeploymentsInv /\ VerificationInv /\ RecoveryInv /\ WebhooksInv
    /\ ScalingInv /\ AlertsInv /\ RecordingsInv /\ QualityInv /\ SamplesInv

LEMMA PartsStep ==
    [Next]_vars =>
        /\ [DeploymentsNext]_deploymentVars /\ [VerificationNext]_verificationVars
        /\ [RecoveryNext]_recoveryVars /\ [WebhooksNext]_webhookVars
        /\ [AutoscalingNext]_scalingVars /\ [AlertsNext]_alertVars
        /\ [RecordingsNext]_recordingVars /\ [QualityNext]_qualityVars
  BY DEF Next, OthersStay, vars

LEMMA BackgroundInvHolds == Spec => []BackgroundInv
<1>1. Init => BackgroundInv
  BY DeploymentsStart, VerificationStarts, RecoveryStarts, WebhooksStart, ScalingStarts,
     AlertsStart, RecordingsStart, QualityStarts, SamplesStart DEF Init, BackgroundInv
<1>2. BackgroundInv /\ [Next]_vars => BackgroundInv'
  BY PartsStep, DeploymentsKeep, VerificationKeeps, RecoveryKeeps, WebhooksKeep, ScalingStep,
     AlertsKeep, RecordingsKeep, QualityStep, SamplesStep DEF BackgroundInv
<1> QED
  BY <1>1, <1>2, PTL DEF Spec

\* The records, queues and goroutines of all eight parts keep their shapes, for any
\* capacities, limits and numbers of them.
THEOREM TypeCorrect == Spec => []TypeOK
<1>1. BackgroundInv => TypeOK
  BY VerificationHolds
     DEF BackgroundInv, TypeOK, DeploymentsInv, RecoveryInv, WebhooksInv, ScalingInv, AlertsInv,
         RecordingsInv, QualityInv, SamplesInv, QualityTypeOK, Times
<1> QED
  BY <1>1, BackgroundInvHolds, PTL

\* What is on record has happened (deployment_service.go, customdomain_service.go,
\* disaster_recovery_service.go, webhook_service.go, alert_service.go and
\* recording_service.go), whatever races it, for any number of everything.
THEOREM RecordsAreTrue == Spec => []StatusIsTrue
<1>1. BackgroundInv => StatusIsTrue
  BY DeploymentsHold, VerificationHolds, RecoveryHolds, WebhooksHold, AlertsHold, Zenon
     DEF BackgroundInv, StatusIsTrue, RecordingsInv
<1> QED
  BY <1>1, BackgroundInvHolds, PTL

\* However often it is measured, alerted, registered, forced and configured, and whatever
\* cooldowns are registered, none included, a service is never scaled by a measurement
\* sooner than the cooldown in force allows, over any number of passes; and video follows
\* the network no oftener than the delays allow and is not left better than it carries.
THEOREM NothingIsDrivenToAndFro == Spec => []AdaptsSlowly
<1>1. BackgroundInv => AdaptsSlowly
  BY DEF BackgroundInv, ScalingInv, QualityInv, AdaptsSlowly
<1> QED
  BY <1>1, BackgroundInvHolds, PTL

-----------------------------------------------------------------------------
(* The refinement of BackgroundJobs. *)

LEMMA NoWorkYet == Init => Abstract!Init
<1> SUFFICES ASSUME Init PROVE Abstract!Init
  OBVIOUS
<1>1. ASSUME NEW j \in Job PROVE VerificationState(j) = "absent"
  BY <1>1 DEF Init, VerificationInit, VerificationState
<1>2. ASSUME NEW x \in Replicas PROVE ReplicationState(x) = "absent"
  BY <1>2 DEF Init, RecoveryInit, ReplicationState
<1>3. ASSUME NEW f \in Failover PROVE FailoverState(f) = "absent"
  BY <1>3 DEF Init, RecoveryInit, FailoverState
<1>4. ASSUME NEW n \in Notification PROVE NotificationState(n) = "absent"
  BY <1>4 DEF Init, AlertsInit, NotificationState
<1>5. ASSUME NEW r \in Recording PROVE RecordingState(r) = "absent"
  BY <1>5 DEF Init, RecordingsInit, RecordingState
<1>6. \A w \in Works : WorkState(w) = "absent"
  BY <1>1, <1>2, <1>3, <1>4, <1>5 DEF Works, WorkState
<1> QED
  BY <1>6 DEF Abstract!Init

LEMMA WorkFollows ==
    ASSUME BackgroundInv, [Next]_vars, NEW w \in Works
    PROVE  Follow(WorkState(w), WorkState(w)')
<1>1. ASSUME NEW j \in Job PROVE Follow(VerificationState(j), VerificationState(j)')
  BY PartsStep, VerificationsFollow DEF BackgroundInv
<1>2. ASSUME NEW x \in Replicas PROVE Follow(ReplicationState(x), ReplicationState(x)')
  BY PartsStep, ReplicationsFollow DEF BackgroundInv
<1>3. ASSUME NEW f \in Failover PROVE Follow(FailoverState(f), FailoverState(f)')
  BY PartsStep, FailoversFollow DEF BackgroundInv
<1>4. ASSUME NEW n \in Notification PROVE Follow(NotificationState(n), NotificationState(n)')
  BY PartsStep, NotificationsFollow DEF BackgroundInv
<1>5. ASSUME NEW r \in Recording PROVE Follow(RecordingState(r), RecordingState(r)')
  BY PartsStep, RecordingsFollow DEF BackgroundInv
<1> QED
  BY <1>1, <1>2, <1>3, <1>4, <1>5 DEF Works, WorkState

\* Whatever is done in the background is begun at most once, and closed at most once
\* and for good: the safety of BackgroundJobs (a verification's goroutine, a copy of a
\* backup, a failover, a notification and a recording).
THEOREM WorkIsBegunAndClosedOnce ==
    Spec => Abstract!Init /\ [][Abstract!Next]_([w \in Works |-> WorkState(w)])
<1>1. BackgroundInv /\ [Next]_vars => [Abstract!Next]_([w \in Works |-> WorkState(w)])
  <2>1. BackgroundInv /\ [Next]_vars => \A w \in Works : Follow(WorkState(w), WorkState(w)')
    BY WorkFollows
  <2> QED
    BY <2>1 DEF Follow, Abstract!Next, Abstract!Begins, Abstract!Closes
<1> QED
  BY <1>1, NoWorkYet, BackgroundInvHolds, PTL DEF Spec
==============================================================================
