------------------------------- MODULE Alerts -------------------------------
(***************************************************************************)
(* MonitoringService and AlertService of the container service.  One loop  *)
(* samples the running environments, another compares the latest sample    *)
(* with the alert rules and opens, updates or resolves alerts; opening one *)
(* puts notifications on a channel that a worker empties.  CheckAlerts     *)
(* holds AlertService.mu for a whole pass over the rules, which come in    *)
(* any order, and the worker takes from the channel meanwhile.             *)
(***************************************************************************)
EXTENDS Integers, Sequences, FiniteSets

CONSTANTS Key,         \* what an alert is about: environment, metric and severity
          Rule,        \* rules; each key is also the name of its default rule
          TopLevel,    \* readings and thresholds are 1..TopLevel; 0 is no usage
          MaxAlerts,   \* bound: alerts ever opened
          AlertQueue,  \* the capacity of the notification channel
          NoRule

ASSUME DefaultRuleAssumption == Key \subseteq Rule /\ IsFiniteSet(Rule)
ASSUME AlertBounds == {TopLevel, MaxAlerts, AlertQueue} \subseteq Nat \ {0}

VARIABLES latest,    \* the latest sample in the metrics cache
          rules,     \* the alert rules
          alerts,    \* the alerts, numbered as they are opened
          activeKey, \* activeAlertKeys: the alert that is open for a key, or 0
          pass,      \* the rules that the pass under way has yet to look at
          toSend,    \* the notifications that the pass has yet to put on the channel
          channel,   \* notificationCh
          notice,    \* the notifications and their status
          dropped,   \* history: notifications for which the channel had no room
          unchecked  \* history: keys whose rules or sample changed since the last pass

alertVars == <<latest, rules, alerts, activeKey, pass, toSend, channel, notice,
               dropped, unchecked>>

Method == {"web", "sms"}                  \* sms is a method that nobody implements
Notification == (1..MaxAlerts) \X Method
RuleRow == [key : Key, threshold : 1..TopLevel, enabled : BOOLEAN]

Alert == [key : Key, status : {"active", "acknowledged", "resolved"}, value : 0..TopLevel]

AlertsTypeOK ==
    /\ latest \in [Key -> 0..TopLevel]
    /\ rules \in [Rule -> RuleRow \cup {NoRule}]
    /\ alerts \in Seq(Alert) /\ Len(alerts) <= MaxAlerts
    /\ activeKey \in [Key -> 0..MaxAlerts]
    /\ pass \subseteq Rule
    /\ toSend \subseteq Notification /\ dropped \subseteq Notification
    /\ channel \in Seq(Notification) /\ Len(channel) <= AlertQueue
    /\ notice \in [Notification -> {"none", "pending", "sent", "failed"}]
    /\ unchecked \subseteq Key

\* NewAlertService: the default rules, one for each metric.
AlertsInit ==
    /\ latest = [k \in Key |-> 0]
    /\ rules = [r \in Rule |-> IF r \in Key
                                THEN [key |-> r, threshold |-> TopLevel, enabled |-> TRUE]
                                ELSE NoRule]
    /\ alerts = <<>>
    /\ activeKey = [k \in Key |-> 0]
    /\ pass = {} /\ toSend = {} /\ channel = <<>>
    /\ notice = [n \in Notification |-> "none"]
    /\ dropped = {} /\ unchecked = Key

\* AlertService.mu is held from the beginning of a pass to its end.
Unlocked == pass = {} /\ toSend = {}

-----------------------------------------------------------------------------
(* Sampling and rules. *)

\* A query that fails reads as no usage, as does storage, which is not asked for.
Samples == [Key -> 0..TopLevel]

CollectMetrics(sample) ==
    /\ Unlocked      \* checkAllAlerts holds metricsMu
    /\ latest' = sample
    /\ unchecked' = Key
    /\ UNCHANGED <<rules, alerts, activeKey, pass, toSend, channel, notice, dropped>>

SetRule(r, row, k) ==
    /\ Unlocked
    /\ rules' = [rules EXCEPT ![r] = row]
    /\ unchecked' = unchecked \cup {k}
    /\ UNCHANGED <<latest, alerts, activeKey, pass, toSend, channel, notice, dropped>>

CreateAlertRule(r, k, threshold) ==
    /\ rules[r] = NoRule
    /\ SetRule(r, [key |-> k, threshold |-> threshold, enabled |-> TRUE], k)

UpdateAlertRule(r, threshold, enabled) ==
    /\ rules[r] # NoRule
    /\ SetRule(r, [rules[r] EXCEPT !.threshold = threshold, !.enabled = enabled], rules[r].key)

DeleteAlertRule(r) == rules[r] # NoRule /\ SetRule(r, NoRule, rules[r].key)

AcknowledgeAndForget(a) ==
    /\ Unlocked /\ a \in 1..Len(alerts) /\ alerts[a].status = "active"
    /\ alerts' = [alerts EXCEPT ![a].status = "acknowledged"]
    /\ activeKey' = [activeKey EXCEPT ![alerts[a].key] = 0]
    /\ UNCHANGED <<latest, rules, pass, toSend, channel, notice, dropped, unchecked>>

\* An acknowledged alert keeps its key: it is updated and resolved, not opened again.
AcknowledgeAlert(a) ==
    /\ Unlocked /\ a \in 1..Len(alerts) /\ alerts[a].status = "active"
    /\ alerts' = [alerts EXCEPT ![a].status = "acknowledged"]
    /\ UNCHANGED <<latest, rules, activeKey, pass, toSend, channel, notice, dropped,
                   unchecked>>

-----------------------------------------------------------------------------
(* A pass of CheckAlerts. *)

\* Bound: a pass begins while there are numbers for the alerts it may open.
CheckAlerts ==
    /\ Unlocked
    /\ Len(alerts) + Cardinality(Rule) <= MaxAlerts
    /\ pass' = {r \in Rule : rules[r] # NoRule /\ rules[r].enabled}
    /\ unchecked' = {}
    /\ UNCHANGED <<latest, rules, alerts, activeKey, toSend, channel, notice, dropped>>

Fires(r) == latest[rules[r].key] >= rules[r].threshold
Current(r) == activeKey[rules[r].key]

UpdateAlert(r) ==
    /\ Fires(r) /\ Current(r) # 0
    /\ alerts' = [alerts EXCEPT ![Current(r)].value = latest[rules[r].key]]
    /\ UNCHANGED <<activeKey, toSend, notice>>

\* The notifications of the new alert are stored at once, and sent one by one.
CreateAlert(r) ==
    /\ Fires(r) /\ Current(r) = 0
    /\ LET k == rules[r].key
           new == {Len(alerts) + 1} \X Method
       IN /\ alerts' = Append(alerts, [key |-> k, status |-> "active", value |-> latest[k]])
          /\ activeKey' = [activeKey EXCEPT ![k] = Len(alerts) + 1]
          /\ toSend' = new
          /\ notice' = [n \in Notification |-> IF n \in new THEN "pending" ELSE notice[n]]

ForgetAlert(r) ==
    /\ ~Fires(r) /\ Current(r) # 0
    /\ activeKey' = [activeKey EXCEPT ![rules[r].key] = 0]
    /\ UNCHANGED <<alerts, toSend, notice>>

ResolveAlert(r) ==
    /\ ~Fires(r) /\ Current(r) # 0
    /\ alerts' = [alerts EXCEPT ![Current(r)].status = "resolved"]
    /\ activeKey' = [activeKey EXCEPT ![rules[r].key] = 0]
    /\ UNCHANGED <<toSend, notice>>

NothingToDo(r) ==
    /\ ~Fires(r) /\ Current(r) = 0
    /\ UNCHANGED <<alerts, activeKey, toSend, notice>>

CheckRule(r) ==
    /\ toSend = {} /\ r \in pass
    /\ pass' = pass \ {r}
    /\ CreateAlert(r) \/ UpdateAlert(r) \/ ResolveAlert(r) \/ NothingToDo(r)
    /\ UNCHANGED <<latest, rules, channel, dropped, unchecked>>

\* The send does not wait: a notification for which there is no room stays
\* pending for ever.
SendAlertNotification(n) ==
    /\ n \in toSend
    /\ toSend' = toSend \ {n}
    /\ IF Len(channel) < AlertQueue
       THEN channel' = Append(channel, n) /\ UNCHANGED dropped
       ELSE dropped' = dropped \cup {n} /\ UNCHANGED channel
    /\ UNCHANGED <<latest, rules, alerts, activeKey, pass, notice, unchecked>>

-----------------------------------------------------------------------------
(* The worker. `inHand' needs no variable: the notification that the worker  *)
(* has taken is the pending one that is nowhere else.                        *)

InHand == {n \in Notification : /\ notice[n] = "pending"
                                /\ n \notin toSend \cup dropped
                                /\ \A i \in DOMAIN channel : channel[i] # n}

NotificationWorker ==
    /\ InHand = {} /\ channel # <<>>
    /\ channel' = Tail(channel)
    /\ UNCHANGED <<latest, rules, alerts, activeKey, pass, toSend, notice, dropped,
                   unchecked>>

LeaveUnknownPending(n) ==
    /\ Unlocked /\ n \in InHand /\ n[2] = "web"
    /\ notice' = [notice EXCEPT ![n] = "sent"]
    /\ UNCHANGED <<latest, rules, alerts, activeKey, pass, toSend, channel, dropped,
                   unchecked>>

\* A method that nobody implements fails.
ProcessNotification(n) ==
    /\ Unlocked /\ n \in InHand
    /\ notice' = [notice EXCEPT ![n] = IF n[2] = "web" THEN "sent" ELSE "failed"]
    /\ UNCHANGED <<latest, rules, alerts, activeKey, pass, toSend, channel, dropped,
                   unchecked>>

AlertsNext ==
    \/ \E sample \in Samples : CollectMetrics(sample)
    \/ \E r \in Rule, k \in Key, threshold \in 1..TopLevel : CreateAlertRule(r, k, threshold)
    \/ \E r \in Rule, threshold \in 1..TopLevel, enabled \in BOOLEAN :
          UpdateAlertRule(r, threshold, enabled)
    \/ \E r \in Rule : DeleteAlertRule(r)
    \/ \E a \in 1..MaxAlerts : AcknowledgeAlert(a)
    \/ CheckAlerts
    \/ \E r \in Rule : CheckRule(r)
    \/ \E n \in Notification : SendAlertNotification(n)
    \/ NotificationWorker
    \/ \E n \in Notification : ProcessNotification(n)

PassStep == (\E r \in Rule : CheckRule(r)) \/ (\E n \in Notification : SendAlertNotification(n))

\* Goroutines are scheduled, and a mutex is given to whoever waits for it.
AlertsFairness ==
    /\ WF_alertVars(PassStep)
    /\ WF_alertVars(NotificationWorker)
    /\ SF_alertVars(\E n \in Notification : ProcessNotification(n))

-----------------------------------------------------------------------------
(* Properties. *)

Unresolved == {a \in 1..Len(alerts) : alerts[a].status # "resolved"}

\* There is at most one unresolved alert for a key, and activeAlertKeys finds it,
\* whoever acknowledges and whatever is done to the rules.
OneLiveAlert ==
    /\ \A a \in Unresolved : activeKey[alerts[a].key] = a
    /\ \A k \in Key : activeKey[k] # 0 => activeKey[k] \in Unresolved

\* After a pass an alert is open for a key exactly if its rule fires on the latest
\* sample, and shows that sample: where one rule has the key, and neither it nor the
\* sample has changed since. (Two rules with one key open and resolve its alert in turn.)
AlertFollowsSample ==
    Unlocked => \A r \in Rule :
        \/ rules[r] = NoRule \/ ~rules[r].enabled \/ rules[r].key \in unchecked
        \/ \E s \in Rule \ {r} : rules[s] # NoRule /\ rules[s].key = rules[r].key
        \/ LET k == rules[r].key
           IN IF latest[k] >= rules[r].threshold
              THEN activeKey[k] # 0 /\ alerts[activeKey[k]].value = latest[k]
              ELSE activeKey[k] = 0
=============================================================================
