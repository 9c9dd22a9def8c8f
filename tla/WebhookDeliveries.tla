-------------------------- MODULE WebhookDeliveries --------------------------
(***************************************************************************)
(* WebhookService of the core service delivering one event.  TriggerEvent  *)
(* inserts a delivery for each webhook and starts a goroutine for it; the  *)
(* goroutine gets the address of the variable of the loop, which all of    *)
(* them share (the module is built as Go 1.21), and keeps a copy of the    *)
(* delivery, which it saves as a whole and without looking at the error of *)
(* the save.  The copy has the number of attempts, and its status is set   *)
(* before every save; of the row only the status is ever looked at.  The   *)
(* user can retry a delivery while it is still under way.  A crash loses   *)
(* the goroutines.                                                         *)
(***************************************************************************)
EXTENDS Naturals, FiniteSets

CONSTANTS Hooks,      \* webhooks 1..Hooks subscribe to the event, in this order
          MaxRetries, \* of the retry configuration of the webhooks
          MaxByUser   \* bound: deliveries that the user retries

ASSUME HooksAssumption == Hooks \in Nat \ {0} /\ MaxRetries \in Nat /\ MaxByUser \in Nat

Hook == 1..Hooks

VARIABLES loop,       \* the webhook in the variable of the loop; 0 before it
          inserted,   \* the delivery of this webhook has been inserted, its goroutine not started
          deliveries, \* status in the webhook_deliveries table, one for each webhook
          sender,     \* the goroutines, the first and the one of a retry, and their attempts
          accepted,   \* history: for each delivery, the webhooks that answered it with 2xx
          retried,    \* history: deliveries that the user retried
          unsaved,    \* history: deliveries with an outcome that was not saved
          crashed     \* history: the process went down

webhookVars == <<loop, inserted, deliveries, sender, accepted, retried, unsaved, crashed>>

Status == {"none", "pending", "retrying", "success", "failed"}
Final == {"success", "failed"}
Run == Hook \X {"first", "retry"}
Sender == [at : {"off", "begin", "send", "succeed", "fail"}, attempts : 0..(MaxRetries + 1)]

\* A goroutine's webhook: the variable of the loop for the first ones, a
\* variable of its own for a retry.
Target(r) == IF r[2] = "first" THEN loop ELSE r[1]

WebhooksTypeOK ==
    /\ loop \in 0..Hooks /\ inserted \in BOOLEAN
    /\ deliveries \in [Hook -> Status]
    /\ sender \in [Run -> Sender]
    /\ accepted \in [Hook -> SUBSET Hook]
    /\ retried \subseteq Hook /\ unsaved \subseteq Hook /\ crashed \in BOOLEAN

Off == [at |-> "off", attempts |-> 0]
Beginning == [at |-> "begin", attempts |-> 0]

WebhooksInit ==
    /\ loop = 0 /\ inserted = FALSE
    /\ deliveries = [w \in Hook |-> "none"]
    /\ sender = [r \in Run |-> Off]
    /\ accepted = [w \in Hook |-> {}]
    /\ retried = {} /\ unsaved = {} /\ crashed = FALSE

-----------------------------------------------------------------------------
(* The loop of TriggerEvent. *)

\* The next webhook is copied into the variable and its delivery inserted; the
\* loop goes on when that fails.
TriggerEvent(stored) ==
    /\ ~crashed /\ ~inserted /\ loop < Hooks
    /\ loop' = loop + 1
    /\ inserted' = stored
    /\ deliveries' = IF stored THEN [deliveries EXCEPT ![loop + 1] = "pending"] ELSE deliveries
    /\ UNCHANGED <<sender, accepted, retried, unsaved, crashed>>

StartDelivery ==
    /\ ~crashed /\ inserted
    /\ sender' = [sender EXCEPT ![<<loop, "first">>] = Beginning]
    /\ inserted' = FALSE
    /\ UNCHANGED <<loop, deliveries, accepted, retried, unsaved, crashed>>

-----------------------------------------------------------------------------
(* deliverWebhook. *)

\* Whether the row was written or not, the goroutine goes on.
Save(w, status, written) ==
    deliveries' = IF written THEN [deliveries EXCEPT ![w] = status] ELSE deliveries

\* An attempt begins: the delivery is saved as being retried.
BeginAttempt(r) ==
    /\ ~crashed /\ sender[r].at = "begin"
    /\ \E written \in BOOLEAN : Save(r[1], "retrying", written)
    /\ sender' = [sender EXCEPT ![r] = [at |-> "send", attempts |-> @.attempts + 1]]
    /\ UNCHANGED <<loop, inserted, accepted, retried, unsaved, crashed>>

\* The webhook answers with 2xx, or does not.
SendAccepted(r) ==
    /\ ~crashed /\ sender[r].at = "send"
    /\ accepted' = [accepted EXCEPT ![r[1]] = @ \cup {Target(r)}]
    /\ sender' = [sender EXCEPT ![r].at = "succeed"]
    /\ UNCHANGED <<loop, inserted, deliveries, retried, unsaved, crashed>>

SendRefusedForEver(r) ==
    /\ ~crashed /\ sender[r].at = "send"
    /\ sender' = [sender EXCEPT ![r].at = "begin",
                                ![r].attempts = IF @ <= MaxRetries THEN @ ELSE 0]
    /\ UNCHANGED <<loop, inserted, deliveries, accepted, retried, unsaved, crashed>>

\* After the last attempt the delivery has failed.
SendRefused(r) ==
    /\ ~crashed /\ sender[r].at = "send"
    /\ sender' = [sender EXCEPT ![r].at = IF sender[r].attempts <= MaxRetries
                                          THEN "begin" ELSE "fail"]
    /\ UNCHANGED <<loop, inserted, deliveries, accepted, retried, unsaved, crashed>>

RecordAs(r, place, status) ==
    /\ ~crashed /\ sender[r].at = place
    /\ \E written \in BOOLEAN :
          /\ Save(r[1], status, written)
          /\ unsaved' = IF written THEN unsaved ELSE unsaved \cup {r[1]}
    /\ sender' = [sender EXCEPT ![r] = Off]
    /\ UNCHANGED <<loop, inserted, accepted, retried, crashed>>

RecordOutcomeMixedUp(r) == RecordAs(r, "fail", "success") \/ RecordAs(r, "succeed", "failed")

RecordOutcome(r) == RecordAs(r, "succeed", "success") \/ RecordAs(r, "fail", "failed")

-----------------------------------------------------------------------------
(* The user retries; the process goes down. *)

\* RetryDelivery does not look at the status.  Bound: once for each delivery, and
\* MaxByUser of them.
RetryDelivery(w) ==
    /\ deliveries[w] # "none" /\ w \notin retried /\ ~crashed
    /\ Cardinality(retried) < MaxByUser
    /\ \E written \in BOOLEAN : Save(w, "pending", written)
    /\ sender' = [sender EXCEPT ![<<w, "retry">>] = Beginning]
    /\ retried' = retried \cup {w}
    /\ UNCHANGED <<loop, inserted, accepted, unsaved, crashed>>

\* After a restart processRetries looks for deliveries whose next retry is due.
\* Nothing sets that time, so it finds none and nothing happens any more.
Crash ==
    /\ ~crashed
    /\ crashed' = TRUE
    /\ inserted' = FALSE
    /\ sender' = [r \in Run |-> Off]
    /\ UNCHANGED <<loop, deliveries, accepted, retried, unsaved>>

WebhooksNext ==
    \/ \E stored \in BOOLEAN : TriggerEvent(stored)
    \/ StartDelivery
    \/ \E r \in Run : BeginAttempt(r)
    \/ \E r \in Run : SendAccepted(r)
    \/ \E r \in Run : SendRefused(r)
    \/ \E r \in Run : RecordOutcome(r)
    \/ \E w \in Hook : RetryDelivery(w)
    \/ Crash

\* Goroutines run; requests end, by a timeout at the latest.  A goroutine can do
\* one thing at a time.
WebhooksFairness ==
    /\ WF_webhookVars(StartDelivery)
    /\ \A r \in Run :
           WF_webhookVars(BeginAttempt(r) \/ SendAccepted(r) \/ SendRefused(r) \/ RecordOutcome(r))

WebhooksSpec == WebhooksInit /\ [][WebhooksNext]_webhookVars /\ WebhooksFairness

-----------------------------------------------------------------------------
(* Properties. *)

\* A delivery that is recorded as a success was accepted by a webhook, whatever
\* goroutines save the row, each with its own copy, and whichever saves are lost; and
\* one that was accepted and is recorded as failed was retried by the user while it
\* was under way.
OutcomeIsTrue ==
    \A w \in Hook :
        /\ deliveries[w] = "success" => accepted[w] # {}
        /\ deliveries[w] = "failed" /\ accepted[w] # {} => w \in retried

\* Every delivery ends as a success or a failure, after at most one attempt
\* more than the configured retries, unless the process goes down or the save of the
\* outcome itself fails: one that is lost before costs nothing.
DeliveriesEnd ==
    \A w \in Hook :
        deliveries[w] = "pending"
            ~> (deliveries[w] \in Final \/ w \in unsaved \/ crashed)

=============================================================================
