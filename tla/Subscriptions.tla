--------------------------- MODULE Subscriptions ---------------------------
(***************************************************************************)
(* BillingService of the core service, for one user: the subscription, the *)
(* plan it is for, and the quota the plan sets.  One resource stands for   *)
(* the four that have quotas, since each has a row of its own that is      *)
(* written in the same way.  As in Payments every database call is a step. *)
(***************************************************************************)
EXTENDS Integers, FiniteSets, FiniteSetsExt

CONSTANTS Subscription,  \* ids, ordered as the database orders its keys
          Client,        \* requests of the user that are served at once
          PlanLimit,     \* the limits that plans set, but for the unlimited plan's
          MaxFree        \* bound: uses let through without a limit, between two resets

ASSUME SubscriptionAssumption == Subscription \subseteq Nat /\ IsFiniteSet(Subscription)
ASSUME ClientAssumption == IsFiniteSet(Client) /\ Client # {}
ASSUME PlanAssumption ==
    PlanLimit \subseteq Nat /\ IsFiniteSet(PlanLimit) /\ PlanLimit # {} /\ MaxFree \in Nat

VARIABLES subscriptions,  \* rows of the subscriptions table
          quota,          \* the row of the quotas table
          request,        \* where each request is, and what it has read
          asked,          \* history: the plan asked for last, and if it was a change of plan
          raced,          \* history: two requests of the user have overlapped
          broken          \* history: a request failed between two of its writes

subscriptionVars == <<subscriptions, quota, request, asked, raced, broken>>

\* A plan is known by the limit it sets: -1 for none.  NoPlan is in the place of
\* the limit of a row that does not exist.
Unlimited == -1
Plan == PlanLimit \cup {Unlimited}
NoPlan == -2

\* `free' is auxiliary: what of the use was let through without a limit.
QuotaRow == [limit : Plan \cup {NoPlan}, used : Nat, free : Nat]

SubscriptionRow == [status : {"none", "active", "canceled"}, plan : Plan \cup {NoPlan},
                    cancelAtPeriodEnd : BOOLEAN]
Absent == [status |-> "none", plan |-> NoPlan, cancelAtPeriodEnd |-> FALSE]

RequestPlace == {"idle", "insert", "cancel", "change", "quotas", "use"}

\* `plan' is the plan whose quotas are to be set; `free' that no limit was met.
RequestRow == [at : RequestPlace, id : Subscription \cup {0}, row : SubscriptionRow,
               plan : Plan \cup {NoPlan}, free : BOOLEAN]

Waiting == [at |-> "idle", id |-> 0, row |-> Absent, plan |-> NoPlan, free |-> FALSE]

SubscriptionsTypeOK ==
    /\ subscriptions \in [Subscription -> SubscriptionRow]
    /\ quota \in QuotaRow
    /\ request \in [Client -> RequestRow]
    /\ asked \in [plan : Plan \cup {NoPlan}, changed : BOOLEAN]
    /\ raced \in BOOLEAN /\ broken \in BOOLEAN

SubscriptionsInit ==
    /\ subscriptions = [s \in Subscription |-> Absent]
    /\ quota = [limit |-> NoPlan, used |-> 0, free |-> 0]
    /\ request = [c \in Client |-> Waiting]
    /\ asked = [plan |-> NoPlan, changed |-> FALSE]
    /\ raced = FALSE /\ broken = FALSE

-----------------------------------------------------------------------------

Active == {s \in Subscription : subscriptions[s].status = "active"}

\* GetSubscription: the first active row in the order of the primary key, with
\* the plan it names.
GetSubscription == Min(Active)

Begin(c, r) ==
    /\ request[c].at = "idle"
    /\ request' = [request EXCEPT ![c] = r]
    /\ raced' = (raced \/ \E d \in Client : request[d].at # "idle")
    /\ UNCHANGED <<subscriptions, quota, asked, broken>>

BeginWith(c, place, id) ==
    Begin(c, [Waiting EXCEPT !.at = place, !.id = id, !.row = subscriptions[id]])

SaveSubscription(c, row, next) ==
    /\ subscriptions' = [subscriptions EXCEPT ![request[c].id] = row]
    /\ request' = [request EXCEPT ![c] = next]
    /\ UNCHANGED <<quota, raced, broken>>

ThenQuotas(plan) == [Waiting EXCEPT !.at = "quotas", !.plan = plan]

\* CreateSubscription: no active subscription may exist when it looks.
RequestSubscription(c, s, plan) ==
    /\ Active = {} /\ subscriptions[s].status = "none"
    /\ LET row == [status |-> "active", plan |-> plan, cancelAtPeriodEnd |-> FALSE]
       IN Begin(c, [Waiting EXCEPT !.at = "insert", !.id = s, !.row = row])

CreateSubscription(c) ==
    /\ request[c].at = "insert"
    /\ subscriptions[request[c].id].status = "none"   \* its id is new
    /\ SaveSubscription(c, request[c].row, ThenQuotas(request[c].row.plan))
    /\ asked' = [plan |-> request[c].row.plan, changed |-> FALSE]

\* CancelSubscription reads the row and saves all of it.
RequestCancel(c) == Active # {} /\ BeginWith(c, "cancel", GetSubscription)

CancelSubscription(c, immediate) ==
    /\ request[c].at = "cancel"
    /\ SaveSubscription(c,
         IF immediate THEN [request[c].row EXCEPT !.status = "canceled"]
         ELSE [request[c].row EXCEPT !.cancelAtPeriodEnd = TRUE], Waiting)
    /\ UNCHANGED asked

RequestChange(c) == Active # {} /\ BeginWith(c, "change", GetSubscription)

ChangePlanOnly(c, plan) ==
    /\ request[c].at = "change"
    /\ SaveSubscription(c, request[c].row, Waiting)
    /\ asked' = [plan |-> plan, changed |-> TRUE]

\* Only PlanID is set, and gorm, which saves a row's associations first, puts the
\* id of the Plan that was loaded with it back: the row keeps its plan, and the
\* quotas get the new one's limits.
ChangePlan(c, plan) ==
    /\ request[c].at = "change"
    /\ SaveSubscription(c, request[c].row, ThenQuotas(plan))
    /\ asked' = [plan |-> plan, changed |-> TRUE]

\* initializeQuotas, for a new subscription and for a changed plan: the row is
\* made, or its limit replaced and what has been used kept.
InitializeQuotas(c) ==
    /\ request[c].at = "quotas"
    /\ quota' = [quota EXCEPT !.limit = request[c].plan]
    /\ request' = [request EXCEPT ![c] = Waiting]
    /\ UNCHANGED <<subscriptions, asked, raced, broken>>

\* A database call fails and the request returns the error.
RequestFails(c) ==
    /\ request[c].at \notin {"idle", "use"}
    /\ request' = [request EXCEPT ![c] = Waiting]
    /\ broken' = (broken \/ request[c].at = "quotas")
    /\ UNCHANGED <<subscriptions, quota, asked, raced>>

-----------------------------------------------------------------------------
(* Using a quota: a check, and after it an increment by the database. *)

\* Without a row, or with -1 in it, there is no limit.
NoLimit == quota.limit \in {NoPlan, Unlimited}

HasQuota == NoLimit \/ quota.used + 1 <= quota.limit

CheckQuota(c) ==
    /\ HasQuota
    /\ NoLimit => quota.free < MaxFree
    /\ Begin(c, [Waiting EXCEPT !.at = "use", !.free = NoLimit])

\* Without a row there is nothing to increment.
IncrementQuotaUsage(c) ==
    /\ request[c].at = "use"
    /\ quota' = IF quota.limit = NoPlan THEN quota
                ELSE [quota EXCEPT !.used = @ + 1,
                                   !.free = IF request[c].free THEN @ + 1 ELSE @]
    /\ request' = [request EXCEPT ![c] = Waiting]
    /\ UNCHANGED <<subscriptions, asked, raced, broken>>

ResetMonthlyQuotas ==
    /\ quota.limit # NoPlan
    /\ quota' = [quota EXCEPT !.used = 0, !.free = 0]
    /\ UNCHANGED <<subscriptions, request, asked, raced, broken>>

SubscriptionsNext ==
    \/ \E c \in Client, s \in Subscription, plan \in Plan : RequestSubscription(c, s, plan)
    \/ \E c \in Client : CreateSubscription(c)
    \/ \E c \in Client : RequestCancel(c)
    \/ \E c \in Client, immediate \in BOOLEAN : CancelSubscription(c, immediate)
    \/ \E c \in Client : RequestChange(c)
    \/ \E c \in Client, plan \in Plan : ChangePlan(c, plan)
    \/ \E c \in Client : InitializeQuotas(c)
    \/ \E c \in Client : RequestFails(c)
    \/ \E c \in Client : CheckQuota(c)
    \/ \E c \in Client : IncrementQuotaUsage(c)
    \/ ResetMonthlyQuotas

SubscriptionsSpec == SubscriptionsInit /\ [][SubscriptionsNext]_subscriptionVars

-----------------------------------------------------------------------------
(* Properties. *)

\* Requests that are served one after another never give a user two active
\* subscriptions.  (Two that overlap can: the check and the insert are apart.)
OneActiveSubscription == Cardinality(Active) > 1 => raced

\* The quota is that of the plan the user asked for last, through any sequence of
\* subscribing, changing plans and cancelling, unless requests overlapped or one
\* broke off half way.  The row of the subscription has that plan too, until the
\* first change of plan, which does not reach it.
QuotaFollowsPlan ==
    (~raced /\ \A c \in Client : request[c].at = "idle") =>
        /\ ~broken => quota.limit = asked.plan
        /\ ~asked.changed => \A s \in Active : subscriptions[s].plan = asked.plan

\* However many requests check the quota before they use it, and whatever plans
\* are changed meanwhile, the largest limit is exceeded by fewer than there are
\* requests, what was let through without a limit apart.
QuotaOvershootBounded == quota.used - quota.free < Max(PlanLimit) + Cardinality(Client)

=============================================================================
