---------------------------- MODULE GatewayProxy ----------------------------
(***************************************************************************)
(* The gateway's path to one backend service: the request counter of the   *)
(* logging middleware, the circuit breaker in the service registry, and    *)
(* proxy_request, which asks the breaker, sends the request without any    *)
(* lock and reports the outcome to whatever state the breaker is in by     *)
(* then.  Services do not share a breaker.                                 *)
(*                                                                         *)
(* failure_count is kept up to failure_threshold: beyond it the code never *)
(* reads the number before it is reset.  Times are ages; last_failure      *)
(* stops growing at the breaker's timeout.  `probe' is auxiliary: the      *)
(* request was sent to test the service since the breaker last opened.     *)
(***************************************************************************)
EXTENDS Integers, FiniteSets

CONSTANTS
    Requests,          \* client requests that can be in the gateway at once
    FailureThreshold,  \* CircuitBreaker.failure_threshold
    SuccessThreshold,  \* CircuitBreaker.success_threshold
    Timeout,           \* CircuitBreaker.timeout
    RequestTimeout,    \* server.request_timeout_secs, of the HTTP client
    MaxLeaked          \* bound: clients that give up

ASSUME GatewayAssumption ==
    /\ IsFiniteSet(Requests)
    /\ FailureThreshold \in Nat \ {0}
    /\ SuccessThreshold \in Nat \ {0}
    /\ Timeout \in Nat \ {0}
    /\ RequestTimeout \in Nat \ {0}
    /\ MaxLeaked \in Nat

NoFailure == -1

VARIABLES
    state, failure_count, success_count, last_failure,  \* the CircuitBreaker
    inFlight,  \* requests inside request.send()
    age,       \* how long each of them has been
    probe,     \* auxiliary, see above
    doomed,    \* requests in flight when the service went down
    active,    \* Metrics.active_requests
    up         \* the service answers

breaker == <<state, failure_count, success_count, last_failure>>
proxyVars == <<state, failure_count, success_count, last_failure,
          inFlight, age, probe, doomed, active, up>>

ProxyTypeOK ==
    /\ state \in {"Closed", "Open", "HalfOpen"}
    /\ failure_count \in 0 .. FailureThreshold
    /\ success_count \in 0 .. SuccessThreshold - 1
    /\ last_failure \in {NoFailure} \union (0 .. Timeout)
    /\ inFlight \in SUBSET Requests
    /\ age \in [Requests -> 0 .. RequestTimeout]
    /\ probe \in SUBSET inFlight
    /\ doomed \in SUBSET inFlight
    /\ active \in 0 .. Cardinality(Requests) + MaxLeaked
    /\ up \in BOOLEAN

ProxyInit ==
    /\ state = "Closed"
    /\ failure_count = 0
    /\ success_count = 0
    /\ last_failure = NoFailure
    /\ inFlight = {}
    /\ age = [r \in Requests |-> 0]
    /\ probe = {}
    /\ doomed = {}
    /\ active = 0
    /\ up = TRUE

-----------------------------------------------------------------------------
(* CircuitBreaker *)

\* allow_request returns true; an open circuit whose timeout has passed becomes
\* half-open.
AllowRequest ==
    IF state = "Open" /\ last_failure # NoFailure
    THEN /\ last_failure >= Timeout
         /\ state' = "HalfOpen"
         /\ success_count' = 0
         /\ UNCHANGED <<failure_count, last_failure>>
    ELSE UNCHANGED breaker

\* Mutant: every success starts the count of successes again.
RecordSuccessRestarting ==
    /\ failure_count' = 0
    /\ success_count' = 0
    /\ UNCHANGED <<state, last_failure>>

RecordSuccess ==
    \/ /\ state = "Closed"
       /\ failure_count' = 0
       /\ UNCHANGED <<state, success_count, last_failure>>
    \/ /\ state = "HalfOpen"
       /\ IF success_count + 1 >= SuccessThreshold
          THEN state' = "Closed" /\ failure_count' = 0 /\ success_count' = 0
          ELSE /\ success_count' = success_count + 1
               /\ UNCHANGED <<state, failure_count>>
       /\ UNCHANGED last_failure
    \/ state = "Open" /\ UNCHANGED breaker

CountFailure ==
    failure_count' = IF failure_count < FailureThreshold
                     THEN failure_count + 1 ELSE FailureThreshold

\* Mutant: the time of the first failure is kept.
RecordFailureKeepingTime ==
    /\ CountFailure
    /\ last_failure' = IF last_failure = NoFailure THEN 0 ELSE last_failure
    /\ state' = IF state = "Closed" /\ failure_count' < FailureThreshold
                THEN "Closed" ELSE "Open"
    /\ UNCHANGED success_count

RecordFailure ==
    /\ CountFailure
    /\ last_failure' = 0
    /\ state' = IF state = "Closed" /\ failure_count' < FailureThreshold
                THEN "Closed" ELSE "Open"
    /\ UNCHANGED success_count

-----------------------------------------------------------------------------
(* The request path *)

\* Mutant: the gauge is not taken back.
CompleteRequestLeaking(r) ==
    /\ inFlight' = inFlight \ {r}
    /\ doomed' = doomed \ {r}
    /\ active' = active

\* The middleware resumes after the response: complete_request.
CompleteRequest(r) ==
    /\ inFlight' = inFlight \ {r}
    /\ doomed' = doomed \ {r}
    /\ active' = active - 1

\* request_logging counts the request and get_instance admits it.  A request
\* the breaker refuses is counted and uncounted without any other effect.
Send(r) ==
    /\ r \notin inFlight
    /\ AllowRequest
    /\ inFlight' = inFlight \union {r}
    /\ age' = [age EXCEPT ![r] = 0]
    /\ probe' = IF state = "Closed" THEN probe ELSE probe \union {r}
    /\ doomed' = IF up THEN doomed ELSE doomed \union {r}
    /\ active' = active + 1
    /\ UNCHANGED up

\* Any HTTP response counts as a success, whatever its status.
Succeed(r) ==
    /\ r \in inFlight
    /\ up
    /\ RecordSuccess
    /\ CompleteRequest(r)
    /\ probe' = probe \ {r}
    /\ UNCHANGED <<age, up>>

\* Connection errors and timeouts.
Fail(r) ==
    /\ r \in doomed
    /\ RecordFailure
    /\ CompleteRequest(r)
    /\ probe' = IF state' = "Open" THEN {} ELSE probe \ {r}
    /\ UNCHANGED <<age, up>>

\* The client disconnects: the server drops the handler's future inside
\* send().await, so that neither the breaker nor the metrics hear of it.
GiveUp(r) ==
    /\ r \in inFlight
    /\ active - Cardinality(inFlight) < MaxLeaked
    /\ inFlight' = inFlight \ {r}
    /\ probe' = probe \ {r}
    /\ doomed' = doomed \ {r}
    /\ UNCHANGED <<breaker, age, active, up>>

\* The service goes down, or gets too slow, and comes back.
GoDown ==
    /\ up
    /\ up' = FALSE
    /\ doomed' = inFlight
    /\ UNCHANGED <<breaker, inFlight, age, probe, active>>

ComeUp ==
    /\ ~up
    /\ up' = TRUE
    /\ UNCHANGED <<breaker, inFlight, age, probe, doomed, active>>

\* The HTTP client's timeout answers every request in time.
Tick ==
    /\ \A r \in inFlight : age[r] < RequestTimeout
    /\ age' = [r \in Requests |-> IF r \in inFlight THEN age[r] + 1 ELSE 0]
    /\ last_failure' = IF last_failure = NoFailure \/ last_failure = Timeout
                       THEN last_failure ELSE last_failure + 1
    /\ UNCHANGED <<state, failure_count, success_count,
                   inFlight, probe, doomed, active, up>>

ProxyNext ==
    \/ Tick
    \/ GoDown
    \/ ComeUp
    \/ \E r \in Requests : Send(r) \/ Succeed(r) \/ Fail(r) \/ GiveUp(r)

ProxySpec == ProxyInit /\ [][ProxyNext]_proxyVars

\* Time passes and requests are answered, the latter again and again while
\* clients come back after giving up; clients keep coming.
ProxyFairness ==
    /\ WF_proxyVars(Tick)
    /\ \A r \in Requests :
          /\ WF_proxyVars(Send(r))
          /\ SF_proxyVars(Succeed(r))
          /\ WF_proxyVars(Fail(r))

ProxyFairSpec == ProxySpec /\ ProxyFairness

-----------------------------------------------------------------------------
\* The branch of allow_request for an open circuit without a last failure,
\* which lets everything through, is never taken; a closed circuit has room for
\* another failure, and a half-open one has seen no failure since it was opened.
BreakerConsistent ==
    /\ state = "Open" => last_failure # NoFailure
    /\ state = "Closed" => failure_count < FailureThreshold
    /\ state = "HalfOpen" => last_failure = Timeout

\* discovery.rs: "Circuit is half-open, testing if service recovered".  What a
\* half-open circuit waits for are requests sent to test the service.  One from
\* before it opened that is still in flight has been so for the breaker's whole
\* timeout: with both timeouts at 30 s, as the gateway sets them, the HTTP client
\* is giving it up at this very instant, and only then can its answer count.
HalfOpenAwaitsProbes ==
    state = "HalfOpen" => \A r \in inFlight \ probe : age[r] >= Timeout

\* Once the service is up for good, the circuit closes for good.
Recovers == <>[]up => <>[](state = "Closed")
=============================================================================
