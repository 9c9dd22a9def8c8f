---------------------------- MODULE GatewayProofs ----------------------------
(***************************************************************************)
(* What holds of the gateway for every threshold, timeout, limit and       *)
(* window and any number of requests: of its circuit breaker, and of its   *)
(* rate limiter.  Nothing is shared between them; what is proved of one    *)
(* holds of the gateway.                                                   *)
(***************************************************************************)
EXTENDS Gateway, FiniteSums

-----------------------------------------------------------------------------
(* The circuit breaker.  It is consistent for all thresholds, and half-open  *)
(* it hears from before it opened only of requests as old as its timeout.    *)
(* The invariant that carries the second result: while the circuit is open   *)
(* nothing is admitted, so every request in flight is at least as old as the *)
(* last failure; when the breaker's timeout has passed since then, it has    *)
(* passed for each of them.                                                  *)

Counted ==
    /\ active >= Cardinality(inFlight)
    /\ active - Cardinality(inFlight) <= MaxLeaked

OlderThanFailure ==
    state = "Open" => \A r \in inFlight : age[r] >= last_failure

ProxyInv == ProxyTypeOK /\ BreakerConsistent /\ Counted

ProbesInv == ProxyInv /\ OlderThanFailure /\ HalfOpenAwaitsProbes

LEMMA Counting ==
    ASSUME NEW S \in SUBSET Requests
    PROVE  /\ IsFiniteSet(S)
           /\ Cardinality(S) \in Nat
           /\ Cardinality(S) <= Cardinality(Requests)
           /\ Cardinality(Requests) \in Nat
  BY GatewayAssumption, FS_Subset, FS_CardinalityType

LEMMA Leaving ==
    ASSUME ProxyInv, NEW r \in inFlight,
           inFlight' = inFlight \ {r}
    PROVE  Cardinality(inFlight') = Cardinality(inFlight) - 1
  BY Counting, FS_RemoveElement DEF ProxyInv, ProxyTypeOK

LEMMA Entering ==
    ASSUME ProxyInv, NEW r \in Requests, r \notin inFlight,
           inFlight' = inFlight \union {r}
    PROVE  Cardinality(inFlight') = Cardinality(inFlight) + 1
  BY Counting, FS_AddElement DEF ProxyInv, ProxyTypeOK

\* The gauge and its bound follow the set of requests in flight.
LEMMA GaugeOnCompletion ==
    ASSUME ProxyInv, NEW r \in inFlight, CompleteRequest(r)
    PROVE  Counted' /\ active' \in 0 .. Cardinality(Requests) + MaxLeaked
<1>1. active \in Int /\ Cardinality(inFlight) \in Nat /\ Cardinality(Requests) \in Nat
  BY Counting DEF ProxyInv, ProxyTypeOK
<1>2. active' = active - 1 /\ inFlight' = inFlight \ {r}
  BY DEF CompleteRequest
<1>3. Cardinality(inFlight') = Cardinality(inFlight) - 1
  BY <1>1, <1>2, Leaving
<1>4. Cardinality(inFlight') \in Nat
  BY <1>2, Counting DEF ProxyInv, ProxyTypeOK
<1> QED
  BY <1>1, <1>2, <1>3, <1>4, GatewayAssumption DEF ProxyInv, Counted, ProxyTypeOK

LEMMA ProxyStart == ProxyInit => ProbesInv
<1> SUFFICES ASSUME ProxyInit PROVE ProbesInv
  OBVIOUS
<1>1. Cardinality(inFlight) = 0 /\ Cardinality(Requests) \in Nat
  BY FS_EmptySet, GatewayAssumption, FS_CardinalityType DEF ProxyInit
<1>2. ProxyTypeOK
  BY <1>1, GatewayAssumption DEF ProxyInit, ProxyTypeOK, NoFailure
<1> QED
  BY <1>1, <1>2, GatewayAssumption
     DEF ProxyInit, ProbesInv, ProxyInv, BreakerConsistent, Counted, OlderThanFailure,
         HalfOpenAwaitsProbes

LEMMA SendStep ==
    ASSUME ProxyInv, NEW r \in Requests, Send(r)
    PROVE  ProxyInv'
<1>1. /\ state' \in {"Closed", "Open", "HalfOpen"}
      /\ failure_count' = failure_count
      /\ last_failure' = last_failure
      /\ success_count' \in 0 .. SuccessThreshold - 1
  BY GatewayAssumption DEF Send, AllowRequest, breaker, ProxyInv, ProxyTypeOK
<1>2. BreakerConsistent'
  BY <1>1, GatewayAssumption
     DEF Send, AllowRequest, breaker, ProxyInv, ProxyTypeOK, BreakerConsistent
<1>3. active \in Int /\ Cardinality(inFlight) \in Nat /\ Cardinality(Requests) \in Nat
  BY Counting DEF ProxyInv, ProxyTypeOK
<1>4. inFlight' = inFlight \union {r} /\ active' = active + 1 /\ inFlight' \subseteq Requests
  BY DEF Send, ProxyInv, ProxyTypeOK
<1>5. /\ Cardinality(inFlight') = Cardinality(inFlight) + 1
      /\ Cardinality(inFlight') <= Cardinality(Requests)
  BY <1>4, Entering, Counting DEF Send
<1>6. Counted'
  BY <1>3, <1>4, <1>5, GatewayAssumption DEF Counted, ProxyInv
<1>7. active' \in 0 .. Cardinality(Requests) + MaxLeaked
  BY <1>3, <1>4, <1>5, <1>6, GatewayAssumption DEF Counted, ProxyInv
<1>8. age' \in [Requests -> 0 .. RequestTimeout]
  BY GatewayAssumption DEF Send, ProxyInv, ProxyTypeOK
<1>9. probe' \subseteq inFlight' /\ doomed' \subseteq inFlight' /\ up' \in BOOLEAN
  BY <1>4 DEF Send, ProxyInv, ProxyTypeOK
<1>10. ProxyTypeOK'
  BY <1>1, <1>4, <1>7, <1>8, <1>9 DEF ProxyInv, ProxyTypeOK
<1> QED
  BY <1>2, <1>6, <1>10 DEF ProxyInv

LEMMA SucceedStep ==
    ASSUME ProxyInv, NEW r \in Requests, Succeed(r)
    PROVE  ProxyInv'
<1>1. /\ state' \in {"Closed", "Open", "HalfOpen"}
      /\ failure_count' \in 0 .. FailureThreshold
      /\ last_failure' = last_failure
      /\ success_count' \in 0 .. SuccessThreshold - 1
  BY GatewayAssumption DEF Succeed, RecordSuccess, breaker, ProxyInv, ProxyTypeOK
<1>2. BreakerConsistent'
  BY GatewayAssumption
     DEF Succeed, RecordSuccess, breaker, ProxyInv, ProxyTypeOK, BreakerConsistent
<1>3. Counted' /\ active' \in 0 .. Cardinality(Requests) + MaxLeaked
  BY GaugeOnCompletion DEF Succeed
<1>4. ProxyTypeOK'
  BY <1>1, <1>3 DEF Succeed, CompleteRequest, ProxyInv, ProxyTypeOK
<1> QED
  BY <1>2, <1>3, <1>4 DEF ProxyInv

LEMMA FailStep ==
    ASSUME ProxyInv, NEW r \in Requests, Fail(r)
    PROVE  ProxyInv'
<1>1. /\ state' \in {"Closed", "Open", "HalfOpen"}
      /\ failure_count' \in 0 .. FailureThreshold
      /\ last_failure' = 0
      /\ success_count' = success_count
  BY GatewayAssumption DEF Fail, RecordFailure, CountFailure, ProxyInv, ProxyTypeOK
<1>2. BreakerConsistent'
  BY <1>1 DEF Fail, RecordFailure, BreakerConsistent, NoFailure
<1>3. Counted' /\ active' \in 0 .. Cardinality(Requests) + MaxLeaked
  BY GaugeOnCompletion DEF Fail, ProxyInv, ProxyTypeOK
<1>4. probe' \subseteq inFlight' /\ doomed' \subseteq inFlight'
  BY DEF Fail, CompleteRequest, ProxyInv, ProxyTypeOK
<1>5. ProxyTypeOK'
  BY <1>1, <1>3, <1>4, GatewayAssumption DEF Fail, CompleteRequest, ProxyInv, ProxyTypeOK
<1> QED
  BY <1>2, <1>3, <1>5 DEF ProxyInv

LEMMA DisconnectStep ==
    ASSUME ProxyInv, NEW r \in Requests, GiveUp(r)
    PROVE  ProxyInv'
<1>1. active \in Int /\ Cardinality(inFlight) \in Nat /\ Cardinality(Requests) \in Nat
  BY Counting DEF ProxyInv, ProxyTypeOK
<1>2. /\ active' = active /\ inFlight' = inFlight \ {r} /\ r \in inFlight
      /\ active - Cardinality(inFlight) < MaxLeaked
  BY DEF GiveUp
<1>3. Cardinality(inFlight') = Cardinality(inFlight) - 1
  BY <1>1, <1>2, Leaving
<1>4. Counted'
  BY <1>1, <1>2, <1>3, GatewayAssumption DEF ProxyInv, Counted
<1>5. ProxyTypeOK'
  BY <1>2 DEF GiveUp, breaker, ProxyInv, ProxyTypeOK
<1>6. BreakerConsistent'
  BY DEF GiveUp, breaker, ProxyInv, BreakerConsistent
<1> QED
  BY <1>4, <1>5, <1>6 DEF ProxyInv

LEMMA TickStep ==
    ASSUME ProxyInv, Tick
    PROVE  ProxyInv'
<1>1. age' \in [Requests -> 0 .. RequestTimeout]
  BY GatewayAssumption DEF Tick, ProxyInv, ProxyTypeOK
<1>2. last_failure' \in {NoFailure} \union (0 .. Timeout)
  BY GatewayAssumption DEF Tick, ProxyInv, ProxyTypeOK, NoFailure
<1>3. ProxyTypeOK'
  BY <1>1, <1>2 DEF Tick, ProxyInv, ProxyTypeOK
<1>4. BreakerConsistent'
  BY GatewayAssumption DEF Tick, ProxyInv, ProxyTypeOK, BreakerConsistent, NoFailure
<1> QED
  BY <1>3, <1>4 DEF Tick, ProxyInv, Counted

LEMMA ServiceStep ==
    ASSUME ProxyInv, GoDown \/ ComeUp
    PROVE  ProxyInv'
  BY DEF GoDown, ComeUp, breaker, ProxyInv, ProxyTypeOK, BreakerConsistent, Counted

LEMMA StepInv ==
    ASSUME ProxyInv, [ProxyNext]_proxyVars
    PROVE  ProxyInv'
<1>1. CASE UNCHANGED proxyVars
  BY <1>1 DEF proxyVars, ProxyInv, ProxyTypeOK, BreakerConsistent, Counted
<1> QED
  BY <1>1, SendStep, SucceedStep, FailStep, DisconnectStep, TickStep, ServiceStep
     DEF ProxyNext

-----------------------------------------------------------------------------
(* Requests from before the circuit opened *)

LEMMA ProbeStep ==
    ASSUME ProbesInv, ProxyInv', [ProxyNext]_proxyVars
    PROVE  OlderThanFailure' /\ HalfOpenAwaitsProbes'
<1> USE GatewayAssumption DEF ProbesInv, OlderThanFailure, HalfOpenAwaitsProbes
<1>1. ASSUME NEW r \in Requests, Send(r)
      PROVE  OlderThanFailure' /\ HalfOpenAwaitsProbes'
  <2>1. CASE state = "Open"
    <3>1. last_failure >= Timeout /\ last_failure \in Int /\ state' = "HalfOpen"
      BY <1>1, <2>1 DEF Send, AllowRequest, ProxyInv, ProxyTypeOK, BreakerConsistent
    <3>2. \A q \in inFlight : age[q] >= Timeout
      BY <2>1, <3>1 DEF ProxyInv, ProxyTypeOK
    <3> QED
      BY <1>1, <2>1, <3>1, <3>2 DEF Send
  <2>2. CASE state # "Open"
    BY <1>1, <2>2 DEF Send, AllowRequest, breaker
  <2> QED
    BY <2>1, <2>2
<1>2. ASSUME NEW r \in Requests, Succeed(r)
      PROVE  OlderThanFailure' /\ HalfOpenAwaitsProbes'
  BY <1>2 DEF Succeed, RecordSuccess, breaker, CompleteRequest
<1>3. ASSUME NEW r \in Requests, Fail(r)
      PROVE  OlderThanFailure' /\ HalfOpenAwaitsProbes'
  BY <1>3 DEF Fail, RecordFailure, CompleteRequest, ProxyInv, ProxyTypeOK
<1>4. ASSUME NEW r \in Requests, GiveUp(r)
      PROVE  OlderThanFailure' /\ HalfOpenAwaitsProbes'
  BY <1>4 DEF GiveUp, breaker
<1>5. CASE Tick
  BY <1>5 DEF Tick, ProxyInv, ProxyTypeOK, BreakerConsistent, NoFailure
<1>6. CASE GoDown \/ ComeUp
  BY <1>6 DEF GoDown, ComeUp, breaker
<1>7. CASE UNCHANGED proxyVars
  BY <1>7 DEF proxyVars
<1> QED
  BY <1>1, <1>2, <1>3, <1>4, <1>5, <1>6, <1>7 DEF ProxyNext

LEMMA ProxyInvariance == ProxySpec => []ProxyInv
<1>1. ProxyInit => ProxyInv
  BY ProxyStart DEF ProbesInv
<1>2. ProxyInv /\ [ProxyNext]_proxyVars => ProxyInv'
  BY StepInv
<1> QED
  BY <1>1, <1>2, PTL DEF ProxySpec

\* The breaker's counters stay below their thresholds and the gauge of active
\* requests never goes below zero, where its unsigned counter would wrap.
THEOREM ProxyTyping == ProxySpec => []ProxyTypeOK
<1>1. ProxyInv => ProxyTypeOK
  BY DEF ProxyInv
<1> QED
  BY <1>1, ProxyInvariance, PTL

\* For all thresholds, allow_request never finds an open circuit without a last
\* failure, and record_failure never a closed one at its threshold.
THEOREM BreakerIsConsistent == ProxySpec => []BreakerConsistent
<1>1. ProxyInv => BreakerConsistent
  BY DEF ProxyInv
<1> QED
  BY <1>1, ProxyInvariance, PTL

\* For all timeouts, a request from before the circuit opened that a half-open
\* circuit still hears of has been in flight for the breaker's whole timeout.
THEOREM OldRequestsAreTimingOut == ProxySpec => []HalfOpenAwaitsProbes
<1>1. ProbesInv /\ [ProxyNext]_proxyVars => ProbesInv'
  <2> SUFFICES ASSUME ProbesInv, [ProxyNext]_proxyVars PROVE ProbesInv'
    OBVIOUS
  <2>1. ProxyInv'
    BY StepInv DEF ProbesInv
  <2> QED
    BY <2>1, ProbeStep DEF ProbesInv
<1>2. ProbesInv => HalfOpenAwaitsProbes
  BY DEF ProbesInv
<1> QED
  BY <1>1, <1>2, ProxyStart, PTL DEF ProxySpec

-----------------------------------------------------------------------------
(* The rate limiter.  What the script has counted is what it let through     *)
(* since the window began, and of what it let through before, at least one   *)
(* request is out of sight; the pipeline has let nothing through since the   *)
(* last request.  Both are about sums of the last instants.                  *)

\* What was let through at the last n + 1 instants.
UpTo(f, n) == SumFunctionOnSet(f, 0 .. n)

LEMMA Instants == \A n \in Nat : IsFiniteSet(0 .. n)
<1>1. \A a, b \in Int : IsFiniteSet(a .. b)
  BY FS_Interval
<1> QED
  BY <1>1

LEMMA OneInstantMore ==
    ASSUME NEW f, NEW n \in Nat, \A i \in 0 .. n + 1 : f[i] \in Int
    PROVE  UpTo(f, n + 1) = f[n + 1] + UpTo(f, n)
<1>1. PICK T : T = 0 .. n + 1
  OBVIOUS
<1>2. IsFiniteSet(T) /\ n + 1 \in T /\ \A i \in T : f[i] \in Int
  <2>1. n + 1 \in Nat
    OBVIOUS
  <2> QED
    BY <1>1, <2>1, Instants
<1>3. T \ {n + 1} = 0 .. n
  BY <1>1
<1>4. SumFunctionOnSet(f, T) = f[n + 1] + SumFunctionOnSet(f, T \ {n + 1})
  BY <1>2, SumWithout
<1> QED
  BY <1>1, <1>3, <1>4 DEF UpTo

LEMMA FirstInstant ==
    ASSUME NEW f, f[0] \in Int
    PROVE  UpTo(f, 0) = f[0]
<1>0. 0 .. 0 = {0} /\ {0} \ {0} = {}
  OBVIOUS
<1>1. IsFiniteSet({0}) /\ \A i \in {0} : f[i] \in Int
  BY FS_Singleton
<1>2. SumFunctionOnSet(f, {0}) = f[0] + SumFunctionOnSet(f, {0} \ {0})
  BY <1>1, SumWithout
<1> QED
  BY <1>0, <1>2, SumBegins DEF UpTo

\* What instants let through are naturals, and so is their sum, which none exceeds.
LEMMA UpToTyped ==
    ASSUME NEW f, NEW n \in Nat, \A i \in 0 .. n : f[i] \in Nat
    PROVE  /\ UpTo(f, n) \in Nat
           /\ \A i \in 0 .. n : f[i] <= UpTo(f, n)
<1>1. IsFiniteSet(0 .. n) /\ \A i \in 0 .. n : f[i] \in Int
  BY Instants
<1>2. UpTo(f, n) \in Int
  BY <1>1, SumTyped DEF UpTo
<1>3. ASSUME NEW i \in 0 .. n
      PROVE  f[i] <= UpTo(f, n)
  <2>1. {i} \in SUBSET (0 .. n)
    OBVIOUS
  <2>2. SumFunctionOnSet(f, {i}) <= SumFunctionOnSet(f, 0 .. n)
    BY <1>1, <2>1, SumBelow
  <2>3. SumFunctionOnSet(f, {i}) = f[i] + SumFunctionOnSet(f, {i} \ {i})
    BY <1>1, FS_Singleton, SumWithout
  <2>4. {i} \ {i} = {} /\ f[i] \in Int /\ SumFunctionOnSet(f, {}) = 0
    BY <1>1, SumBegins
  <2>5. SumFunctionOnSet(f, {i}) = f[i]
    BY <2>3, <2>4
  <2> QED
    BY <2>2, <2>5 DEF UpTo
<1>4. 0 <= UpTo(f, n)
  <2>1. 0 \in 0 .. n
    OBVIOUS
  <2>2. f[0] <= UpTo(f, n) /\ f[0] \in Nat
    BY <1>3, <2>1
  <2> QED
    BY <1>2, <2>2
<1> QED
  BY <1>2, <1>3, <1>4

\* An instant passes: the sum of one instant more is what it was.
LEMMA InstantPasses ==
    ASSUME NEW f, NEW g, NEW m \in Nat, \A i \in 0 .. m : f[i] \in Int,
           g[0] = 0, \A i \in 1 .. m : g[i] = f[i - 1]
    PROVE  \A n \in 0 .. m : n > 0 => UpTo(g, n) = UpTo(f, n - 1)
<1> DEFINE bad == {n \in Nat : n < m /\ UpTo(g, n + 1) # UpTo(f, n)}
<1>0. \A i \in 0 .. m : g[i] \in Int
  OBVIOUS
<1>1. bad = {}
  <2> SUFFICES ASSUME bad # {} PROVE FALSE
    OBVIOUS
  <2>1. PICK n \in bad : \A k \in bad : n <= k
    BY Least
  <2>2. n \in Nat /\ n < m /\ UpTo(g, n + 1) = g[n + 1] + UpTo(g, n) /\ g[n + 1] = f[n]
    BY <2>1, <1>0, OneInstantMore
  <2>3. CASE n = 0
    <3>1. UpTo(g, 0) = 0 /\ UpTo(f, 0) = f[0]
      BY <1>0, FirstInstant
    <3> QED
      BY <2>1, <2>2, <2>3, <3>1
  <2>4. CASE n > 0
    <3>1. PICK k \in Nat : n = k + 1
      BY <2>2, <2>4
    <3>2. UpTo(g, k + 1) = UpTo(f, k)
      BY <2>1, <2>2, <3>1
    <3>3. UpTo(f, k + 1) = f[k + 1] + UpTo(f, k)
      BY <2>2, <3>1, OneInstantMore
    <3> QED
      BY <2>1, <2>2, <3>1, <3>2, <3>3
  <2> QED
    BY <2>2, <2>3, <2>4
<1> HIDE DEF bad
<1>2. ASSUME NEW n \in 0 .. m, n > 0 PROVE UpTo(g, n) = UpTo(f, n - 1)
  <2>1. n - 1 \in Nat /\ n - 1 < m /\ n = (n - 1) + 1
    BY <1>2
  <2> QED
    BY <1>1, <2>1 DEF bad
<1> QED
  BY <1>2

\* A request is let through: one more in every sum.
LEMMA OneMoreAccepted ==
    ASSUME NEW f, NEW g, NEW m \in Nat, \A i \in 0 .. m : f[i] \in Int,
           g[0] = f[0] + 1, \A i \in 1 .. m : g[i] = f[i]
    PROVE  \A n \in 0 .. m : UpTo(g, n) = UpTo(f, n) + 1
<1> SUFFICES ASSUME NEW n \in 0 .. m
             PROVE  UpTo(g, n) = UpTo(f, n) + 1
  OBVIOUS
<1>1. PICK T : T = 0 .. n
  OBVIOUS
<1>2. /\ IsFiniteSet(T) /\ 0 \in T
      /\ \A i \in T : i \in 0 .. m /\ f[i] \in Int /\ (i # 0 => g[i] = f[i])
  BY <1>1, Instants
<1>3. \A i \in T : f[i] \in Int /\ g[i] \in Int
  BY <1>2
<1>4. PICK r \in Int : SumFunctionOnSet(f, T) = f[0] + r /\ SumFunctionOnSet(g, T) = g[0] + r
  <2>1. \A i \in T : i # 0 => g[i] = f[i]
    BY <1>2
  <2>2. \E r \in Int : /\ r = SumFunctionOnSet(f, T \ {0})
                       /\ SumFunctionOnSet(f, T) = f[0] + r
                       /\ SumFunctionOnSet(g, T) = g[0] + r
    <3>1. IsFiniteSet(T) /\ 0 \in T
      BY <1>2
    <3> QED
      BY <1>3, <2>1, <3>1, SumChanges
  <2> QED
    BY <2>2
<1>5. f[0] \in Int
  BY <1>2
<1> QED
  BY <1>1, <1>4, <1>5 DEF UpTo

LEMMA NothingAccepted ==
    ASSUME NEW f, NEW n \in Nat, \A i \in 0 .. n : f[i] = 0
    PROVE  UpTo(f, n) = 0
<1>1. IsFiniteSet(0 .. n) /\ Cardinality(0 .. n) \in Nat
  BY Instants, FS_CardinalityType
<1>2. \A i \in 0 .. n : f[i] \in Nat /\ f[i] \in Int /\ f[i] <= 0
  OBVIOUS
<1>3. UpTo(f, n) <= Cardinality(0 .. n) * 0
  BY <1>1, <1>2, SumAtMost DEF UpTo
<1>4. UpTo(f, n) \in Nat
  BY <1>2, UpToTyped
<1>5. Cardinality(0 .. n) * 0 = 0
  BY <1>1
<1> QED
  BY <1>3, <1>4, <1>5

ScriptInv == algorithm = "lua" =>
    /\ count <= Limit
    /\ AcceptedInWindow <= count + Limit - 1
    /\ ttl = NoTTL => accepted[0] = 0
    /\ ttl # NoTTL => UpTo(accepted, Window - ttl) = count /\ accepted[Window - ttl] >= 1

PipelineInv == algorithm = "pipeline" =>
    /\ AcceptedInWindow <= Limit /\ AcceptedInWindow <= count
    /\ ttl # NoTTL => \A i \in 0 .. Window - 1 : i < Window - ttl => accepted[i] = 0

RateLimitInv ==
    /\ RateLimitTypeOK
    /\ ttl = NoTTL => count = 0
    /\ ScriptInv /\ PipelineInv

LEMMA WindowSum ==
    ASSUME RateLimitTypeOK
    PROVE  /\ AcceptedInWindow = UpTo(accepted, Window - 1) /\ Window - 1 \in Nat
           /\ \A i \in 0 .. Window - 1 : accepted[i] \in Nat
           /\ AcceptedInWindow \in Nat
           /\ \A i \in 0 .. Window - 1 : accepted[i] <= AcceptedInWindow
<1>1. DOMAIN accepted = 0 .. Window - 1 /\ Window - 1 \in Nat /\ \A i \in 0 .. Window - 1 : accepted[i] \in Nat
  BY RateLimitAssumption DEF RateLimitTypeOK
<1>2. AcceptedInWindow = UpTo(accepted, Window - 1)
  BY <1>1 DEF AcceptedInWindow, SumFunction, UpTo
<1> QED
  BY <1>1, <1>2, UpToTyped

LEMMA RateLimitStart == RateLimitInit => RateLimitInv
<1> SUFFICES ASSUME RateLimitInit PROVE RateLimitInv
  OBVIOUS
<1>1. RateLimitTypeOK
  BY RateLimitAssumption DEF RateLimitInit, RateLimitTypeOK
<1>2. AcceptedInWindow = 0
  <2>1. \A i \in 0 .. Window - 1 : accepted[i] = 0
    BY DEF RateLimitInit
  <2> QED
    BY <1>1, <2>1, WindowSum, NothingAccepted
<1>3. 0 \in 0 .. Window - 1
  BY RateLimitAssumption
<1> QED
  BY <1>1, <1>2, <1>3, RateLimitAssumption DEF RateLimitInit, RateLimitInv, ScriptInv, PipelineInv

\* What is let through is one more in every sum of instants, of this one at least.
LEMMA AcceptSums ==
    ASSUME RateLimitTypeOK, Accept, accepted[0] + 1 <= Limit
    PROVE  /\ accepted' \in [0 .. Window - 1 -> 0 .. Limit]
           /\ \A n \in 0 .. Window - 1 : UpTo(accepted', n) = UpTo(accepted, n) + 1
           /\ SumFunction(accepted') = AcceptedInWindow + 1
           /\ accepted'[0] = accepted[0] + 1 /\ accepted[0] \in Nat
           /\ \A i \in 0 .. Window - 1 : i # 0 => accepted'[i] = accepted[i]
<1>1. /\ 0 \in 0 .. Window - 1 /\ Window - 1 \in 0 .. Window - 1 /\ accepted[0] \in Nat
      /\ \A i \in 0 .. Window - 1 : accepted[i] \in 0 .. Limit
  BY RateLimitAssumption DEF RateLimitTypeOK
<1>2. /\ accepted'[0] = accepted[0] + 1
      /\ \A i \in 0 .. Window - 1 : i # 0 => accepted'[i] = accepted[i]
      /\ DOMAIN accepted' = 0 .. Window - 1
  BY <1>1 DEF Accept, RateLimitTypeOK
<1>3. accepted' \in [0 .. Window - 1 -> 0 .. Limit]
  <2>1. accepted[0] + 1 \in 0 .. Limit
    BY <1>1, RateLimitAssumption
  <2> QED
    BY <1>1, <2>1 DEF Accept, RateLimitTypeOK
<1>4. \A n \in 0 .. Window - 1 : UpTo(accepted', n) = UpTo(accepted, n) + 1
  <2>1. /\ \A i \in 0 .. Window - 1 : accepted[i] \in Int
        /\ \A i \in 1 .. Window - 1 : accepted'[i] = accepted[i]
        /\ Window - 1 \in Nat
    BY <1>1, <1>2, RateLimitAssumption
  <2> QED
    BY <1>2, <2>1, OneMoreAccepted
<1>5. SumFunction(accepted') = UpTo(accepted', Window - 1)
  BY <1>2 DEF SumFunction, UpTo
<1> QED
  BY <1>1, <1>2, <1>3, <1>4, <1>5, WindowSum

LEMMA CheckKeeps ==
    ASSUME RateLimitInv, Check
    PROVE  RateLimitInv'
<1>1. RateLimitTypeOK /\ UNCHANGED <<algorithm, redisUp>>
  BY DEF RateLimitInv, Check
<1>2. /\ count \in Nat /\ ttl \in {NoTTL} \cup (1 .. Window) /\ Limit \in Nat \ {0} /\ Window \in Nat \ {0}
      /\ 0 \in 0 .. Window - 1 /\ accepted[0] \in Nat
      /\ accepted[0] <= AcceptedInWindow /\ AcceptedInWindow \in Nat
  BY <1>1, WindowSum, RateLimitAssumption DEF RateLimitTypeOK
<1>3. ASSUME algorithm = "lua", LuaScript
      PROVE  RateLimitInv'
  <2>1. CASE count >= Limit
    BY <1>1, <1>3, <2>1 DEF LuaScript, Refuse, RateLimitInv, RateLimitTypeOK, ScriptInv, PipelineInv,
       AcceptedInWindow
  <2>2. CASE ~(count >= Limit)
    <3>1. count' = count + 1 /\ Accept /\ ttl' = (IF count' = 1 THEN Window ELSE ttl)
      BY <1>3, <2>2 DEF LuaScript
    <3>2. /\ count <= Limit /\ AcceptedInWindow <= count + Limit - 1
          /\ ttl = NoTTL => accepted[0] = 0 /\ count = 0
          /\ ttl # NoTTL => UpTo(accepted, Window - ttl) = count /\ accepted[Window - ttl] >= 1
      BY <1>3 DEF RateLimitInv, ScriptInv
    <3>3. ttl # NoTTL => /\ Window - ttl \in 0 .. Window - 1 /\ Window - ttl \in Nat
                         /\ accepted[0] <= count /\ accepted[Window - ttl] <= count
      <4> SUFFICES ASSUME ttl # NoTTL
                   PROVE  /\ Window - ttl \in 0 .. Window - 1 /\ Window - ttl \in Nat
                          /\ accepted[0] <= count /\ accepted[Window - ttl] <= count
        OBVIOUS
      <4>1. Window - ttl \in 0 .. Window - 1 /\ Window - ttl \in Nat
        BY <1>2 DEF NoTTL
      <4>2. \A i \in 0 .. Window - ttl : accepted[i] \in Nat
        BY <1>1, <4>1, WindowSum
      <4>3. \A i \in 0 .. Window - ttl : accepted[i] <= UpTo(accepted, Window - ttl)
        BY <4>1, <4>2, UpToTyped
      <4>4. 0 \in 0 .. Window - ttl /\ Window - ttl \in 0 .. Window - ttl
        BY <4>1
      <4> QED
        BY <3>2, <4>1, <4>3, <4>4
    <3>4. accepted[0] + 1 <= Limit
      BY <1>2, <2>2, <3>2, <3>3
    <3>5. /\ accepted' \in [0 .. Window - 1 -> 0 .. Limit]
          /\ \A n \in 0 .. Window - 1 : UpTo(accepted', n) = UpTo(accepted, n) + 1
          /\ AcceptedInWindow' = AcceptedInWindow + 1
          /\ accepted'[0] = accepted[0] + 1
          /\ \A i \in 0 .. Window - 1 : i # 0 => accepted'[i] = accepted[i]
      BY <1>1, <3>1, <3>4, AcceptSums DEF AcceptedInWindow
    <3>6. ttl' # NoTTL /\ ttl' \in 1 .. Window /\ count' \in 0 .. Limit + 1
      <4>1. count' = 1 \/ ttl # NoTTL
        BY <1>2, <3>1, <3>2
      <4> QED
        BY <1>2, <2>2, <3>1, <4>1 DEF NoTTL
    <3>7. UpTo(accepted', Window - ttl') = count' /\ accepted'[Window - ttl'] >= 1
      <4>1. CASE count' = 1
        <5>1. Window - ttl' = 0 /\ count = 0
          BY <1>2, <3>1, <4>1
        <5>2. ttl = NoTTL
          <6>1. ttl # NoTTL => accepted[Window - ttl] >= 1 /\ accepted[Window - ttl] <= 0
                               /\ accepted[Window - ttl] \in Nat
            BY <3>2, <3>3, <5>1, <1>1, WindowSum
          <6> QED
            BY <6>1
        <5>3. UpTo(accepted, 0) = 0
          BY <3>2, <5>2, FirstInstant
        <5> QED
          BY <1>2, <3>2, <3>5, <4>1, <5>1, <5>2, <5>3
      <4>2. CASE count' # 1
        <5>1. ttl' = ttl /\ ttl # NoTTL
          BY <1>2, <3>1, <3>2, <4>2
        <5>2. accepted[Window - ttl] \in Nat
          BY <1>1, <3>3, <5>1, WindowSum
        <5>3. accepted'[Window - ttl] >= accepted[Window - ttl]
          BY <1>2, <3>3, <3>5, <5>1, <5>2
        <5>4. accepted'[Window - ttl] \in Nat
          BY <3>3, <3>5, <5>1, RateLimitAssumption
        <5> QED
          BY <3>1, <3>2, <3>3, <3>5, <5>1, <5>2, <5>3, <5>4
      <4> QED
        BY <4>1, <4>2
    <3>8. last' = "allowed"
      BY <3>1 DEF Accept
    <3>9. RateLimitTypeOK'
      BY <1>1, <3>5, <3>6, <3>8 DEF RateLimitTypeOK
    <3>10. count' <= Limit /\ AcceptedInWindow' <= count' + Limit - 1
      BY <1>2, <2>2, <3>1, <3>2, <3>5
    <3> QED
      BY <1>1, <1>3, <3>6, <3>7, <3>9, <3>10 DEF RateLimitInv, ScriptInv, PipelineInv
  <2> QED
    BY <2>1, <2>2
<1>4. ASSUME algorithm = "pipeline", Pipeline
      PROVE  RateLimitInv'
  <2>1. AcceptedInWindow <= Limit /\ AcceptedInWindow <= count
    BY <1>4 DEF RateLimitInv, PipelineInv
  <2>2. count' = (IF count > Limit THEN count ELSE count + 1) /\ ttl' = Window
    BY <1>4 DEF Pipeline
  <2>3. ttl' # NoTTL /\ ttl' \in 1 .. Window /\ count' \in 0 .. Limit + 1
        /\ \A i \in 0 .. Window - 1 : ~(i < Window - ttl')
    BY <1>1, <1>2, <2>2 DEF NoTTL, RateLimitTypeOK
  <2>4. CASE count' > Limit
    <3>1. Refuse
      BY <1>4, <2>4 DEF Pipeline
    <3>2. AcceptedInWindow' = AcceptedInWindow
      BY <3>1 DEF Refuse, AcceptedInWindow
    <3>3. RateLimitTypeOK'
      BY <1>1, <2>3, <3>1 DEF RateLimitTypeOK, Refuse
    <3>4. AcceptedInWindow' <= count'
      BY <1>2, <2>1, <2>3, <2>4, <3>2
    <3> QED
      BY <1>1, <1>4, <2>1, <2>3, <3>2, <3>3, <3>4 DEF RateLimitInv, ScriptInv, PipelineInv
  <2>5. CASE ~(count' > Limit)
    <3>1. Accept /\ count' = count + 1 /\ count < Limit
      BY <1>2, <1>4, <2>2, <2>5 DEF Pipeline
    <3>2. accepted[0] + 1 <= Limit
      BY <1>2, <2>1, <3>1
    <3>3. accepted' \in [0 .. Window - 1 -> 0 .. Limit] /\ AcceptedInWindow' = AcceptedInWindow + 1
      BY <1>1, <3>1, <3>2, AcceptSums DEF AcceptedInWindow
    <3>4. RateLimitTypeOK'
      BY <1>1, <2>3, <3>1, <3>3 DEF RateLimitTypeOK, Accept
    <3>5. AcceptedInWindow' <= Limit /\ AcceptedInWindow' <= count'
      BY <1>2, <2>1, <3>1, <3>3
    <3> QED
      BY <1>1, <1>4, <2>3, <3>4, <3>5 DEF RateLimitInv, ScriptInv, PipelineInv
  <2> QED
    BY <2>4, <2>5
<1> QED
  BY <1>3, <1>4 DEF Check

LEMMA WindowTickKeeps ==
    ASSUME RateLimitInv, WindowTick
    PROVE  RateLimitInv'
<1>1. RateLimitTypeOK /\ UNCHANGED <<algorithm, redisUp, last>>
  BY DEF RateLimitInv, WindowTick
<1>2. /\ count \in Nat /\ ttl \in {NoTTL} \cup (1 .. Window) /\ Limit \in Nat \ {0}
      /\ Window - 1 \in Nat /\ Window \in Nat \ {0} /\ 0 \in 0 .. Window - 1
      /\ Window - 1 \in 0 .. Window - 1
      /\ \A i \in 0 .. Window - 1 : accepted[i] \in Nat
      /\ AcceptedInWindow \in Nat /\ AcceptedInWindow = UpTo(accepted, Window - 1)
  BY <1>1, WindowSum, RateLimitAssumption DEF RateLimitTypeOK
<1>3. /\ accepted' \in [0 .. Window - 1 -> 0 .. Limit]
      /\ accepted'[0] = 0 /\ \A i \in 1 .. Window - 1 : accepted'[i] = accepted[i - 1]
  <2>1. accepted' = [i \in 0 .. Window - 1 |-> IF i = 0 THEN 0 ELSE accepted[i - 1]]
    BY DEF WindowTick
  <2>2. \A i \in 0 .. Window - 1 : i = 0 \/ i - 1 \in 0 .. Window - 1
    BY <1>2
  <2>3. \A i \in 0 .. Window - 1 : accepted[i] \in 0 .. Limit
    BY <1>1 DEF RateLimitTypeOK
  <2>4. \A i \in 0 .. Window - 1 : (IF i = 0 THEN 0 ELSE accepted[i - 1]) \in 0 .. Limit
    BY <1>2, <2>2, <2>3
  <2>5. accepted' \in [0 .. Window - 1 -> 0 .. Limit]
    BY <2>1, <2>4
  <2>6. accepted'[0] = 0
    BY <1>2, <2>1
  <2>7. ASSUME NEW i \in 1 .. Window - 1 PROVE accepted'[i] = accepted[i - 1]
    <3>1. i \in 0 .. Window - 1 /\ i # 0
      BY <1>2
    <3> QED
      BY <2>1, <3>1
  <2> QED
    BY <2>5, <2>6, <2>7
<1>4. /\ count' = (IF ttl = 1 THEN 0 ELSE count)
      /\ ttl' = (IF ttl \in {NoTTL, 1} THEN NoTTL ELSE ttl - 1)
  BY DEF WindowTick
<1>5. ttl' \in {NoTTL} \cup (1 .. Window) /\ (ttl' # NoTTL => ttl # NoTTL /\ ttl # 1 /\ ttl' = ttl - 1)
  BY <1>2, <1>4 DEF NoTTL
<1>6. RateLimitTypeOK'
  <2>1. count' \in 0 .. Limit + 1
    BY <1>1, <1>2, <1>4 DEF RateLimitTypeOK
  <2> QED
    BY <1>1, <1>3, <1>5, <2>1 DEF RateLimitTypeOK
<1>7. \A n \in 0 .. Window - 1 : n > 0 => UpTo(accepted', n) = UpTo(accepted, n - 1)
  <2>1. PICK m \in Nat : m = Window - 1
    BY <1>2
  <2>2. PICK g : g = accepted'
    OBVIOUS
  <2>3. \A i \in 0 .. m : accepted[i] \in Int
    BY <1>2, <2>1
  <2>4. g[0] = 0 /\ \A i \in 1 .. m : g[i] = accepted[i - 1]
    BY <1>3, <2>1, <2>2
  <2>5. \A n \in 0 .. m : n > 0 => UpTo(g, n) = UpTo(accepted, n - 1)
    BY <2>3, <2>4, InstantPasses
  <2> QED
    BY <2>1, <2>2, <2>5 DEF UpTo
<1>8. UpTo(accepted', 0) = 0
  <2>1. PICK g : g = accepted'
    OBVIOUS
  <2>2. g[0] = 0 /\ g[0] \in Int
    BY <1>3, <2>1
  <2>3. UpTo(g, 0) = 0
    BY <2>2, FirstInstant
  <2> QED
    BY <2>1, <2>3 DEF UpTo
<1>9. AcceptedInWindow' = UpTo(accepted', Window - 1) /\ AcceptedInWindow' \in Nat
  BY <1>3, <1>6, UpToTyped, <1>2 DEF AcceptedInWindow, SumFunction, UpTo
<1>10. AcceptedInWindow = accepted[Window - 1] + AcceptedInWindow'
  <2>1. CASE Window = 1
    BY <1>2, <1>8, <1>9, <2>1, FirstInstant
  <2>2. CASE Window # 1
    <3>1. PICK n \in Nat : Window - 1 = n + 1
      <4>1. Window - 2 \in Nat /\ Window - 1 = (Window - 2) + 1
        BY <1>2, <2>2
      <4> QED
        BY <4>1
    <3>2. UpTo(accepted, n + 1) = accepted[n + 1] + UpTo(accepted, n)
      BY <1>2, <3>1, OneInstantMore
    <3>3. n + 1 \in 0 .. Window - 1 /\ n + 1 > 0 /\ (n + 1) - 1 = n
      BY <1>2, <3>1
    <3>4. UpTo(accepted', n + 1) = UpTo(accepted, n)
      BY <1>7, <3>3
    <3> QED
      BY <1>2, <1>9, <3>1, <3>2, <3>4
  <2> QED
    BY <2>1, <2>2
<1>11. ttl' = NoTTL => count' = 0
  BY <1>2, <1>4, <1>5 DEF RateLimitInv, NoTTL
<1>12. ScriptInv'
  <2> SUFFICES ASSUME algorithm = "lua" PROVE ScriptInv'
    BY <1>1 DEF ScriptInv
  <2>1. /\ count <= Limit /\ AcceptedInWindow <= count + Limit - 1
        /\ ttl = NoTTL => count = 0
        /\ ttl # NoTTL => UpTo(accepted, Window - ttl) = count /\ accepted[Window - ttl] >= 1
    BY DEF RateLimitInv, ScriptInv
  <2>2. count' <= Limit
    BY <1>2, <1>4, <2>1
  <2>3. accepted[Window - 1] \in Nat
    BY <1>2
  <2>4. AcceptedInWindow' <= count' + Limit - 1
    <3>1. CASE ttl = 1
      <4>1. AcceptedInWindow = count /\ accepted[Window - 1] >= 1 /\ count' = 0
        BY <1>2, <1>4, <2>1, <3>1 DEF NoTTL
      <4> QED
        BY <1>2, <1>9, <1>10, <2>1, <2>3, <4>1
    <3>2. CASE ttl # 1
      BY <1>2, <1>4, <1>9, <1>10, <2>1, <2>3, <3>2
    <3> QED
      BY <3>1, <3>2
  <2>5. ASSUME ttl' # NoTTL
        PROVE  UpTo(accepted', Window - ttl') = count' /\ accepted'[Window - ttl'] >= 1
    <3>1. PICK n : n = Window - ttl
      OBVIOUS
    <3>2. n \in Nat /\ n + 1 \in 1 .. Window - 1 /\ n + 1 \in 0 .. Window - 1 /\ n + 1 > 0
          /\ (n + 1) - 1 = n /\ Window - ttl' = n + 1 /\ count' = count
      BY <1>2, <1>4, <1>5, <2>5, <3>1 DEF NoTTL
    <3>3. UpTo(accepted', n + 1) = UpTo(accepted, n) /\ accepted'[n + 1] = accepted[n]
      BY <1>3, <1>7, <3>2
    <3> QED
      BY <1>5, <2>1, <2>5, <3>1, <3>2, <3>3
  <2> QED
    BY <1>3, <2>2, <2>4, <2>5 DEF ScriptInv
<1>13. PipelineInv'
  <2> SUFFICES ASSUME algorithm = "pipeline" PROVE PipelineInv'
    BY <1>1 DEF PipelineInv
  <2>1. /\ AcceptedInWindow <= Limit /\ AcceptedInWindow <= count
        /\ ttl # NoTTL => \A i \in 0 .. Window - 1 : i < Window - ttl => accepted[i] = 0
    BY DEF RateLimitInv, PipelineInv
  <2>2. accepted[Window - 1] \in Nat
    BY <1>2
  <2>3. AcceptedInWindow' <= Limit
    BY <1>2, <1>9, <1>10, <2>1, <2>2
  <2>4. AcceptedInWindow' <= count'
    <3>1. CASE ttl = 1
      <4>1. \A i \in 0 .. Window - 1 : accepted'[i] = 0
        <5>1. ASSUME NEW i \in 1 .. Window - 1 PROVE accepted'[i] = 0
          <6>1. i - 1 \in 0 .. Window - 1 /\ i - 1 < Window - ttl
            BY <1>2, <3>1
          <6> QED
            BY <1>3, <2>1, <3>1, <6>1 DEF NoTTL
        <5> QED
          BY <1>3, <5>1
      <4> QED
        BY <1>2, <1>4, <1>9, <3>1, <4>1, NothingAccepted
    <3>2. CASE ttl # 1
      BY <1>2, <1>4, <1>9, <1>10, <2>1, <2>2, <3>2
    <3> QED
      BY <3>1, <3>2
  <2>5. ASSUME ttl' # NoTTL, NEW i \in 0 .. Window - 1, i < Window - ttl'
        PROVE  accepted'[i] = 0
    <3>1. CASE i = 0
      BY <1>3, <3>1
    <3>2. CASE i # 0
      <4>1. i \in 1 .. Window - 1 /\ i - 1 \in 0 .. Window - 1 /\ i - 1 < Window - ttl
        BY <1>2, <1>5, <2>5, <3>2
      <4> QED
        BY <1>3, <1>5, <2>1, <2>5, <4>1
    <3> QED
      BY <3>1, <3>2
  <2> QED
    BY <2>3, <2>4, <2>5 DEF PipelineInv
<1> QED
  BY <1>6, <1>11, <1>12, <1>13 DEF RateLimitInv

LEMMA RateLimitStep ==
    ASSUME RateLimitInv, [RateLimitNext]_rateLimitVars
    PROVE  RateLimitInv'
<1>1. CASE CheckFallback \/ RedisFails
  BY <1>1 DEF CheckFallback, RedisFails, RateLimitInv, RateLimitTypeOK, ScriptInv, PipelineInv,
     AcceptedInWindow
<1>2. CASE UNCHANGED rateLimitVars
  BY <1>2 DEF rateLimitVars, RateLimitInv, RateLimitTypeOK, ScriptInv, PipelineInv, AcceptedInWindow
<1> QED
  BY <1>1, <1>2, CheckKeeps, WindowTickKeeps DEF RateLimitNext

LEMMA RateLimitGood == RateLimitInv => WindowsHold
<1> SUFFICES ASSUME RateLimitInv PROVE WindowsHold
  OBVIOUS
<1>1. AcceptedInWindow \in Nat /\ algorithm \in {"lua", "pipeline"} /\ count \in Nat
      /\ Limit \in Nat /\ Limit >= 1
  BY WindowSum, RateLimitAssumption DEF RateLimitInv, RateLimitTypeOK
<1>2. CounterExpires
  BY <1>1 DEF RateLimitInv, CounterExpires
<1>3. AtMostLimitPerWindow
  BY DEF RateLimitInv, PipelineInv, AtMostLimitPerWindow
<1>4. LessThanTwiceTheLimit
  BY <1>1 DEF RateLimitInv, PipelineInv, ScriptInv, LessThanTwiceTheLimit
<1> QED
  BY <1>2, <1>3, <1>4 DEF WindowsHold

-----------------------------------------------------------------------------
(* The gateway.                                                              *)

\* A behaviour of the gateway is one of its breaker and one of its limiter.
THEOREM PartsAreImplemented == Spec => ProxySpec /\ RateLimitSpec
<1>1. Init => ProxyInit /\ RateLimitInit
  BY DEF Init
<1>2. [Next]_vars => [ProxyNext]_proxyVars /\ [RateLimitNext]_rateLimitVars
  BY DEF Next, vars
<1> QED
  BY <1>1, <1>2, PTL DEF Spec, ProxySpec, RateLimitSpec

LEMMA RateLimitInvariance == RateLimitSpec => []RateLimitInv
  BY RateLimitStart, RateLimitStep, PTL DEF RateLimitSpec

\* The breaker's counters and the gauge, and the limiter's counter, its life and the
\* instants stay in their ranges.
THEOREM TypeCorrect == Spec => []TypeOK
<1>1. RateLimitInv => RateLimitTypeOK
  BY DEF RateLimitInv
<1> QED
  BY <1>1, PartsAreImplemented, ProxyTyping, RateLimitInvariance, PTL DEF TypeOK

\* TokenBucketRateLimiter's script lets less than twice the limit through in any time as
\* long as the window, and the pipeline no more than the limit; a counter always
\* expires.  For every limit and window, however Redis fails and comes back.
THEOREM WindowsAreKept == Spec => []WindowsHold
  BY PartsAreImplemented, RateLimitInvariance, RateLimitGood, PTL
==============================================================================
