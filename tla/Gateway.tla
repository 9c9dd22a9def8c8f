------------------------------- MODULE Gateway -------------------------------
(***************************************************************************)
(* The gateway: the circuit breaker with its requests, and the rate        *)
(* limiter.  They share no state and neither waits for the other, so a     *)
(* behaviour of the gateway, seen through the variables of one of them, is *)
(* a behaviour of that one.  `focus' says which of them moves; the other   *)
(* stays as it started, so that TLC looks at each and not at the product.  *)
(***************************************************************************)
EXTENDS GatewayProxy, GatewayRateLimit

VARIABLE focus

vars == <<focus, proxyVars, rateLimitVars>>

Init ==
    /\ focus \in {"breaker", "limiter"}
    /\ ProxyInit
    /\ RateLimitInit

Next ==
    \/ focus = "breaker" /\ ProxyNext /\ UNCHANGED <<focus, rateLimitVars>>
    \/ focus = "limiter" /\ RateLimitNext /\ UNCHANGED <<focus, proxyVars>>

\* The fairness of each, where it is the one that moves: time passes, clients
\* keep coming, requests are answered.
Fairness ==
    /\ WF_proxyVars(focus = "breaker" /\ Tick)
    /\ \A r \in Requests :
          /\ WF_proxyVars(focus = "breaker" /\ Send(r))
          /\ SF_proxyVars(focus = "breaker" /\ Succeed(r))
          /\ WF_proxyVars(focus = "breaker" /\ Fail(r))
    /\ WF_rateLimitVars(focus = "limiter" /\ WindowTick)
    /\ WF_rateLimitVars(focus = "limiter" /\ (Check \/ CheckFallback))

Spec == Init /\ [][Next]_vars /\ Fairness

\* The breaker's and the limiter's variables are in their ranges.
TypeOK == ProxyTypeOK /\ RateLimitTypeOK
==============================================================================
