-------------------------- MODULE GatewayRateLimit --------------------------
(***************************************************************************)
(* The gateway's rate limiter for one key (a user or an address) over a    *)
(* Redis counter that several gateways share.  Both algorithms of          *)
(* TokenBucketRateLimiter run atomically inside Redis: the Lua script that *)
(* the middleware calls, and the pipeline of check_rate_limit that it      *)
(* replaced.  When Redis fails or is absent every request is let through.  *)
(*                                                                         *)
(* The counter is kept up to Limit + 1, beyond which neither algorithm     *)
(* distinguishes values.  `accepted' is auxiliary: how many requests the   *)
(* limiter let through at each of the last Window instants.                *)
(***************************************************************************)
EXTENDS Integers, Functions

CONSTANTS
    Limit,     \* rate_limit.requests_per_hour
    Window     \* window_secs

ASSUME RateLimitAssumption ==
    /\ Limit \in Nat \ {0}
    /\ Window \in Nat \ {0}

NoTTL == -1

VARIABLES
    algorithm, \* the one the gateway uses: "lua" or "pipeline"
    count,     \* the value of the Redis key, 0 when there is none
    ttl,       \* its remaining life, NoTTL when it has none
    redisUp,   \* Redis answers
    accepted,  \* auxiliary, see above
    last       \* auxiliary: what became of the last request

rateLimitVars == <<algorithm, count, ttl, redisUp, accepted, last>>

\* The counter, its life and the last instants are in their ranges.
RateLimitTypeOK ==
    /\ algorithm \in {"lua", "pipeline"}
    /\ count \in 0 .. Limit + 1
    /\ ttl \in {NoTTL} \union (1 .. Window)
    /\ redisUp \in BOOLEAN
    /\ accepted \in [0 .. Window - 1 -> 0 .. Limit]
    /\ last \in {"none", "allowed", "refused"}

RateLimitInit ==
    /\ algorithm \in {"lua", "pipeline"}
    /\ count = 0
    /\ ttl = NoTTL
    /\ redisUp = TRUE
    /\ accepted = [i \in 0 .. Window - 1 |-> 0]
    /\ last = "none"

-----------------------------------------------------------------------------
Accept ==
    /\ accepted' = [accepted EXCEPT ![0] = @ + 1]
    /\ last' = "allowed"

Refuse ==
    /\ last' = "refused"
    /\ UNCHANGED accepted

\* Mutant: the window is one unit of time short.
LuaScriptShortWindow ==
    IF count >= Limit
    THEN Refuse /\ UNCHANGED <<count, ttl>>
    ELSE /\ count' = count + 1
         /\ ttl' = IF count' = 1 THEN Window - 1 ELSE ttl
         /\ Accept

\* Mutant: a refused request starts the window again.
LuaScriptRefreshing ==
    IF count >= Limit
    THEN Refuse /\ count' = count /\ ttl' = Window
    ELSE /\ count' = count + 1
         /\ ttl' = IF count' = 1 THEN Window ELSE ttl
         /\ Accept

\* The script counts only what it allows and starts the window with the first
\* request.
LuaScript ==
    IF count >= Limit
    THEN Refuse /\ UNCHANGED <<count, ttl>>
    ELSE /\ count' = count + 1
         /\ ttl' = IF count' = 1 THEN Window ELSE ttl
         /\ Accept

\* INCR and EXPIRE are unconditional.
Pipeline ==
    /\ count' = IF count > Limit THEN count ELSE count + 1
    /\ ttl' = Window
    /\ IF count' > Limit THEN Refuse ELSE Accept

Check ==
    /\ redisUp
    /\ \/ algorithm = "lua" /\ LuaScript
       \/ algorithm = "pipeline" /\ Pipeline
    /\ UNCHANGED <<algorithm, redisUp>>

\* A Redis error, or a gateway started without Redis: the request is allowed.
CheckFallback ==
    /\ ~redisUp
    /\ last' = "allowed"
    /\ UNCHANGED <<algorithm, count, ttl, redisUp, accepted>>

RedisFails ==
    /\ redisUp' = ~redisUp
    /\ UNCHANGED <<algorithm, count, ttl, accepted, last>>

\* Redis removes the key at the end of its life.
WindowTick ==
    /\ count' = IF ttl = 1 THEN 0 ELSE count
    /\ ttl' = IF ttl \in {NoTTL, 1} THEN NoTTL ELSE ttl - 1
    /\ accepted' = [i \in 0 .. Window - 1 |-> IF i = 0 THEN 0 ELSE accepted[i - 1]]
    /\ UNCHANGED <<algorithm, redisUp, last>>

RateLimitNext == Check \/ CheckFallback \/ RedisFails \/ WindowTick

RateLimitSpec == RateLimitInit /\ [][RateLimitNext]_rateLimitVars

\* Time passes, and the client keeps asking.
RateLimitFairness == WF_rateLimitVars(WindowTick) /\ WF_rateLimitVars(Check \/ CheckFallback)

RateLimitFairSpec == RateLimitSpec /\ RateLimitFairness

-----------------------------------------------------------------------------
AcceptedInWindow == SumFunction(accepted)

\* rate_limit.rs: "Maximum requests allowed per hour".  The pipeline, which
\* renews the window with every request, keeps to it in every hour.
AtMostLimitPerWindow == algorithm = "pipeline" => AcceptedInWindow <= Limit

\* What the script's fixed window guarantees: no interval as long as the window
\* sees twice the limit, however the requests lie across the end of a window.
LessThanTwiceTheLimit == AcceptedInWindow < 2 * Limit

\* A counter always has an expiry: without one its user would be refused for
\* ever once it has reached the limit.
CounterExpires == count > 0 => ttl # NoTTL

\* The limit of each algorithm, and that the window ends.
WindowsHold == LessThanTwiceTheLimit /\ AtMostLimitPerWindow /\ CounterExpires

\* A user who keeps asking is not refused for ever by the script.  (The pipeline
\* has no such end: a refused request, too, renews the expiry.)
RefusalEnds == algorithm = "lua" => (last = "refused" ~> last = "allowed")
=============================================================================
