------------------------ MODULE CreationRateLimiter ------------------------
(***************************************************************************)
(* The sliding window limiter in front of EnvironmentService.Create, for   *)
(* one user.  Check and Record take the limiter's mutex separately, and    *)
(* Create calls one after the other.  A refused client waits for the       *)
(* RetryAfter it was told before it tries again.                           *)
(*                                                                         *)
(* counts holds the ages of the recorded creations, in the order in which  *)
(* they were appended; an age stops growing at Window, where the entry has *)
(* left the window.                                                        *)
(***************************************************************************)
EXTENDS Integers, Sequences, FiniteSets

CONSTANTS
    Clients,  \* concurrent Create requests of the user
    Limit,    \* RateLimiter.limit
    Window    \* RateLimiter.window

ASSUME LimiterAssumption ==
    /\ IsFiniteSet(Clients)
    /\ Limit \in Nat \ {0}
    /\ Window \in Nat \ {0}

VARIABLES counts, pc, retryAfter

limiterVars == <<counts, pc, retryAfter>>

LimiterTypeOK ==
    /\ counts \in Seq(0 .. Window)
    /\ pc \in [Clients -> {"idle", "record", "refused"}]
    /\ retryAfter \in [Clients -> 0 .. Window]

LimiterInit ==
    /\ counts = << >>
    /\ pc = [c \in Clients |-> "idle"]
    /\ retryAfter = [c \in Clients |-> 0]

-----------------------------------------------------------------------------
\* The entries before the k-th are no longer After(cutoff), those from it on
\* are: entries are appended in the order of time, so the loop of Check that
\* collects the valid ones drops a prefix.
DropsExpired(k) ==
    /\ \A i \in 1 .. Len(counts) : counts[i] < Window <=> i > k
    /\ counts' = SubSeq(counts, k + 1, Len(counts))

\* Mutant: the limit is exceeded by one.
AdmittedOffByOne(n) == n <= Limit

Admitted(n) == n < Limit

RetryAfter(age) == Window - age

\* Check: under the limit the client goes on to Record, otherwise it is told
\* when the oldest entry leaves the window.
Check(c) ==
    /\ pc[c] # "record"
    /\ retryAfter[c] = 0
    /\ \E k \in 0 .. Len(counts) :
          /\ DropsExpired(k)
          /\ IF Admitted(Len(counts) - k)
             THEN /\ pc' = [pc EXCEPT ![c] = "record"]
                  /\ UNCHANGED retryAfter
             ELSE /\ pc' = [pc EXCEPT ![c] = "refused"]
                  /\ retryAfter' = [retryAfter EXCEPT ![c] = RetryAfter(counts[k + 1])]

\* Mutant: the time at which the entry expires is recorded.
RecordExpiry(c) ==
    /\ pc[c] = "record"
    /\ counts' = Append(counts, -Window)
    /\ pc' = [pc EXCEPT ![c] = "idle"]
    /\ UNCHANGED retryAfter

\* Record appends the current time; the rest of Create is EnvironmentLifecycle.
Record(c) ==
    /\ pc[c] = "record"
    /\ counts' = Append(counts, 0)
    /\ pc' = [pc EXCEPT ![c] = "idle"]
    /\ UNCHANGED retryAfter

Tick ==
    /\ counts' = [i \in 1 .. Len(counts) |->
                     IF counts[i] < Window THEN counts[i] + 1 ELSE Window]
    /\ retryAfter' = [c \in Clients |->
                         IF retryAfter[c] > 0 THEN retryAfter[c] - 1 ELSE 0]
    /\ UNCHANGED pc

LimiterNext == Tick \/ \E c \in Clients : Check(c) \/ Record(c)

LimiterSpec == LimiterInit /\ [][LimiterNext]_limiterVars

-----------------------------------------------------------------------------
Recording == {c \in Clients : pc[c] = "record"}

\* The race between Check and Record is bounded: however requests interleave,
\* the window never holds more than one creation per concurrent request beyond
\* the limit, counting the requests Check has admitted and Record has not yet
\* counted.
OvershootBounded ==
    Len(counts) + Cardinality(Recording) <= Limit - 1 + Cardinality(Clients)

\* The entries are in the order of time, which Check relies on when it takes
\* the first one for the oldest.
OldestFirst ==
    \A i, j \in 1 .. Len(counts) : i <= j => counts[i] >= counts[j]
=============================================================================
