--------------------------- MODULE BackgroundJobs ----------------------------
(***************************************************************************)
(* What a service promises of a piece of work that it does in a goroutine  *)
(* after the request has been answered: it is begun at most once, and once *)
(* begun it is closed, as a success or a failure, and never opened again.  *)
(* Several may be begun in one step.                                       *)
(***************************************************************************)
CONSTANT Jobs
VARIABLE job

Init == job = [j \in Jobs |-> "absent"]

Begins(j) == job[j] = "absent" /\ job'[j] = "open"
Closes(j) == job[j] = "open" /\ job'[j] = "closed"

Next ==
    /\ DOMAIN job' = Jobs
    /\ \A j \in Jobs : job'[j] = job[j] \/ Begins(j) \/ Closes(j)

\* There are finitely many jobs and each is opened once, so that every job is
\* closed if and only if there are always later times at which none is open.
EveryJobIsClosed == []<>(\A j \in Jobs : job[j] # "open")

Spec == Init /\ [][Next]_job /\ EveryJobIsClosed
==============================================================================
