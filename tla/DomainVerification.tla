------------------------- MODULE DomainVerification -------------------------
(***************************************************************************)
(* CustomDomainService of the container service with the certificate       *)
(* manager, for one domain: the verification jobs in the map, each with a  *)
(* goroutine, and the requests for a certificate.  A cancellation changes  *)
(* the job only; the goroutine does not look at it and goes on.            *)
(***************************************************************************)
EXTENDS Naturals, FiniteSets

CONSTANTS Job,         \* the jobs that can be started
          MaxAttempts  \* MaxVerificationAttempts

ASSUME MaxAttemptsAssumption == MaxAttempts \in Nat \ {0}
ASSUME JobAssumption == IsFiniteSet(Job)

VARIABLES jobs,         \* verificationJobs, and the objects the goroutines keep
          runner,       \* where the goroutine of each job is
          certificate,  \* requests for the domain: how many are pending, how many issued
          early,        \* history: a job was started while another had not begun to run
          cancelled     \* history: the jobs that the user cancelled

verificationVars == <<jobs, runner, certificate, early, cancelled>>

JobStatus == {"none", "pending", "verifying", "verified", "failed"}

VerificationTypeOK ==
    /\ jobs \in [Job -> [status : JobStatus, attempts : 0..(MaxAttempts + 1), known : BOOLEAN,
                         found : BOOLEAN]]
    /\ runner \in [Job -> {"none", "begin", "check", "provision", "complete", "ended"}]
    /\ certificate \in [pending : 0..1, issued : 0..Cardinality(Job)]
    /\ early \in BOOLEAN /\ cancelled \subseteq Job

VerificationInit ==
    /\ jobs = [j \in Job |-> [status |-> "none", attempts |-> 0, known |-> FALSE, found |-> FALSE]]
    /\ runner = [j \in Job |-> "none"]
    /\ certificate = [pending |-> 0, issued |-> 0]
    /\ early = FALSE /\ cancelled = {}

KnownJobs == {j \in Job : jobs[j].known}
Ended == {"verified", "failed"}

-----------------------------------------------------------------------------
(* Requests. *)

StartUnchecked(j) ==
    /\ runner[j] = "none"
    /\ jobs' = [jobs EXCEPT ![j].status = "pending", ![j].known = TRUE]
    /\ runner' = [runner EXCEPT ![j] = "begin"]
    /\ early' = (early \/ \E k \in Job : runner[k] = "begin")
    /\ UNCHANGED <<certificate, cancelled>>

\* A job that is verifying is returned instead; one that is pending is not seen.
StartVerification(j) ==
    /\ runner[j] = "none"
    /\ \A k \in KnownJobs : jobs[k].status # "verifying"
    /\ jobs' = [jobs EXCEPT ![j].status = "pending", ![j].known = TRUE]
    /\ runner' = [runner EXCEPT ![j] = "begin"]
    /\ early' = (early \/ \E k \in Job : runner[k] = "begin")
    /\ UNCHANGED <<certificate, cancelled>>

CancelVerification(j) ==
    /\ jobs[j].known /\ jobs[j].status \notin Ended
    /\ jobs' = [jobs EXCEPT ![j].status = "failed"]
    /\ cancelled' = cancelled \cup {j}
    /\ UNCHANGED <<runner, certificate, early>>

\* Jobs that were completed long ago are forgotten; a cancelled one may be among
\* them while its goroutine is still running.
CleanupOldJobs ==
    \E old \in SUBSET {j \in KnownJobs : jobs[j].status \in Ended} :
        /\ old # {}
        /\ jobs' = [j \in Job |-> IF j \in old THEN [jobs[j] EXCEPT !.known = FALSE] ELSE jobs[j]]
        /\ UNCHANGED <<runner, certificate, early, cancelled>>

-----------------------------------------------------------------------------
(* runVerification. *)

MoveJob(j, status, place) ==
    /\ jobs' = [jobs EXCEPT ![j].status = status]
    /\ runner' = [runner EXCEPT ![j] = place]
    /\ UNCHANGED <<certificate, early, cancelled>>

BeginVerification(j) == runner[j] = "begin" /\ MoveJob(j, "verifying", "check")

TimeoutUnrecorded(j) == runner[j] = "check" /\ MoveJob(j, "verifying", "ended")

VerificationTimeout(j) == runner[j] = "check" /\ MoveJob(j, "failed", "ended")

\* The next tick: too many attempts, or a look at the DNS.
CheckDNS(j) ==
    /\ runner[j] = "check"
    /\ LET attempts == jobs[j].attempts + 1
       IN  \/ /\ attempts > MaxAttempts
              /\ jobs' = [jobs EXCEPT ![j].attempts = attempts, ![j].status = "failed"]
              /\ runner' = [runner EXCEPT ![j] = "ended"]
           \/ /\ attempts <= MaxAttempts
              /\ \/ /\ jobs' = [jobs EXCEPT ![j].attempts = attempts, ![j].found = TRUE]
                    /\ runner' = [runner EXCEPT ![j] = "provision"]
                 \/ /\ jobs' = [jobs EXCEPT ![j].attempts = attempts]
                    /\ UNCHANGED runner
    /\ UNCHANGED <<certificate, early, cancelled>>

\* A request that is pending serves for this one too.
RequestCertificate(j) ==
    /\ runner[j] = "provision"
    /\ certificate' = [certificate EXCEPT !.pending = 1]
    /\ runner' = [runner EXCEPT ![j] = "complete"]
    /\ UNCHANGED <<jobs, early, cancelled>>

CompleteVerification(j) == runner[j] = "complete" /\ MoveJob(j, "verified", "ended")

\* The goroutine of the certificate manager: it does not fail.
IssueCertificate ==
    /\ certificate.pending > 0
    /\ certificate' = [pending |-> 0, issued |-> certificate.issued + 1]
    /\ UNCHANGED <<jobs, runner, early, cancelled>>

RunVerification(j) ==
    \/ BeginVerification(j) \/ VerificationTimeout(j) \/ CheckDNS(j)
    \/ RequestCertificate(j) \/ CompleteVerification(j)

VerificationNext ==
    \/ \E j \in Job : StartVerification(j)
    \/ \E j \in Job : CancelVerification(j)
    \/ CleanupOldJobs
    \/ \E j \in Job : BeginVerification(j)
    \/ \E j \in Job : VerificationTimeout(j)
    \/ \E j \in Job : CheckDNS(j)
    \/ \E j \in Job : RequestCertificate(j)
    \/ \E j \in Job : CompleteVerification(j)
    \/ IssueCertificate

\* The goroutines run.
VerificationFairness ==
    /\ \A j \in Job : WF_verificationVars(RunVerification(j))
    /\ WF_verificationVars(IssueCertificate)

VerificationSpec ==
    VerificationInit /\ [][VerificationNext]_verificationVars /\ VerificationFairness

-----------------------------------------------------------------------------
(* Properties. *)

\* A job that is verified, however it got there, found the record in the DNS and
\* a certificate was requested after that.  Jobs of one domain run at the same
\* time only if one was started before the other had begun, or was cancelled.
VerifiedIsProvisioned ==
    /\ \A j \in Job : jobs[j].status = "verified" =>
           jobs[j].found /\ certificate.pending + certificate.issued > 0
    /\ early \/ \A j, k \in Job \ cancelled :
           {runner[j], runner[k]} \cap {"none", "ended"} = {} => j = k

=============================================================================
