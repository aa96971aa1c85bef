---------------------------- MODULE ReportOutbox ----------------------------
(***************************************************************************)
(* The delivery half of SqliteReplayControlPlane (the report_deliveries    *)
(* table), the ReportDeliveryWorker that drains it and the                 *)
(* FilesystemReportDeliverySender it sends with (src/causalops/            *)
(* api_runtime.py).                                                        *)
(*                                                                         *)
(* Each control-plane call is one transaction and one action.  A worker's  *)
(* run_once is a sequence of steps that other workers, its own heartbeat   *)
(* thread, the clock and crashes interleave with.  A claim token (a fresh  *)
(* uuid) is the number of the claim.                                       *)
(***************************************************************************)
EXTENDS Integers, FiniteSets

CONSTANTS
    Job,          \* finalized jobs, by rowid
    Worker,       \* processes running a ReportDeliveryWorker
    MaxAttempts,  \* max_delivery_attempts
    LeaseTime,    \* claim_lease_seconds
    RetryBase,    \* retry_base_seconds
    RetryCap,     \* the 3600 s cap of _retry_delay
    LastRenewal,  \* bound: no heartbeat renews after this time
    None

ASSUME OutboxConstants ==
    /\ Job \subseteq Nat
    /\ IsFiniteSet(Job)
    /\ None \notin Job
    /\ MaxAttempts \in Nat \ {0}
    /\ LeaseTime \in Nat \ {0}
    /\ RetryBase \in Nat \ {0}
    /\ RetryCap \in Nat \ {0}
    /\ LastRenewal \in Nat

VARIABLES
    status,          \* report_deliveries.status; "ABSENT" before finalize()
    claimToken,      \* 0 is NULL
    claimExpiresAt,  \* 0 is NULL
    attemptCount,
    availableAt,
    failed,          \* failure_reason IS NOT NULL
    spooled,         \* <delivery root>/<job>.json exists
    claims,          \* claims ever made of a delivery
    pc,              \* where each worker is in run_once
    job,             \* the job of its claim
    token,           \* the token of its claim
    heartbeatFailed, \* heartbeat_failures is not empty
    now

claimVars == <<claimToken, claimExpiresAt>>
retryVars == <<attemptCount, availableAt, failed>>
rowVars == <<status, claimVars, retryVars>>
workerVars == <<pc, job, token, heartbeatFailed>>
vars == <<status, claimToken, claimExpiresAt, attemptCount, availableAt,
          failed, spooled, claims, pc, job, token, heartbeatFailed, now>>

-----------------------------------------------------------------------------
\* Every column keeps the values the schema allows, and no row counts more
\* attempts than max_delivery_attempts.
TypeOK ==
    /\ status \in [Job -> {"ABSENT", "PENDING", "SENDING", "SENT"}]
    /\ claimToken \in [Job -> Nat]
    /\ claimExpiresAt \in [Job -> Nat]
    /\ attemptCount \in [Job -> 0..MaxAttempts]
    /\ availableAt \in [Job -> Int]
    /\ failed \in [Job -> BOOLEAN]
    /\ spooled \in [Job -> BOOLEAN]
    /\ claims \in [Job -> Nat]
    /\ pc \in [Worker -> {"idle", "claimed", "sent", "failing"}]
    /\ job \in [Worker -> Job \cup {None}]
    /\ token \in [Worker -> Nat]
    /\ heartbeatFailed \in [Worker -> BOOLEAN]
    /\ now \in Nat

Init ==
    /\ status = [j \in Job |-> "ABSENT"]
    /\ claimToken = [j \in Job |-> 0]
    /\ claimExpiresAt = [j \in Job |-> 0]
    /\ attemptCount = [j \in Job |-> 0]
    /\ availableAt = [j \in Job |-> 0]
    /\ failed = [j \in Job |-> FALSE]
    /\ spooled = [j \in Job |-> FALSE]
    /\ claims = [j \in Job |-> 0]
    /\ pc = [w \in Worker |-> "idle"]
    /\ job = [w \in Worker |-> None]
    /\ token = [w \in Worker |-> 0]
    /\ heartbeatFailed = [w \in Worker |-> FALSE]
    /\ now = 0

-----------------------------------------------------------------------------
(* The table.                                                              *)

RetryDelay(attempt) ==
    LET delay == RetryBase * 2^(attempt - 1)
    IN  IF delay < RetryCap THEN delay ELSE RetryCap

\* Fault variant of Exhausted: one attempt too many.
ExhaustedLate(attempt) == attempt > MaxAttempts

\* The attempt that reaches the limit sets failure_reason instead of a retry.
Exhausted(attempt) == attempt >= MaxAttempts

\* finalize inserts the PENDING row in the transaction that completes the job.
Enqueue(j) ==
    /\ status[j] = "ABSENT"
    /\ status' = [status EXCEPT ![j] = "PENDING"]
    /\ UNCHANGED <<claimVars, retryVars, spooled, claims, workerVars, now>>

\* Fault variant of Expired: nothing is ever reclaimed.
NeverExpired == {j \in Job : status[j] = "SENDING" /\ FALSE}

\* _reclaim_expired_deliveries: the rows it returns to PENDING.
Expired == {j \in Job : status[j] = "SENDING" /\ claimExpiresAt[j] <= now}

StatusAfterReclaim ==
    [j \in Job |-> IF j \in Expired THEN "PENDING" ELSE status[j]]
AttemptsAfterReclaim ==
    [j \in Job |-> IF j \in Expired THEN attemptCount[j] + 1
                                    ELSE attemptCount[j]]
FailedAfterReclaim ==
    [j \in Job |-> failed[j] \/ (j \in Expired /\ Exhausted(attemptCount[j] + 1))]
AvailableAfterReclaim ==
    [j \in Job |-> IF j \in Expired /\ ~Exhausted(attemptCount[j] + 1)
                    THEN now + RetryDelay(attemptCount[j] + 1)
                    ELSE availableAt[j]]

Deliverable ==
    {j \in Job : /\ StatusAfterReclaim[j] = "PENDING"
                 /\ ~FailedAfterReclaim[j]
                 /\ AvailableAfterReclaim[j] <= now}

\* ORDER BY available_at, rowid LIMIT 1.
First(j) ==
    /\ j \in Deliverable
    /\ \A k \in Deliverable \ {j} :
          \/ AvailableAfterReclaim[j] < AvailableAfterReclaim[k]
          \/ AvailableAfterReclaim[j] = AvailableAfterReclaim[k] /\ j < k

Reclaim ==
    /\ attemptCount' = AttemptsAfterReclaim
    /\ failed' = FailedAfterReclaim
    /\ availableAt' = AvailableAfterReclaim

-----------------------------------------------------------------------------
(* The worker: run_once of ReportDeliveryWorker.                           *)

\* claim_delivery finds nothing; its reclaims are committed.
ClaimNothing(w) ==
    /\ pc[w] = "idle"
    /\ Deliverable = {}
    /\ Expired # {}
    /\ Reclaim
    /\ status' = StatusAfterReclaim
    /\ claimToken' = [j \in Job |-> IF j \in Expired THEN 0 ELSE claimToken[j]]
    /\ claimExpiresAt' =
          [j \in Job |-> IF j \in Expired THEN 0 ELSE claimExpiresAt[j]]
    /\ UNCHANGED <<spooled, claims, workerVars, now>>

\* claim_delivery hands delivery j to worker w; the heartbeat thread starts.
ClaimDelivery(w, j) ==
    /\ pc[w] = "idle"
    /\ First(j)
    /\ Reclaim
    /\ claims' = [claims EXCEPT ![j] = claims[j] + 1]
    /\ status' = [StatusAfterReclaim EXCEPT ![j] = "SENDING"]
    /\ claimToken' = [k \in Job |-> IF k = j THEN claims[j] + 1
                                   ELSE IF k \in Expired THEN 0
                                   ELSE claimToken[k]]
    /\ claimExpiresAt' = [k \in Job |-> IF k = j THEN now + LeaseTime
                                       ELSE IF k \in Expired THEN 0
                                       ELSE claimExpiresAt[k]]
    /\ pc' = [pc EXCEPT ![w] = "claimed"]
    /\ job' = [job EXCEPT ![w] = j]
    /\ token' = [token EXCEPT ![w] = claims[j] + 1]
    /\ heartbeatFailed' = [heartbeatFailed EXCEPT ![w] = FALSE]
    /\ UNCHANGED <<spooled, now>>

\* send: os.link publishes the hand-off file, or finds it there with the same
\* payload (the snapshot finalize() stored never changes).
Send(w) ==
    /\ pc[w] = "claimed"
    /\ spooled' = [spooled EXCEPT ![job[w]] = TRUE]
    /\ pc' = [pc EXCEPT ![w] = "sent"]
    /\ UNCHANGED <<rowVars, claims, job, token, heartbeatFailed, now>>

\* Fault variant of SendFails: the error is swallowed.
SendSwallowsError(w) ==
    /\ pc[w] = "claimed"
    /\ pc' = [pc EXCEPT ![w] = "sent"]
    /\ UNCHANGED <<rowVars, spooled, claims, job, token, heartbeatFailed, now>>

\* send raises, before the link or (removing the temporary file) after it.
SendFails(w) ==
    /\ pc[w] = "claimed"
    /\ \E linked \in BOOLEAN :
          spooled' = [spooled EXCEPT ![job[w]] = @ \/ linked]
    /\ pc' = [pc EXCEPT ![w] = "failing"]
    /\ UNCHANGED <<rowVars, claims, job, token, heartbeatFailed, now>>

\* Worker w still holds the row: the WHERE clauses of mark_delivered and
\* renew_delivery.
CurrentClaim(w) ==
    /\ status[job[w]] = "SENDING"
    /\ claimToken[job[w]] = token[w]
    /\ claimExpiresAt[job[w]] > now

Forget(w) ==
    /\ pc' = [pc EXCEPT ![w] = "idle"]
    /\ job' = [job EXCEPT ![w] = None]
    /\ token' = [token EXCEPT ![w] = 0]
    /\ heartbeatFailed' = [heartbeatFailed EXCEPT ![w] = FALSE]

MarkDelivered(w) ==
    /\ pc[w] = "sent"
    /\ ~heartbeatFailed[w]
    /\ CurrentClaim(w)
    /\ status' = [status EXCEPT ![job[w]] = "SENT"]
    /\ claimToken' = [claimToken EXCEPT ![job[w]] = 0]
    /\ claimExpiresAt' = [claimExpiresAt EXCEPT ![job[w]] = 0]
    /\ Forget(w)
    /\ UNCHANGED <<retryVars, spooled, claims, now>>

\* A failed heartbeat is re-raised after the send; a lost claim is refused.
MarkRefused(w) ==
    /\ pc[w] = "sent"
    /\ heartbeatFailed[w] \/ ~CurrentClaim(w)
    /\ pc' = [pc EXCEPT ![w] = "failing"]
    /\ UNCHANGED <<rowVars, spooled, claims, job, token, heartbeatFailed, now>>

\* The row after retry_delivery of job j.
ScheduleRetry(j) ==
    /\ status' = [status EXCEPT ![j] = "PENDING"]
    /\ claimToken' = [claimToken EXCEPT ![j] = 0]
    /\ claimExpiresAt' = [claimExpiresAt EXCEPT ![j] = 0]
    /\ attemptCount' = [attemptCount EXCEPT ![j] = attemptCount[j] + 1]
    /\ failed' = [failed EXCEPT
                    ![j] = failed[j] \/ Exhausted(attemptCount[j] + 1)]
    /\ availableAt' =
          IF Exhausted(attemptCount[j] + 1)
            THEN availableAt
            ELSE [availableAt EXCEPT
                    ![j] = now + RetryDelay(attemptCount[j] + 1)]

\* Fault variant of HoldsToken: any sender may end a claim.
AnySending(w) == status[job[w]] = "SENDING"

HoldsToken(w) == status[job[w]] = "SENDING" /\ claimToken[job[w]] = token[w]

\* retry_delivery needs the token but not an unexpired lease.
RetryDelivery(w) ==
    /\ pc[w] = "failing"
    /\ HoldsToken(w)
    /\ ScheduleRetry(job[w])
    /\ Forget(w)
    /\ UNCHANGED <<spooled, claims, now>>

\* retry_delivery conflicts: a reclaim won, run_once only re-raises.
RetryConflict(w) ==
    /\ pc[w] = "failing"
    /\ ~HoldsToken(w)
    /\ Forget(w)
    /\ UNCHANGED <<rowVars, spooled, claims, now>>

\* The heartbeat thread: renew_delivery.
Heartbeat(w) ==
    /\ pc[w] # "idle"
    /\ ~heartbeatFailed[w]
    /\ CurrentClaim(w)
    /\ now <= LastRenewal
    /\ claimExpiresAt[job[w]] < now + LeaseTime
    /\ claimExpiresAt' = [claimExpiresAt EXCEPT ![job[w]] = now + LeaseTime]
    /\ UNCHANGED <<status, claimToken, retryVars, spooled, claims, workerVars,
                   now>>

\* renew_delivery raises (lost claim, locked database): the thread ends.  A
\* failure after the outcome is decided is never looked at.
HeartbeatFails(w) ==
    /\ pc[w] \in {"claimed", "sent"}
    /\ ~heartbeatFailed[w]
    /\ heartbeatFailed' = [heartbeatFailed EXCEPT ![w] = TRUE]
    /\ UNCHANGED <<rowVars, spooled, claims, pc, job, token, now>>

\* The process dies; a restarted one polls with a new claim.
Crash(w) ==
    /\ pc[w] # "idle"
    /\ Forget(w)
    /\ UNCHANGED <<rowVars, spooled, claims, now>>

\* Time is only observable while a lease or a back-off is running.
Tick ==
    /\ \E j \in Job : \/ status[j] = "SENDING" /\ claimExpiresAt[j] > now
                      \/ status[j] = "PENDING" /\ availableAt[j] > now
    /\ now' = now + 1
    /\ UNCHANGED <<rowVars, spooled, claims, workerVars>>

Poll(w) == ClaimNothing(w) \/ \E j \in Job : ClaimDelivery(w, j)

Deliver(w) ==
    \/ Send(w)
    \/ SendFails(w)
    \/ MarkDelivered(w)
    \/ MarkRefused(w)
    \/ RetryDelivery(w)
    \/ RetryConflict(w)

Next ==
    \/ \E j \in Job : Enqueue(j)
    \/ \E w \in Worker : Poll(w)
    \/ \E w \in Worker : Deliver(w)
    \/ \E w \in Worker : Heartbeat(w) \/ HeartbeatFails(w) \/ Crash(w)
    \/ Tick

Spec == Init /\ [][Next]_vars

\* The background loop polls for ever and run_once never blocks for ever; a
\* heartbeat, a crash or a finalize need not happen.
FairSpec ==
    /\ Spec
    /\ \A w \in Worker : WF_vars(Poll(w)) /\ WF_vars(Deliver(w))
    /\ WF_vars(Tick)

-----------------------------------------------------------------------------
(* Properties.                                                             *)

\* A delivery recorded as SENT was handed off, whichever of several workers
\* sent it and whatever failed in between.
SentIsHandedOff == \A j \in Job : status[j] = "SENT" => spooled[j]

\* A delivery is claimed at most max_delivery_attempts times and is given up
\* only after all of them, however reclaims and late retry_delivery calls of
\* stale workers interleave: no claim is counted twice or not at all.
DeliveryBudget ==
    \A j \in Job :
        /\ claims[j] <= MaxAttempts
        /\ failed[j] => claims[j] = MaxAttempts

\* While its lease lasts only the worker that holds a claim ends it: a stale
\* sender's late mark_delivered or retry_delivery leaves the row alone.
OnlyHolderEndsClaim ==
    [][\A j \in Job :
          status[j] = "SENDING" /\ claimExpiresAt[j] > now
            /\ claimToken'[j] # claimToken[j] =>
              \E w \in Worker :
                  /\ job[w] = j
                  /\ token[w] = claimToken[j]
                  /\ pc[w] # "idle" /\ pc'[w] = "idle"]_vars

\* Every finalized report is eventually delivered or reported as failed, even
\* if workers crash while they hold it.
EveryReportSettles ==
    \A j \in Job : status[j] = "PENDING" ~> status[j] = "SENT" \/ failed[j]

-----------------------------------------------------------------------------
(* The inductive invariant behind them.                                    *)

\* A row carries a token exactly while it is SENDING, and it is the newest
\* one.  Every claim but the one under way, or the successful one, has been
\* counted as an attempt, and the last attempt fails the delivery.
DeliveryShape ==
    \A j \in Job :
        /\ claimToken[j] = IF status[j] = "SENDING" THEN claims[j] ELSE 0
        /\ claims[j] = attemptCount[j]
                         + IF status[j] \in {"SENDING", "SENT"} THEN 1 ELSE 0
        /\ failed[j] <=> attemptCount[j] = MaxAttempts
        /\ failed[j] => status[j] = "PENDING"
        /\ status[j] = "ABSENT" => attemptCount[j] = 0

\* A worker in run_once knows its job and a token that was issued for it, and
\* has come past send() only if the hand-off file exists.
WorkerShape ==
    \A w \in Worker :
        pc[w] # "idle" =>
            /\ job[w] \in Job
            /\ token[w] \in 1..claims[job[w]]
            /\ pc[w] = "sent" => spooled[job[w]]

OutboxInv == TypeOK /\ DeliveryShape /\ WorkerShape /\ SentIsHandedOff
=============================================================================
