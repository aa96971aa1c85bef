---------------------------- MODULE ReplayQueue ----------------------------
(***************************************************************************)
(* The job half of SqliteReplayControlPlane (src/causalops/api_runtime.py):*)
(* the replay_jobs table, its mirror of owner decisions                    *)
(* (replay_decisions) and the authoritative owner_decisions ledger that    *)
(* lives in a second database.                                             *)
(*                                                                         *)
(* Every public method runs in one BEGIN IMMEDIATE transaction and is one  *)
(* action here; a refused call raises, rolls back and is a stuttering      *)
(* step.  The exception is decide(), whose ledger write commits in the     *)
(* other database before the queue transition: a crash in between is       *)
(* DecideCrash.  Callers are left open: any worker may present any token   *)
(* that was ever issued, which covers workers that outlive their lease.    *)
(***************************************************************************)
EXTENDS Integers, FiniteSets

CONSTANTS
    Job,          \* row ids of replay_jobs, in insertion order
    Decision,     \* validated owner instructions (choice plus note)
    Checkpoint,   \* LangGraph checkpoint ids
    Report,       \* possible contents of a report.md artifact
    None,         \* SQL NULL
    MaxAttempts,  \* max_replay_attempts
    LeaseTime,    \* claim_lease_seconds
    RetryBase,    \* retry_base_seconds
    RetryCap,     \* the 3600 s cap of _retry_delay
    MaxClock,     \* bound on the modelled clock
    MaxClaims     \* bound on the claim tokens ever issued

ASSUME QueueConstants ==
    /\ Job \subseteq Nat
    /\ IsFiniteSet(Job)
    /\ None \notin Decision \cup Checkpoint \cup Report
    /\ None \notin [checkpoint : Checkpoint, decision : Decision]
    /\ MaxAttempts \in Nat \ {0}
    /\ LeaseTime \in Nat \ {0}
    /\ RetryBase \in Nat \ {0}
    /\ RetryCap \in Nat \ {0}
    /\ MaxClock \in Nat
    /\ MaxClaims \in Nat

VARIABLES
    status,          \* replay_jobs.status; "ABSENT" before create()
    claimToken,      \* 0 is NULL, otherwise the number of the claim
    claimExpiresAt,  \* 0 is NULL
    attemptCount,
    availableAt,
    failed,          \* failure_reason IS NOT NULL
    incident,        \* incident_id IS NOT NULL
    checkpointId,
    reportContent,   \* the immutable snapshot taken by finalize()
    mirror,          \* replay_decisions: the row of each job, or None
    ownerDecisions,  \* owner_decisions: (thread, checkpoint) -> instruction
    latestDecision,  \* checkpoint of the thread's most recent ledger row
    now,             \* the wall clock
    tokens           \* claim tokens issued so far

claimVars == <<claimToken, claimExpiresAt>>
retryVars == <<attemptCount, availableAt, failed>>
ledgerVars == <<ownerDecisions, latestDecision>>
rowVars == <<status, claimVars, retryVars, incident, checkpointId,
             reportContent>>
vars == <<status, claimToken, claimExpiresAt, attemptCount, availableAt,
          failed, incident, checkpointId, reportContent, mirror,
          ownerDecisions, latestDecision, now, tokens>>

-----------------------------------------------------------------------------
Status == {"ABSENT", "QUEUED", "RUNNING", "PAUSED_APPROVAL", "COMPLETED"}

DecisionRow == [checkpoint : Checkpoint, decision : Decision]

\* Every column keeps the values the schema and the row models allow:
\* FAILED_SAFE, which _view reports, is never stored as a status.
TypeOK ==
    /\ status \in [Job -> Status]
    /\ claimToken \in [Job -> Nat]
    /\ claimExpiresAt \in [Job -> Nat]
    /\ attemptCount \in [Job -> Nat]
    /\ availableAt \in [Job -> Int]
    /\ failed \in [Job -> BOOLEAN]
    /\ incident \in [Job -> BOOLEAN]
    /\ checkpointId \in [Job -> Checkpoint \cup {None}]
    /\ reportContent \in [Job -> Report \cup {None}]
    /\ mirror \in [Job -> DecisionRow \cup {None}]
    /\ ownerDecisions \in [Job -> [Checkpoint -> Decision \cup {None}]]
    /\ latestDecision \in [Job -> Checkpoint \cup {None}]
    /\ now \in Nat
    /\ tokens \in Nat

Init ==
    /\ status = [j \in Job |-> "ABSENT"]
    /\ claimToken = [j \in Job |-> 0]
    /\ claimExpiresAt = [j \in Job |-> 0]
    /\ attemptCount = [j \in Job |-> 0]
    /\ availableAt = [j \in Job |-> 0]
    /\ failed = [j \in Job |-> FALSE]
    /\ incident = [j \in Job |-> FALSE]
    /\ checkpointId = [j \in Job |-> None]
    /\ reportContent = [j \in Job |-> None]
    /\ mirror = [j \in Job |-> None]
    /\ ownerDecisions = [j \in Job |-> [c \in Checkpoint |-> None]]
    /\ latestDecision = [j \in Job |-> None]
    /\ now = 0
    /\ tokens = 0

-----------------------------------------------------------------------------
(* The ledger (src/causalops/approvals.py).                                *)

\* read_decision_for_thread: the most recent row of the thread, or None.
LedgerRow(j) ==
    IF latestDecision[j] = None
      THEN None
      ELSE [checkpoint |-> latestDecision[j],
            decision   |-> ownerDecisions[j][latestDecision[j]]]

\* record_decision_before_resume: an insert refused by the primary key
\* (thread_id, checkpoint_id).
RecordDecision(j, c, d) ==
    /\ ownerDecisions[j][c] = None
    /\ ownerDecisions' = [ownerDecisions EXCEPT ![j][c] = d]
    /\ latestDecision' = [latestDecision EXCEPT ![j] = c]

\* Fault variant of EnsureLedgerDecision: the last decision wins.
LastDecisionWins(j, c, d) ==
    /\ ownerDecisions' = [ownerDecisions EXCEPT ![j][c] = d]
    /\ latestDecision' = [latestDecision EXCEPT ![j] = c]

\* _ensure_ledger_decision: first decision wins; an identical retry succeeds.
\* Its look-up and insert are one step here: a row that slips in between for
\* the same checkpoint is re-read and decides the call as if it came first.
EnsureLedgerDecision(j, c, d) ==
    \/ /\ LedgerRow(j) = [checkpoint |-> c, decision |-> d]
       /\ UNCHANGED ledgerVars
    \/ /\ LedgerRow(j) = None
       /\ RecordDecision(j, c, d)

-----------------------------------------------------------------------------
(* Owner-facing operations.                                                *)

\* create: rows are inserted in rowid order.  A repeated idempotency key
\* returns the existing row and is a stuttering step.
Create(j) ==
    /\ status[j] = "ABSENT"
    /\ \A k \in Job : k < j => status[k] # "ABSENT"
    /\ status' = [status EXCEPT ![j] = "QUEUED"]
    /\ UNCHANGED <<claimVars, retryVars, incident, checkpointId,
                   reportContent, mirror, ledgerVars, now, tokens>>

\* Fault variant of Decide: mirror and transition without the ledger write.
DecideMirrorOnly(j, d) ==
    /\ mirror[j] = None
    /\ status[j] = "PAUSED_APPROVAL"
    /\ checkpointId[j] # None
    /\ mirror' = [mirror EXCEPT ![j] = [checkpoint |-> checkpointId[j],
                                        decision   |-> d]]
    /\ status' = [status EXCEPT ![j] = "QUEUED"]
    /\ UNCHANGED <<claimVars, retryVars, incident, checkpointId,
                   reportContent, ledgerVars, now, tokens>>

\* decide, first submission: ledger first, then mirror, queue transition and
\* event in the control-plane transaction.
Decide(j, d) ==
    /\ mirror[j] = None
    /\ status[j] = "PAUSED_APPROVAL"
    /\ checkpointId[j] # None
    /\ EnsureLedgerDecision(j, checkpointId[j], d)
    /\ mirror' = [mirror EXCEPT ![j] = [checkpoint |-> checkpointId[j],
                                        decision   |-> d]]
    /\ status' = [status EXCEPT ![j] = "QUEUED"]
    /\ UNCHANGED <<claimVars, retryVars, incident, checkpointId,
                   reportContent, now, tokens>>

\* decide interrupted after its ledger write: the control-plane transaction
\* is rolled back, the ledger row stays.
DecideCrash(j, d) ==
    /\ mirror[j] = None
    /\ status[j] = "PAUSED_APPROVAL"
    /\ checkpointId[j] # None
    /\ EnsureLedgerDecision(j, checkpointId[j], d)
    /\ UNCHANGED <<rowVars, mirror, now, tokens>>

\* decide, repeated with the mirrored instruction: the ledger row is ensured
\* and nothing else changes.
DecideAgain(j, d) ==
    /\ checkpointId[j] # None
    /\ mirror[j] = [checkpoint |-> checkpointId[j], decision |-> d]
    /\ EnsureLedgerDecision(j, checkpointId[j], d)
    /\ UNCHANGED <<rowVars, mirror, now, tokens>>

\* The CLI's approve/reject writes the same ledger.  It records the checkpoint
\* its own snapshot of the thread names, and its earlier look-up of an
\* existing row may be stale by now: only the primary key protects the insert.
CliRecord(j, c, d) ==
    /\ status[j] # "ABSENT"
    /\ RecordDecision(j, c, d)
    /\ UNCHANGED <<rowVars, mirror, now, tokens>>

-----------------------------------------------------------------------------
(* Worker-facing operations.                                               *)

\* _retry_delay: exponential back-off with a cap.
RetryDelay(attempt) ==
    LET delay == RetryBase * 2^(attempt - 1)
    IN  IF delay < RetryCap THEN delay ELSE RetryCap

\* The attempt that exhausts max_replay_attempts makes the failure terminal:
\* the row keeps status QUEUED and gets a failure_reason.
Exhausted(attempt) == attempt >= MaxAttempts

\* Fault variant of CurrentClaim: the token alone is checked.
HoldsToken(j, t) == status[j] = "RUNNING" /\ claimToken[j] = t

\* The claim checks of mark_paused, finalize, renew_running, reserve_incident.
CurrentClaim(j, t) ==
    /\ status[j] = "RUNNING"
    /\ claimToken[j] = t
    /\ claimExpiresAt[j] > now

\* Fault variant of Expired: a lease never runs out.
NeverExpired == {j \in Job : status[j] = "RUNNING" /\ FALSE}

\* _reclaim_expired_investigations: the rows whose lease has run out.
Expired == {j \in Job : status[j] = "RUNNING" /\ claimExpiresAt[j] <= now}

\* _reconcile_durable_decisions: the paused rows the ledger already decided.
Decided == {j \in Job : status[j] = "PAUSED_APPROVAL" /\ LedgerRow(j) # None}

\* ... which raises when a ledger row and its job disagree; the exception
\* rolls the whole poll back, the reclaims included.
Disagreement ==
    \E j \in Decided :
        \/ LedgerRow(j).checkpoint # checkpointId[j]
        \/ mirror[j] # None /\ mirror[j] # LedgerRow(j)

\* The table after the first two steps of claim_next.
StatusAfterReclaim ==
    [j \in Job |-> IF j \in Expired \cup Decided THEN "QUEUED" ELSE status[j]]
AttemptsAfterReclaim ==
    [j \in Job |-> IF j \in Expired THEN attemptCount[j] + 1
                                    ELSE attemptCount[j]]
FailedAfterReclaim ==
    [j \in Job |-> failed[j] \/ (j \in Expired /\ Exhausted(attemptCount[j] + 1))]
AvailableAfterReclaim ==
    [j \in Job |-> IF j \in Expired /\ ~Exhausted(attemptCount[j] + 1)
                    THEN now + RetryDelay(attemptCount[j] + 1)
                    ELSE availableAt[j]]
\* Fault variant of MirrorAfterReclaim: requeues without mirroring the row.
MirrorNotReconciled == mirror

MirrorAfterReclaim ==
    [j \in Job |-> IF j \in Decided /\ mirror[j] = None THEN LedgerRow(j)
                                                       ELSE mirror[j]]

\* Queued, not failed: the rows the two SELECTs of claim_next range over.
Claimable(j) == StatusAfterReclaim[j] = "QUEUED" /\ ~FailedAfterReclaim[j]

\* Fault variant of LabIsTaken: without the check for a deferred scenario.
RunningOnly == \E j \in Job : StatusAfterReclaim[j] = "RUNNING"

\* Another claim is still running, or a job that reserved a scenario waits
\* out its back-off: no job may start.
LabIsTaken ==
    \/ \E j \in Job : StatusAfterReclaim[j] = "RUNNING"
    \/ \E j \in Job : /\ Claimable(j)
                       /\ incident[j]
                       /\ AvailableAfterReclaim[j] > now

Ready == {j \in Job : Claimable(j) /\ AvailableAfterReclaim[j] <= now}

\* ORDER BY reserved incident first, then available_at, then rowid.
ClaimedBefore(j, k) ==
    \/ incident[j] /\ ~incident[k]
    \/ /\ incident[j] = incident[k]
       /\ \/ AvailableAfterReclaim[j] < AvailableAfterReclaim[k]
          \/ /\ AvailableAfterReclaim[j] = AvailableAfterReclaim[k]
             /\ j < k

FirstReady(j) == j \in Ready /\ \A k \in Ready \ {j} : ClaimedBefore(j, k)

\* The updates of the first two steps, shared by both outcomes of claim_next.
Reclaim ==
    /\ ~Disagreement
    /\ attemptCount' = AttemptsAfterReclaim
    /\ failed' = FailedAfterReclaim
    /\ availableAt' = AvailableAfterReclaim
    /\ mirror' = MirrorAfterReclaim

\* claim_next returns None: the reclaims are committed all the same.
ClaimNothing ==
    /\ LabIsTaken \/ Ready = {}
    /\ Reclaim
    /\ status' = StatusAfterReclaim
    /\ claimToken' = [j \in Job |-> IF j \in Expired THEN 0 ELSE claimToken[j]]
    /\ claimExpiresAt' =
          [j \in Job |-> IF j \in Expired THEN 0 ELSE claimExpiresAt[j]]
    /\ UNCHANGED <<incident, checkpointId, reportContent, ledgerVars, now,
                   tokens>>

\* claim_next hands job j out.  A mirrored decision must name the job's own
\* checkpoint and agree with the ledger, or the poll rolls back.
ClaimNext(j) ==
    /\ ~LabIsTaken
    /\ FirstReady(j)
    /\ tokens < MaxClaims
    /\ Reclaim
    /\ \/ /\ MirrorAfterReclaim[j] = None
          /\ UNCHANGED ledgerVars
       \/ /\ MirrorAfterReclaim[j] # None
          /\ MirrorAfterReclaim[j].checkpoint = checkpointId[j]
          /\ EnsureLedgerDecision(j, checkpointId[j],
                                  MirrorAfterReclaim[j].decision)
    /\ tokens' = tokens + 1
    /\ status' = [StatusAfterReclaim EXCEPT ![j] = "RUNNING"]
    /\ claimToken' = [k \in Job |-> IF k = j THEN tokens + 1
                                   ELSE IF k \in Expired THEN 0
                                   ELSE claimToken[k]]
    /\ claimExpiresAt' = [k \in Job |-> IF k = j THEN now + LeaseTime
                                       ELSE IF k \in Expired THEN 0
                                       ELSE claimExpiresAt[k]]
    /\ UNCHANGED <<incident, checkpointId, reportContent, now>>

\* renew_running: the heartbeat of the worker that holds token t.
RenewRunning(j, t) ==
    /\ CurrentClaim(j, t)
    /\ claimExpiresAt' = [claimExpiresAt EXCEPT ![j] = now + LeaseTime]
    /\ UNCHANGED <<status, claimToken, retryVars, incident, checkpointId,
                   reportContent, mirror, ledgerVars, now, tokens>>

\* reserve_incident: the scenario identity is durable before the lab starts.
ReserveIncident(j, t) ==
    /\ CurrentClaim(j, t)
    /\ incident' = [incident EXCEPT ![j] = TRUE]
    /\ UNCHANGED <<status, claimVars, retryVars, checkpointId, reportContent,
                   mirror, ledgerVars, now, tokens>>

\* mark_paused: the graph's checkpoint becomes the one the owner decides on.
MarkPaused(j, c, t) ==
    /\ CurrentClaim(j, t)
    /\ status' = [status EXCEPT ![j] = "PAUSED_APPROVAL"]
    /\ checkpointId' = [checkpointId EXCEPT ![j] = c]
    /\ claimToken' = [claimToken EXCEPT ![j] = 0]
    /\ claimExpiresAt' = [claimExpiresAt EXCEPT ![j] = 0]
    /\ UNCHANGED <<retryVars, incident, reportContent, mirror, ledgerVars,
                   now, tokens>>

\* finalize: snapshot of the published artifact, terminal for the job.
Finalize(j, r, t) ==
    /\ CurrentClaim(j, t)
    /\ status' = [status EXCEPT ![j] = "COMPLETED"]
    /\ reportContent' = [reportContent EXCEPT ![j] = r]
    /\ claimToken' = [claimToken EXCEPT ![j] = 0]
    /\ claimExpiresAt' = [claimExpiresAt EXCEPT ![j] = 0]
    /\ UNCHANGED <<retryVars, incident, checkpointId, mirror, ledgerVars, now,
                   tokens>>

\* retry_running: needs the token, but not an unexpired lease.
RetryRunning(j, t) ==
    /\ status[j] = "RUNNING"
    /\ claimToken[j] = t
    /\ status' = [status EXCEPT ![j] = "QUEUED"]
    /\ claimToken' = [claimToken EXCEPT ![j] = 0]
    /\ claimExpiresAt' = [claimExpiresAt EXCEPT ![j] = 0]
    /\ attemptCount' = [attemptCount EXCEPT ![j] = attemptCount[j] + 1]
    /\ failed' = [failed EXCEPT
                    ![j] = failed[j] \/ Exhausted(attemptCount[j] + 1)]
    /\ availableAt' =
          IF Exhausted(attemptCount[j] + 1)
            THEN availableAt
            ELSE [availableAt EXCEPT
                    ![j] = now + RetryDelay(attemptCount[j] + 1)]
    /\ UNCHANGED <<incident, checkpointId, reportContent, mirror, ledgerVars,
                   now, tokens>>

\* requeue_running: releases the claim without counting an attempt.
RequeueRunning(j, t) ==
    /\ status[j] = "RUNNING"
    /\ claimToken[j] = t
    /\ status' = [status EXCEPT ![j] = "QUEUED"]
    /\ claimToken' = [claimToken EXCEPT ![j] = 0]
    /\ claimExpiresAt' = [claimExpiresAt EXCEPT ![j] = 0]
    /\ UNCHANGED <<retryVars, incident, checkpointId, reportContent, mirror,
                   ledgerVars, now, tokens>>

\* The clock is only observable through leases and back-offs.
Tick ==
    /\ now < MaxClock
    /\ now' = now + 1
    /\ UNCHANGED <<rowVars, mirror, ledgerVars, tokens>>

-----------------------------------------------------------------------------
(* A job is resumed, never paused a second time: resume_graph_investigation*)
(* asserts a terminal result, so mark_paused is only called for a claim    *)
(* that carried no checkpoint.                                             *)
WorkerCall(j, t) ==
    \/ RenewRunning(j, t)
    \/ ReserveIncident(j, t)
    \/ \E c \in Checkpoint : checkpointId[j] = None /\ MarkPaused(j, c, t)
    \/ \E r \in Report : Finalize(j, r, t)
    \/ RetryRunning(j, t)
    \/ RequeueRunning(j, t)

OwnerCall(j) ==
    \/ Create(j)
    \/ \E d \in Decision : Decide(j, d) \/ DecideCrash(j, d) \/ DecideAgain(j, d)
    \/ \E c \in Checkpoint, d \in Decision : CliRecord(j, c, d)

Next ==
    \/ \E j \in Job : OwnerCall(j)
    \/ \E j \in Job : ClaimNext(j)
    \/ ClaimNothing
    \/ \E j \in Job : \E t \in 1..tokens : WorkerCall(j, t)
    \/ Tick

Spec == Init /\ [][Next]_vars
-----------------------------------------------------------------------------
(* Properties.                                                             *)

\* The single mutable lab is never driven for two jobs at once: whatever
\* leases expire, tokens go stale or decisions arrive, claim_next leaves at
\* most one row RUNNING.
AtMostOneRunning ==
    \A j, k \in Job : status[j] = "RUNNING" /\ status[k] = "RUNNING" => j = k

\* A job that reserved a scenario and was never paused still owns the lab.
OwnsLab(j) ==
    /\ status[j] \in {"QUEUED", "RUNNING"}
    /\ ~failed[j]
    /\ incident[j]
    /\ checkpointId[j] = None

\* While a job owns the lab no other job runs, back-off elapsed or not, unless
\* that other job only resumes from a decided checkpoint and needs no lab: the
\* deferral SELECT of claim_next and its "incident first" ordering are both
\* needed.
LabExclusive ==
    \A j, k \in Job :
        OwnsLab(j) /\ status[k] = "RUNNING" /\ j # k => checkpointId[k] # None

\* Two jobs never both own the lab: claim_next gives no second job the chance
\* to reserve a scenario while the first one is queued for a retry.
OneLabOwner ==
    \A j, k \in Job : OwnsLab(j) /\ OwnsLab(k) => j = k

\* A decision the queue acts on is durable in the ledger the graph resumes
\* from: decide() writes owner_decisions before replay_decisions, and a crash
\* between the two databases can only lose the mirror, never the ledger row.
MirrorBackedByLedger ==
    \A j \in Job :
        mirror[j] # None =>
            ownerDecisions[j][mirror[j].checkpoint] = mirror[j].decision

\* A job leaves PAUSED_APPROVAL only with an instruction on record for the
\* checkpoint it paused at, so no claim ever resumes a paused graph without
\* an owner decision (run() would raise "resumed investigation has no owner
\* decision" and burn an attempt).
ResumedOnlyWhenDecided ==
    \A j \in Job :
        checkpointId[j] # None /\ status[j] # "PAUSED_APPROVAL" =>
            /\ mirror[j] # None
            /\ mirror[j].checkpoint = checkpointId[j]

\* What a step may do to a terminal row: nothing.
RowIsFinal(j) ==
    /\ status[j] = "COMPLETED" =>
          /\ status'[j] = "COMPLETED"
          /\ reportContent'[j] = reportContent[j]
          /\ failed'[j] = failed[j]
    /\ failed[j] => failed'[j] /\ status'[j] = "QUEUED"

\* Terminal rows stay as they are: a finalized report is never replaced,
\* reopened or failed, a failed job is never claimed again, and a stale
\* worker's late call cannot revive either.
TerminalIsFinal == [][\A j \in Job : RowIsFinal(j)]_vars

\* What a step may do to a running row while its lease lasts, and after.
LeaseFenced(j) ==
    status[j] = "RUNNING" =>
        IF claimExpiresAt[j] > now
          THEN claimToken'[j] \in {0, claimToken[j]}
          ELSE status'[j] \in {"RUNNING", "QUEUED"}

\* A lease fences publication: while it lasts no poll hands the job to
\* another worker, and once it has run out its holder can neither pause nor
\* complete the job, whether or not the row was reclaimed yet; the row can
\* only go back to the queue.
LeaseFencesPublication == [][\A j \in Job : LeaseFenced(j)]_vars

-----------------------------------------------------------------------------
(* Refinement: the two databases together are one control plane.           *)

\* The decision the graph will be resumed with is the ledger's, from the
\* moment it is there; the mirror is an implementation detail.
LedgerDecision(j) ==
    IF checkpointId[j] = None THEN None ELSE ownerDecisions[j][checkpointId[j]]

\* A row the ledger decided waits for a worker, reconciled or not; FAILED_SAFE
\* is a queued row with a failure reason (_view).
StageOf(j) ==
    CASE status[j] = "ABSENT"    -> "absent"
      [] status[j] = "RUNNING"   -> "running"
      [] status[j] = "COMPLETED" -> "completed"
      [] status[j] = "QUEUED"    -> IF failed[j] THEN "failed" ELSE "queued"
      [] status[j] = "PAUSED_APPROVAL" ->
            IF LedgerDecision(j) = None THEN "paused" ELSE "queued"

Promise == INSTANCE ControlPlane WITH
    stage    <- [j \in Job |-> StageOf(j)],
    scenario <- incident,
    decision <- [j \in Job |-> LedgerDecision(j)],
    report   <- reportContent

\* The SQLite control plane keeps the promise of ControlPlane through crashes
\* between its two databases, reconciliation, expiring leases, stale tokens
\* and the CLI: decisions are taken once and never change, reports are kept,
\* ended jobs stay ended, and the lab goes to one job at a time.
KeepsPromise == Promise!AbstractSpec

-----------------------------------------------------------------------------
(* The inductive invariant behind the theorems of ReplayQueueProofs.       *)

\* A row carries a token exactly while it is RUNNING; only queued rows fail;
\* a paused row names its checkpoint; a row that does not exist has neither
\* scenario nor checkpoint.
RowShape ==
    \A j \in Job :
        /\ status[j] = "RUNNING" <=> claimToken[j] # 0
        /\ claimToken[j] <= tokens
        /\ failed[j] => status[j] = "QUEUED"
        /\ status[j] = "PAUSED_APPROVAL" => checkpointId[j] # None
        /\ status[j] = "ABSENT" => ~incident[j] /\ checkpointId[j] = None

\* The row read back for a thread exists, and a mirrored row names the
\* checkpoint its job paused at.
LedgerShape ==
    \A j \in Job :
        /\ latestDecision[j] # None =>
              ownerDecisions[j][latestDecision[j]] # None
        /\ mirror[j] # None => mirror[j].checkpoint = checkpointId[j]

QueueInv ==
    /\ TypeOK
    /\ RowShape
    /\ LedgerShape
    /\ AtMostOneRunning
    /\ LabExclusive
    /\ OneLabOwner
    /\ MirrorBackedByLedger
    /\ ResumedOnlyWhenDecided
=============================================================================
