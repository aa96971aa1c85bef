----------------------- MODULE FirestoreControlPlane -----------------------
(***************************************************************************)
(* FirestoreReplayControlPlane (src/causalops/firestore_control_plane.py): *)
(* the hosted deployment's jobs, owner decisions and delivery outbox as    *)
(* documents shared by several processes.                                  *)
(*                                                                         *)
(* There is no transaction: a call reads documents, decides, and writes    *)
(* whole documents back, under a lock that only its own process shares.    *)
(* So a call is two steps here, the read that stages its writes and the    *)
(* commit of the staged batch, and between them any other process may      *)
(* commit.  A call of the same process cannot: op[p] is its lock.          *)
(* The processes are the owner-facing ones (Cloud Run, and any other       *)
(* app()) and the one that runs the background workers.                    *)
(*                                                                         *)
(* Left out: the timeline events, which no call reads back except to       *)
(* number the next one.  A failing event write is a Fault after its commit.*)
(***************************************************************************)
EXTENDS Integers, FiniteSets

CONSTANTS
    Job,                  \* document ids (uuid4)
    Key,                  \* idempotency keys the one modelled owner uses
    Decision,
    Checkpoint,
    Report,
    None,                 \* an absent document or field
    Api,                  \* processes that serve create and decide
    Vm,                   \* the process of BackgroundControlPlaneWorkers
    MaxAttempts,          \* max_replay_attempts
    MaxDeliveryAttempts,  \* max_delivery_attempts
    LeaseTime,            \* claim_lease_seconds
    RetryBase,            \* retry_base_seconds
    RetryCap,             \* the 3600 s cap of _retry_delay
    MaxClock,             \* bound on the modelled clock
    MaxClaims,            \* bound on the claim tokens ever issued
    MaxFaults             \* bound on crashes and failed calls

ASSUME FirestoreConstants ==
    /\ Job \subseteq Nat
    /\ IsFiniteSet(Job)
    /\ None \notin Job \cup Decision \cup Checkpoint \cup Report
    /\ Vm \notin Api
    /\ {MaxAttempts, MaxDeliveryAttempts, LeaseTime, RetryBase, RetryCap}
          \subseteq Nat \ {0}
    /\ {MaxClock, MaxClaims, MaxFaults} \subseteq Nat

VARIABLES
    job,       \* replay_jobs/<id>
    decision,  \* owner_decisions/<id>
    delivery,  \* report_deliveries/<id>
    op,        \* the call each process is in, its staged writes included
    known,     \* claim tokens a worker holds in memory
    now,
    tokens,    \* claim tokens generated so far
    faults

docs == <<job, decision, delivery>>
vars == <<job, decision, delivery, op, known, now, tokens, faults>>

Process == Api \cup {Vm}

-----------------------------------------------------------------------------
(* Documents.                                                              *)

JobDoc == [status     : {"QUEUED", "RUNNING", "PAUSED_APPROVAL", "COMPLETED"},
           key        : Key,
           sequence   : Nat,
           token      : Nat,      \* 0 is no claim
           expires    : Nat,
           attempts   : Nat,
           available  : Int,
           failed     : BOOLEAN,  \* failure_reason is set
           incident   : BOOLEAN,  \* incident_id is set
           checkpoint : Checkpoint \cup {None},
           report     : Report \cup {None}]

DeliveryDoc == [status    : {"PENDING", "SENDING", "SENT"},
                sequence  : Nat,
                token     : Nat,
                expires   : Nat,
                attempts  : Nat,
                available : Int,
                failed    : BOOLEAN]

DecisionDoc == [checkpoint : Checkpoint, decision : Decision]

\* A field or a document that is absent is told from every one that is there.
ASSUME AbsentDocument == None \notin JobDoc \cup DeliveryDoc \cup DecisionDoc

\* What a process knows of the call it is in.
CallState == [step     : {"free", "write", "scan", "claimed"},
              id       : Job \cup {None},
              job      : JobDoc \cup {None},
              decision : DecisionDoc \cup {None},
              delivery : DeliveryDoc \cup {None},
              by       : Nat,
              at       : Nat,
              poll     : {"none", "jobs", "deliveries", "claim"}]

\* A process between two calls.
Idle == [step |-> "free", id |-> None, job |-> None, decision |-> None,
         delivery |-> None, by |-> 0, at |-> 0, poll |-> "none"]

Stored(collection) == {j \in Job : collection[j] # None}

Init ==
    /\ job = [j \in Job |-> None]
    /\ decision = [j \in Job |-> None]
    /\ delivery = [j \in Job |-> None]
    /\ op = [p \in Process |-> Idle]
    /\ known = {}
    /\ now = 0
    /\ tokens = 0
    /\ faults = 0

Free(p) == op[p].step = "free"

\* A poll goes by the clock it read at its start.
PollTime == IF Free(Vm) THEN now ELSE op[Vm].at

\* The call of process p stages document j of each collection (None: not
\* written), made with claim token by, and goes on polling after the write.
Stage(p, j, jobDoc, decisionDoc, deliveryDoc, by, poll) ==
    /\ op' = [op EXCEPT ![p] =
                [step |-> "write", id |-> j, job |-> jobDoc,
                 decision |-> decisionDoc, delivery |-> deliveryDoc,
                 by |-> by, at |-> IF poll = "none" THEN 0 ELSE PollTime,
                 poll |-> poll]]
    /\ UNCHANGED <<docs, known, now, faults>>

-----------------------------------------------------------------------------
(* Owner-facing calls.                                                     *)

InUse == Stored(job) \cup {op[p].id : p \in Process}

\* The scan for the owner's idempotency key.
KeyTaken(k) == \E j \in Stored(job) : job[j].key = k

\* create: a key that is stored returns its job (a stuttering step), a new one
\* gets a fresh id and the next sequence number.
Create(p, j, k) ==
    /\ Free(p)
    /\ ~KeyTaken(k)
    /\ j \notin InUse
    /\ \A i \in Job \ InUse : j <= i
    /\ Stage(p, j,
             [status |-> "QUEUED", key |-> k,
              sequence |-> Cardinality(Stored(job)), token |-> 0,
              expires |-> 0, attempts |-> 0, available |-> 0,
              failed |-> FALSE, incident |-> FALSE, checkpoint |-> None,
              report |-> None],
             None, None, 0, "none")
    /\ UNCHANGED tokens

\* decide: one batch of decision, job and event.  A call that finds a decision
\* returns or raises without a write.
Decide(p, j, d) ==
    /\ Free(p)
    /\ j \in Stored(job)
    /\ decision[j] = None
    /\ job[j].status = "PAUSED_APPROVAL"
    /\ job[j].checkpoint # None
    /\ Stage(p, j, [job[j] EXCEPT !.status = "QUEUED"],
             [checkpoint |-> job[j].checkpoint, decision |-> d],
             None, 0, "none")
    /\ UNCHANGED tokens

-----------------------------------------------------------------------------
(* Claim checks and retries, shared by jobs and deliveries.                *)

RetryDelay(attempt) ==
    LET delay == RetryBase * 2^(attempt - 1)
    IN  IF delay < RetryCap THEN delay ELSE RetryCap

\* Fault variant of Held: any token known for the document will do.
Addressed(collection, j, t, running) ==
    j \in Stored(collection) /\ collection[j].status = running

\* The caller presents the document's own token.
Held(collection, j, t, running) ==
    /\ j \in Stored(collection)
    /\ collection[j].status = running
    /\ collection[j].token = t

\* ... and its lease has not run out.
Current(collection, j, t, running) ==
    Held(collection, j, t, running) /\ collection[j].expires > now

\* The claim is over; status is the one to wait in.
Released(doc, waiting) ==
    [doc EXCEPT !.status = waiting, !.token = 0, !.expires = 0]

\* One more attempt is spent: back off, or give up for good.
Spent(doc, waiting, limit, time) ==
    LET attempt == doc.attempts + 1
        ended   == [Released(doc, waiting) EXCEPT !.attempts = attempt]
    IN  IF attempt >= limit
          THEN [ended EXCEPT !.failed = TRUE]
          ELSE [ended EXCEPT !.available = time + RetryDelay(attempt)]

-----------------------------------------------------------------------------
(* Worker-facing calls on jobs.                                            *)

\* renew_running.
RenewRunning(j, t) ==
    /\ Free(Vm)
    /\ Current(job, j, t, "RUNNING")
    /\ Stage(Vm, j, [job[j] EXCEPT !.expires = now + LeaseTime],
             None, None, t, "none")
    /\ UNCHANGED tokens

\* reserve_incident; a stored id is returned without a write.
ReserveIncident(j, t) ==
    /\ Free(Vm)
    /\ Current(job, j, t, "RUNNING")
    /\ ~job[j].incident
    /\ Stage(Vm, j, [job[j] EXCEPT !.incident = TRUE], None, None, t, "none")
    /\ UNCHANGED tokens

\* mark_paused: the job and its event in one batch.
MarkPaused(j, c, t) ==
    /\ Free(Vm)
    /\ Current(job, j, t, "RUNNING")
    /\ Stage(Vm, j,
             [Released(job[j], "PAUSED_APPROVAL") EXCEPT !.checkpoint = c],
             None, None, t, "none")
    /\ UNCHANGED tokens

\* requeue_running: no attempt is counted, the lease may have run out.
RequeueRunning(j, t) ==
    /\ Free(Vm)
    /\ Held(job, j, t, "RUNNING")
    /\ Stage(Vm, j, Released(job[j], "QUEUED"), None, None, t, "none")
    /\ UNCHANGED tokens

\* retry_running.
RetryRunning(j, t) ==
    /\ Free(Vm)
    /\ Held(job, j, t, "RUNNING")
    /\ Stage(Vm, j, Spent(job[j], "QUEUED", MaxAttempts, now),
             None, None, t, "none")
    /\ UNCHANGED tokens

\* Fault variant of Finalize: the delivery is left for a second batch.
FinalizeJobOnly(j, r, t) ==
    /\ Free(Vm)
    /\ Current(job, j, t, "RUNNING")
    /\ Stage(Vm, j, [Released(job[j], "COMPLETED") EXCEPT !.report = r],
             None, None, t, "none")
    /\ UNCHANGED tokens

\* finalize: the job with its report snapshot, its outbox entry and the event
\* in one batch.
Finalize(j, r, t) ==
    /\ Free(Vm)
    /\ Current(job, j, t, "RUNNING")
    /\ Stage(Vm, j, [Released(job[j], "COMPLETED") EXCEPT !.report = r], None,
             [status |-> "PENDING", sequence |-> Cardinality(Stored(delivery)),
              token |-> 0, expires |-> 0, attempts |-> 0, available |-> 0,
              failed |-> FALSE],
             t, "none")
    /\ UNCHANGED tokens

-----------------------------------------------------------------------------
(* claim_next and claim_delivery.                                          *)

\* A poll starts with the process free and goes on after each of its writes.
Polling(kind) == Free(Vm) \/ (op[Vm].step = "scan" /\ op[Vm].poll = kind)

Expired(collection, running) ==
    {j \in Stored(collection) : /\ collection[j].status = running
                                /\ collection[j].expires <= PollTime}

\* It first writes the expired documents back, one at a time.
ReclaimInvestigation(j) ==
    /\ Polling("jobs")
    /\ j \in Expired(job, "RUNNING")
    /\ Stage(Vm, j, Spent(job[j], "QUEUED", MaxAttempts, PollTime), None, None,
             0, "jobs")
    /\ UNCHANGED tokens

ReclaimDelivery(j) ==
    /\ Polling("deliveries")
    /\ j \in Expired(delivery, "SENDING")
    /\ Stage(Vm, j, None, None,
             Spent(delivery[j], "PENDING", MaxDeliveryAttempts, PollTime), 0,
             "deliveries")
    /\ UNCHANGED tokens

\* Queued and not failed.
Waiting(collection, status) ==
    {j \in Stored(collection) : /\ collection[j].status = status
                                /\ ~collection[j].failed}

Due(collection, status) ==
    {j \in Waiting(collection, status) : collection[j].available <= PollTime}

\* Fault variant of LabIsTaken: only a running claim counts.
AnotherRuns == \E j \in Stored(job) : job[j].status = "RUNNING"

\* A job runs, or one that reserved a scenario waits out its back-off.
LabIsTaken ==
    \/ \E j \in Stored(job) : job[j].status = "RUNNING"
    \/ \E j \in Waiting(job, "QUEUED") : /\ job[j].incident
                                         /\ job[j].available > PollTime

\* Reserved incident first, then available_at, then sequence.
ClaimedBefore(a, b) ==
    \/ a.incident /\ ~b.incident
    \/ /\ a.incident = b.incident
       /\ \/ a.available < b.available
          \/ a.available = b.available /\ a.sequence < b.sequence

SentBefore(a, b) ==
    \/ a.available < b.available
    \/ a.available = b.available /\ a.sequence < b.sequence

\* A sort is stable: documents that tie may come in either order.
FirstDueJob(j) ==
    /\ j \in Due(job, "QUEUED")
    /\ \A k \in Due(job, "QUEUED") : ~ClaimedBefore(job[k], job[j])

FirstDueDelivery(j) ==
    /\ j \in Due(delivery, "PENDING")
    /\ \A k \in Due(delivery, "PENDING") : ~SentBefore(delivery[k], delivery[j])

\* The staged write of a claim carries a new token.
StageClaim(j, jobDoc, deliveryDoc, kind) ==
    /\ op' = [op EXCEPT ![Vm] =
                [step |-> "write", id |-> j, job |-> jobDoc,
                 decision |-> None, delivery |-> deliveryDoc, by |-> 0,
                 at |-> 0, poll |-> kind]]
    /\ tokens < MaxClaims
    /\ tokens' = tokens + 1
    /\ UNCHANGED <<docs, known, now, faults>>

ClaimNext(j) ==
    /\ Polling("jobs")
    /\ Expired(job, "RUNNING") = {}
    /\ ~LabIsTaken
    /\ FirstDueJob(j)
    /\ StageClaim(j, [job[j] EXCEPT !.status = "RUNNING", !.token = tokens + 1,
                                    !.expires = PollTime + LeaseTime],
                  None, "claim")

ClaimDelivery(j) ==
    /\ Polling("deliveries")
    /\ Expired(delivery, "SENDING") = {}
    /\ FirstDueDelivery(j)
    /\ StageClaim(j, None,
                  [delivery[j] EXCEPT !.status = "SENDING",
                                      !.token = tokens + 1,
                                      !.expires = PollTime + LeaseTime],
                  "claim")

\* The poll returns None.
ClaimNothing ==
    /\ op[Vm].step = "scan"
    /\ \/ /\ op[Vm].poll = "jobs"
          /\ Expired(job, "RUNNING") = {}
          /\ LabIsTaken \/ Due(job, "QUEUED") = {}
       \/ /\ op[Vm].poll = "deliveries"
          /\ Expired(delivery, "SENDING") = {}
          /\ Due(delivery, "PENDING") = {}
    /\ op' = [op EXCEPT ![Vm] = Idle]
    /\ UNCHANGED <<docs, known, now, tokens, faults>>

\* The claim is written; claim_next still reads the decision and checks it
\* against the job it scanned before it returns the token.  A decision for
\* another checkpoint makes it raise: the claim stands, its token is lost.
DecisionFits(j) ==
    decision[j] # None => decision[j].checkpoint = op[Vm].job.checkpoint

ReturnClaim ==
    LET claimed == IF op[Vm].job # None THEN op[Vm].job ELSE op[Vm].delivery
    IN  /\ op[Vm].step = "claimed"
        /\ known' = IF op[Vm].job # None /\ ~DecisionFits(op[Vm].id)
                      THEN known ELSE known \cup {claimed.token}
        /\ op' = [op EXCEPT ![Vm] = Idle]
        /\ UNCHANGED <<docs, now, tokens, faults>>

-----------------------------------------------------------------------------
(* Worker-facing calls on deliveries.                                      *)

\* mark_delivered.
MarkDelivered(j, t) ==
    /\ Free(Vm)
    /\ Current(delivery, j, t, "SENDING")
    /\ Stage(Vm, j, None, None, Released(delivery[j], "SENT"), t, "none")
    /\ UNCHANGED tokens

\* renew_delivery.
RenewDelivery(j, t) ==
    /\ Free(Vm)
    /\ Current(delivery, j, t, "SENDING")
    /\ Stage(Vm, j, None, None,
             [delivery[j] EXCEPT !.expires = now + LeaseTime], t, "none")
    /\ UNCHANGED tokens

\* release_delivery.
ReleaseDelivery(j, t) ==
    /\ Free(Vm)
    /\ Held(delivery, j, t, "SENDING")
    /\ Stage(Vm, j, None, None, Released(delivery[j], "PENDING"), t, "none")
    /\ UNCHANGED tokens

\* retry_delivery.
RetryDelivery(j, t) ==
    /\ Free(Vm)
    /\ Held(delivery, j, t, "SENDING")
    /\ Stage(Vm, j, None, None,
             Spent(delivery[j], "PENDING", MaxDeliveryAttempts, now), t, "none")
    /\ UNCHANGED tokens

-----------------------------------------------------------------------------
(* Commits and faults.                                                     *)

Overwrite(collection, j, doc) ==
    IF doc = None THEN collection ELSE [collection EXCEPT ![j] = doc]

\* WriteBatch.commit, or one set(): whole documents, all of them or none, over
\* whatever is stored by now.
Commit(p) ==
    /\ op[p].step = "write"
    /\ job' = Overwrite(job, op[p].id, op[p].job)
    /\ decision' = Overwrite(decision, op[p].id, op[p].decision)
    /\ delivery' = Overwrite(delivery, op[p].id, op[p].delivery)
    /\ op' = [op EXCEPT ![p] =
                CASE op[p].poll = "none"  -> Idle
                  [] op[p].poll = "claim" -> [op[p] EXCEPT !.step = "claimed"]
                  [] OTHER -> [Idle EXCEPT !.step = "scan", !.at = op[p].at,
                                           !.poll = op[p].poll]]
    /\ UNCHANGED <<known, now, tokens, faults>>

\* A call raises before its commit, or between a commit and its return: the
\* event write fails, or the decision cannot be read.
Fault(p) ==
    /\ ~Free(p)
    /\ faults < MaxFaults
    /\ faults' = faults + 1
    /\ op' = [op EXCEPT ![p] = Idle]
    /\ UNCHANGED <<docs, known, now, tokens>>

\* The worker process dies: the tokens it held die with it.
Crash ==
    /\ known # {} \/ ~Free(Vm)
    /\ faults < MaxFaults
    /\ faults' = faults + 1
    /\ op' = [op EXCEPT ![Vm] = Idle]
    /\ known' = {}
    /\ UNCHANGED <<docs, now, tokens>>

Tick ==
    /\ now < MaxClock
    /\ now' = now + 1
    /\ UNCHANGED <<docs, op, known, tokens, faults>>

OwnerCall(p) ==
    \/ \E j \in Job, k \in Key : Create(p, j, k)
    \/ \E j \in Job, d \in Decision : Decide(p, j, d)

\* A job is paused once: a resumed graph ends (see ReplayQueue).
WorkerCall(j, t) ==
    \/ RenewRunning(j, t)
    \/ ReserveIncident(j, t)
    \/ \E c \in Checkpoint : /\ job[j] # None /\ job[j].checkpoint = None
                             /\ MarkPaused(j, c, t)
    \/ \E r \in Report : Finalize(j, r, t)
    \/ RetryRunning(j, t)
    \/ RequeueRunning(j, t)
    \/ MarkDelivered(j, t)
    \/ RenewDelivery(j, t)
    \/ ReleaseDelivery(j, t)
    \/ RetryDelivery(j, t)

Poll ==
    \/ \E j \in Job : \/ ReclaimInvestigation(j) \/ ClaimNext(j)
                      \/ ReclaimDelivery(j) \/ ClaimDelivery(j)
    \/ ClaimNothing
    \/ ReturnClaim

Next ==
    \/ \E p \in Api : OwnerCall(p)
    \/ \E j \in Job : \E t \in known : WorkerCall(j, t)
    \/ Poll
    \/ \E p \in Process : Commit(p) \/ Fault(p)
    \/ Crash
    \/ Tick

Spec == Init /\ [][Next]_vars
-----------------------------------------------------------------------------
(* Properties.                                                             *)

\* Documents and staged writes have the fields their readers expect.
TypeOK ==
    /\ job \in [Job -> JobDoc \cup {None}]
    /\ decision \in [Job -> DecisionDoc \cup {None}]
    /\ delivery \in [Job -> DeliveryDoc \cup {None}]
    /\ op \in [Process -> CallState]
    /\ known \subseteq 1..tokens
    /\ {now, tokens, faults} \subseteq Nat

\* The outbox and the jobs agree at every instant: a delivery exists exactly
\* for the completed jobs, with the report to send, through crashes around
\* finalize.
OutboxMatchesJobs ==
    \A j \in Job :
        delivery[j] # None <=>
            /\ j \in Stored(job)
            /\ job[j].status = "COMPLETED"
            /\ job[j].report # None

\* What may end a running claim whose lease has not run out: a call with its
\* token.
ClaimKept(j) ==
    /\ j \in Stored(job)
    /\ job[j].status = "RUNNING"
    /\ job[j].expires > now
    /\ job'[j].token # job[j].token
    => op[Vm].by = job[j].token

\* Nobody takes a job from the worker that holds its unexpired claim: no poll,
\* and no owner call that read the document before the claim was written.
LiveClaimKept == [][\A j \in Job : ClaimKept(j)]_vars

StageOf(j) ==
    CASE job[j] = None                     -> "absent"
      [] job[j] # None /\ job[j].failed    -> "failed"
      [] job[j] # None /\ ~job[j].failed   ->
            CASE job[j].status = "QUEUED"          -> "queued"
              [] job[j].status = "RUNNING"         -> "running"
              [] job[j].status = "PAUSED_APPROVAL" -> "paused"
              [] job[j].status = "COMPLETED"       -> "completed"

FieldOf(collection, j, field, otherwise) ==
    IF collection[j] = None THEN otherwise ELSE collection[j][field]

Promise == INSTANCE ControlPlane WITH
    stage    <- [j \in Job |-> StageOf(j)],
    scenario <- [j \in Job |-> FieldOf(job, j, "incident", FALSE)],
    decision <- [j \in Job |-> FieldOf(decision, j, "decision", None)],
    report   <- [j \in Job |-> FieldOf(job, j, "report", None)]

\* The documents keep the promise of ControlPlane although no call is a
\* transaction: with one owner-facing process beside the worker process, the
\* per-process lock and the order of the writes are enough.
KeepsPromise == Promise!AbstractSpec
-----------------------------------------------------------------------------
(* The invariant behind them.                                              *)

\* What the properties rest on: the deployment has one owner-facing process.
OneApi == \A p, q \in Api : p = q

Status(j, status) == j \in Stored(job) /\ job[j].status = status

\* A job that reserved the lab, before its owner decided anything.
OwnsLab(j) ==
    /\ Status(j, "QUEUED") \/ Status(j, "RUNNING")
    /\ ~job[j].failed
    /\ job[j].incident
    /\ decision[j] = None

\* No worker is running any job, and j may have the lab.
LabIsFreeFor(j) ==
    /\ \A k \in Job : ~Status(k, "RUNNING")
    /\ decision[j] = None => \A k \in Job \ {j} : ~OwnsLab(k)

\* A staged write, and the stored documents it was computed from: they are
\* still as they were read.
CreateStaged(c) ==
    /\ c.id \notin Stored(job)
    /\ c.job # None /\ c.decision = None /\ c.delivery = None
    /\ c.job.status = "QUEUED" /\ ~c.job.failed /\ ~c.job.incident
    /\ c.job.checkpoint = None /\ c.job.report = None
    /\ ~KeyTaken(c.job.key)

DecideStaged(c) ==
    /\ Status(c.id, "PAUSED_APPROVAL")
    /\ decision[c.id] = None
    /\ c.job = [job[c.id] EXCEPT !.status = "QUEUED"]
    /\ c.decision # None /\ c.decision.checkpoint = job[c.id].checkpoint
    /\ c.delivery = None

\* renew_running and reserve_incident keep the claim.
Keeps(doc, c) ==
    /\ c.job.status = "RUNNING" /\ c.job.token = doc.token
    /\ doc.incident => c.job.incident
    /\ c.job.failed = doc.failed
    /\ c.job.checkpoint = doc.checkpoint /\ c.job.report = doc.report
    /\ c.delivery = None

Pauses(doc, c) ==
    /\ c.job.status = "PAUSED_APPROVAL"
    /\ c.job.incident = doc.incident /\ c.job.failed = doc.failed
    /\ doc.checkpoint = None /\ c.job.checkpoint # None
    /\ c.job.report = doc.report
    /\ c.delivery = None

\* requeue_running, retry_running and the reclaim of a poll.
GivesBack(doc, c) ==
    /\ c.job.status = "QUEUED"
    /\ c.job.incident = doc.incident
    /\ c.job.checkpoint = doc.checkpoint /\ c.job.report = doc.report
    /\ c.delivery = None

Completes(doc, c) ==
    /\ c.job.status = "COMPLETED"
    /\ c.job.incident = doc.incident /\ c.job.failed = doc.failed
    /\ c.job.checkpoint = doc.checkpoint /\ c.job.report # None
    /\ c.delivery # None

\* A worker's call, with the claim's token, or after its lease ran out.
WorkStaged(c) ==
    /\ Status(c.id, "RUNNING")
    /\ c.job # None /\ c.decision = None
    /\ c.job.key = job[c.id].key
    /\ \/ Keeps(job[c.id], c) \/ Pauses(job[c.id], c)
       \/ GivesBack(job[c.id], c) \/ Completes(job[c.id], c)
    /\ \/ Keeps(job[c.id], c)
       \/ c.by = job[c.id].token
       \/ job[c.id].expires <= c.at

ClaimStaged(c) ==
    /\ Status(c.id, "QUEUED") /\ ~job[c.id].failed
    /\ LabIsFreeFor(c.id)
    /\ c.job # None /\ c.decision = None /\ c.delivery = None
    /\ c.job.status = "RUNNING"
    /\ c.job.key = job[c.id].key
    /\ c.job.incident = job[c.id].incident /\ ~c.job.failed
    /\ c.job.checkpoint = job[c.id].checkpoint
    /\ c.job.report = job[c.id].report

DeliveryStaged(c) ==
    /\ c.id \in Stored(delivery)
    /\ c.job = None /\ c.decision = None /\ c.delivery # None

StagedShape ==
    /\ \A p \in Process :
          /\ op[p].step = "write" => op[p].id \in Job
          /\ op[p].at <= now
    /\ \A p \in Api :
          op[p].step = "write" => CreateStaged(op[p]) \/ DecideStaged(op[p])
    /\ op[Vm].step = "write" =>
          WorkStaged(op[Vm]) \/ ClaimStaged(op[Vm]) \/ DeliveryStaged(op[Vm])

\* The claim that claim_next or claim_delivery is about to return.
ClaimShape ==
    \/ op[Vm].step = "claimed"
    \/ op[Vm].step = "write" /\ op[Vm].poll = "claim"
    => IF op[Vm].job # None
         THEN op[Vm].job.token \in 1..tokens
         ELSE op[Vm].delivery # None /\ op[Vm].delivery.token \in 1..tokens

\* A job that was given up waits for nobody; a decision names the checkpoint
\* its job paused at.
JobShape ==
    \A j \in Job :
        /\ j \in Stored(job) /\ job[j].failed => job[j].status = "QUEUED"
        /\ Status(j, "PAUSED_APPROVAL") => job[j].checkpoint # None
        /\ decision[j] # None =>
              j \in Stored(job) /\ job[j].checkpoint = decision[j].checkpoint

\* One job runs, and it has the lab for itself unless it only resumes.
LabShape ==
    /\ \A i, j \in Job :
          /\ Status(i, "RUNNING") /\ Status(j, "RUNNING") => i = j
          /\ OwnsLab(i) /\ OwnsLab(j) => i = j
    /\ \A i, j \in Job :
          Status(i, "RUNNING") /\ decision[i] = None /\ OwnsLab(j) => i = j

\* The lock of the one API process covers the scan for a key and the insert.
KeyShape == \A i, j \in Stored(job) : job[i].key = job[j].key => i = j

FirestoreInv ==
    /\ TypeOK
    /\ StagedShape
    /\ ClaimShape
    /\ JobShape
    /\ LabShape
    /\ KeyShape
    /\ OutboxMatchesJobs
=============================================================================
