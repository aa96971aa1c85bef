# CausalOps: TLA+ models, checks and proofs

CausalOps replays a recorded fault into a small lab, lets a language model
investigate it under a fixed budget, pauses for its owner when the evidence
conflicts, and delivers a report. Most of what can go wrong in it is not in a
function but between functions: two databases and a directory tree that commit
separately, worker processes that die or outlive their lease, a paid request
whose answer is lost, a graph node that is executed twice. This directory models
those parts in TLA+, checks them with TLC on small instances and proves the
central properties with TLAPS for all instances.

Source paths below are relative to `src/src/causalops/`; `PROJECT.json` maps
every definition to its lines.

## 1. The system

| Part | State it keeps | Operations |
|---|---|---|
| Replay control plane, SQLite (`api_runtime.py`) | `replay_jobs` rows (status, claim token and expiry, attempts, back-off, failure, incident, checkpoint, report), `replay_decisions` | create, decide, claim_next (with reclaim and reconciliation), reserve_incident, renew, mark_paused, retry, requeue, finalize |
| Owner-decision ledger (`approvals.py`, `cli.py`) | `owner_decisions`, in another database, unique per (thread, checkpoint) | record before resume, read for thread |
| Report outbox (`api_runtime.py`) | `report_deliveries` rows, hand-off files | claim, renew, mark delivered, retry; the delivery worker and its filesystem sender |
| Hosted worker (`api_runtime.py`) | the loop's position, its claim, its heartbeat thread | reconcile, claim, provision, investigate, settle, deliver |
| Scenario control (`scenario_control.py`) | active-incident marker, lock file, `runs/<incident>` | start, release, reset, clear |
| Run records (`run_records.py`) | the finalized artifact directory | one atomic publication |
| Investigation graph (`graph.py`) | the checkpointed thread: counters, proposal, receipts, evidence, assessment, failure, escalation | one operation per node; start, recover, resume |
| Tool policy and reservations (`policy.py`, `tool_wrappers.py`) | receipts of the current investigation | authorize, reserve, run, settle |
| Cost ledger (`cost_ledger.py`, `live_model.py`) | `cost_ledger` rows | reserve, send, settle, totals of a run |
| Firestore control plane (`firestore_control_plane.py`) | job, decision and delivery documents | the queue's and the outbox's operations as reads and batched writes, under a lock per process |
| Firestore checkpointer (`firestore_checkpointer.py`) | per thread: one document, its checkpoints, the pending writes under each | get, put, put_writes, delete_thread |
| Artifact store (`gcs_artifacts.py`) | objects of a finished run | upload |
| MCP transport (`mcp_*.py`) | a child process, its JSON-RPC session and reader thread, the child's policy ledger | start, call, deadline, respawn, close |
| Paired evaluation (`evaluate_cli.py`, `evaluation.py`) | the records of the scored runs | preflight, run loop, scoring, clean-up, summary |
| Telemetry, runbooks, prompts, reports, routes, CLI | none of their own | reads, rendering, request checks |

How they interact. The HTTP routes and the CLI call the control plane. The
background loop of each service process polls it: first it reconciles the lab
marker, then it claims a job, provisions the lab, runs or resumes the graph,
publishes and uploads the artifact, tells the queue, gives the lab back, and
then drains one delivery. The graph saves its thread through a checkpointer; it
calls the model through the cost ledger, and the lab through the policy and the
reservation ledger, directly or over the MCP child. The evaluation runs the same
graph over a corpus, with a lab start and a child of its own for every run.
Processes share only the databases (SQLite, or Firestore when the owner-facing
API is deployed apart from the worker) and the file system; a heartbeat thread
renews the lease of the claim its worker holds.

What is hard, and what makes each part correct:

* *Queue.* Several processes poll; leases expire between a worker's steps; the
  decision is committed in one database and mirrored in another. Correct when
  one job at a time uses the lab, nothing resumes without a durable decision,
  and terminal rows are final.
* *Outbox.* The hand-off precedes the transaction that records it, and two
  mechanisms (reclaim, retry) count attempts. Correct when SENT means handed
  off, each claim is counted once and every report settles.
* *Hosted worker and lab.* A death can separate any two of: queue transition,
  marker, run directory, checkpoint, artifact. Correct when a job observes its
  own fault, a thread starts once, a paused job can still be resumed, and the
  lab is always given back.
* *Graph.* Four pools (calls, repairs, checks, searches) are spent on different
  paths, exceptions can fall between reserve, run and settle, and a node may be
  executed again. Correct when the assessment is always funded, what ran is on a
  receipt unless the investigation is reported as failed or its process died,
  receipts and evidence agree, and an owner's run is not concluded over a reason
  to escalate.
* *Cost ledger.* A time-out does not tell whether the request was charged.
  Correct when no request is sent twice, and reported cost is real cost.
* *Firestore.* Calls are reads followed by whole-document writes, and a lock
  covers one process only. Correct when the same promises hold as in SQLite for
  the processes that are really deployed.
* *Checkpointer.* A step of the graph is several documents, which the graph
  library stores in the background. Correct when recovery finds whole updates
  (not modelled, section 6).
* *MCP transport.* Time-outs, respawns and late lines, with request numbers that
  start again. Correct when a receipt tells what happened to its own check.
* *Evaluation.* Every run costs money and can break in many places. Correct when
  paid runs are on disk, nothing is paid after an abort, and the published
  figures are those of the records.

`PROJECT.json` lists these as hazards, each at its line.

## 2. Modules

| Module | Models | Used by |
|---|---|---|
| `ControlPlane` | what any control plane promises: stages of a job, one lab, decisions taken once, reports kept | `INSTANCE`d by `ReplayQueue` and `FirestoreControlPlane` |
| `ReplayQueue` | SQLite: jobs, decision mirror and decision ledger | `ReplayQueueProofs`, `HostedWorker` |
| `FirestoreControlPlane` | Firestore: jobs, decisions and outbox as documents | `FirestoreControlPlaneProofs` |
| `HostedWorker` | loop, lab, graph thread and artifacts around the queue; composes with `ReplayQueue` and is shown to implement it | `HostedWorkerProofs` |
| `ReportOutbox` | deliveries, delivery worker, sender (SQLite) | `ReportOutboxProofs` |
| `CostLedger` | ledger rows and the send protocol | `CostLedgerProofs` |
| `InvestigationGraph` | one investigation: nodes, routers, policy, reservations | `InvestigationGraphProofs` |
| `McpTransport` | session, child, reader thread, forwarders and the child's policy | `PairedEvaluation` |
| `PairedEvaluation` | the evaluation batch, composed with the transport | `PairedEvaluationProofs` |

Each of them but `ControlPlane` and `McpTransport` has an `MC*` module, which
only defines constants and symmetry sets. The definitions whose
comment begins "Fault variant of" are plausible bugs; no specification uses
them. They are there to show that each property depends on the code: replacing
the named definition by its variant makes TLC report a violation of the property
(`mutants` in `PROJECT.json`).

**ReplayQueue.** One variable per column. Each public method is a `BEGIN
IMMEDIATE` transaction and one action; a refused call rolls back and is a
stuttering step. `claim_next` is one action with everything it does first:
reclaiming expired rows and reconciling decisions (`StatusAfterReclaim`,
`MirrorAfterReclaim`, ...) come before the choice of the row. `decide` writes the
other database first, so `DecideCrash` leaves the ledger row without the mirror.
Claim tokens (UUIDs) are numbers; a `WorkerCall` may present any token ever
issued, which covers every stale worker. `FAILED_SAFE` is only a view in the
code, so it is the `failed` bit here.

**ControlPlane** and its two implementations are described in section 4.

**FirestoreControlPlane.** `op[p]` is the call process `p` is in and stands for
its lock. A call reads and stages its writes in one step (`Stage`) and commits
them in another (`Commit`); other processes commit in between, and the call then
writes the whole documents it read. A poll judges leases by the clock it read at
its start (`PollTime`) and commits one reclaimed document after the other before
it claims. A `Fault` after the commit is an event write or a read that raises
when the claim is already stored, so its token is lost; `Crash` ends the worker
process. `known` are the tokens a worker holds; it may present any of them, late
too. `release_delivery` is an action here, although nothing calls it.

**HostedWorker.** `pc[w]` is the place of a process in one loop iteration. A
step is what no other process can see half-done: a queue transaction, a section
under `_scenario_lock`, one file operation, one graph invocation. A scenario
start is split into mkdir, create marker, write marker, write configuration,
drive traffic, because a process can die between them; publication is split
into the local rename, the upload and the queue's `finalize`. The graph is the
states of its thread: none, started, interrupted, settled; `StartGraph` is the
moment its first checkpoint is stored. Delivery is one step;
its details are in `ReportOutbox`. An exception in the replay worker leaves the
iteration before the delivery worker, as in `_run`. `LeaseLapses` lets a lease
run out under a worker that goes on (`Stall`).

**ReportOutbox.** The table's transactions plus `pc[w]` for `run_once`: claimed,
sent, failing. The heartbeat thread, its failure, crashes and the clock
interleave with every step. The spooled file is created once with the same
payload, so its state is one bit.

**CostLedger.** A request key is a run and a turn; prices are integer units. The
provider is external: it decides at the invocation what it charges, up to
`MaxError` above the reservation, and the program learns it at settlement or,
when the answer is lost, never.

**InvestigationGraph.** LangGraph commits a node's update together with the
edge, so a node and its router are one action. `Answers` is the set of outcomes
of `_ask_with_repair` with the calls and repairs each has counted. A check
stands for its fingerprint (tool and effective arguments). `GiveUp` is the
blanket handler of `_settle_invocation`, which reports from the last checkpoint
and writes nothing back; `Crash` is a death. Either can come after requests and
checks that no stored checkpoint shows: those of a node that raises out of its
own handler (`graph.py:1111-1118` says so of a dispatch whose `recorder.event`
fails), and those of later nodes whose checkpoints the library was still storing
in the background. `Unrecorded` is every such remainder that the budgets and the
routers allow; after a death the thread is run again from the stored
checkpoint. `mode` selects the owner's graph, a scored run (no escalation) or
the no-tool baseline.

**McpTransport.** Parent, child and the parent's reader thread are separate
actors joined by `stdout` and the line queue. The child may die in the middle of
a line or between running a check and answering it, print what is no answer, or answer after the deadline. The parent then
gives the check up, and replaces a dead or timed-out child when the next check
is forwarded; no check is sent twice. A reader thread that outlives its join
(`DrainLate`) feeds the next child's queue. The child's own
policy (`Admits`) starts from nothing after a respawn.

**PairedEvaluation.** One state per place of the batch: preflight, scenario,
building the child, checks over `McpTransport`, the answer, finalize, score,
write, reset, summary. A `Kill` ends the batch anywhere, any file write or reset
may fail, and another process may spend from the same ledger. The investigation
in between is only what reaches the score: its checks' receipts and one of
`Report`. Money is in units: the preflight counts `PreflightPrice` a request, the
largest reservation at Sonnet 5 prices (`live_setup.py:261`), the runs reserve
`CallPrice` each, the price of the model that is selected, and the bills may
exceed their reservations by `MaxExcess` in all. A run uses up its requests,
since the ceiling is nearest then: the tool arm its calls and repairs, the
baseline one assessment and its repair.

## 3. Runs

| Run | Expect | States (distinct) | Shows |
|---|---|---|---|
| `queue` | pass | 424,605 | two jobs, two instructions, two checkpoint ids: decisions are durable before a resume, leases fence stale workers, and the rows implement `ControlPlane` |
| `firestore` | pass | 184,213 | one API process beside the worker's: outbox and jobs agree at every instant, live claims are kept, and the documents implement `ControlPlane` |
| `firestore_two_api` | violation | | two API processes that decide the same job take it from the worker that runs it |
| `cost_ledger` | pass | 19,305 | two processes, four requests: no second send, real cost reported, overrun bounded |
| `cost_overrun` | violation | | the "one request's estimation error" bound of a comment does not hold for lost answers |
| `outbox` | pass | 526,535 | two deliveries, two workers: SENT is handed off, attempts counted once, stale senders harmless, every report is delivered or reported failed |
| `hosted` | pass | 1,430,740 | two jobs, two processes, one death anywhere or one lease that runs out under a live worker: lab, thread, resume inputs and uploads are right, and the queue specification is implemented |
| `hosted_liveness` | pass | 171,917 | jobs settle, reports are delivered, the lab is given back |
| `hosted_empty_marker` | violation | | a death between creating and writing the marker stops the loop for good |
| `graph` | pass | 1,755,500 | budgets, receipts, evidence, owner gate, termination, with handlers that fail and a death |
| `evaluation` | pass | 3,659,063 | two incidents in two arms over the MCP child: truthful receipts, durable records, a preflight that suffices at its own price, clean-up, honest summary, no spending after an abort |
| `evaluation_opus` | violation | | a batch with a dearer model passes the preflight and meets the ceiling partway |

No run names a type invariant (`TypeOK`, `HostedTypeOK`, `BatchTypeOK`): each is
a conjunct of an inductive invariant that is proved (section 5). The inductive
invariants themselves (`QueueInv`, `HostedInv`, `FirestoreInv`,
`OutboxInv`, `EvaluationInv`, `ReceiptInv`, ...) hold under their module's configuration too
and can be added to it as an INVARIANT.

### Violations, and what they mean

* `cost_overrun`: `cost_ledger.py:38-44` bounds the overrun of the ceiling by
  one request's estimation error because an overrun is observed before the next
  request. A request whose answer is lost stays RESERVED at its estimate, so its
  overrun is never observed, and several such requests add up. What does hold,
  and is checked and proved (`RealSpendBounded`), is one estimation error per
  request with a lost answer and one per process that may be sending.
* `hosted_empty_marker`: `_claim_scenario` creates the marker and then writes
  it. If the process dies in between, `reconcile_scenarios` raises on the empty
  file at the start of every iteration, before jobs and deliveries are looked
  at. The comment in `_run` expects the service to go on with "the next
  independent durable work item". `hosted_liveness` excludes exactly this death.
* `firestore_two_api`: the module's docstring calls its lock sufficient for "one
  `BackgroundControlPlaneWorkers` process", but `infra/DEPLOYMENT.md` puts the
  owner-facing API on autoscaling Cloud Run instances, each with a lock of its
  own. Two of them read the same paused job, one decides it, the worker claims
  it, and the second one's write of the whole document returns the RUNNING job
  to QUEUED without its token. With one API process (`firestore`) this cannot
  happen: only `decide` writes a paused job, and only the worker's process
  writes others.
* `evaluation_opus`: `_preflight_worst_case_batch_usd` is documented as the
  largest amount the batch could ever reserve, and the check as what refuses a
  doomed batch before its first scenario. The amount per call is fixed to the
  prices of Sonnet 5 (`live_setup.py:261-263`); the reservations use the model
  of `CAUSALOPS_LIVE_MODEL` (`mcp_client_registry.py:360-366`), and Opus 5, the
  recommended one, is 2.5 times as dear. With nobody else spending and no bill
  above its reservation, three of the four runs of the instance are paid for
  before the fourth is refused. What holds, and is checked and proved
  (`PreflightSuffices`), is the same claim for a model that is no dearer than
  the preflight's price.

Disagreements between text and code that were met on the way and have no run:

* The comment at `claim_next` (`api_runtime.py:930-933`) says that two workers
  cannot contaminate each other's telemetry. The guard covers RUNNING rows, not
  processes: when a lease has run out on the last attempt, the row is given up,
  its marker is reset and the next job starts while the old worker still drives
  traffic. `ScenarioHeldWhileObserved` is therefore stated for workers that keep
  their lease.
* README "Budgets" counts one repair inside the four model calls; the code pays
  repairs from a pool of their own, two by default. `ModelSpendBounded` and the
  evaluation's preflight count them on top.
* The checkpointer speaks of optimistic revisions; `put` and `put_writes` check
  none.
* The preflight and the ceiling trust that a bill does not exceed its
  reservation; the ledger itself does not (`cost_ledger.py:408-437` counts the
  larger of the two). `PreflightSuffices` says so in its condition.
* A malformed or misnumbered MCP line leaves the session's request pending: every
  later call of that session is refused, visibly, with an ERROR receipt. A reader thread
  that outlives its five-second join can hand a late line to the next session;
  `OwnAnswer` states the one case in which it is taken for another's answer: an
  earlier check was given up (its deadline passed or its child died) before its
  answer was read, and had the number of the call that is now waiting.
* The comment above `GRAPH_RECURSION_LIMIT` calls nine supersteps the longest
  path. With the default budgets three turns are possible when one of the
  proposals is denied, and with assessment, interrupt or report that makes
  eleven in one invocation (`RecursionLimitUnreached` gives fewer than
  `3 * ModelCalls`); both are below the limit of 25.

### Bounds

* Two jobs are needed for exclusion, two workers for stale claims, two
  checkpoint ids and two instructions for disagreeing decisions; a third of any
  of them plays no new role in a guard. The theorems of section 5 remove this
  and the following bounds for every safety property.
* `MaxAttempts = 2` has a retry and a last attempt. `LeaseTime = 2` separates
  "renewed", "about to expire" and "expired"; `hosted` and `firestore`, whose
  workers take several steps per tick, use a lease of one.
* `MaxClock` and `MaxClaims` cut the queue run off at four ticks and three
  claims, the Firestore run at three of each. In `hosted_liveness` they are never
  reached: attempts are bounded and the clock moves only while the lease of a
  dead worker or a back-off is running, so the state space is finite by itself.
* `hosted` lets the lease of job 1 lapse under its worker, or a process die, once
  (`MaxFaults = 1` for both together), in every order with the other process.
* `firestore` has one checkpoint and one report per job: their identity enters no
  guard there beyond the decision naming the job's checkpoint. `MaxFaults = 1`
  is one failed call or one crash.
* `evaluation` has a conclusive and an inconclusive incident, three checks (one
  lost, one after the respawn, one refused or late), two faults of the
  transport, and a ceiling that admits exactly the worst case of a batch at the
  preflight's price: the preflight is tight, and one unit too many, by one bill
  above its reservation (`MaxExcess = 1`) or by another process
  (`OtherRequests = 10` more requests), lets a run meet the ceiling. The ledger
  is empty at the start or holds half of the ceiling (`AlreadySpent`), which the
  preflight refuses. Prices are 2 and 2; in `evaluation_opus` 2 and 5, the
  ratio of the price list.
  Two faults are enough for a check that is given up and a late reader, the one
  case in which `OwnAnswer` has its exception.
* `LastRenewal` bounds how long a heartbeat can keep a delivery claimed; without
  it a worker may hold a delivery for ever, which the code allows.
* `graph` uses three calls, one diagnostic slot, one search slot and one repair
  with one diagnostic, two searches and one forbidden check. That is enough for
  denial by scope, by pool and as duplicate, for a second turn and for a third
  that the router refuses.
* `MaxCrashes = 1` death in `graph`, at any step.

### Fairness

* The loop of a live process is weakly fair (`_run` is an endless loop whose
  calls have time-outs), so is the heartbeat thread and so is the clock while
  something waits for it. Nothing is assumed of owners; crashes are never
  required, and are bounded in number: a service that dies at every step settles
  nothing.
* `hosted_liveness` runs with `Stall = {}`: heartbeats, three per lease, keep
  a live worker's claim.
* Fairness is of the whole loop, not of its successful branches: that steps fail
  again and again is covered, and ends only because attempts are counted.
* The graph is weakly fair in `NodeStep`: the library keeps executing nodes.
* Each worker's `Poll` and `Deliver` of the outbox are weakly fair. In the
  service the delivery worker is only polled in iterations in which the replay
  worker did not raise; that dependency is in `HostedWorker`
  (`ReportsDelivered`).

`CHECK_DEADLOCK FALSE`: all of these systems may stop. All jobs can be terminal,
all requests settled, an owner may never decide, an invocation and a batch
return.

Leases that expire under a live worker (`Stall`) break `ResumeInputsKept` and
`ScenarioHeldWhileObserved`: a stale worker's failing start clears the run
directory of its incident, and it may still drive the lab. Both are stated for
behaviours without a stall, `GraphStartedOnce` allows one more start per stall,
and what a stale worker cannot do, change the queue against its specification,
is `ImplementsQueue`, which is checked with the stall.

## 4. Abstract and detailed

**`KeepsPromise`.** `ControlPlane` is the service as its callers may rely on it:
jobs move between absent, queued, running, paused, completed and failed; at most
one runs; a job that reserved the lab keeps it until it pauses or ends; a
decision is taken once, for a paused job, and only a decided job leaves the
pause; a report, once there, stays; ended jobs stay ended. It has no tokens,
leases, clocks or processes. `ReplayQueue` and `FirestoreControlPlane` each
contain `Promise == INSTANCE ControlPlane WITH ...`, which computes the stage of
a row or document from its columns, and the runs `queue` and `firestore` check
`Promise!AbstractSpec` as a temporal property. Two abstract steps exist because
one concrete step does two things: `LapseAndStart` (a SQLite poll gives up one
expired claim and takes the next job in one transaction) and `PauseDecided` (a
job paused at a checkpoint that the ledger has already decided). The promise is
the same for both stores although only SQLite has transactions; Firestore keeps
it with a single owner-facing process, and the run `firestore_two_api` shows
that this condition is needed.

**`ImplementsQueue`.** `HostedWorker` extends `ReplayQueue`, its steps call the
queue's actions with the tokens the worker really holds, and its temporal
property is the queue's `Spec` under the identity mapping. `ReplayQueue` leaves
its callers as open as possible (any token at any time) except for one
obligation, that only a claim without checkpoint is paused; the loop meets it,
stale workers included. So the theorems about the queue, and through
`KeepsPromise` the abstract promise, hold of the service.

Both are checked by the runs and proved for all instances:
`HostedImplementsQueue`, `QueueImplementsControlPlane`, and, with one API
process, `FirestoreImplementsControlPlane`.

**Composition.** `PairedEvaluation` extends `McpTransport`: the batch starts,
uses and closes the child, and the properties of the transport are checked as
part of the batch (`ReceiptsTruthful`).

## 5. Proofs

All proofs are checked by TLAPS without assumptions other than the named
`ASSUME`s on constants, which every run evaluates.

**ReplayQueueProofs**, for any finite set of jobs, any leases, back-offs and
limits. The invariant is `QueueInv`. The properties are not inductive alone:
`LabExclusive` needs `OneLabOwner` (a claim orders jobs with an incident first,
which helps only if there is one such job), `AtMostOneRunning` needs to know
that a row has a token exactly while it is RUNNING (`RowShape`), and
`ResumedOnlyWhenDecided` needs that the mirror names the job's own checkpoint
(`LedgerShape`), since reclaim puts a decided job back. One lemma per action;
`ReclaimFacts` says once what the reclaim inside `claim_next` does to the rows.
`TerminalIsFinal` and `LeaseFencesPublication` are action properties that follow
from the same invariant.

**CostLedgerProofs**, for any processes, runs and prices, under a buffer that is
not above the ceiling (`live_evaluation_ceiling_usd` refuses any other).
`SendShape` says that a process between reserve and settle owns its RESERVED row
alone, that the provider has seen nothing for a key without row, and that a
settled row carries the bill. `NeverResent` and `ReportedCostIsReal` follow.
`RealSpendBounded` needs `SpendShape`: a process that has reserved can still
raise the accounted total by one error when it settles, so the total plus one
error for each process in a send never passes the limit plus one error for each
process. What was charged exceeds the accounted total only at rows that are
charged and not settled, and each of these is lost or belongs to a process in a
send. Sums over the table are reasoned about without an induction theorem: a
smallest set on which a sum is undefined or a bound fails could be made smaller
(`SmallestSubset`, from the well-foundedness of strict inclusion).

**InvestigationGraphProofs**, for all checks, budgets (at least two model calls)
and any number of deaths. `BudgetInv` says for every node how many calls are
left and how many supersteps were taken: `investigate` is entered with two calls
left and after `3 * modelTurn` supersteps, everything up to the assessment with
one. It gives `AssessmentFunded`, `RecursionLimitUnreached` and
`ConclusionEarned`. `ModelSpendBounded` needs `AskedAt`: until an invocation gives
up, what was asked beyond the stored counters was asked before a death, and no
death hides more than one whole budget. `LedgerInv` names the receipts
of past turns by their turn, so a new receipt is really new and the cardinality
of each pool grows by one (`SpentAfter`); it gives `ChecksAccountedFor` and
`EvidenceMatchesReceipts`. `GateInv` carries the reason to escalate from the
router to the report (`ReasonStable`: nothing it reads changes in between).

**The queue's promise** (`QueueImplementsControlPlane`, in
`ReplayQueueProofs`). From `QueueInv`, one lemma per action names the abstract
step it maps to. The reclaim inside `claim_next` is the hard one: it may give up
one expired claim, and only one since only one job runs, requeue it, and take
the next job; `QueueInv` shows that what is claimed leaves the lab to its owner.

**ReportOutboxProofs**, for any deliveries, workers, leases and faults.
`DeliveryShape` ties the four columns together: a token is there exactly while a
row is SENDING and is the number of its claim, and every claim but the current
or the successful one has been counted. That is why reclaim and a late
`retry_delivery` cannot both count the same claim (`DeliveryBudget`), and why
only the holder ends a claim. `WorkerShape` says that a worker past `send()` has
left a file, which gives `SentIsHandedOff`.

**HostedWorkerProofs**, for any jobs, workers, deaths and stalls. `HostedInv`
stands on top of `QueueInv`. Tokens belong to one worker, and while one is good
its holder knows whether the job has a checkpoint (`ClaimShape`): this is the
obligation behind `HostedImplementsQueue`. `StepShape` says what each step of
the loop may rely on even for a stale worker. Every worker that goes on without
a current claim is accounted for by a stall (`StallShape`), so without a stall
there is one investigating worker, and the lab is what `LabAt` says for its
step; `MarkerKept` is what survives a death until the job is claimed again. The
starts a thread had and the workers about to start it are bounded together
(`StartShape`), which makes `GraphStartedOnce` inductive.

**FirestoreControlPlaneProofs**, for any jobs, claims and faults, under `OneApi`:
at most one API process beside the worker's (`firestore_two_api` shows that the
theorems fail without it). Reads and commits of two processes interleave, so
the invariant has to speak about writes that are staged and not committed:
`StagedShape` says for every kind of call (create, decide, work on a claim,
claim, delivery) how the staged documents relate to the stored ones *now*. It
survives the other process's commits because the two write disjoint classes of
documents: only `decide` writes a paused job and only the worker's process
writes the others. `OutboxMatchesJobs`, `LiveClaimKept` and the refinement
follow. `KeyShape`, no two jobs with one idempotency key, is a part of the
invariant and not a claim about the deployment: two API processes can both miss
the other's insert. `AbsentDocument` assumes that a missing document is told
from a stored one.

**PairedEvaluationProofs**, for any corpus, budgets, ceiling, faults and
transport behaviour. First the transport: its messages and receipts stay in
order whatever child, reader thread and parent do, and only the call being
forwarded has an open receipt (`OpenReceiptIsCall`). Then the batch: `FileShape`
says for each stage which runs are on file and finalized, `EndShape` that a
failure is the first one and ends the loop, `ChildShape` where no child can be
left, `AbortShape` that an open receipt ends in an abort reason, and
`SpendShape` that, where the preflight's price is right and only the batch's own
reservations count, the money left covers all remaining runs,
`(Runs - run + 1) * CallsPerRun` at that price. `RecordsDurable`, `CleansUp`,
`PreflightSuffices` and `NoSpendAfterAbort` follow. `AbsentSummary` assumes that
a missing summary is told from a written one.

`ReceiptsTruthful` needs `ReceiptInv`, which follows every check on its way. It
is in one place at a time: in a message to the child, in a line on its pipe, in
the queue, with a late reader, or answered (`InOnePlace`). Every line carries
the number its check was sent under (`LinesShape`). `CheckShape` says what a
receipt tells of a check that was not sent, not run or not answered, and
`CallShape` that checks are forwarded in order and one at a time. So an answer
that is accepted for another check is that of an earlier one, was not read
before, and bears the same number. `SummaryHonest` needs `ScoreShape`: only a
run that reached a diagnosis is scored as correct, only where evidence was asked
for are citations sufficient, and the summary is that of the whole file. It uses
that a report has a reason exactly if it is FAILED_SAFE, as `_build_report`
makes it. Records are counted by their runs, since none is on file twice.

Only model-checked: the liveness properties (`Terminates`,
`EveryReportSettles`, `EveryJobSettles`, `ReportsDelivered`, `LabReleased`),
since fairness and ENABLED are outside this prover. Every invariant and action
property that a passing run checks is a theorem.

## 6. Not modelled

* Telemetry, runbook search, model adapters: stateless; their outcomes are
  nondeterministic choices of the graph.
* Prompts, report wording, price arithmetic, schemas of tool arguments, window
  clamping, the MCP manifest and JSON framing: data, reduced to what a guard
  tells apart (a check is in policy or not, a request has a price, a line is an
  answer or not).
* HTTP routes, identity, doctor and probes: request checks in front of the
  control plane's operations.
* The candidate and Qwen evaluation command lines: the loop of `evaluate_cli`
  with other arms; and the metrics beyond the counting of runs, which are pure
  arithmetic over records.
* The CLI's scenario commands beside a hosted worker: they take the same lock
  and marker, but an operator runs them by hand on a lab of their own.
* The Firestore checkpointer. Which of its documents are there after a death is
  decided by the order in which the graph library calls `put` and `put_writes`.
  No `durability` is passed anywhere in the program, so the library stores a
  checkpoint in the background while the next node runs, and that order is not
  in this repository. Two things can be read off the source without a model:
  `put_writes` stores one document after another, so a death in between leaves
  part of a node's update, where the SQLite saver stores it in one transaction;
  and `delete_thread`, which removes documents one by one, has no caller in the
  program. The graph and the hosted worker are modelled for a saver that stores
  a checkpoint whole or not at all.
* Reading and listing of checkpoints, artifacts and timelines: no state.
* SQLite's `release_delivery` has no caller in the program (in
  `FirestoreControlPlane` the same operation is an action). Partly failing
  recursive deletes of a run directory, and disk corruption, are left out.

## 7. Plan

1. *Done:* the models and runs of section 3, and the proofs of section 5: every
   safety property and both refinements.
2. *Next:* safety facts that carry the liveness arguments, as theorems: what a
   counter or clock does on every round of the loop (an attempt is counted, a
   superstep taken, a lease comes nearer to its end), so that only the fairness
   step is left to TLC.
3. *Then:* the graph composed with the queue: which checkpoint a thread is
   interrupted at is the one the owner decides about, through both writers of
   the decision ledger.
