---------------------------- MODULE HostedWorker ----------------------------
(***************************************************************************)
(* The hosted service around the queue: the background loop, ReplayWorker  *)
(* and ReplayGraphJobRunner (src/causalops/api_runtime.py) driving the     *)
(* single lab (src/causalops/scenario_control.py), the checkpointed graph, *)
(* the finalized artifacts (src/causalops/run_records.py) and their upload *)
(* (src/causalops/gcs_artifacts.py).                                       *)
(*                                                                         *)
(* Each process runs one loop.  A step of the loop is everything between   *)
(* two points where another process, or the death of this one, can change  *)
(* what it sees: a queue transaction (an action of ReplayQueue), a section *)
(* under _scenario_lock, one file operation, or one turn of the graph.     *)
(* The graph library and the lab's traffic are external.                   *)
(***************************************************************************)
EXTENDS ReplayQueue

CONSTANTS
    Worker,      \* processes running the background loop
    CrashAt,     \* steps at which a process may die
    MaxFaults,   \* bound on deaths and stalls together
    Empty,       \* the marker file exists but names no incident
    Stall        \* jobs whose lease may run out under a live worker

Step == {"idle", "poll", "claimed", "provision", "resetting", "start",
         "locked", "marking", "driving", "cleanup", "graph", "fresh",
         "running", "paused", "publish", "upload", "finished", "release",
         "reset", "failing", "discard", "delivery"}

ASSUME HostedConstants ==
    /\ CrashAt \subseteq Step \ {"idle"}
    /\ MaxFaults \in Nat
    /\ Stall \subseteq Job
    /\ None \notin Job /\ Empty \notin Job /\ Empty # None

VARIABLES
    marker,     \* the active-incident file: None, Empty or a job's incident
    runDir,     \* runs/<incident>: "absent", "partial" or "ready"
    thread,     \* the graph's checkpointed thread
    starts,     \* how often a thread was given a new initial state
    artifact,   \* results/investigations/<job>: "absent", "local" or, once
                \* every object is in the bucket too, "stored"
    delivered,  \* the report left the outbox
    pc,         \* the next step of each worker
    myJob,      \* the claim it holds ...
    myToken,
    resuming,   \* ... and whether it carries a checkpoint
    crashes,    \* deaths so far
    stalls      \* leases lost by a live worker so far

queueVars == vars
labVars == <<marker, runDir>>
graphVars == <<thread, starts, artifact>>
claimOf == <<myJob, myToken, resuming>>
faults == <<crashes, stalls>>
hostedVars == <<vars, marker, runDir, thread, starts, artifact, delivered, pc,
                myJob, myToken, resuming, crashes, stalls>>

\* The loop is between two claims.
Away == {"idle", "poll", "delivery"}

\* The marker names a reserved scenario or is empty, run directories and
\* threads have known shapes, and a worker past its claim knows its job.
HostedTypeOK ==
    /\ marker \in Job \cup {None, Empty}
    /\ runDir \in [Job -> {"absent", "partial", "ready"}]
    /\ thread \in [Job -> {"none", "started", "interrupted", "settled"}]
    /\ starts \in [Job -> Nat]
    /\ artifact \in [Job -> {"absent", "local", "stored"}]
    /\ delivered \in [Job -> BOOLEAN]
    /\ pc \in [Worker -> Step]
    /\ myJob \in [Worker -> Job \cup {None}]
    /\ myToken \in [Worker -> Nat]
    /\ resuming \in [Worker -> BOOLEAN]
    /\ \A w \in Worker : pc[w] \notin Away =>
                             myJob[w] \in Job /\ myToken[w] \in 1..tokens
    /\ crashes \in Nat /\ stalls \in Nat /\ crashes + stalls <= MaxFaults

HostedInit ==
    /\ Init
    /\ marker = None
    /\ runDir = [j \in Job |-> "absent"]
    /\ thread = [j \in Job |-> "none"]
    /\ starts = [j \in Job |-> 0]
    /\ artifact = [j \in Job |-> "absent"]
    /\ delivered = [j \in Job |-> FALSE]
    /\ pc = [w \in Worker |-> "idle"]
    /\ myJob = [w \in Worker |-> None]
    /\ myToken = [w \in Worker |-> 0]
    /\ resuming = [w \in Worker |-> FALSE]
    /\ crashes = 0
    /\ stalls = 0

GoTo(w, step) == pc' = [pc EXCEPT ![w] = step]

\* run_once is over: the claim is forgotten.
Leave(w, step) ==
    /\ GoTo(w, step)
    /\ myJob' = [myJob EXCEPT ![w] = None]
    /\ myToken' = [myToken EXCEPT ![w] = 0]
    /\ resuming' = [resuming EXCEPT ![w] = FALSE]

-----------------------------------------------------------------------------
(* The lab (scenario_control.py).                                          *)

\* _scenario_lock is held from mkdir to the end of _claim_scenario.
LockFree == \A w \in Worker : pc[w] \notin {"locked", "marking"}

\* Unlink the marker if it names j: the guard of release, reset and clear.
Unmark(j) == marker' = IF marker = j THEN None ELSE marker

\* release_scenario keeps the run directory, reset_scenario and
\* clear_unstarted_scenario delete it.
ReleaseScenario(j) == LockFree /\ Unmark(j) /\ UNCHANGED runDir

ResetScenario(j) ==
    /\ LockFree
    /\ Unmark(j)
    /\ runDir' = [runDir EXCEPT ![j] = "absent"]

-----------------------------------------------------------------------------
(* Polling.                                                                *)

\* What reconcile_scenarios does about a marker left by job j.
RunIsOver(j) == failed[j] \/ status[j] = "COMPLETED"

\* Fault variant of MarkerIsStale: a job between two attempts looks orphaned.
NotRunning(j) == status[j] # "RUNNING"

\* Fault variant of MarkerIsStale: only a marker without a job is released.
OrphanedOnly(j) == ~incident[j]

\* Paused, or unknown to the queue: the marker is released, the run is kept.
MarkerIsStale(j) == status[j] = "PAUSED_APPROVAL" \/ ~incident[j]

ReconcileKeeps(w) ==
    /\ pc[w] = "idle"
    /\ marker # Empty
    /\ marker \in Job => ~MarkerIsStale(marker) /\ ~RunIsOver(marker)
    /\ GoTo(w, "poll")
    /\ UNCHANGED <<queueVars, labVars, graphVars, delivered, claimOf, faults>>

ReconcileReleases(w) ==
    /\ pc[w] = "idle"
    /\ marker \in Job
    /\ MarkerIsStale(marker) /\ ~RunIsOver(marker)
    /\ ReleaseScenario(marker)
    /\ GoTo(w, "poll")
    /\ UNCHANGED <<queueVars, graphVars, delivered, claimOf, faults>>

ReconcileResets(w) ==
    /\ pc[w] = "idle"
    /\ marker \in Job
    /\ RunIsOver(marker)
    /\ ResetScenario(marker)
    /\ GoTo(w, "poll")
    /\ UNCHANGED <<queueVars, graphVars, delivered, claimOf, faults>>

\* An empty marker makes reconcile_scenarios raise: neither queue is polled,
\* and the loop tries again (a stuttering step).

\* Fault variant of NoWork: an idle queue starts the loop over.
NoWorkNoDelivery(w) ==
    /\ pc[w] = "poll"
    /\ ClaimNothing
    /\ Leave(w, "idle")
    /\ UNCHANGED <<labVars, graphVars, delivered, faults>>

NoWork(w) ==
    /\ pc[w] = "poll"
    /\ ClaimNothing
    /\ Leave(w, "delivery")
    /\ UNCHANGED <<labVars, graphVars, delivered, faults>>

TakeJob(w, j) ==
    /\ pc[w] = "poll"
    /\ ClaimNext(j)
    /\ GoTo(w, "claimed")
    /\ myJob' = [myJob EXCEPT ![w] = j]
    /\ myToken' = [myToken EXCEPT ![w] = tokens + 1]
    /\ resuming' = [resuming EXCEPT ![w] = checkpointId[j] # None]
    /\ UNCHANGED <<labVars, graphVars, delivered, faults>>

\* The delivery worker's turn (see ReportOutbox), reached only when the replay
\* worker did not raise.
Deliver(w) ==
    /\ pc[w] = "delivery"
    /\ \/ \E j \in Job : /\ status[j] = "COMPLETED"
                          /\ ~delivered[j]
                          /\ delivered' = [delivered EXCEPT ![j] = TRUE]
       \/ /\ \A j \in Job : status[j] = "COMPLETED" => delivered[j]
          /\ UNCHANGED delivered
    /\ GoTo(w, "idle")
    /\ UNCHANGED <<queueVars, labVars, graphVars, claimOf, faults>>

-----------------------------------------------------------------------------
(* ReplayGraphJobRunner.run: the scenario.                                 *)

\* Fault variant of FindArtifact: the earlier attempt is taken to have
\* uploaded what it finished.
AdoptArtifact(w) ==
    /\ pc[w] = "claimed"
    /\ artifact[myJob[w]] # "absent"
    /\ GoTo(w, "finished")
    /\ UNCHANGED <<queueVars, labVars, graphVars, delivered, claimOf, faults>>

\* A finished artifact of an earlier attempt is published as it is.
FindArtifact(w) ==
    /\ pc[w] = "claimed"
    /\ artifact[myJob[w]] # "absent"
    /\ GoTo(w, "upload")
    /\ UNCHANGED <<queueVars, labVars, graphVars, delivered, claimOf, faults>>

FindIncident(w) ==
    /\ pc[w] = "claimed"
    /\ artifact[myJob[w]] = "absent"
    /\ incident[myJob[w]]
    /\ GoTo(w, "provision")
    /\ UNCHANGED <<queueVars, labVars, graphVars, delivered, claimOf, faults>>

Reserve(w) ==
    /\ pc[w] = "claimed"
    /\ artifact[myJob[w]] = "absent"
    /\ ~incident[myJob[w]]
    /\ ReserveIncident(myJob[w], myToken[w])
    /\ GoTo(w, "provision")
    /\ UNCHANGED <<labVars, graphVars, delivered, claimOf, faults>>

ReserveRefused(w) ==
    /\ pc[w] = "claimed"
    /\ artifact[myJob[w]] = "absent"
    /\ ~incident[myJob[w]]
    /\ ~CurrentClaim(myJob[w], myToken[w])
    /\ GoTo(w, "failing")
    /\ UNCHANGED <<queueVars, labVars, graphVars, delivered, claimOf, faults>>

\* incident.json is there: the lab is not started again.
UseScenario(w) ==
    /\ pc[w] = "provision"
    /\ runDir[myJob[w]] = "ready"
    /\ GoTo(w, "graph")
    /\ UNCHANGED <<queueVars, labVars, graphVars, delivered, claimOf, faults>>

\* A partial run directory of the same incident is reset first.
FindPartial(w) ==
    /\ pc[w] = "provision"
    /\ runDir[myJob[w]] = "partial"
    /\ GoTo(w, "resetting")
    /\ UNCHANGED <<queueVars, labVars, graphVars, delivered, claimOf, faults>>

ResetPartial(w) ==
    /\ pc[w] = "resetting"
    /\ runDir[myJob[w]] # "absent"
    /\ ResetScenario(myJob[w])
    /\ GoTo(w, "start")
    /\ UNCHANGED <<queueVars, graphVars, delivered, claimOf, faults>>

NoScenario(w) ==
    /\ pc[w] = "provision"
    /\ runDir[myJob[w]] = "absent"
    /\ GoTo(w, "start")
    /\ UNCHANGED <<queueVars, labVars, graphVars, delivered, claimOf, faults>>

\* start_scenario: take the lock and make the run directory.
MakeDir(w) ==
    /\ pc[w] = "start"
    /\ LockFree
    /\ runDir[myJob[w]] = "absent"
    /\ runDir' = [runDir EXCEPT ![myJob[w]] = "partial"]
    /\ GoTo(w, "locked")
    /\ UNCHANGED <<queueVars, marker, graphVars, delivered, claimOf, faults>>

\* mkdir(exist_ok=False) raises; the handler clears the directory it found.
MakeDirFails(w) ==
    /\ pc[w] = "start"
    /\ LockFree
    /\ runDir[myJob[w]] # "absent"
    /\ GoTo(w, "cleanup")
    /\ UNCHANGED <<queueVars, labVars, graphVars, delivered, claimOf, faults>>

\* _claim_scenario: the marker is taken when it is absent, or names a run
\* whose directory is gone.
MarkerTaken ==
    \/ marker = Empty
    \/ marker \in Job /\ runDir[marker] # "absent"

CreateMarker(w) ==
    /\ pc[w] = "locked"
    /\ ~MarkerTaken
    /\ marker' = Empty
    /\ GoTo(w, "marking")
    /\ UNCHANGED <<queueVars, runDir, graphVars, delivered, claimOf, faults>>

AlreadyActive(w) ==
    /\ pc[w] = "locked"
    /\ MarkerTaken
    /\ GoTo(w, "cleanup")
    /\ UNCHANGED <<queueVars, labVars, graphVars, delivered, claimOf, faults>>

WriteMarker(w) ==
    /\ pc[w] = "marking"
    /\ marker' = myJob[w]
    /\ GoTo(w, "driving")
    /\ UNCHANGED <<queueVars, runDir, graphVars, delivered, claimOf, faults>>

\* os.write raises: the handler unlinks the marker it created.
WriteMarkerFails(w) ==
    /\ pc[w] = "marking"
    /\ marker' = None
    /\ GoTo(w, "cleanup")
    /\ UNCHANGED <<queueVars, runDir, graphVars, delivered, claimOf, faults>>

\* The config and manifest writes create missing parent directories: they
\* bring a run directory back that another process deleted meanwhile.
WriteConfig(w) ==
    /\ pc[w] = "driving"
    /\ runDir[myJob[w]] = "absent"
    /\ runDir' = [runDir EXCEPT ![myJob[w]] = "partial"]
    /\ UNCHANGED <<queueVars, marker, graphVars, delivered, pc, claimOf,
                   faults>>

\* Baseline and fault traffic, manifests, then incident.json: the run is
\* usable from here on.
Drive(w) ==
    /\ pc[w] = "driving"
    /\ runDir[myJob[w]] # "absent"
    /\ runDir' = [runDir EXCEPT ![myJob[w]] = "ready"]
    /\ GoTo(w, "graph")
    /\ UNCHANGED <<queueVars, marker, graphVars, delivered, claimOf, faults>>

\* Unhealthy baseline, unobserved fault, or a file that cannot be written.
DriveFails(w) ==
    /\ pc[w] = "driving"
    /\ GoTo(w, "cleanup")
    /\ UNCHANGED <<queueVars, labVars, graphVars, delivered, claimOf, faults>>

\* The exception handler of start_scenario: clear_unstarted_scenario.
CleanUp(w) ==
    /\ pc[w] = "cleanup"
    /\ ResetScenario(myJob[w])
    /\ GoTo(w, "failing")
    /\ UNCHANGED <<queueVars, graphVars, delivered, claimOf, faults>>

-----------------------------------------------------------------------------
(* ReplayGraphJobRunner.run: the graph and the artifact.                   *)

\* Fault variant of AfterRecover: the thread is always started over.
AlwaysFresh(j) == "fresh"

\* What recover_graph_investigation makes of the thread of a job that was
\* never paused: start it, continue it, report its pause or its result.
AfterRecover(j) ==
    CASE thread[j] = "none"        -> "fresh"
      [] thread[j] = "started"     -> "running"
      [] thread[j] = "interrupted" -> "paused"
      [] thread[j] = "settled"     -> "publish"

Recover(w) ==
    /\ pc[w] = "graph"
    /\ ~resuming[w]
    /\ GoTo(w, AfterRecover(myJob[w]))
    /\ UNCHANGED <<queueVars, labVars, graphVars, delivered, claimOf, faults>>

\* run_graph_investigation supplies a new initial state.
StartGraph(w) ==
    /\ pc[w] = "fresh"
    /\ thread' = [thread EXCEPT ![myJob[w]] = "started"]
    /\ starts' = [starts EXCEPT ![myJob[w]] = @ + 1]
    /\ GoTo(w, "running")
    /\ UNCHANGED <<queueVars, labVars, artifact, delivered, claimOf, faults>>

\* resume_graph_investigation with the owner's decision; a thread that an
\* earlier attempt already settled returns its result.
Resume(w) ==
    /\ pc[w] = "graph"
    /\ resuming[w]
    /\ thread[myJob[w]] \in {"interrupted", "settled"}
    /\ GoTo(w, "running")
    /\ UNCHANGED <<queueVars, labVars, graphVars, delivered, claimOf, faults>>

\* Fault variant of GraphPauses: a resumed graph may escalate again.
GraphPausesAgain(w) ==
    /\ pc[w] = "running"
    /\ thread' = [thread EXCEPT ![myJob[w]] = "interrupted"]
    /\ GoTo(w, "paused")
    /\ UNCHANGED <<queueVars, labVars, starts, artifact, delivered, claimOf,
                   faults>>

\* The graph escalates: its interrupt is in the checkpoint.  There is no way
\* back to the interrupt from a resumed one.
GraphPauses(w) ==
    /\ pc[w] = "running"
    /\ ~resuming[w]
    /\ thread' = [thread EXCEPT ![myJob[w]] = "interrupted"]
    /\ GoTo(w, "paused")
    /\ UNCHANGED <<queueVars, labVars, starts, artifact, delivered, claimOf,
                   faults>>

GraphSettles(w) ==
    /\ pc[w] = "running"
    /\ thread' = [thread EXCEPT ![myJob[w]] = "settled"]
    /\ GoTo(w, "publish")
    /\ UNCHANGED <<queueVars, labVars, starts, artifact, delivered, claimOf,
                   faults>>

\* A node raises: the caller gets a FAILED_SAFE report to publish, the
\* checkpoint stays where it was.
GraphGivesUp(w) ==
    /\ pc[w] = "running"
    /\ GoTo(w, "publish")
    /\ UNCHANGED <<queueVars, labVars, graphVars, delivered, claimOf, faults>>

\* Wiring, checkpointer or file errors anywhere between the incident and the
\* outcome (a run directory that is gone when it is to be reset), and a
\* heartbeat failure re-raised after run() returned.
RunFails(w) ==
    /\ pc[w] \in {"provision", "resetting", "graph", "running", "publish",
                  "upload", "paused", "finished"}
    /\ GoTo(w, "failing")
    /\ UNCHANGED <<queueVars, labVars, graphVars, delivered, claimOf, faults>>

\* finalize_investigation: one rename, refused when the target exists.
Publish(w) ==
    /\ pc[w] = "publish"
    /\ artifact[myJob[w]] = "absent"
    /\ artifact' = [artifact EXCEPT ![myJob[w]] = "local"]
    /\ GoTo(w, "upload")
    /\ UNCHANGED <<queueVars, labVars, thread, starts, delivered, claimOf,
                   faults>>

\* _upload_finalized_artifacts: create-only uploads of the finished files; an
\* object that an earlier attempt created counts as done.
Upload(w) ==
    /\ pc[w] = "upload"
    /\ artifact[myJob[w]] # "absent"
    /\ artifact' = [artifact EXCEPT ![myJob[w]] = "stored"]
    /\ GoTo(w, "finished")
    /\ UNCHANGED <<queueVars, labVars, thread, starts, delivered, claimOf,
                   faults>>

-----------------------------------------------------------------------------
(* ReplayWorker.run_once: the outcome.                                     *)

Pause(w) ==
    /\ pc[w] = "paused"
    /\ \E c \in Checkpoint : MarkPaused(myJob[w], c, myToken[w])
    /\ GoTo(w, "release")
    /\ UNCHANGED <<labVars, graphVars, delivered, claimOf, faults>>

\* Fault variant of ReleasePaused: cleans up as for a finished job.
ResetPaused(w) ==
    /\ pc[w] = "release"
    /\ ResetScenario(myJob[w])
    /\ Leave(w, "delivery")
    /\ UNCHANGED <<queueVars, graphVars, delivered, faults>>

\* release_paused_scenario: the marker goes, the run directory stays.
ReleasePaused(w) ==
    /\ pc[w] = "release"
    /\ ReleaseScenario(myJob[w])
    /\ Leave(w, "delivery")
    /\ UNCHANGED <<queueVars, graphVars, delivered, faults>>

Complete(w) ==
    /\ pc[w] = "finished"
    /\ \E r \in Report : Finalize(myJob[w], r, myToken[w])
    /\ GoTo(w, "reset")
    /\ UNCHANGED <<labVars, graphVars, delivered, claimOf, faults>>

\* release_finalized_scenario.
ResetFinalized(w) ==
    /\ pc[w] = "reset"
    /\ ResetScenario(myJob[w])
    /\ Leave(w, "delivery")
    /\ UNCHANGED <<queueVars, graphVars, delivered, faults>>

\* The claim is no longer current, or a release callback raised.
OutcomeFails(w) ==
    /\ \/ pc[w] \in {"paused", "finished"} /\ ~CurrentClaim(myJob[w], myToken[w])
       \/ pc[w] \in {"release", "reset"}
    /\ GoTo(w, "failing")
    /\ UNCHANGED <<queueVars, labVars, graphVars, delivered, claimOf, faults>>

\* The handler of run_once: schedule the retry, or give the job up.
ScheduleRetry(w) ==
    /\ pc[w] = "failing"
    /\ RetryRunning(myJob[w], myToken[w])
    /\ IF Exhausted(attemptCount[myJob[w]] + 1)
         THEN GoTo(w, "discard") /\ UNCHANGED claimOf
         ELSE Leave(w, "idle")
    /\ UNCHANGED <<labVars, graphVars, delivered, faults>>

\* retry_running conflicts; the error of the run is re-raised all the same.
RetryRefused(w) ==
    /\ pc[w] = "failing"
    /\ ~HoldsToken(myJob[w], myToken[w])
    /\ Leave(w, "idle")
    /\ UNCHANGED <<queueVars, labVars, graphVars, delivered, faults>>

\* release_failed_scenario.
Discard(w) ==
    /\ pc[w] = "discard"
    /\ ResetScenario(myJob[w])
    /\ Leave(w, "idle")
    /\ UNCHANGED <<queueVars, graphVars, delivered, faults>>

-----------------------------------------------------------------------------
(* Environment.                                                            *)

\* The process dies and is started again; the lock dies with it.
Crash(w) ==
    /\ pc[w] \in CrashAt
    /\ crashes + stalls < MaxFaults
    /\ crashes' = crashes + 1
    /\ Leave(w, "idle")
    /\ UNCHANGED <<queueVars, labVars, graphVars, delivered, stalls>>

\* Jobs whose current claim belongs to a live worker.
Held ==
    {j \in Job : /\ status[j] = "RUNNING"
                 /\ \E w \in Worker : myJob[w] = j /\ myToken[w] = claimToken[j]}

\* renew_lease of run_once, from the claim to the end of its handler.
Heartbeat(w) ==
    /\ myJob[w] # None
    /\ RenewRunning(myJob[w], myToken[w])
    /\ UNCHANGED <<labVars, graphVars, delivered, pc, claimOf, faults>>

\* Time passes while some lease or back-off is running out.
Clock ==
    /\ \E j \in Job :
          \/ status[j] = "QUEUED" /\ ~failed[j] /\ availableAt[j] > now
          \/ status[j] = "RUNNING" /\ j \notin Held /\ claimExpiresAt[j] > now
    /\ \A j \in Held : claimExpiresAt[j] > now + 1
    /\ Tick
    /\ UNCHANGED <<labVars, graphVars, delivered, pc, claimOf, faults>>

\* Heartbeats, three per lease, keep the claim of a live worker from expiring,
\* unless its process stalls for the rest of the lease.
LeaseLapses(j) ==
    /\ j \in Stall \cap Held
    /\ crashes + stalls < MaxFaults
    /\ claimExpiresAt[j] = now + 1
    /\ stalls' = stalls + 1
    /\ Tick
    /\ UNCHANGED <<labVars, graphVars, delivered, pc, claimOf, crashes>>

Owner(j) ==
    /\ \/ Create(j)
       \/ \E d \in Decision : Decide(j, d) \/ DecideCrash(j, d)
    /\ UNCHANGED <<labVars, graphVars, delivered, pc, claimOf, faults>>

Polling(w) ==
    \/ ReconcileKeeps(w)
    \/ ReconcileReleases(w)
    \/ ReconcileResets(w)
    \/ NoWork(w)
    \/ \E j \in Job : TakeJob(w, j)
    \/ Deliver(w)

Provisioning(w) ==
    \/ FindArtifact(w)
    \/ FindIncident(w)
    \/ Reserve(w)
    \/ ReserveRefused(w)
    \/ UseScenario(w)
    \/ FindPartial(w)
    \/ ResetPartial(w)
    \/ NoScenario(w)
    \/ MakeDir(w)
    \/ MakeDirFails(w)
    \/ CreateMarker(w)
    \/ AlreadyActive(w)
    \/ WriteMarker(w)
    \/ WriteMarkerFails(w)
    \/ WriteConfig(w)
    \/ Drive(w)
    \/ DriveFails(w)
    \/ CleanUp(w)

Investigating(w) ==
    \/ Recover(w)
    \/ StartGraph(w)
    \/ Resume(w)
    \/ GraphPauses(w)
    \/ GraphSettles(w)
    \/ GraphGivesUp(w)
    \/ RunFails(w)
    \/ Publish(w)
    \/ Upload(w)

Settling(w) ==
    \/ Pause(w)
    \/ ReleasePaused(w)
    \/ Complete(w)
    \/ ResetFinalized(w)
    \/ OutcomeFails(w)
    \/ ScheduleRetry(w)
    \/ RetryRefused(w)
    \/ Discard(w)

Loop(w) == Polling(w) \/ Provisioning(w) \/ Investigating(w) \/ Settling(w)

HostedNext ==
    \/ \E j \in Job : Owner(j)
    \/ \E w \in Worker : Loop(w)
    \/ \E w \in Worker : Heartbeat(w) \/ Crash(w)
    \/ Clock
    \/ \E j \in Job : LeaseLapses(j)

HostedSpec == HostedInit /\ [][HostedNext]_hostedVars

\* The loop of a live process keeps running and its steps end, and so does its
\* heartbeat thread; the owner need not act and no process need die.
FairHostedSpec ==
    /\ HostedSpec
    /\ \A w \in Worker : WF_hostedVars(Loop(w)) /\ WF_hostedVars(Heartbeat(w))
    /\ WF_hostedVars(Clock)
-----------------------------------------------------------------------------
(* Properties.                                                             *)

\* The lab shows a job's own fault for as long as the job looks at it: while
\* a worker drives traffic or a fresh graph collects telemetry, the active
\* marker names that job, whatever crashed, failed or was reconciled before.
\* A process that stalled past its lease is outside it: reconcile_scenarios
\* may take the lab from under a worker that no longer holds its claim.
ScenarioHeldWhileObserved ==
    stalls = 0 =>
        \A w \in Worker :
            pc[w] \in {"driving", "fresh", "running"} /\ ~resuming[w] =>
                marker = myJob[w]

\* A thread is given a new initial state once: a reclaimed job recovers the
\* graph an earlier attempt left behind instead of running it a second time.
\* Only a worker that stalled past its lease can add a start of its own.
GraphStartedOnce == \A j \in Job : starts[j] <= 1 + stalls

\* From its pause to its result a job keeps the recorded incident the resumed
\* graph is built from, while its marker is released for other jobs.  A
\* stalled worker's failing start_scenario may still clear it.
ResumeInputsKept ==
    stalls = 0 =>
        \A j \in Job :
            checkpointId[j] # None /\ ~RunIsOver(j) => runDir[j] = "ready"

\* No report is published before its durable copy: a completed job's artifacts
\* are all in the bucket, although the process may die, the upload may fail,
\* or another worker may take over between the rename, the upload and finalize.
CompletedIsStored ==
    \A j \in Job : status[j] = "COMPLETED" => artifact[j] = "stored"

\* The loop uses the queue as ReplayQueue allows its callers to: everything it
\* does, stale workers included, is a step of the queue's specification, so
\* the theorems of ReplayQueueProofs hold of the hosted service.
ImplementsQueue == Spec

\* Every queued job is completed, paused for its owner or given up, even if
\* processes die while they hold it.
EveryJobSettles ==
    \A j \in Job :
        status[j] = "QUEUED" ~> status[j] = "PAUSED_APPROVAL" \/ RunIsOver(j)

\* Every completed job's report leaves the outbox: the loop keeps reaching
\* the delivery worker however often the replay worker raises.
ReportsDelivered ==
    \A j \in Job : status[j] = "COMPLETED" ~> delivered[j]

\* The lab is given back: a marker of a paused or finished job does not stay,
\* even if its worker died before it could release it.
LabReleased ==
    \A j \in Job :
        marker = j /\ (status[j] = "PAUSED_APPROVAL" \/ RunIsOver(j)) ~>
            marker # j

-----------------------------------------------------------------------------
(* The inductive invariant behind the theorems of HostedWorkerProofs.      *)

\* The steps of ReplayGraphJobRunner.run, which assume the claim is current.
Investigation ==
    {"claimed", "provision", "resetting", "start", "locked", "marking",
     "driving", "cleanup", "graph", "fresh", "running", "paused", "publish",
     "upload", "finished"}

\* The steps that need a reserved scenario.
WithScenario == Investigation \ {"claimed", "upload", "finished"}

\* The steps of start_scenario and of the reset before it.
Starting == {"resetting", "start", "locked", "marking", "driving", "cleanup"}

\* A token belongs to one worker, and a claim that carries no checkpoint
\* names a job that has none as long as its token is good.
ClaimShape ==
    \A w \in Worker :
        /\ pc[w] \in Away => myJob[w] = None /\ myToken[w] = 0
        /\ \A v \in Worker : myToken[w] = myToken[v] /\ myToken[w] # 0 => v = w
        /\ pc[w] \notin Away /\ HoldsToken(myJob[w], myToken[w]) =>
              (resuming[w] <=> checkpointId[myJob[w]] # None)

\* What worker w knows of its job at a step, stalled or not.
KnowsAt(w, step) ==
    /\ step \in WithScenario => incident[myJob[w]]
    /\ step \in {"fresh", "paused"} => ~resuming[w]
    /\ step = "running" => thread[myJob[w]] # "none"
    /\ step = "upload" => artifact[myJob[w]] # "absent"
    /\ step = "finished" => artifact[myJob[w]] = "stored"
    /\ step = "release" => checkpointId[myJob[w]] # None
    /\ step = "reset" => status[myJob[w]] = "COMPLETED"
    /\ step = "discard" => failed[myJob[w]]

StepShape == \A w \in Worker : KnowsAt(w, pc[w])

\* Workers that go on investigating without a current claim.
Stale ==
    {w \in Worker : /\ pc[w] \in Investigation
                    /\ ~CurrentClaim(myJob[w], myToken[w])}

\* Every one of them lost its lease by stalling.
StallShape == IsFiniteSet(Stale) /\ Cardinality(Stale) <= stalls

\* Workers about to give job j's thread its initial state.
Fresh(j) == {w \in Worker : pc[w] = "fresh" /\ myJob[w] = j}

\* The starts a thread had and the ones still to come.
StartShape ==
    \A j \in Job :
        /\ starts[j] = 0 <=> thread[j] = "none"
        /\ IsFiniteSet(Fresh(j))
        /\ starts[j] + Cardinality(Fresh(j)) <= 1 + stalls

\* Where the lab stands for a worker that never stalled: start_scenario takes
\* the run directory from absent to ready, and the marker stays until the job
\* pauses or ends.
LabAt(w, step) ==
    /\ step \in Starting => ~resuming[w]
    /\ step = "start" => runDir[myJob[w]] = "absent"
    /\ step \in {"locked", "marking", "driving"} =>
          runDir[myJob[w]] = "partial"
    /\ step = "marking" => marker = Empty
    /\ step \in {"graph", "fresh", "running", "paused"} =>
          runDir[myJob[w]] = "ready"
    /\ step \in {"driving", "graph", "fresh", "running"} /\ ~resuming[w] =>
          marker = myJob[w]

\* A scenario that is up keeps its marker until its job pauses or ends.
MarkerKept ==
    \A j \in Job :
        runDir[j] = "ready" /\ checkpointId[j] = None /\ ~RunIsOver(j) =>
            marker = j

LabShape ==
    /\ \A j \in Job : runDir[j] # "absent" => incident[j]
    /\ stalls = 0 => MarkerKept /\ \A w \in Worker : LabAt(w, pc[w])

HostedInv ==
    /\ HostedTypeOK
    /\ ClaimShape
    /\ StepShape
    /\ StallShape
    /\ StartShape
    /\ LabShape
    /\ ResumeInputsKept
    /\ CompletedIsStored
=============================================================================
