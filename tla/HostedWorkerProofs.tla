------------------------- MODULE HostedWorkerProofs -------------------------
(***************************************************************************)
(* What the hosted service guarantees for every number of workers, jobs    *)
(* and leases, and for every death, failure and stall its model allows.    *)
(*                                                                         *)
(* The loop is first shown to use the queue as ReplayQueue allows, so that *)
(* QueueInv holds of it; HostedInv, which relates the queue's rows to what *)
(* the workers believe, to the lab and to the graph, is inductive beside   *)
(* it.                                                                     *)
(***************************************************************************)
EXTENDS HostedWorker, ReplayQueueProofs, FiniteSetTheorems

-----------------------------------------------------------------------------
(* The loop uses the queue.                                                *)

(* The worker that reports a pause holds a claim without a checkpoint.     *)
LEMMA PauseIsFirst ==
  ASSUME HostedInv, NEW w \in Worker, pc[w] = "paused",
         HoldsToken(myJob[w], myToken[w])
  PROVE  checkpointId[myJob[w]] = None
  BY DEF HostedInv, ClaimShape, StepShape, KnowsAt, Away

(* Each step of the service is one transaction of the queue or none.       *)
LEMMA StepUsesQueue ==
  ASSUME HostedInv, [HostedNext]_hostedVars
  PROVE  [Next]_vars
  <1>0. \A w \in Worker : pc[w] \notin Away =>
                             myJob[w] \in Job /\ myToken[w] \in 1..tokens
    BY DEF HostedInv, HostedTypeOK
  <1>1. CASE \E j \in Job : Owner(j)
    BY <1>1 DEF Owner, Next, OwnerCall
  <1>2. ASSUME NEW w \in Worker, Polling(w) PROVE [Next]_vars
    BY <1>2 DEF Polling, ReconcileKeeps, ReconcileReleases, ReconcileResets,
                NoWork, TakeJob, Deliver, queueVars, Next
  <1>3. ASSUME NEW w \in Worker, Provisioning(w) PROVE [Next]_vars
    <2>1. CASE Reserve(w)
      BY <1>0, <2>1 DEF Reserve, Away, Next, WorkerCall
    <2>2. CASE ~Reserve(w)
      BY <1>3, <2>2
      DEF Provisioning, FindArtifact, FindIncident, ReserveRefused,
          UseScenario, FindPartial, ResetPartial, NoScenario, MakeDir,
          MakeDirFails, CreateMarker, AlreadyActive, WriteMarker,
          WriteMarkerFails, WriteConfig, Drive, DriveFails, CleanUp, queueVars
    <2> QED
      BY <2>1, <2>2
  <1>4. ASSUME NEW w \in Worker, Investigating(w) PROVE [Next]_vars
    BY <1>4
    DEF Investigating, Recover, StartGraph, Resume, GraphPauses, GraphSettles,
        GraphGivesUp, RunFails, Publish, Upload, queueVars
  <1>5. ASSUME NEW w \in Worker, Settling(w) PROVE [Next]_vars
    <2>1. CASE Pause(w)
      <3>1. PICK c \in Checkpoint : MarkPaused(myJob[w], c, myToken[w])
        BY <2>1 DEF Pause
      <3>2. checkpointId[myJob[w]] = None
        BY <2>1, <3>1, PauseIsFirst
        DEF Pause, MarkPaused, CurrentClaim, HoldsToken
      <3> QED
        BY <1>0, <2>1, <3>1, <3>2 DEF Pause, Away, Next, WorkerCall
    <2>2. CASE Complete(w)
      BY <1>0, <2>2 DEF Complete, Away, Next, WorkerCall
    <2>3. CASE ScheduleRetry(w)
      BY <1>0, <2>3 DEF ScheduleRetry, Away, Next, WorkerCall
    <2>4. CASE ReleasePaused(w) \/ ResetFinalized(w) \/ OutcomeFails(w)
                 \/ RetryRefused(w) \/ Discard(w)
      BY <2>4 DEF ReleasePaused, ResetFinalized, OutcomeFails, RetryRefused,
                  Discard, queueVars
    <2> QED
      BY <1>5, <2>1, <2>2, <2>3, <2>4 DEF Settling
  <1>6. ASSUME NEW w \in Worker, Heartbeat(w) PROVE [Next]_vars
    <2>1. myJob[w] \in Job /\ myToken[w] \in 1..tokens
      BY <1>0, <1>6 DEF Heartbeat, HostedInv, ClaimShape
    <2> QED
      BY <1>6, <2>1 DEF Heartbeat, Next, WorkerCall
  <1>7. ASSUME NEW w \in Worker, Crash(w) PROVE [Next]_vars
    BY <1>7 DEF Crash, queueVars
  <1>8. CASE Clock \/ \E j \in Job : LeaseLapses(j)
    BY <1>8 DEF Clock, LeaseLapses, Next
  <1>9. CASE UNCHANGED hostedVars
    BY <1>9 DEF hostedVars
  <1> QED
    BY <1>1, <1>2, <1>3, <1>4, <1>5, <1>6, <1>7, <1>8, <1>9
    DEF HostedNext, Loop

-----------------------------------------------------------------------------
(* What the operations of the queue leave of the rows a worker relies on.  *)

(* Scenarios, checkpoints and ends are kept, and no old token is good      *)
(* again.                                                                  *)
QueueKeeps ==
    /\ tokens <= tokens'
    /\ \A j \in Job :
          /\ incident[j] => incident'[j]
          /\ checkpointId[j] # None => checkpointId'[j] = checkpointId[j]
          /\ status[j] = "COMPLETED" => status'[j] = "COMPLETED"
          /\ failed[j] => failed'[j]
          /\ \A t \in 1..tokens :
                HoldsToken(j, t)' =>
                    HoldsToken(j, t) /\ checkpointId'[j] = checkpointId[j]

(* No job pauses or completes.                                             *)
NoOutcome ==
    /\ UNCHANGED checkpointId
    /\ \A j \in Job : status'[j] = "COMPLETED" => status[j] = "COMPLETED"

(* Claims stay current, except the one with token u.                       *)
ClaimsKept(u) ==
    \A j \in Job, t \in 1..tokens :
        t # u /\ CurrentClaim(j, t) => CurrentClaim(j, t)'

(* Owners touch no claim.                                                  *)
LEMMA OwnerEffect ==
  ASSUME QueueInv, NEW j \in Job,
         Create(j) \/ \E d \in Decision : Decide(j, d) \/ DecideCrash(j, d)
  PROVE  QueueKeeps /\ NoOutcome /\ ClaimsKept(0)
  <1> USE DEF QueueInv, TypeOK, RowShape, Create, Decide, DecideCrash, rowVars,
              claimVars, retryVars
  <1>1. QueueKeeps
    BY DEF QueueKeeps, HoldsToken
  <1>2. NoOutcome
    BY DEF NoOutcome
  <1>3. ClaimsKept(0)
    BY DEF ClaimsKept, CurrentClaim
  <1> QED
    BY <1>1, <1>2, <1>3

(* A poll takes only expired claims, and the token it issues is new.       *)
LEMMA PollEffect ==
  ASSUME QueueInv, ClaimNothing \/ \E j \in Job : ClaimNext(j)
  PROVE  QueueKeeps /\ NoOutcome /\ ClaimsKept(0)
  <1> USE QueueConstants DEF QueueInv, TypeOK, RowShape
  <1>1. ASSUME ClaimNothing
        PROVE  QueueKeeps /\ NoOutcome /\ ClaimsKept(0)
    BY <1>1
    DEF ClaimNothing, Reclaim, QueueKeeps, NoOutcome, ClaimsKept, HoldsToken,
        CurrentClaim, StatusAfterReclaim, FailedAfterReclaim, Expired, Decided
  <1>2. ASSUME NEW j \in Job, ClaimNext(j)
        PROVE  QueueKeeps /\ NoOutcome /\ ClaimsKept(0)
    <2>0. /\ StatusAfterReclaim[j] = "QUEUED"
          /\ \A k \in Job : StatusAfterReclaim[k] # "RUNNING"
      BY <1>2 DEF ClaimNext, FirstReady, Ready, Claimable, LabIsTaken
    <2>1. /\ status' = [StatusAfterReclaim EXCEPT ![j] = "RUNNING"]
          /\ failed' = FailedAfterReclaim
          /\ claimToken' = [k \in Job |-> IF k = j THEN tokens + 1
                                         ELSE IF k \in Expired THEN 0
                                         ELSE claimToken[k]]
          /\ tokens' = tokens + 1
          /\ UNCHANGED <<incident, checkpointId, now>>
      BY <1>2 DEF ClaimNext, Reclaim
    <2>2. \A k \in Job : status[k] = "RUNNING" => claimExpiresAt[k] <= now
      BY <2>0 DEF StatusAfterReclaim, Expired, Decided
    <2>3. \A k \in Job : status[k] = "COMPLETED" <=> status'[k] = "COMPLETED"
      BY <2>0, <2>1 DEF StatusAfterReclaim, Expired, Decided
    <2>4. \A k \in Job : failed[k] => failed'[k]
      BY <2>1 DEF FailedAfterReclaim
    <2>5. \A k \in Job : status'[k] = "RUNNING" => k = j
      BY <2>0, <2>1 DEF StatusAfterReclaim
    <2>6. \A k \in Job, t \in 1..tokens : ~HoldsToken(k, t)'
      BY <2>1, <2>5 DEF HoldsToken
    <2>7. \A k \in Job, t \in 1..tokens : ~CurrentClaim(k, t)
      BY <2>2 DEF CurrentClaim
    <2> QED
      BY <2>1, <2>3, <2>4, <2>6, <2>7 DEF QueueKeeps, NoOutcome, ClaimsKept
  <1> QED
    BY <1>1, <1>2

(* Heartbeats and reservations keep every claim; a retry ends its own.     *)
LEMMA WorkerEffect ==
  ASSUME QueueInv, NEW j \in Job, NEW t \in 1..tokens
  PROVE  /\ RenewRunning(j, t) \/ ReserveIncident(j, t) =>
              QueueKeeps /\ NoOutcome /\ ClaimsKept(0)
         /\ RetryRunning(j, t) => QueueKeeps /\ NoOutcome /\ ClaimsKept(t)
  <1> USE QueueConstants DEF QueueInv, TypeOK, RowShape, claimVars, retryVars
  <1>1. ASSUME RenewRunning(j, t) \/ ReserveIncident(j, t)
        PROVE  QueueKeeps /\ NoOutcome /\ ClaimsKept(0)
    BY <1>1 DEF RenewRunning, ReserveIncident, QueueKeeps, NoOutcome,
                ClaimsKept, HoldsToken, CurrentClaim
  <1>2. ASSUME RetryRunning(j, t)
        PROVE  QueueKeeps /\ NoOutcome /\ ClaimsKept(t)
    BY <1>2 DEF RetryRunning, QueueKeeps, NoOutcome, ClaimsKept, HoldsToken,
                CurrentClaim
  <1> QED
    BY <1>1, <1>2

(* mark_paused and finalize end the claim they are made with.              *)
LEMMA OutcomeEffect ==
  ASSUME QueueInv, NEW j \in Job, NEW t \in 1..tokens
  PROVE  /\ \A c \in Checkpoint :
               checkpointId[j] = None /\ MarkPaused(j, c, t) =>
                 /\ QueueKeeps
                 /\ ClaimsKept(t)
                 /\ \A k \in Job : k # j => checkpointId'[k] = checkpointId[k]
                 /\ checkpointId'[j] # None
                 /\ \A k \in Job : status'[k] = "COMPLETED" =>
                                      status[k] = "COMPLETED"
         /\ \A r \in Report :
               Finalize(j, r, t) =>
                 /\ QueueKeeps
                 /\ ClaimsKept(t)
                 /\ UNCHANGED checkpointId
                 /\ status'[j] = "COMPLETED"
                 /\ \A k \in Job : k # j /\ status'[k] = "COMPLETED" =>
                                      status[k] = "COMPLETED"
  <1> USE QueueConstants DEF QueueInv, TypeOK, RowShape, claimVars, retryVars
  <1>1. ASSUME NEW c \in Checkpoint, checkpointId[j] = None, MarkPaused(j, c, t)
        PROVE  /\ QueueKeeps
               /\ ClaimsKept(t)
               /\ \A k \in Job : k # j => checkpointId'[k] = checkpointId[k]
               /\ checkpointId'[j] # None
               /\ \A k \in Job : status'[k] = "COMPLETED" =>
                                    status[k] = "COMPLETED"
    BY <1>1 DEF MarkPaused, QueueKeeps, ClaimsKept, HoldsToken, CurrentClaim
  <1>2. ASSUME NEW r \in Report, Finalize(j, r, t)
        PROVE  /\ QueueKeeps
               /\ ClaimsKept(t)
               /\ UNCHANGED checkpointId
               /\ status'[j] = "COMPLETED"
               /\ \A k \in Job : k # j /\ status'[k] = "COMPLETED" =>
                                    status[k] = "COMPLETED"
    BY <1>2 DEF Finalize, QueueKeeps, ClaimsKept, HoldsToken, CurrentClaim
  <1> QED
    BY <1>1, <1>2

(* Time takes nothing but leases.                                          *)
LEMMA TickEffect ==
  ASSUME QueueInv, Tick
  PROVE  QueueKeeps /\ NoOutcome
  BY DEF Tick, rowVars, claimVars, retryVars, QueueKeeps, NoOutcome,
         HoldsToken, QueueInv, TypeOK

-----------------------------------------------------------------------------
(* Frames: what keeps the parts of the invariant that a step does not      *)
(* touch.                                                                  *)

(* No worker becomes stale without a stall.                                *)
LEMMA StaleShrinks ==
  ASSUME StallShape, Stale' \subseteq Stale, stalls \in Nat, stalls' \in Nat,
         stalls <= stalls'
  PROVE  StallShape'
  <1>1. /\ IsFiniteSet(Stale')
        /\ Cardinality(Stale') <= Cardinality(Stale)
    BY FS_Subset DEF StallShape
  <1>2. Cardinality(Stale') \in Nat /\ Cardinality(Stale) \in Nat
    BY <1>1, FS_CardinalityType DEF StallShape
  <1> QED
    BY <1>1, <1>2 DEF StallShape

(* No thread is started, and no worker is about to start one.              *)
LEMMA FreshShrinks ==
  ASSUME StartShape, starts \in [Job -> Nat], UNCHANGED starts,
         \A j \in Job : thread'[j] = "none" <=> thread[j] = "none",
         \A j \in Job : Fresh(j)' \subseteq Fresh(j),
         stalls \in Nat, stalls' \in Nat, stalls <= stalls'
  PROVE  StartShape'
  <1> SUFFICES ASSUME NEW j \in Job
               PROVE  /\ starts'[j] = 0 <=> thread'[j] = "none"
                      /\ IsFiniteSet(Fresh(j)')
                      /\ starts'[j] + Cardinality(Fresh(j)') <= 1 + stalls'
    BY DEF StartShape
  <1>1. /\ starts[j] = 0 <=> thread[j] = "none"
        /\ IsFiniteSet(Fresh(j))
        /\ starts[j] + Cardinality(Fresh(j)) <= 1 + stalls
    BY DEF StartShape
  <1>2. /\ IsFiniteSet(Fresh(j)')
        /\ Cardinality(Fresh(j)') <= Cardinality(Fresh(j))
    BY <1>1, FS_Subset
  <1>3. Cardinality(Fresh(j)') \in Nat /\ Cardinality(Fresh(j)) \in Nat
    BY <1>1, <1>2, FS_CardinalityType
  <1> QED
    BY <1>1, <1>2, <1>3

(* A worker goes on to another step and the queue does not move.           *)
Moves(w, s) ==
    /\ UNCHANGED <<vars, stalls>>
    /\ GoTo(w, s)
    /\ \/ (s \in Away <=> pc[w] \in Away) /\ UNCHANGED claimOf
       \/ s \in Away /\ Leave(w, s)
    /\ s \in Investigation => pc[w] \in Investigation

\* A worker's move keeps the types of what the workers know.
LEMMA MoveTypes ==
  ASSUME HostedTypeOK, NEW w \in Worker, NEW s \in Step, Moves(w, s)
  PROVE  /\ pc' \in [Worker -> Step]
         /\ myJob' \in [Worker -> Job \cup {None}]
         /\ myToken' \in [Worker -> Nat]
         /\ resuming' \in [Worker -> BOOLEAN]
         /\ \A v \in Worker : pc'[v] \notin Away =>
                                  myJob'[v] \in Job /\ myToken'[v] \in 1..tokens'
  <1> USE DEF HostedTypeOK, Moves, GoTo, Leave, claimOf, vars
  <1>1. pc' \in [Worker -> Step] /\ myJob' \in [Worker -> Job \cup {None}]
    OBVIOUS
  <1>2. myToken' \in [Worker -> Nat]
    OBVIOUS
  <1>3. resuming' \in [Worker -> BOOLEAN]
    OBVIOUS
  <1>4. \A v \in Worker : pc'[v] \notin Away =>
                             myJob'[v] \in Job /\ myToken'[v] \in 1..tokens'
    OBVIOUS
  <1> QED
    BY <1>1, <1>2, <1>3, <1>4

(* Artifacts are not lost and threads not forgotten or restarted.          *)
GraphKept ==
    /\ UNCHANGED starts
    /\ \A j \in Job : /\ thread'[j] = "none" <=> thread[j] = "none"
                      /\ artifact[j] # "absent" => artifact'[j] # "absent"
                      /\ artifact[j] = "stored" => artifact'[j] = "stored"

\* A worker's move that leaves the graph's side alone, and whose new place
\* fits what the worker knows, keeps the invariant but for the lab.
LEMMA MoveInv ==
  ASSUME QueueInv, HostedInv, NEW w \in Worker, NEW s \in Step \ {"fresh"},
         Moves(w, s), GraphKept, HostedTypeOK', KnowsAt(w, s)'
  PROVE  ClaimShape' /\ StepShape' /\ StallShape' /\ StartShape'
         /\ CompletedIsStored'
  <1> USE DEF HostedInv, HostedTypeOK, Moves, GoTo, Leave, claimOf, vars
  <1>1. ClaimShape'
    BY HostedConstants DEF ClaimShape, HoldsToken
  <1>2. StepShape'
    <2> SUFFICES ASSUME NEW v \in Worker PROVE KnowsAt(v, pc[v])'
      BY DEF StepShape
    <2>1. CASE v = w
      BY <2>1
    <2>2. CASE v # w
      BY <2>2 DEF StepShape, KnowsAt, GraphKept, WithScenario, Investigation,
                  Away
    <2> QED
      BY <2>1, <2>2
  <1>3. Stale' \subseteq Stale
    BY DEF Stale, CurrentClaim, Investigation, Away
  <1>4. \A j \in Job : Fresh(j)' \subseteq Fresh(j)
    BY DEF Fresh
  <1>5. StallShape'
    BY <1>3, StaleShrinks
  <1>6. StartShape'
    BY <1>4, FreshShrinks DEF GraphKept
  <1>7. CompletedIsStored'
    BY DEF CompletedIsStored, GraphKept
  <1> QED
    BY <1>1, <1>2, <1>5, <1>6, <1>7

(* ... and neither does the lab.                                           *)
LEMMA LabKept ==
  ASSUME HostedInv, NEW w \in Worker, NEW s \in Step, Moves(w, s),
         UNCHANGED labVars, stalls = 0 => LabAt(w, s)'
  PROVE  LabShape' /\ ResumeInputsKept'
  <1> USE DEF HostedInv, HostedTypeOK, Moves, GoTo, Leave, claimOf, vars,
              labVars
  <1>1. ASSUME stalls = 0, NEW v \in Worker PROVE LabAt(v, pc[v])'
    <2>1. CASE v = w
      BY <1>1, <2>1
    <2>2. CASE v # w
      BY <1>1, <2>2 DEF LabShape, LabAt, Starting
    <2> QED
      BY <2>1, <2>2
  <1>2. LabShape'
    BY <1>1 DEF LabShape, MarkerKept, RunIsOver
  <1>3. ResumeInputsKept'
    BY DEF ResumeInputsKept, RunIsOver
  <1> QED
    BY <1>2, <1>3

(* Only the step of one worker changes.                                    *)
LEMMA MoveOnlyInv ==
  ASSUME QueueInv, HostedInv, NEW w \in Worker, NEW s \in Step \ {"fresh"},
         Moves(w, s), UNCHANGED <<labVars, graphVars, delivered, crashes>>,
         s \notin Away => KnowsAt(w, s),
         s \notin Away /\ stalls = 0 => LabAt(w, s)
  PROVE  HostedInv'
  <1> USE DEF Moves, GoTo, Leave, claimOf, vars, labVars, graphVars
  <1>1. HostedTypeOK'
    <2>1. HostedTypeOK
      BY DEF HostedInv
    <2>2. UNCHANGED <<marker, runDir, thread, starts, artifact, delivered,
                      crashes, stalls>>
      OBVIOUS
    <2> HIDE DEF Moves
    <2> QED
      BY <2>1, <2>2, MoveTypes DEF HostedTypeOK
  <1>2. KnowsAt(w, s)'
    BY DEF KnowsAt, Away, WithScenario, Investigation
  <1>3. stalls = 0 => LabAt(w, s)'
    BY DEF LabAt, Away, Starting
  <1>4. GraphKept
    BY DEF GraphKept
  <1> HIDE DEF Moves, GoTo, Leave, claimOf, vars, labVars, graphVars
  <1> QED
    BY <1>1, <1>2, <1>3, <1>4, MoveInv, LabKept DEF HostedInv

(* Without a stall, who investigates holds a current claim ...             *)
LEMMA NotStale ==
  ASSUME HostedInv, stalls = 0, NEW w \in Worker, pc[w] \in Investigation
  PROVE  /\ myJob[w] \in Job
         /\ CurrentClaim(myJob[w], myToken[w])
         /\ HoldsToken(myJob[w], myToken[w])
         /\ resuming[w] <=> checkpointId[myJob[w]] # None
  <1>1. Stale = {}
    <2>1. Cardinality(Stale) = 0
      BY FS_CardinalityType DEF HostedInv, StallShape
    <2> QED
      BY <2>1, FS_EmptySet DEF HostedInv, StallShape
  <1>2. CurrentClaim(myJob[w], myToken[w])
    BY <1>1 DEF Stale
  <1>3. pc[w] \notin Away
    BY DEF Investigation, Away
  <1> QED
    BY <1>2, <1>3
    DEF HostedInv, HostedTypeOK, ClaimShape, CurrentClaim, HoldsToken

(* ... on a job that has not ended, and nobody else does.                  *)
LEMMA OneInvestigator ==
  ASSUME QueueInv, HostedInv, stalls = 0, NEW w \in Worker,
         pc[w] \in Investigation
  PROVE  /\ status[myJob[w]] = "RUNNING"
         /\ ~RunIsOver(myJob[w])
         /\ \A v \in Worker : pc[v] \in Investigation => v = w
  <1>1. \A v \in Worker : pc[v] \in Investigation =>
          /\ myJob[v] \in Job
          /\ status[myJob[v]] = "RUNNING"
          /\ claimToken[myJob[v]] = myToken[v]
    BY NotStale DEF HoldsToken
  <1>2. ~RunIsOver(myJob[w])
    BY <1>1 DEF RunIsOver, QueueInv, RowShape
  <1>3. ASSUME NEW v \in Worker, pc[v] \in Investigation PROVE v = w
    <2>1. myJob[v] = myJob[w]
      BY <1>1, <1>3 DEF QueueInv, AtMostOneRunning
    <2>2. myToken[v] = myToken[w] /\ myToken[v] # 0
      BY <1>1, <1>3, <2>1 DEF QueueInv, RowShape
    <2> QED
      BY <2>2 DEF HostedInv, ClaimShape
  <1> QED
    BY <1>1, <1>2, <1>3

-----------------------------------------------------------------------------
(* Steps that change nothing but where a worker is.                        *)

\* reconcile_scenarios that finds the marker in order only moves on.
LEMMA ReconcileKeepsInv ==
  ASSUME QueueInv, HostedInv, NEW w \in Worker, ReconcileKeeps(w)
  PROVE  HostedInv'
  <1>1. Moves(w, "poll")
    BY DEF ReconcileKeeps, Moves, queueVars, faults, Away, Investigation
  <1> QED
    BY <1>1, MoveOnlyInv DEF ReconcileKeeps, faults, Step, Away

\* Looking for an artifact or an incident, and a refused reservation, change
\* only where the worker is.
LEMMA LooksInv ==
  ASSUME QueueInv, HostedInv, NEW w \in Worker,
         FindArtifact(w) \/ FindIncident(w) \/ ReserveRefused(w)
  PROVE  HostedInv'
  <1> USE DEF Moves, queueVars, faults, Away, Investigation
  <1>1. PICK s \in {"upload", "provision", "failing"} :
          /\ Moves(w, s)
          /\ UNCHANGED <<labVars, graphVars, delivered, crashes>>
          /\ s = "upload" => artifact[myJob[w]] # "absent"
          /\ s = "provision" => incident[myJob[w]]
    BY DEF FindArtifact, FindIncident, ReserveRefused, GoTo
  <1>2. KnowsAt(w, s) /\ LabAt(w, s)
    BY <1>1 DEF KnowsAt, LabAt, WithScenario, Starting
  <1> HIDE DEF Moves
  <1> QED
    BY <1>1, <1>2, MoveOnlyInv DEF Step

(* A usable scenario still has its marker; one that has to be started      *)
(* again belongs to a job that was never paused.                           *)
LEMMA ProvisionInv ==
  ASSUME QueueInv, HostedInv, NEW w \in Worker,
         UseScenario(w) \/ FindPartial(w) \/ NoScenario(w)
  PROVE  HostedInv'
  <1>0. pc[w] = "provision"
    BY DEF UseScenario, FindPartial, NoScenario
  <1>1. PICK s \in {"graph", "resetting", "start"} :
          /\ Moves(w, s)
          /\ UNCHANGED <<labVars, graphVars, delivered, crashes>>
          /\ s = "graph" => runDir[myJob[w]] = "ready"
          /\ s \in {"resetting", "start"} => runDir[myJob[w]] # "ready"
          /\ s = "start" => runDir[myJob[w]] = "absent"
    BY DEF UseScenario, FindPartial, NoScenario, GoTo, Moves, queueVars, faults,
           Away, Investigation
  <1>2. KnowsAt(w, s)
    BY <1>0, <1>1 DEF HostedInv, StepShape, KnowsAt, WithScenario, Investigation
  <1>3. ASSUME stalls = 0 PROVE LabAt(w, s)
    <2>1. /\ myJob[w] \in Job
          /\ resuming[w] <=> checkpointId[myJob[w]] # None
          /\ ~RunIsOver(myJob[w])
      BY <1>0, <1>3, NotStale, OneInvestigator DEF Investigation
    <2>2. s = "graph" /\ ~resuming[w] => marker = myJob[w]
      BY <1>1, <1>3, <2>1 DEF HostedInv, LabShape, MarkerKept
    <2>3. s \in {"resetting", "start"} => ~resuming[w]
      BY <1>1, <1>3, <2>1 DEF HostedInv, ResumeInputsKept
    <2> QED
      BY <1>1, <2>2, <2>3 DEF LabAt, Starting
  <1> QED
    BY <1>1, <1>2, <1>3, MoveOnlyInv DEF Step

\* A start that fails before or after it took the lab goes to its clean-up.
LEMMA StartFailsInv ==
  ASSUME QueueInv, HostedInv, NEW w \in Worker,
         MakeDirFails(w) \/ AlreadyActive(w) \/ DriveFails(w)
  PROVE  HostedInv'
  <1>0. pc[w] \in {"start", "locked", "driving"}
    BY DEF MakeDirFails, AlreadyActive, DriveFails
  <1>1. /\ Moves(w, "cleanup")
        /\ UNCHANGED <<labVars, graphVars, delivered, crashes>>
    BY <1>0 DEF MakeDirFails, AlreadyActive, DriveFails, Moves, queueVars,
                faults, Away, Investigation
  <1>2. KnowsAt(w, "cleanup")
    BY <1>0 DEF HostedInv, StepShape, KnowsAt, WithScenario, Investigation
  <1>3. stalls = 0 => LabAt(w, "cleanup")
    BY <1>0 DEF HostedInv, LabShape, LabAt, Starting
  <1> QED
    BY <1>1, <1>2, <1>3, MoveOnlyInv DEF Step

\* Continuing a thread that was started before only moves the worker.
LEMMA GoesOnInv ==
  ASSUME QueueInv, HostedInv, NEW w \in Worker,
         \/ Recover(w) /\ thread[myJob[w]] # "none"
         \/ Resume(w)
         \/ GraphGivesUp(w)
  PROVE  HostedInv'
  <1>0. pc[w] \in {"graph", "running"} /\ myJob[w] \in Job
    BY DEF Recover, Resume, GraphGivesUp, HostedInv, HostedTypeOK, Away
  <1>1. PICK s \in {"running", "paused", "publish"} :
          /\ Moves(w, s)
          /\ UNCHANGED <<labVars, graphVars, delivered, crashes>>
          /\ s # "publish" => pc[w] = "graph"
          /\ s = "running" => thread[myJob[w]] # "none"
          /\ s = "paused" => ~resuming[w]
    BY <1>0 DEF Recover, Resume, GraphGivesUp, AfterRecover, GoTo, Moves,
                queueVars, faults, Away, Investigation, HostedInv, HostedTypeOK
  <1>2. KnowsAt(w, s)
    BY <1>0, <1>1 DEF HostedInv, StepShape, KnowsAt, WithScenario, Investigation
  <1>3. stalls = 0 => LabAt(w, s)
    BY <1>0, <1>1 DEF HostedInv, LabShape, LabAt, Starting
  <1> QED
    BY <1>1, <1>2, <1>3, MoveOnlyInv DEF Step

\* A run or a settlement that raises leaves everything to the retry.
LEMMA FailsInv ==
  ASSUME QueueInv, HostedInv, NEW w \in Worker, RunFails(w) \/ OutcomeFails(w)
  PROVE  HostedInv'
  <1>1. /\ Moves(w, "failing")
        /\ UNCHANGED <<labVars, graphVars, delivered, crashes>>
    BY DEF RunFails, OutcomeFails, Moves, queueVars, faults, Away, Investigation
  <1>2. KnowsAt(w, "failing") /\ LabAt(w, "failing")
    BY DEF KnowsAt, LabAt, WithScenario, Investigation, Starting
  <1> QED
    BY <1>1, <1>2, MoveOnlyInv DEF Step

-----------------------------------------------------------------------------
(* Steps of the lab.                                                       *)

(* Taking job j's marker away, with or without its run directory, is       *)
(* harmless if nobody else observes j's scenario and nothing of it is      *)
(* needed later.                                                           *)
LEMMA UnmarkInv ==
  ASSUME QueueInv, HostedInv, NEW w \in Worker, NEW s \in Step, Moves(w, s),
         NEW j \in Job, Unmark(j),
         \/ /\ UNCHANGED runDir
            /\ stalls = 0 => \/ runDir[j] # "ready"
                             \/ checkpointId[j] # None
                             \/ RunIsOver(j)
            /\ stalls = 0 => \A v \in Worker \ {w} :
                                pc[v] \in WithScenario /\ ~resuming[v] =>
                                    myJob[v] # j
         \/ /\ runDir' = [runDir EXCEPT ![j] = "absent"]
            /\ stalls = 0 => checkpointId[j] = None \/ RunIsOver(j)
            /\ stalls = 0 => \A v \in Worker \ {w} :
                                pc[v] \in Investigation => myJob[v] # j,
         stalls = 0 => LabAt(w, s)'
  PROVE  LabShape' /\ ResumeInputsKept'
  <1> USE HostedConstants
      DEF HostedInv, HostedTypeOK, Moves, GoTo, Leave, claimOf, vars, Unmark
  <1>1. ASSUME stalls = 0, NEW v \in Worker PROVE LabAt(v, pc[v])'
    <2>1. CASE v = w
      BY <1>1, <2>1
    <2>2. CASE v # w
      BY <1>1, <2>2 DEF LabShape, LabAt, Starting, WithScenario, Investigation,
                        Away
    <2> QED
      BY <2>1, <2>2
  <1>2. stalls = 0 => MarkerKept'
    BY DEF LabShape, MarkerKept, RunIsOver
  <1>3. \A k \in Job : runDir'[k] # "absent" => incident'[k]
    BY DEF LabShape
  <1>4. ResumeInputsKept'
    BY DEF ResumeInputsKept, RunIsOver
  <1> QED
    BY <1>1, <1>2, <1>3, <1>4 DEF LabShape

(* The rest of the invariant, when only the lab changes.                   *)
LEMMA LabMoveInv ==
  ASSUME QueueInv, HostedInv, NEW w \in Worker, NEW s \in Step \ {"fresh"},
         Moves(w, s), UNCHANGED <<graphVars, delivered, crashes>>,
         marker' \in Job \cup {None, Empty},
         runDir' \in [Job -> {"absent", "partial", "ready"}],
         KnowsAt(w, s)', LabShape', ResumeInputsKept'
  PROVE  HostedInv'
  <1>1. UNCHANGED <<thread, starts, artifact, delivered, crashes, stalls>>
    BY DEF graphVars, Moves
  <1>2. HostedTypeOK'
    BY <1>1, MoveTypes DEF HostedInv, HostedTypeOK
  <1>3. GraphKept
    BY <1>1 DEF GraphKept
  <1> QED
    BY <1>2, <1>3, MoveInv DEF HostedInv

(* reconcile_scenarios takes no scenario from a job that is being worked   *)
(* on.                                                                     *)
LEMMA ReconcileInv ==
  ASSUME QueueInv, HostedInv, NEW w \in Worker,
         ReconcileReleases(w) \/ ReconcileResets(w)
  PROVE  HostedInv'
  <1>0. PICK j \in Job : j = marker
    BY DEF ReconcileReleases, ReconcileResets
  <1>1. /\ Moves(w, "poll")
        /\ UNCHANGED <<graphVars, delivered, crashes>>
        /\ Unmark(j)
    BY <1>0 DEF ReconcileReleases, ReconcileResets, ReleaseScenario,
                ResetScenario, Moves, queueVars, faults, Away, Investigation
  <1>2. \/ UNCHANGED runDir /\ MarkerIsStale(j)
        \/ runDir' = [runDir EXCEPT ![j] = "absent"] /\ RunIsOver(j)
    BY <1>0 DEF ReconcileReleases, ReconcileResets, ReleaseScenario,
                ResetScenario
  <1>3. KnowsAt(w, "poll")' /\ LabAt(w, "poll")'
    BY DEF KnowsAt, LabAt, WithScenario, Investigation, Starting
  <1>4. marker' \in Job \cup {None, Empty}
        /\ runDir' \in [Job -> {"absent", "partial", "ready"}]
    BY <1>1, <1>2 DEF Unmark, HostedInv, HostedTypeOK
  <1>5. ASSUME stalls = 0, NEW v \in Worker, pc[v] \in Investigation
        PROVE  ~RunIsOver(myJob[v])
    BY <1>5, OneInvestigator
  <1>6. ASSUME stalls = 0, NEW v \in Worker, pc[v] \in WithScenario,
               MarkerIsStale(j)
        PROVE  myJob[v] # j
    BY <1>6, OneInvestigator
    DEF HostedInv, StepShape, KnowsAt, WithScenario, MarkerIsStale
  <1>7. MarkerIsStale(j) => runDir[j] # "ready" \/ checkpointId[j] # None
    BY DEF MarkerIsStale, HostedInv, LabShape, QueueInv, RowShape
  <1>8. LabShape' /\ ResumeInputsKept'
    BY <1>1, <1>2, <1>3, <1>5, <1>6, <1>7, UnmarkInv DEF Step
  <1> QED
    BY <1>1, <1>3, <1>4, <1>8, LabMoveInv DEF Step

(* A reset before a start, or after a failed one, is of a job nobody else  *)
(* works on and that was never paused.                                     *)
LEMMA ResetInv ==
  ASSUME QueueInv, HostedInv, NEW w \in Worker, ResetPartial(w) \/ CleanUp(w)
  PROVE  HostedInv'
  <1>0. /\ pc[w] \in {"resetting", "cleanup"}
        /\ pc[w] \in Investigation
    BY DEF ResetPartial, CleanUp, Investigation
  <1>1. PICK j \in Job : j = myJob[w]
    BY <1>0 DEF HostedInv, HostedTypeOK, Away
  <1>2. PICK s \in {"start", "failing"} :
          /\ Moves(w, s)
          /\ s = "start" => pc[w] = "resetting"
          /\ UNCHANGED <<graphVars, delivered, crashes, myJob, resuming>>
          /\ Unmark(j)
          /\ runDir' = [runDir EXCEPT ![j] = "absent"]
    BY <1>1 DEF ResetPartial, CleanUp, ResetScenario, Moves, queueVars, faults,
                GoTo, claimOf, Away, Investigation
  <1>3. KnowsAt(w, s)'
    <2>1. s = "start" => incident[myJob[w]]
      BY <1>2 DEF HostedInv, StepShape, KnowsAt, WithScenario, Investigation
    <2>2. UNCHANGED incident
      BY <1>2 DEF Moves, vars
    <2> QED
      BY <1>2, <2>1, <2>2 DEF KnowsAt, WithScenario, Investigation
  <1>4. stalls = 0 => ~resuming[w]
    BY <1>0 DEF HostedInv, LabShape, LabAt, Starting
  <1>5. stalls = 0 => LabAt(w, s)'
    BY <1>1, <1>2, <1>4 DEF LabAt, Starting, HostedInv, HostedTypeOK
  <1>6. marker' \in Job \cup {None, Empty}
        /\ runDir' \in [Job -> {"absent", "partial", "ready"}]
    BY <1>2 DEF Unmark, HostedInv, HostedTypeOK
  <1>7. stalls = 0 => checkpointId[j] = None
    BY <1>0, <1>1, <1>4, NotStale
  <1>8. stalls = 0 => \A v \in Worker \ {w} : pc[v] \notin Investigation
    BY <1>0, OneInvestigator
  <1>9. LabShape' /\ ResumeInputsKept'
    BY <1>2, <1>5, <1>7, <1>8, UnmarkInv DEF Step
  <1> QED
    BY <1>2, <1>3, <1>6, <1>9, LabMoveInv DEF Step

(* What a worker gives back after an outcome is not in use: a paused job's *)
(* marker, an ended job's scenario.                                        *)
LEMMA GiveBackInv ==
  ASSUME QueueInv, HostedInv, NEW w \in Worker,
         ReleasePaused(w) \/ ResetFinalized(w) \/ Discard(w)
  PROVE  HostedInv'
  <1>0. pc[w] \in {"release", "reset", "discard"}
    BY DEF ReleasePaused, ResetFinalized, Discard
  <1>1. PICK j \in Job : j = myJob[w]
    BY <1>0 DEF HostedInv, HostedTypeOK, Away
  <1>2. PICK s \in {"delivery", "idle"} :
          /\ Moves(w, s)
          /\ UNCHANGED <<graphVars, delivered, crashes>>
          /\ Unmark(j)
    BY <1>1 DEF ReleasePaused, ResetFinalized, Discard, ReleaseScenario,
                ResetScenario, Moves, queueVars, faults, Leave, Away,
                Investigation
  <1>3. \/ UNCHANGED runDir /\ checkpointId[j] # None
        \/ runDir' = [runDir EXCEPT ![j] = "absent"] /\ RunIsOver(j)
    BY <1>1 DEF ReleasePaused, ResetFinalized, Discard, ReleaseScenario,
                ResetScenario, HostedInv, StepShape, KnowsAt, RunIsOver
  <1>4. KnowsAt(w, s)' /\ LabAt(w, s)'
    BY <1>2 DEF KnowsAt, LabAt, WithScenario, Investigation, Starting
  <1>5. marker' \in Job \cup {None, Empty}
        /\ runDir' \in [Job -> {"absent", "partial", "ready"}]
    BY <1>2, <1>3 DEF Unmark, HostedInv, HostedTypeOK
  <1>6. ASSUME stalls = 0, NEW v \in Worker, pc[v] \in Investigation
        PROVE  /\ ~RunIsOver(myJob[v])
               /\ resuming[v] <=> checkpointId[myJob[v]] # None
    BY <1>6, OneInvestigator, NotStale
  <1>7. LabShape' /\ ResumeInputsKept'
    BY <1>2, <1>3, <1>4, <1>6, UnmarkInv DEF Step, WithScenario
  <1> QED
    BY <1>2, <1>4, <1>5, <1>7, LabMoveInv DEF Step

(* start_scenario, from mkdir to incident.json: without a stall the one    *)
(* investigator does it for a job that was never paused, and a marker it   *)
(* replaces names no scenario that is up.                                  *)
LEMMA StartScenarioInv ==
  ASSUME QueueInv, HostedInv, NEW w \in Worker,
         MakeDir(w) \/ CreateMarker(w) \/ WriteMarker(w) \/ WriteMarkerFails(w)
           \/ WriteConfig(w) \/ Drive(w)
  PROVE  HostedInv'
  <1>0. /\ pc[w] \in {"start", "locked", "marking", "driving"}
        /\ pc[w] \in Investigation
        /\ myJob[w] \in Job
    BY DEF MakeDir, CreateMarker, WriteMarker, WriteMarkerFails, WriteConfig,
           Drive, Investigation, HostedInv, HostedTypeOK, Away
  <1>1. PICK s \in {"locked", "marking", "driving", "cleanup", "graph"} :
          /\ GoTo(w, s)
          /\ UNCHANGED <<vars, claimOf, graphVars, delivered, crashes, stalls>>
          /\ \/ /\ s = "locked" /\ pc[w] = "start"
                /\ runDir' = [runDir EXCEPT ![myJob[w]] = "partial"]
                /\ UNCHANGED marker
             \/ /\ s = "marking" /\ pc[w] = "locked"
                /\ ~MarkerTaken
                /\ marker' = Empty
                /\ UNCHANGED runDir
             \/ /\ s = "driving" /\ pc[w] = "marking"
                /\ marker' = myJob[w]
                /\ UNCHANGED runDir
             \/ /\ s = "cleanup" /\ pc[w] = "marking"
                /\ marker' = None
                /\ UNCHANGED runDir
             \/ /\ s = "driving" /\ pc[w] = "driving"
                /\ runDir[myJob[w]] = "absent"
                /\ runDir' = [runDir EXCEPT ![myJob[w]] = "partial"]
                /\ UNCHANGED marker
             \/ /\ s = "graph" /\ pc[w] = "driving"
                /\ runDir' = [runDir EXCEPT ![myJob[w]] = "ready"]
                /\ UNCHANGED marker
    <2>1. CASE WriteConfig(w)
      <3>1. GoTo(w, "driving")
        BY <2>1 DEF WriteConfig, GoTo, HostedInv, HostedTypeOK
      <3> QED
        BY <2>1, <3>1 DEF WriteConfig, queueVars, faults
    <2>2. CASE ~WriteConfig(w)
      BY <2>2 DEF MakeDir, CreateMarker, WriteMarker, WriteMarkerFails, Drive,
                  queueVars, faults
    <2> QED
      BY <2>1, <2>2
  <1>2. Moves(w, s)
    BY <1>0, <1>1 DEF Moves, Away, Investigation
  <1>3. incident[myJob[w]]
    BY <1>0 DEF HostedInv, StepShape, KnowsAt, WithScenario, Investigation
  <1>4. KnowsAt(w, s)'
    BY <1>1, <1>3 DEF KnowsAt, WithScenario, Investigation, vars, claimOf
  <1>5. marker' \in Job \cup {None, Empty}
        /\ runDir' \in [Job -> {"absent", "partial", "ready"}]
    BY <1>0, <1>1 DEF HostedInv, HostedTypeOK
  <1>6. \A k \in Job : runDir'[k] # "absent" => incident'[k]
    BY <1>1, <1>3 DEF HostedInv, HostedTypeOK, LabShape, vars
  <1>7. ASSUME stalls = 0 PROVE MarkerKept' /\ LabAt(w, s)'
    <2>1. LabAt(w, pc[w]) /\ MarkerKept
      BY <1>7 DEF HostedInv, LabShape
    <2>2. LabAt(w, s)'
      BY <1>0, <1>1, <2>1
      DEF LabAt, Starting, HostedInv, HostedTypeOK, claimOf
    <2>3. MarkerKept'
      BY <1>0, <1>1, <2>1, HostedConstants
      DEF MarkerKept, MarkerTaken, RunIsOver, LabAt, Starting, vars, HostedInv,
          HostedTypeOK
    <2> QED
      BY <2>2, <2>3
  <1>8. ASSUME stalls = 0, NEW v \in Worker PROVE LabAt(v, pc[v])'
    <2>1. CASE v = w
      BY <1>1, <1>7, <1>8, <2>1 DEF GoTo, HostedInv, HostedTypeOK
    <2>2. CASE v # w
      <3>1. pc'[v] \notin Investigation
        BY <1>0, <1>1, <1>8, <2>2, OneInvestigator
        DEF GoTo, HostedInv, HostedTypeOK
      <3> QED
        BY <3>1 DEF LabAt, Starting, Investigation
    <2> QED
      BY <2>1, <2>2
  <1>9. LabShape'
    BY <1>1, <1>6, <1>7, <1>8 DEF LabShape
  <1>10. ResumeInputsKept'
    <2> SUFFICES ASSUME stalls = 0, NEW j \in Job, checkpointId[j] # None,
                        ~RunIsOver(j)
                 PROVE  runDir'[j] = "ready"
      BY <1>1 DEF ResumeInputsKept, RunIsOver, vars
    <2>1. runDir[j] = "ready"
      BY DEF HostedInv, ResumeInputsKept
    <2>2. checkpointId[myJob[w]] = None
      BY <1>0, NotStale DEF HostedInv, LabShape, LabAt, Starting
    <2> QED
      BY <1>0, <1>1, <2>1, <2>2 DEF HostedInv, HostedTypeOK
  <1> QED
    BY <1>1, <1>2, <1>4, <1>5, <1>9, <1>10, LabMoveInv DEF Step

-----------------------------------------------------------------------------
(* Steps of the graph and the artifact.                                    *)

(* The thread and the artifact go forward.                                 *)
LEMMA GraphMoveInv ==
  ASSUME QueueInv, HostedInv, NEW w \in Worker,
         GraphPauses(w) \/ GraphSettles(w) \/ Publish(w) \/ Upload(w)
  PROVE  HostedInv'
  <1>0. /\ pc[w] \in {"running", "publish", "upload"}
        /\ myJob[w] \in Job
    BY DEF GraphPauses, GraphSettles, Publish, Upload, HostedInv, HostedTypeOK,
           Away
  <1>1. PICK s \in {"paused", "publish", "upload", "finished"} :
          /\ GoTo(w, s)
          /\ UNCHANGED <<vars, claimOf, labVars, starts, delivered, crashes,
                         stalls>>
          /\ \/ /\ s = "paused" /\ pc[w] = "running" /\ ~resuming[w]
                /\ thread' = [thread EXCEPT ![myJob[w]] = "interrupted"]
                /\ UNCHANGED artifact
             \/ /\ s = "publish" /\ pc[w] = "running"
                /\ thread' = [thread EXCEPT ![myJob[w]] = "settled"]
                /\ UNCHANGED artifact
             \/ /\ s = "upload" /\ pc[w] = "publish"
                /\ artifact[myJob[w]] = "absent"
                /\ artifact' = [artifact EXCEPT ![myJob[w]] = "local"]
                /\ UNCHANGED thread
             \/ /\ s = "finished" /\ pc[w] = "upload"
                /\ artifact' = [artifact EXCEPT ![myJob[w]] = "stored"]
                /\ UNCHANGED thread
    BY DEF GraphPauses, GraphSettles, Publish, Upload, queueVars, faults
  <1>2. Moves(w, s)
    BY <1>0, <1>1 DEF Moves, Away, Investigation
  <1>3. HostedTypeOK'
    <2>1. /\ thread' \in [Job -> {"none", "started", "interrupted", "settled"}]
          /\ artifact' \in [Job -> {"absent", "local", "stored"}]
      BY <1>0, <1>1 DEF HostedInv, HostedTypeOK
    <2> QED
      BY <1>1, <1>2, <2>1, MoveTypes DEF HostedInv, HostedTypeOK, labVars, Step
  <1>4. GraphKept
    <2>1. pc[w] = "running" => thread[myJob[w]] # "none"
      BY DEF HostedInv, StepShape, KnowsAt
    <2> QED
      BY <1>0, <1>1, <2>1 DEF GraphKept, HostedInv, HostedTypeOK
  <1>5. pc[w] \in WithScenario => incident[myJob[w]]
    BY DEF HostedInv, StepShape, KnowsAt
  <1>6. KnowsAt(w, s)'
    BY <1>0, <1>1, <1>5
    DEF KnowsAt, WithScenario, Investigation, vars, claimOf, HostedInv,
        HostedTypeOK
  <1>7. ASSUME stalls = 0 PROVE LabAt(w, s)'
    <2>1. LabAt(w, pc[w])
      BY <1>7 DEF HostedInv, LabShape
    <2> QED
      BY <1>1, <2>1 DEF LabAt, Starting, claimOf, labVars
  <1>8. LabShape' /\ ResumeInputsKept'
    BY <1>1, <1>2, <1>7, LabKept DEF Step
  <1> QED
    BY <1>1, <1>2, <1>3, <1>4, <1>6, <1>8, MoveInv DEF HostedInv, Step

(* Only one of the workers about to start a thread can hold its job.       *)
LEMMA OneCurrent ==
  ASSUME QueueInv, HostedInv, NEW j \in Job, NEW u \in Worker, NEW v \in Worker,
         myJob[u] = j, myJob[v] = j, pc[u] \notin Away,
         CurrentClaim(j, myToken[u]), CurrentClaim(j, myToken[v])
  PROVE  u = v
  <1>1. myToken[u] = myToken[v] /\ myToken[u] # 0
    BY DEF CurrentClaim, QueueInv, RowShape
  <1> QED
    BY <1>1 DEF HostedInv, ClaimShape

(* recover_graph_investigation finds no thread: every other worker that    *)
(* found none has stalled since, or is stale now.                          *)
LEMMA RecoverFreshInv ==
  ASSUME QueueInv, HostedInv, NEW w \in Worker, Recover(w),
         thread[myJob[w]] = "none"
  PROVE  HostedInv'
  <1>0. pc[w] = "graph" /\ ~resuming[w]
    BY DEF Recover
  <1>1. PICK j \in Job : j = myJob[w]
    BY <1>0 DEF HostedInv, HostedTypeOK, Away
  <1>2. /\ Moves(w, "fresh")
        /\ UNCHANGED <<claimOf, labVars, graphVars, delivered, crashes>>
    BY <1>1 DEF Recover, AfterRecover, Moves, queueVars, faults, Away,
                Investigation
  <1>3. HostedTypeOK'
    BY <1>2, MoveTypes
    DEF HostedInv, HostedTypeOK, labVars, graphVars, Step, Moves
  <1>4. KnowsAt(w, "fresh")'
    BY <1>0, <1>2
    DEF HostedInv, StepShape, KnowsAt, WithScenario, Investigation, Moves, vars,
        claimOf
  <1>5. stalls = 0 => LabAt(w, "fresh")'
    BY <1>0, <1>2
    DEF HostedInv, LabShape, LabAt, Starting, claimOf, labVars
  <1>6. LabShape' /\ ResumeInputsKept'
    BY <1>2, <1>5, LabKept DEF Step
  <1>7. ClaimShape'
    BY <1>0, <1>2
    DEF HostedInv, HostedTypeOK, ClaimShape, HoldsToken, Moves, GoTo, claimOf,
        vars, Away
  <1>8. StepShape'
    <2> SUFFICES ASSUME NEW v \in Worker PROVE KnowsAt(v, pc[v])'
      BY DEF StepShape
    <2>1. pc'[v] = IF v = w THEN "fresh" ELSE pc[v]
      BY <1>2 DEF Moves, GoTo, HostedInv, HostedTypeOK
    <2>2. CASE v = w
      BY <1>4, <2>1, <2>2
    <2>3. CASE v # w
      BY <1>2, <2>1, <2>3
      DEF HostedInv, StepShape, KnowsAt, Moves, vars, claimOf, graphVars
    <2> QED
      BY <2>2, <2>3
  <1>9. StallShape'
    <2>1. Stale' \subseteq Stale
      BY <1>0, <1>2 DEF Stale, CurrentClaim, Investigation, Moves, GoTo, vars,
                        claimOf, HostedInv, HostedTypeOK
    <2> QED
      BY <1>2, <2>1, StaleShrinks DEF HostedInv, HostedTypeOK, Moves
  <1>10. StartShape'
    <2> SUFFICES ASSUME NEW k \in Job
                 PROVE  /\ starts'[k] = 0 <=> thread'[k] = "none"
                        /\ IsFiniteSet(Fresh(k)')
                        /\ starts'[k] + Cardinality(Fresh(k)') <= 1 + stalls'
      BY DEF StartShape
    <2>0. /\ UNCHANGED <<starts, thread, stalls>>
          /\ starts[k] \in Nat /\ stalls \in Nat
          /\ starts[k] = 0 <=> thread[k] = "none"
          /\ IsFiniteSet(Fresh(k))
          /\ starts[k] + Cardinality(Fresh(k)) <= 1 + stalls
      BY <1>2 DEF graphVars, Moves, HostedInv, HostedTypeOK, StartShape
    <2>1. CASE k # j
      <3>1. Fresh(k)' = Fresh(k)
        BY <1>0, <1>1, <1>2, <2>1
        DEF Fresh, Moves, GoTo, claimOf, HostedInv, HostedTypeOK
      <3> QED
        BY <2>0, <3>1
    <2>2. CASE k = j
      <3>1. PICK x \in Worker : Fresh(k)' \subseteq Stale \cup {x}
        <4>1. \A u \in Fresh(k)' : /\ u \in Worker
                                   /\ pc[u] \in Investigation
                                   /\ myJob[u] = j
          BY <1>0, <1>1, <1>2, <2>2
          DEF Fresh, Moves, GoTo, claimOf, HostedInv, HostedTypeOK,
              Investigation
        <4>2. CASE Fresh(k)' \subseteq Stale
          BY <4>2
        <4>3. CASE ~(Fresh(k)' \subseteq Stale)
          <5>1. PICK u \in Fresh(k)' : u \notin Stale
            BY <4>3
          <5>2. \A v \in Fresh(k)' : v \notin Stale => v = u
            BY <4>1, <5>1, OneCurrent DEF Stale, Investigation, Away
          <5> QED
            BY <4>1, <5>1, <5>2
        <4> QED
          BY <4>2, <4>3
      <3>2. /\ IsFiniteSet(Stale)
            /\ Cardinality(Stale) \in Nat
            /\ Cardinality(Stale) <= stalls
        BY FS_CardinalityType DEF HostedInv, StallShape
      <3>3. /\ IsFiniteSet(Stale \cup {x})
            /\ Cardinality(Stale \cup {x}) <= Cardinality(Stale) + 1
        <4>1. /\ IsFiniteSet(Stale \cup {x})
              /\ Cardinality(Stale \cup {x}) =
                   IF x \in Stale THEN Cardinality(Stale)
                                  ELSE Cardinality(Stale) + 1
          BY <3>2, FS_AddElement, Zenon
        <4> QED
          BY <3>2, <4>1
      <3>4. /\ IsFiniteSet(Fresh(k)')
            /\ Cardinality(Fresh(k)') <= Cardinality(Stale \cup {x})
        BY <3>1, <3>3, FS_Subset
      <3>5. Cardinality(Fresh(k)') \in Nat /\ Cardinality(Stale \cup {x}) \in Nat
        BY <3>3, <3>4, FS_CardinalityType
      <3>6. starts[k] = 0
        BY <1>1, <2>0, <2>2
      <3> QED
        BY <2>0, <3>2, <3>3, <3>4, <3>5, <3>6
    <2> QED
      BY <2>1, <2>2
  <1>11. CompletedIsStored'
    BY <1>2 DEF CompletedIsStored, HostedInv, Moves, vars, graphVars
  <1> QED
    BY <1>3, <1>6, <1>7, <1>8, <1>9, <1>10, <1>11 DEF HostedInv

(* run_graph_investigation turns a start to come into one that happened.   *)
LEMMA StartGraphInv ==
  ASSUME QueueInv, HostedInv, NEW w \in Worker, StartGraph(w)
  PROVE  HostedInv'
  <1>0. pc[w] = "fresh"
    BY DEF StartGraph
  <1>1. PICK j \in Job : j = myJob[w]
    BY <1>0 DEF HostedInv, HostedTypeOK, Away
  <1>2. /\ Moves(w, "running")
        /\ thread' = [thread EXCEPT ![j] = "started"]
        /\ starts' = [starts EXCEPT ![j] = starts[j] + 1]
        /\ UNCHANGED <<claimOf, labVars, artifact, delivered, crashes>>
    BY <1>1 DEF StartGraph, Moves, queueVars, faults, Away, Investigation
  <1>3. HostedTypeOK'
    <2>1. /\ thread' \in [Job -> {"none", "started", "interrupted", "settled"}]
          /\ starts' \in [Job -> Nat]
      BY <1>2 DEF HostedInv, HostedTypeOK
    <2> QED
      BY <1>2, <2>1, MoveTypes DEF HostedInv, HostedTypeOK, labVars, Step, Moves
  <1>4. KnowsAt(w, "running")'
    BY <1>0, <1>1, <1>2
    DEF HostedInv, HostedTypeOK, StepShape, KnowsAt, WithScenario,
        Investigation, Moves, vars, claimOf
  <1>5. stalls = 0 => LabAt(w, "running")'
    BY <1>0, <1>2
    DEF HostedInv, LabShape, LabAt, Starting, claimOf, labVars
  <1>6. LabShape' /\ ResumeInputsKept'
    BY <1>2, <1>5, LabKept DEF Step
  <1>7. ClaimShape'
    BY <1>0, <1>2
    DEF HostedInv, HostedTypeOK, ClaimShape, HoldsToken, Moves, GoTo, claimOf,
        vars, Away
  <1>8. StepShape'
    <2> SUFFICES ASSUME NEW v \in Worker PROVE KnowsAt(v, pc[v])'
      BY DEF StepShape
    <2>1. pc'[v] = IF v = w THEN "running" ELSE pc[v]
      BY <1>2 DEF Moves, GoTo, HostedInv, HostedTypeOK
    <2>2. CASE v = w
      BY <1>4, <2>1, <2>2
    <2>3. CASE v # w
      <3>1. thread[myJob[v]] # "none" /\ myJob[v] \in Job =>
              thread'[myJob[v]] # "none"
        BY <1>2 DEF HostedInv, HostedTypeOK
      <3>2. pc[v] = "running" => myJob[v] \in Job
        BY DEF HostedInv, HostedTypeOK, Away
      <3> QED
        BY <1>2, <2>1, <2>3, <3>1, <3>2
        DEF HostedInv, StepShape, KnowsAt, Moves, vars, claimOf
    <2> QED
      BY <2>2, <2>3
  <1>9. StallShape'
    <2>1. Stale' \subseteq Stale
      BY <1>0, <1>2 DEF Stale, CurrentClaim, Investigation, Moves, GoTo, vars,
                        claimOf, HostedInv, HostedTypeOK
    <2> QED
      BY <1>2, <2>1, StaleShrinks DEF HostedInv, HostedTypeOK, Moves
  <1>10. StartShape'
    <2> SUFFICES ASSUME NEW k \in Job
                 PROVE  /\ starts'[k] = 0 <=> thread'[k] = "none"
                        /\ IsFiniteSet(Fresh(k)')
                        /\ starts'[k] + Cardinality(Fresh(k)') <= 1 + stalls'
      BY DEF StartShape
    <2>0. /\ UNCHANGED stalls
          /\ starts[k] \in Nat /\ stalls \in Nat
          /\ starts[k] = 0 <=> thread[k] = "none"
          /\ IsFiniteSet(Fresh(k))
          /\ starts[k] + Cardinality(Fresh(k)) <= 1 + stalls
          /\ starts'[k] = IF k = j THEN starts[k] + 1 ELSE starts[k]
          /\ thread'[k] = IF k = j THEN "started" ELSE thread[k]
      BY <1>2 DEF Moves, HostedInv, HostedTypeOK, StartShape
    <2>1. CASE k # j
      <3>1. Fresh(k)' = Fresh(k)
        BY <1>0, <1>1, <1>2, <2>1
        DEF Fresh, Moves, GoTo, claimOf, HostedInv, HostedTypeOK
      <3> QED
        BY <2>0, <2>1, <3>1
    <2>2. CASE k = j
      <3>1. w \in Fresh(k) /\ Fresh(k)' = Fresh(k) \ {w}
        BY <1>0, <1>1, <1>2, <2>2
        DEF Fresh, Moves, GoTo, claimOf, HostedInv, HostedTypeOK
      <3>2. /\ IsFiniteSet(Fresh(k) \ {w})
            /\ Cardinality(Fresh(k) \ {w}) = Cardinality(Fresh(k)) - 1
        BY <2>0, <3>1, FS_RemoveElement
      <3>3. Cardinality(Fresh(k)) \in Nat
        BY <2>0, FS_CardinalityType
      <3> QED
        BY <2>0, <2>2, <3>1, <3>2, <3>3
    <2> QED
      BY <2>1, <2>2
  <1>11. CompletedIsStored'
    BY <1>2 DEF CompletedIsStored, HostedInv, Moves, vars
  <1> QED
    BY <1>3, <1>6, <1>7, <1>8, <1>9, <1>10, <1>11 DEF HostedInv

-----------------------------------------------------------------------------
(* Deliveries, lost claims and deaths.                                     *)

\* A delivery, a lost claim and a death forget the claim and keep the rest.
LEMMA LeaveInv ==
  ASSUME QueueInv, HostedInv, NEW w \in Worker,
         Deliver(w) \/ RetryRefused(w) \/ Crash(w)
  PROVE  HostedInv'
  <1>1. /\ Moves(w, "idle")
        /\ UNCHANGED <<labVars, graphVars>>
    BY DEF Deliver, RetryRefused, Crash, Moves, Leave, queueVars, faults, Away,
           Investigation
  <1>2. HostedTypeOK'
    <2>1. delivered' \in [Job -> BOOLEAN]
      BY DEF Deliver, RetryRefused, Crash, HostedInv, HostedTypeOK
    <2>2. crashes' \in Nat /\ crashes' + stalls <= MaxFaults
      BY HostedConstants
      DEF Deliver, RetryRefused, Crash, faults, HostedInv, HostedTypeOK
    <2>3. UNCHANGED <<marker, runDir, thread, starts, artifact, stalls>>
      BY <1>1 DEF Moves, labVars, graphVars
    <2> QED
      BY <1>1, <2>1, <2>2, <2>3, MoveTypes DEF HostedInv, HostedTypeOK, Step
  <1>3. GraphKept
    BY <1>1 DEF GraphKept, graphVars
  <1>4. KnowsAt(w, "idle")' /\ LabAt(w, "idle")'
    BY DEF KnowsAt, LabAt, WithScenario, Investigation, Starting
  <1> QED
    BY <1>1, <1>2, <1>3, <1>4, MoveInv, LabKept DEF HostedInv, Step

-----------------------------------------------------------------------------
(* Transactions of the queue.                                              *)

(* The queue moves and every worker stays where it is.                     *)
LEMMA QuietInv ==
  ASSUME QueueInv, QueueInv', HostedInv, QueueKeeps, NoOutcome,
         UNCHANGED <<labVars, graphVars, delivered, pc, claimOf, crashes>>,
         stalls' \in Nat, stalls <= stalls', crashes + stalls' <= MaxFaults,
         StallShape'
  PROVE  HostedInv'
  <1> USE DEF HostedInv, HostedTypeOK, QueueKeeps, NoOutcome, labVars,
              graphVars, claimOf
  <1>0. tokens \in Nat /\ tokens' \in Nat
    BY DEF QueueInv, TypeOK
  <1>1. HostedTypeOK'
    BY <1>0
  <1>2. ClaimShape'
    BY <1>0 DEF ClaimShape
  <1>3. StepShape'
    BY DEF StepShape, KnowsAt, WithScenario, Investigation, Away
  <1>4. StartShape'
    <2>1. \A j \in Job : Fresh(j)' \subseteq Fresh(j)
      BY DEF Fresh
    <2> QED
      BY <2>1, FreshShrinks
  <1>5. \A j \in Job : RunIsOver(j) => RunIsOver(j)'
    BY DEF RunIsOver
  <1>6. LabShape'
    <2>1. \A j \in Job : runDir'[j] # "absent" => incident'[j]
      BY DEF LabShape
    <2>2. ASSUME stalls' = 0
          PROVE  MarkerKept' /\ \A w \in Worker : LabAt(w, pc[w])'
      <3>1. stalls = 0
        BY <2>2
      <3> QED
        BY <1>5, <3>1 DEF LabShape, MarkerKept, LabAt
    <2> QED
      BY <2>1, <2>2 DEF LabShape
  <1>7. ResumeInputsKept'
    BY <1>5 DEF ResumeInputsKept
  <1>8. CompletedIsStored'
    BY DEF CompletedIsStored
  <1> QED
    BY <1>1, <1>2, <1>3, <1>4, <1>6, <1>7, <1>8

(* The queue moves for worker w, which goes on or ends its claim.          *)
LEMMA QueueMoveInv ==
  ASSUME QueueInv, QueueInv', HostedInv, QueueKeeps,
         NEW w \in Worker, NEW s \in Step \ {"fresh"}, GoTo(w, s),
         \/ (s \in Away <=> pc[w] \in Away) /\ UNCHANGED claimOf
         \/ s \in Away /\ Leave(w, s),
         UNCHANGED <<labVars, graphVars, delivered, crashes, stalls>>,
         s \in Investigation => pc[w] \in Investigation /\ ClaimsKept(0),
         ClaimsKept(0) \/ ClaimsKept(myToken[w]),
         KnowsAt(w, s)', stalls = 0 => LabAt(w, s)',
         ResumeInputsKept', CompletedIsStored'
  PROVE  HostedInv'
  <1> USE DEF HostedInv, HostedTypeOK, QueueKeeps, GoTo, Leave, labVars,
              graphVars, claimOf
  <1>0. tokens \in Nat /\ tokens' \in Nat
    BY DEF QueueInv, TypeOK
  <1>1. HostedTypeOK'
    <2>1. /\ pc' \in [Worker -> Step]
          /\ myJob' \in [Worker -> Job \cup {None}]
          /\ myToken' \in [Worker -> Nat]
      OBVIOUS
    <2>2. resuming' \in [Worker -> BOOLEAN]
      OBVIOUS
    <2>3. \A v \in Worker : pc'[v] \notin Away =>
                               myJob'[v] \in Job /\ myToken'[v] \in 1..tokens'
      BY <1>0
    <2> QED
      BY <2>1, <2>2, <2>3
  <1>2. ClaimShape'
    BY <1>0, HostedConstants DEF ClaimShape
  <1>3. StepShape'
    <2> SUFFICES ASSUME NEW v \in Worker PROVE KnowsAt(v, pc[v])'
      BY DEF StepShape
    <2>1. CASE v = w
      BY <2>1
    <2>2. CASE v # w
      BY <2>2 DEF StepShape, KnowsAt, WithScenario, Investigation, Away
    <2> QED
      BY <2>1, <2>2
  <1>4. StallShape'
    <2>1. ASSUME NEW v \in Worker, pc'[v] \in Investigation,
                 CurrentClaim(myJob[v], myToken[v])
          PROVE  CurrentClaim(myJob[v], myToken[v])'
      <3>1. /\ pc[v] \in Investigation
            /\ UNCHANGED <<myJob[v], myToken[v]>>
            /\ myJob[v] \in Job /\ myToken[v] \in 1..tokens
        BY <2>1 DEF Investigation, Away
      <3>2. v # w => myToken[v] # myToken[w]
        BY <3>1, <1>0 DEF ClaimShape
      <3>3. ClaimsKept(0) \/ v # w
        BY <2>1
      <3>4. CurrentClaim(myJob[v], myToken[v]) /\ myToken[v] # 0
        BY <1>0, <2>1, <3>1
      <3>5. \E u \in {0, myToken[w]} : ClaimsKept(u) /\ myToken[v] # u
        BY <3>2, <3>3, <3>4
      <3> QED
        BY <3>1, <3>4, <3>5 DEF ClaimsKept, CurrentClaim
    <2>2. Stale' \subseteq Stale
      BY <2>1 DEF Stale, Investigation, Away
    <2> QED
      BY <2>2, StaleShrinks
  <1>5. StartShape'
    <2>1. \A j \in Job : Fresh(j)' \subseteq Fresh(j)
      BY DEF Fresh
    <2> QED
      BY <2>1, FreshShrinks
  <1>6. LabShape'
    <2>1. \A j \in Job : runDir'[j] # "absent" => incident'[j]
      BY DEF LabShape
    <2>2. ASSUME stalls = 0, NEW v \in Worker PROVE LabAt(v, pc[v])'
      <3>1. CASE v = w
        BY <2>2, <3>1
      <3>2. CASE v # w
        BY <2>2, <3>2 DEF LabShape, LabAt, Starting
      <3> QED
        BY <3>1, <3>2
    <2>3. stalls = 0 => MarkerKept'
      BY DEF LabShape, MarkerKept, RunIsOver
    <2> QED
      BY <2>1, <2>2, <2>3 DEF LabShape
  <1> QED
    BY <1>1, <1>2, <1>3, <1>4, <1>5, <1>6

(* Nobody pauses or completes.                                             *)
LEMMA OutcomesKept ==
  ASSUME HostedInv, QueueKeeps, NoOutcome, UNCHANGED <<runDir, artifact, stalls>>
  PROVE  ResumeInputsKept' /\ CompletedIsStored'
  BY DEF HostedInv, QueueKeeps, NoOutcome, ResumeInputsKept, CompletedIsStored,
         RunIsOver

(* A worker in its loop knows its job and its token.                       *)
LEMMA KnowsClaim ==
  ASSUME HostedInv, NEW w \in Worker, pc[w] \notin Away \/ myJob[w] # None
  PROVE  myJob[w] \in Job /\ myToken[w] \in 1..tokens
  BY DEF HostedInv, HostedTypeOK, ClaimShape

(* Owners and heartbeats.                                                  *)
LEMMA OwnerOrHeartbeatInv ==
  ASSUME QueueInv, QueueInv', HostedInv,
         \/ \E j \in Job : Owner(j)
         \/ \E w \in Worker : Heartbeat(w)
  PROVE  HostedInv'
  <1>1. QueueKeeps /\ NoOutcome /\ ClaimsKept(0)
    <2>1. ASSUME NEW j \in Job, Owner(j)
          PROVE  QueueKeeps /\ NoOutcome /\ ClaimsKept(0)
      BY <2>1, OwnerEffect DEF Owner
    <2>2. ASSUME NEW w \in Worker, Heartbeat(w)
          PROVE  QueueKeeps /\ NoOutcome /\ ClaimsKept(0)
      BY <2>2, KnowsClaim, WorkerEffect DEF Heartbeat
    <2> QED
      BY <2>1, <2>2
  <1>2. UNCHANGED <<labVars, graphVars, delivered, pc, claimOf, crashes, stalls>>
    BY DEF Owner, Heartbeat, faults
  <1>3. Stale' \subseteq Stale
    <2> SUFFICES ASSUME NEW w \in Worker, pc[w] \in Investigation,
                        CurrentClaim(myJob[w], myToken[w])
                 PROVE  CurrentClaim(myJob[w], myToken[w])'
      BY <1>2 DEF Stale
    <2>1. myJob[w] \in Job /\ myToken[w] \in 1..tokens /\ myToken[w] # 0
      <3>1. myJob[w] \in Job /\ myToken[w] \in 1..tokens
        BY KnowsClaim DEF Investigation, Away
      <3> QED
        BY <3>1 DEF QueueInv, TypeOK
    <2> QED
      BY <1>1, <1>2, <2>1 DEF ClaimsKept, CurrentClaim, claimOf
  <1>4. stalls \in Nat /\ crashes + stalls <= MaxFaults
    BY DEF HostedInv, HostedTypeOK
  <1>5. StallShape'
    BY <1>2, <1>3, <1>4, StaleShrinks DEF HostedInv
  <1> QED
    BY <1>1, <1>2, <1>4, <1>5, QuietInv

(* Time passes without a claim of a live worker running out.               *)
LEMMA ClockInv ==
  ASSUME QueueInv, QueueInv', HostedInv, Clock
  PROVE  HostedInv'
  <1>1. UNCHANGED <<labVars, graphVars, delivered, pc, claimOf, crashes, stalls>>
    BY DEF Clock, faults
  <1>2. Stale' \subseteq Stale
    <2> SUFFICES ASSUME NEW w \in Worker, pc[w] \in Investigation,
                        CurrentClaim(myJob[w], myToken[w])
                 PROVE  CurrentClaim(myJob[w], myToken[w])'
      BY <1>1 DEF Stale
    <2>1. PICK j \in Job : j = myJob[w]
      BY KnowsClaim DEF Investigation, Away
    <2>2. j \in Held
      BY <2>1 DEF Held, CurrentClaim
    <2>3. claimExpiresAt[j] > now + 1
      BY <2>2 DEF Clock
    <2> QED
      BY <1>1, <2>1, <2>3
      DEF Clock, Tick, rowVars, claimVars, claimOf, CurrentClaim, QueueInv,
          TypeOK
  <1>3. stalls \in Nat /\ crashes + stalls <= MaxFaults
    BY DEF HostedInv, HostedTypeOK
  <1>4. StallShape'
    BY <1>1, <1>2, <1>3, StaleShrinks DEF HostedInv
  <1>5. QueueKeeps /\ NoOutcome
    BY TickEffect DEF Clock
  <1> QED
    BY <1>1, <1>3, <1>4, <1>5, QuietInv

(* A stall costs the one running job's worker its claim.                   *)
LEMMA LeaseLapsesInv ==
  ASSUME QueueInv, QueueInv', HostedInv, NEW j \in Job, LeaseLapses(j)
  PROVE  HostedInv'
  <1>0. /\ stalls \in Nat /\ crashes \in Nat
        /\ crashes + stalls < MaxFaults
        /\ stalls' = stalls + 1
        /\ MaxFaults \in Nat
    BY HostedConstants DEF LeaseLapses, HostedInv, HostedTypeOK
  <1>1. UNCHANGED <<labVars, graphVars, delivered, pc, claimOf, crashes>>
    BY DEF LeaseLapses
  <1>2. PICK u \in Worker : myJob[u] = j /\ myToken[u] = claimToken[j]
                            /\ status[j] = "RUNNING"
    BY DEF LeaseLapses, Held
  <1>3. Stale' \subseteq Stale \cup {u}
    <2> SUFFICES ASSUME NEW w \in Worker, pc[w] \in Investigation,
                        CurrentClaim(myJob[w], myToken[w])
                 PROVE  w = u
      BY <1>1 DEF Stale
    <2>1. myJob[w] \in Job
      BY KnowsClaim DEF Investigation, Away
    <2>2. myJob[w] = j
      BY <1>2, <2>1 DEF CurrentClaim, QueueInv, AtMostOneRunning
    <2>3. myToken[w] = myToken[u] /\ myToken[w] # 0
      BY <1>2, <2>2 DEF CurrentClaim, QueueInv, RowShape
    <2> QED
      BY <2>3 DEF HostedInv, ClaimShape
  <1>4. StallShape'
    <2>1. /\ IsFiniteSet(Stale)
          /\ Cardinality(Stale) \in Nat
          /\ Cardinality(Stale) <= stalls
      BY FS_CardinalityType DEF HostedInv, StallShape
    <2>2. /\ IsFiniteSet(Stale \cup {u})
          /\ Cardinality(Stale \cup {u}) =
               IF u \in Stale THEN Cardinality(Stale) ELSE Cardinality(Stale) + 1
      BY <2>1, FS_AddElement, Zenon
    <2>3. /\ IsFiniteSet(Stale')
          /\ Cardinality(Stale') <= Cardinality(Stale \cup {u})
      BY <1>3, <2>2, FS_Subset
    <2>4. Cardinality(Stale') \in Nat /\ Cardinality(Stale \cup {u}) \in Nat
      BY <2>2, <2>3, FS_CardinalityType
    <2> QED
      BY <1>0, <2>1, <2>2, <2>3, <2>4 DEF StallShape
  <1>5. QueueKeeps /\ NoOutcome
    BY TickEffect DEF LeaseLapses
  <1>6. stalls' \in Nat /\ stalls <= stalls' /\ crashes + stalls' <= MaxFaults
    BY <1>0
  <1> QED
    BY <1>1, <1>4, <1>5, <1>6, QuietInv

(* An empty poll, and the reservation of a scenario.                       *)
LEMMA NoWorkInv ==
  ASSUME QueueInv, QueueInv', HostedInv, NEW w \in Worker, NoWork(w)
  PROVE  HostedInv'
  <1>1. QueueKeeps /\ NoOutcome /\ ClaimsKept(0)
    BY PollEffect DEF NoWork
  <1>2. /\ GoTo(w, "delivery") /\ Leave(w, "delivery")
        /\ UNCHANGED <<labVars, graphVars, delivered, crashes, stalls>>
    BY DEF NoWork, Leave, faults
  <1>3. KnowsAt(w, "delivery")' /\ LabAt(w, "delivery")'
    BY DEF KnowsAt, LabAt, WithScenario, Investigation, Starting
  <1>4. ResumeInputsKept' /\ CompletedIsStored'
    BY <1>1, <1>2, OutcomesKept DEF labVars, graphVars
  <1> QED
    BY <1>1, <1>2, <1>3, <1>4, QueueMoveInv DEF Step, Away, Investigation

\* reserve_incident of the claim's holder, and the way to provisioning.
LEMMA ReserveInv ==
  ASSUME QueueInv, QueueInv', HostedInv, NEW w \in Worker, Reserve(w)
  PROVE  HostedInv'
  <1>0. pc[w] = "claimed" /\ myJob[w] \in Job /\ myToken[w] \in 1..tokens
    BY KnowsClaim DEF Reserve, Away
  <1>1. QueueKeeps /\ NoOutcome /\ ClaimsKept(0)
    BY <1>0, WorkerEffect DEF Reserve
  <1>2. /\ GoTo(w, "provision")
        /\ UNCHANGED <<claimOf, labVars, graphVars, delivered, crashes, stalls>>
    BY DEF Reserve, faults
  <1>3. incident'[myJob[w]]
    BY <1>0 DEF Reserve, ReserveIncident, QueueInv, TypeOK
  <1>4. KnowsAt(w, "provision")' /\ LabAt(w, "provision")'
    BY <1>2, <1>3
    DEF KnowsAt, LabAt, WithScenario, Investigation, Starting, claimOf
  <1>5. ResumeInputsKept' /\ CompletedIsStored'
    BY <1>1, <1>2, OutcomesKept DEF labVars, graphVars
  <1> QED
    BY <1>0, <1>1, <1>2, <1>4, <1>5, QueueMoveInv DEF Step, Away, Investigation

(* A retry ends the claim; the attempt that exhausts the budget fails the  *)
(* job before its scenario is discarded.                                   *)
LEMMA ScheduleRetryInv ==
  ASSUME QueueInv, QueueInv', HostedInv, NEW w \in Worker, ScheduleRetry(w)
  PROVE  HostedInv'
  <1>0. pc[w] = "failing" /\ myJob[w] \in Job /\ myToken[w] \in 1..tokens
    BY KnowsClaim DEF ScheduleRetry, Away
  <1>1. QueueKeeps /\ NoOutcome /\ ClaimsKept(myToken[w])
    BY <1>0, WorkerEffect DEF ScheduleRetry
  <1>2. UNCHANGED <<labVars, graphVars, delivered, crashes, stalls>>
    BY DEF ScheduleRetry, faults
  <1>3. ResumeInputsKept' /\ CompletedIsStored'
    BY <1>1, <1>2, OutcomesKept DEF labVars, graphVars
  <1>4. CASE Exhausted(attemptCount[myJob[w]] + 1)
    <2>1. GoTo(w, "discard") /\ UNCHANGED claimOf
      BY <1>4 DEF ScheduleRetry
    <2>2. failed'[myJob[w]]
      BY <1>0, <1>4 DEF ScheduleRetry, RetryRunning, QueueInv, TypeOK
    <2>3. KnowsAt(w, "discard")' /\ LabAt(w, "discard")'
      BY <2>1, <2>2
      DEF KnowsAt, LabAt, WithScenario, Investigation, Starting, claimOf
    <2> QED
      BY <1>0, <1>1, <1>2, <1>3, <2>1, <2>3, QueueMoveInv
      DEF Step, Away, Investigation
  <1>5. CASE ~Exhausted(attemptCount[myJob[w]] + 1)
    <2>1. GoTo(w, "idle") /\ Leave(w, "idle")
      BY <1>5 DEF ScheduleRetry, Leave
    <2>2. KnowsAt(w, "idle")' /\ LabAt(w, "idle")'
      BY DEF KnowsAt, LabAt, WithScenario, Investigation, Starting
    <2> QED
      BY <1>1, <1>2, <1>3, <2>1, <2>2, QueueMoveInv
      DEF Step, Away, Investigation
  <1> QED
    BY <1>4, <1>5

(* A pause leaves the run directory the resumed graph will need.           *)
LEMMA PauseInv ==
  ASSUME QueueInv, QueueInv', HostedInv, NEW w \in Worker, Pause(w)
  PROVE  HostedInv'
  <1>0. pc[w] = "paused" /\ myJob[w] \in Job /\ myToken[w] \in 1..tokens
    BY KnowsClaim DEF Pause, Away
  <1>1. PICK c \in Checkpoint : MarkPaused(myJob[w], c, myToken[w])
    BY DEF Pause
  <1>2. checkpointId[myJob[w]] = None
    BY <1>0, <1>1, PauseIsFirst DEF MarkPaused, CurrentClaim, HoldsToken
  <1>3. /\ QueueKeeps
        /\ ClaimsKept(myToken[w])
        /\ \A k \in Job : k # myJob[w] => checkpointId'[k] = checkpointId[k]
        /\ checkpointId'[myJob[w]] # None
        /\ \A k \in Job : status'[k] = "COMPLETED" => status[k] = "COMPLETED"
    BY <1>0, <1>1, <1>2, OutcomeEffect
  <1>4. /\ GoTo(w, "release")
        /\ UNCHANGED <<claimOf, labVars, graphVars, delivered, crashes, stalls>>
    BY DEF Pause, faults
  <1>5. KnowsAt(w, "release")' /\ LabAt(w, "release")'
    BY <1>3, <1>4
    DEF KnowsAt, LabAt, WithScenario, Investigation, Starting, claimOf
  <1>6. ResumeInputsKept'
    <2>1. stalls = 0 => runDir[myJob[w]] = "ready"
      BY <1>0 DEF HostedInv, LabShape, LabAt
    <2> QED
      BY <1>3, <1>4, <2>1
      DEF ResumeInputsKept, RunIsOver, QueueKeeps, HostedInv, labVars
  <1>7. CompletedIsStored'
    BY <1>3, <1>4 DEF CompletedIsStored, HostedInv, graphVars
  <1> QED
    BY <1>0, <1>3, <1>4, <1>5, <1>6, <1>7, QueueMoveInv
    DEF Step, Away, Investigation

(* What is finalized was uploaded by this worker.                          *)
LEMMA CompleteInv ==
  ASSUME QueueInv, QueueInv', HostedInv, NEW w \in Worker, Complete(w)
  PROVE  HostedInv'
  <1>0. pc[w] = "finished" /\ myJob[w] \in Job /\ myToken[w] \in 1..tokens
    BY KnowsClaim DEF Complete, Away
  <1>1. PICK r \in Report : Finalize(myJob[w], r, myToken[w])
    BY DEF Complete
  <1>2. /\ QueueKeeps
        /\ ClaimsKept(myToken[w])
        /\ UNCHANGED checkpointId
        /\ status'[myJob[w]] = "COMPLETED"
        /\ \A k \in Job : k # myJob[w] /\ status'[k] = "COMPLETED" =>
                             status[k] = "COMPLETED"
    BY <1>0, <1>1, OutcomeEffect
  <1>3. /\ GoTo(w, "reset")
        /\ UNCHANGED <<claimOf, labVars, graphVars, delivered, crashes, stalls>>
    BY DEF Complete, faults
  <1>4. KnowsAt(w, "reset")' /\ LabAt(w, "reset")'
    BY <1>2, <1>3
    DEF KnowsAt, LabAt, WithScenario, Investigation, Starting, claimOf
  <1>5. ResumeInputsKept'
    BY <1>2, <1>3
    DEF ResumeInputsKept, RunIsOver, QueueKeeps, HostedInv, labVars
  <1>6. CompletedIsStored'
    <2>1. artifact[myJob[w]] = "stored"
      BY <1>0 DEF HostedInv, StepShape, KnowsAt
    <2> QED
      BY <1>2, <1>3, <2>1 DEF CompletedIsStored, HostedInv, graphVars
  <1> QED
    BY <1>0, <1>2, <1>3, <1>4, <1>5, <1>6, QueueMoveInv
    DEF Step, Away, Investigation

(* A new claim comes with a new token and a fresh lease.                   *)
LEMMA TakeJobInv ==
  ASSUME QueueInv, QueueInv', HostedInv, NEW w \in Worker, NEW j \in Job,
         TakeJob(w, j)
  PROVE  HostedInv'
  <1>0. /\ pc[w] = "poll"
        /\ pc' = [pc EXCEPT ![w] = "claimed"]
        /\ myJob' = [myJob EXCEPT ![w] = j]
        /\ myToken' = [myToken EXCEPT ![w] = tokens + 1]
        /\ resuming' = [resuming EXCEPT ![w] = checkpointId[j] # None]
        /\ UNCHANGED <<labVars, graphVars, delivered, crashes, stalls>>
    BY DEF TakeJob, GoTo, faults
  <1>1. QueueKeeps /\ NoOutcome /\ ClaimsKept(0)
    BY PollEffect DEF TakeJob
  <1>2. /\ tokens \in Nat
        /\ tokens' = tokens + 1
        /\ UNCHANGED <<checkpointId, now>>
        /\ status'[j] = "RUNNING"
        /\ claimToken'[j] = tokens + 1
        /\ claimExpiresAt'[j] > now
    BY QueueConstants
    DEF TakeJob, ClaimNext, QueueInv, TypeOK, StatusAfterReclaim
  <1>3. HostedTypeOK'
    <2>1. /\ pc' \in [Worker -> Step]
          /\ myJob' \in [Worker -> Job \cup {None}]
          /\ myToken' \in [Worker -> Nat]
      BY <1>0, <1>2 DEF HostedInv, HostedTypeOK, Step
    <2>2. resuming' \in [Worker -> BOOLEAN]
      BY <1>0 DEF HostedInv, HostedTypeOK
    <2>3. \A v \in Worker : pc'[v] \notin Away =>
                               myJob'[v] \in Job /\ myToken'[v] \in 1..tokens'
      BY <1>0, <1>2 DEF HostedInv, HostedTypeOK
    <2> QED
      BY <1>0, <2>1, <2>2, <2>3
      DEF HostedInv, HostedTypeOK, labVars, graphVars
  <1>4. ClaimShape'
    <2>1. \A v \in Worker : myToken[v] <= tokens
      BY <1>2 DEF HostedInv, HostedTypeOK, ClaimShape
    <2> SUFFICES ASSUME NEW v \in Worker
                 PROVE  /\ pc'[v] \in Away => myJob'[v] = None /\ myToken'[v] = 0
                        /\ \A u \in Worker :
                              myToken'[v] = myToken'[u] /\ myToken'[v] # 0 =>
                                  u = v
                        /\ pc'[v] \notin Away
                             /\ HoldsToken(myJob[v], myToken[v])' =>
                               (resuming'[v] <=> checkpointId'[myJob'[v]] # None)
      BY DEF ClaimShape
    <2>2. pc'[v] \in Away => myJob'[v] = None /\ myToken'[v] = 0
      BY <1>0 DEF HostedInv, HostedTypeOK, ClaimShape, Away
    <2>3. \A u \in Worker : myToken'[v] = myToken'[u] /\ myToken'[v] # 0 => u = v
      BY <1>0, <1>2, <2>1 DEF HostedInv, HostedTypeOK, ClaimShape
    <2>4. ASSUME pc'[v] \notin Away, HoldsToken(myJob[v], myToken[v])'
          PROVE  resuming'[v] <=> checkpointId'[myJob'[v]] # None
      <3>1. CASE v = w
        BY <1>0, <1>2, <3>1 DEF HostedInv, HostedTypeOK
      <3>2. CASE v # w
        <4>1. UNCHANGED <<pc[v], myJob[v], myToken[v], resuming[v]>>
          BY <1>0, <3>2 DEF HostedInv, HostedTypeOK
        <4>2. myJob[v] \in Job /\ myToken[v] \in 1..tokens
          BY <2>4, <4>1, KnowsClaim
        <4>3. HoldsToken(myJob[v], myToken[v])
          BY <1>1, <2>4, <4>1, <4>2 DEF QueueKeeps, HoldsToken
        <4> QED
          BY <1>2, <2>4, <4>1, <4>3 DEF HostedInv, ClaimShape
      <3> QED
        BY <3>1, <3>2
    <2> QED
      BY <2>2, <2>3, <2>4
  <1>5. StepShape'
    <2> SUFFICES ASSUME NEW v \in Worker PROVE KnowsAt(v, pc[v])'
      BY DEF StepShape
    <2>1. CASE v = w
      <3>1. pc'[v] = "claimed"
        BY <1>0, <2>1 DEF HostedInv, HostedTypeOK
      <3> QED
        BY <3>1 DEF KnowsAt, WithScenario, Investigation
    <2>2. CASE v # w
      <3>1. UNCHANGED <<pc[v], myJob[v], resuming[v], thread, artifact>>
        BY <1>0, <2>2 DEF HostedInv, HostedTypeOK, graphVars
      <3>2. pc[v] \in Away \/ myJob[v] \in Job
        BY KnowsClaim
      <3> QED
        BY <1>1, <3>1, <3>2
        DEF HostedInv, StepShape, KnowsAt, QueueKeeps, WithScenario,
            Investigation, Away
    <2> QED
      BY <2>1, <2>2
  <1>6. StallShape'
    <2>1. ASSUME NEW v \in Worker, v # w, pc[v] \in Investigation,
                 CurrentClaim(myJob[v], myToken[v])
          PROVE  CurrentClaim(myJob[v], myToken[v])'
      <3>1. UNCHANGED <<myJob[v], myToken[v]>>
        BY <1>0, <2>1 DEF HostedInv, HostedTypeOK
      <3>2. myJob[v] \in Job /\ myToken[v] \in 1..tokens
        BY <2>1, KnowsClaim DEF Investigation, Away
      <3>3. myToken[v] # 0
        BY <1>2, <3>2
      <3> QED
        BY <1>1, <2>1, <3>1, <3>2, <3>3 DEF ClaimsKept, CurrentClaim
    <2>2. CurrentClaim(myJob[w], myToken[w])'
      BY <1>0, <1>2 DEF CurrentClaim, HostedInv, HostedTypeOK
    <2>3. Stale' \subseteq Stale
      BY <1>0, <2>1, <2>2 DEF Stale, HostedInv, HostedTypeOK
    <2> QED
      BY <1>0, <2>3, StaleShrinks DEF HostedInv, HostedTypeOK
  <1>7. StartShape'
    <2>1. \A k \in Job : Fresh(k)' \subseteq Fresh(k)
      BY <1>0 DEF Fresh, HostedInv, HostedTypeOK
    <2> QED
      BY <1>0, <2>1, FreshShrinks DEF HostedInv, HostedTypeOK, graphVars
  <1>8. LabShape'
    <2>1. \A k \in Job : runDir'[k] # "absent" => incident'[k]
      BY <1>0, <1>1 DEF HostedInv, LabShape, labVars, QueueKeeps
    <2>2. ASSUME stalls = 0, NEW v \in Worker PROVE LabAt(v, pc[v])'
      <3>1. pc'[v] = IF v = w THEN "claimed" ELSE pc[v]
        BY <1>0 DEF HostedInv, HostedTypeOK
      <3>2. CASE v = w
        BY <3>1, <3>2 DEF LabAt, Starting
      <3>3. CASE v # w
        BY <1>0, <2>2, <3>1, <3>3
        DEF HostedInv, HostedTypeOK, LabShape, LabAt, Starting, labVars
      <3> QED
        BY <3>2, <3>3
    <2>3. stalls = 0 => MarkerKept'
      BY <1>0, <1>1
      DEF HostedInv, LabShape, MarkerKept, RunIsOver, QueueKeeps, labVars
    <2> QED
      BY <1>0, <2>1, <2>2, <2>3 DEF LabShape
  <1>9. ResumeInputsKept' /\ CompletedIsStored'
    BY <1>0, <1>1, OutcomesKept DEF labVars, graphVars
  <1> QED
    BY <1>3, <1>4, <1>5, <1>6, <1>7, <1>8, <1>9 DEF HostedInv

-----------------------------------------------------------------------------
(* The theorems.                                                           *)

\* The service starts with nothing claimed, nothing running and a free lab.
LEMMA HostedInitInv == HostedInit => HostedInv
  <1> SUFFICES ASSUME HostedInit PROVE HostedInv
    OBVIOUS
  <1> USE QueueConstants, HostedConstants DEF HostedInit, Init
  <1>1. HostedTypeOK
    BY DEF HostedTypeOK, Step, Away
  <1>2. ClaimShape /\ StepShape
    BY DEF ClaimShape, StepShape, KnowsAt, Away, WithScenario, Investigation
  <1>3. StallShape
    <2>1. Stale = {}
      BY DEF Stale, Investigation
    <2> QED
      BY <2>1, FS_EmptySet DEF StallShape
  <1>4. StartShape
    <2> SUFFICES ASSUME NEW j \in Job
                 PROVE  /\ starts[j] = 0 <=> thread[j] = "none"
                        /\ IsFiniteSet(Fresh(j))
                        /\ starts[j] + Cardinality(Fresh(j)) <= 1 + stalls
      BY DEF StartShape
    <2>1. Fresh(j) = {}
      BY DEF Fresh
    <2>2. IsFiniteSet(Fresh(j)) /\ Cardinality(Fresh(j)) = 0
      BY ONLY <2>1, FS_EmptySet
    <2>3. starts[j] = 0 /\ stalls = 0 /\ thread[j] = "none"
      OBVIOUS
    <2> QED
      BY ONLY <2>2, <2>3, SMT
  <1>5. LabShape
    BY DEF LabShape, MarkerKept, LabAt, Starting
  <1>6. ResumeInputsKept /\ CompletedIsStored
    BY DEF ResumeInputsKept, CompletedIsStored
  <1> QED
    BY <1>1, <1>2, <1>3, <1>4, <1>5, <1>6 DEF HostedInv

\* Steps of nobody keep the invariant.
LEMMA HostedStutterInv ==
  ASSUME HostedInv, UNCHANGED hostedVars
  PROVE  HostedInv'
  <1> USE DEF HostedInv, hostedVars, vars
  <1>1. HostedTypeOK' /\ ClaimShape'
    BY DEF HostedTypeOK, ClaimShape, HoldsToken
  <1>2. StepShape'
    BY DEF StepShape, KnowsAt
  <1>3. StallShape'
    BY DEF StallShape, Stale, CurrentClaim
  <1>4. StartShape'
    BY DEF StartShape, Fresh
  <1>5. LabShape' /\ ResumeInputsKept' /\ CompletedIsStored'
    BY DEF LabShape, MarkerKept, LabAt, ResumeInputsKept, CompletedIsStored,
           RunIsOver
  <1> QED
    BY <1>1, <1>2, <1>3, <1>4, <1>5

(* Every step of the service keeps both invariants.                        *)
LEMMA HostedStepInv ==
  QueueInv /\ HostedInv /\ [HostedNext]_hostedVars => QueueInv' /\ HostedInv'
  <1> SUFFICES ASSUME QueueInv, HostedInv, [HostedNext]_hostedVars
               PROVE  QueueInv' /\ HostedInv'
    OBVIOUS
  <1>0. QueueInv'
    BY StepUsesQueue, StepInv
  <1>1. CASE \E j \in Job : Owner(j)
    BY <1>0, <1>1, OwnerOrHeartbeatInv
  <1>2. ASSUME NEW w \in Worker, Polling(w) PROVE HostedInv'
    BY <1>0, <1>2, ReconcileKeepsInv, ReconcileInv, NoWorkInv, TakeJobInv,
       LeaveInv
    DEF Polling
  <1>3. ASSUME NEW w \in Worker, Provisioning(w) PROVE HostedInv'
    BY <1>0, <1>3, LooksInv, ReserveInv, ProvisionInv, ResetInv, StartFailsInv,
       StartScenarioInv
    DEF Provisioning
  <1>4. ASSUME NEW w \in Worker, Investigating(w) PROVE HostedInv'
    BY <1>4, GoesOnInv, RecoverFreshInv, StartGraphInv, GraphMoveInv, FailsInv
    DEF Investigating
  <1>5. ASSUME NEW w \in Worker, Settling(w) PROVE HostedInv'
    BY <1>0, <1>5, PauseInv, GiveBackInv, CompleteInv, FailsInv,
       ScheduleRetryInv, LeaveInv
    DEF Settling
  <1>6. ASSUME NEW w \in Worker, Heartbeat(w) \/ Crash(w) PROVE HostedInv'
    BY <1>0, <1>6, OwnerOrHeartbeatInv, LeaveInv
  <1>7. CASE Clock \/ \E j \in Job : LeaseLapses(j)
    BY <1>0, <1>7, ClockInv, LeaseLapsesInv
  <1>8. CASE UNCHANGED hostedVars
    BY <1>0, <1>8, HostedStutterInv
  <1> QED
    BY <1>0, <1>1, <1>2, <1>3, <1>4, <1>5, <1>6, <1>7, <1>8
    DEF HostedNext, Loop

(* Both inductive invariants hold in every reachable state of the service. *)
THEOREM HostedInvariant == HostedSpec => [](QueueInv /\ HostedInv)
  <1>1. HostedInit => QueueInv /\ HostedInv
    BY InitInv, HostedInitInv DEF HostedInit
  <1> QED
    BY <1>1, HostedStepInv, PTL DEF HostedSpec

(* The background loops, whatever dies, fails or stalls, use the queue as  *)
(* ReplayQueue allows: the theorems of ReplayQueueProofs hold of them.     *)
THEOREM HostedImplementsQueue == HostedSpec => ImplementsQueue
  <1>1. HostedInit => Init
    BY DEF HostedInit
  <1>2. HostedInv /\ [HostedNext]_hostedVars => [Next]_vars
    BY StepUsesQueue
  <1> QED
    BY <1>1, <1>2, HostedInvariant, PTL DEF HostedSpec, ImplementsQueue, Spec

(* Without a stall the lab shows a job's own fault while the job looks.    *)
THEOREM LabShowsOwnFault == HostedSpec => []ScenarioHeldWhileObserved
  <1>1. QueueInv /\ HostedInv => ScenarioHeldWhileObserved
    BY DEF HostedInv, LabShape, LabAt, Starting, ScenarioHeldWhileObserved
  <1> QED
    BY <1>1, HostedInvariant, PTL

(* A thread gets one initial state, and at most one more for each stall.   *)
THEOREM ThreadsStartOnce == HostedSpec => []GraphStartedOnce
  <1>1. QueueInv /\ HostedInv => GraphStartedOnce
    <2> SUFFICES ASSUME HostedInv, NEW j \in Job PROVE starts[j] <= 1 + stalls
      BY DEF GraphStartedOnce
    <2>1. Cardinality(Fresh(j)) \in Nat
      BY FS_CardinalityType DEF HostedInv, StartShape
    <2> QED
      BY <2>1 DEF HostedInv, StartShape, HostedTypeOK
  <1> QED
    BY <1>1, HostedInvariant, PTL

(* Without a stall a paused job keeps what its resumed graph needs.        *)
THEOREM PausedJobsKeepInputs == HostedSpec => []ResumeInputsKept
  <1>1. QueueInv /\ HostedInv => ResumeInputsKept
    BY DEF HostedInv
  <1> QED
    BY <1>1, HostedInvariant, PTL

(* A completed job's artifacts are in the bucket.                          *)
THEOREM CompletedJobsAreStored == HostedSpec => []CompletedIsStored
  <1>1. QueueInv /\ HostedInv => CompletedIsStored
    BY DEF HostedInv
  <1> QED
    BY <1>1, HostedInvariant, PTL
=============================================================================
