------------------------- MODULE ReplayQueueProofs -------------------------
(***************************************************************************)
(* What the job queue guarantees for every number of jobs, every lease,    *)
(* back-off and retry limit, and every interleaving of owners, CLI, and    *)
(* live or stale workers.  The properties are proved from one inductive    *)
(* invariant, QueueInv.                                                    *)
(***************************************************************************)
EXTENDS ReplayQueue, TLAPS

(* A back-off is an integer: availableAt never leaves its type.            *)
LEMMA RetryDelayInt == \A n \in Nat : RetryDelay(n + 1) \in Int
  BY QueueConstants DEF RetryDelay

(* The row read_decision_for_thread returns is a ledger row or NULL.       *)
LEMMA LedgerRowType ==
  ASSUME TypeOK, LedgerShape, NEW j \in Job
  PROVE  /\ LedgerRow(j) \in DecisionRow \cup {None}
         /\ LedgerRow(j) # None =>
               /\ LedgerRow(j) \in DecisionRow
               /\ LedgerRow(j).checkpoint = latestDecision[j]
               /\ ownerDecisions[j][LedgerRow(j).checkpoint]
                    = LedgerRow(j).decision
  BY QueueConstants DEF TypeOK, LedgerShape, LedgerRow, DecisionRow

(* An empty table satisfies the invariant.                                *)
LEMMA InitInv == Init => QueueInv
  <1> SUFFICES ASSUME Init PROVE QueueInv
    OBVIOUS
  <1>1. TypeOK
    BY DEF Init, TypeOK, Status
  <1>2. RowShape /\ LedgerShape
    BY QueueConstants DEF Init, RowShape, LedgerShape
  <1>3. AtMostOneRunning /\ LabExclusive /\ OneLabOwner
    BY DEF Init, AtMostOneRunning, LabExclusive, OneLabOwner, OwnsLab
  <1>4. MirrorBackedByLedger /\ ResumedOnlyWhenDecided
    BY DEF Init, MirrorBackedByLedger, ResumedOnlyWhenDecided
  <1> QED
    BY <1>1, <1>2, <1>3, <1>4 DEF QueueInv

(* Create adds a queued row that owns nothing.                            *)
LEMMA CreateInv ==
  ASSUME QueueInv, NEW j \in Job,
         Create(j)
  PROVE  QueueInv'
  <1> USE QueueConstants DEF QueueInv, claimVars, retryVars, ledgerVars, Create
  <1>1. TypeOK'
    BY DEF TypeOK, Status, DecisionRow
  <1>2. RowShape'
    BY DEF RowShape, TypeOK
  <1>3. LedgerShape'
    BY DEF LedgerShape, TypeOK, LedgerRow, DecisionRow
  <1>4. AtMostOneRunning'
    BY DEF AtMostOneRunning, TypeOK
  <1>5. LabExclusive'
    BY DEF LabExclusive, AtMostOneRunning, OwnsLab, TypeOK, RowShape
  <1>6. OneLabOwner'
    BY DEF OneLabOwner, LabExclusive, OwnsLab, TypeOK, RowShape
  <1>7. MirrorBackedByLedger'
    BY DEF MirrorBackedByLedger, LedgerShape, TypeOK, LedgerRow, DecisionRow
  <1>8. ResumedOnlyWhenDecided'
    BY DEF ResumedOnlyWhenDecided, LedgerShape, TypeOK, DecisionRow
  <1> QED
    BY <1>1, <1>2, <1>3, <1>4, <1>5, <1>6, <1>7, <1>8 DEF QueueInv

(* Decide mirrors the instruction the ledger holds.                       *)
LEMMA DecideInv ==
  ASSUME QueueInv, NEW j \in Job, NEW d \in Decision,
         Decide(j, d)
  PROVE  QueueInv'
  <1> USE QueueConstants DEF QueueInv, claimVars, retryVars, ledgerVars, Decide,
                             EnsureLedgerDecision, RecordDecision
  <1>1. TypeOK'
    BY DEF TypeOK, Status, DecisionRow
  <1>2. RowShape'
    BY DEF RowShape, TypeOK
  <1>3. LedgerShape'
    BY DEF LedgerShape, TypeOK, LedgerRow, DecisionRow
  <1>4. AtMostOneRunning'
    BY DEF AtMostOneRunning, TypeOK
  <1>5. LabExclusive'
    BY DEF LabExclusive, AtMostOneRunning, OwnsLab, TypeOK, RowShape
  <1>6. OneLabOwner'
    BY DEF OneLabOwner, LabExclusive, OwnsLab, TypeOK, RowShape
  <1>7. MirrorBackedByLedger'
    BY DEF MirrorBackedByLedger, LedgerShape, TypeOK, LedgerRow, DecisionRow
  <1>8. ResumedOnlyWhenDecided'
    BY DEF ResumedOnlyWhenDecided, LedgerShape, TypeOK, DecisionRow
  <1> QED
    BY <1>1, <1>2, <1>3, <1>4, <1>5, <1>6, <1>7, <1>8 DEF QueueInv

(* Decide cut off after its ledger write leaves the job paused.           *)
LEMMA DecideCrashInv ==
  ASSUME QueueInv, NEW j \in Job, NEW d \in Decision,
         DecideCrash(j, d)
  PROVE  QueueInv'
  <1> USE QueueConstants DEF QueueInv, claimVars, retryVars, ledgerVars,
                             DecideCrash, EnsureLedgerDecision, RecordDecision,
                             rowVars
  <1>1. TypeOK'
    BY DEF TypeOK, Status, DecisionRow
  <1>2. RowShape'
    BY DEF RowShape, TypeOK
  <1>3. LedgerShape'
    BY DEF LedgerShape, TypeOK, LedgerRow, DecisionRow
  <1>4. AtMostOneRunning'
    BY DEF AtMostOneRunning, TypeOK
  <1>5. LabExclusive'
    BY DEF LabExclusive, AtMostOneRunning, OwnsLab, TypeOK, RowShape
  <1>6. OneLabOwner'
    BY DEF OneLabOwner, LabExclusive, OwnsLab, TypeOK, RowShape
  <1>7. MirrorBackedByLedger'
    BY DEF MirrorBackedByLedger, LedgerShape, TypeOK, LedgerRow, DecisionRow
  <1>8. ResumedOnlyWhenDecided'
    BY DEF ResumedOnlyWhenDecided, LedgerShape, TypeOK, DecisionRow
  <1> QED
    BY <1>1, <1>2, <1>3, <1>4, <1>5, <1>6, <1>7, <1>8 DEF QueueInv

(* A repeated decide changes nothing the invariant sees.                  *)
LEMMA DecideAgainInv ==
  ASSUME QueueInv, NEW j \in Job, NEW d \in Decision,
         DecideAgain(j, d)
  PROVE  QueueInv'
  <1> USE QueueConstants DEF QueueInv, claimVars, retryVars, ledgerVars,
                             DecideAgain, EnsureLedgerDecision, RecordDecision,
                             rowVars
  <1>1. TypeOK'
    BY DEF TypeOK, Status, DecisionRow
  <1>2. RowShape'
    BY DEF RowShape, TypeOK
  <1>3. LedgerShape'
    BY DEF LedgerShape, TypeOK, LedgerRow, DecisionRow
  <1>4. AtMostOneRunning'
    BY DEF AtMostOneRunning, TypeOK
  <1>5. LabExclusive'
    BY DEF LabExclusive, AtMostOneRunning, OwnsLab, TypeOK, RowShape
  <1>6. OneLabOwner'
    BY DEF OneLabOwner, LabExclusive, OwnsLab, TypeOK, RowShape
  <1>7. MirrorBackedByLedger'
    BY DEF MirrorBackedByLedger, LedgerShape, TypeOK, LedgerRow, DecisionRow
  <1>8. ResumedOnlyWhenDecided'
    BY DEF ResumedOnlyWhenDecided, LedgerShape, TypeOK, DecisionRow
  <1> QED
    BY <1>1, <1>2, <1>3, <1>4, <1>5, <1>6, <1>7, <1>8 DEF QueueInv

(* A CLI row never overwrites an earlier one (primary key).               *)
LEMMA CliRecordInv ==
  ASSUME QueueInv, NEW j \in Job, NEW c \in Checkpoint, NEW d \in Decision,
         CliRecord(j, c, d)
  PROVE  QueueInv'
  <1> USE QueueConstants DEF QueueInv, claimVars, retryVars, ledgerVars,
                             CliRecord, RecordDecision, rowVars
  <1>1. TypeOK'
    BY DEF TypeOK, Status, DecisionRow
  <1>2. RowShape'
    BY DEF RowShape, TypeOK
  <1>3. LedgerShape'
    BY DEF LedgerShape, TypeOK, LedgerRow, DecisionRow
  <1>4. AtMostOneRunning'
    BY DEF AtMostOneRunning, TypeOK
  <1>5. LabExclusive'
    BY DEF LabExclusive, AtMostOneRunning, OwnsLab, TypeOK, RowShape
  <1>6. OneLabOwner'
    BY DEF OneLabOwner, LabExclusive, OwnsLab, TypeOK, RowShape
  <1>7. MirrorBackedByLedger'
    BY DEF MirrorBackedByLedger, LedgerShape, TypeOK, LedgerRow, DecisionRow
  <1>8. ResumedOnlyWhenDecided'
    BY DEF ResumedOnlyWhenDecided, LedgerShape, TypeOK, DecisionRow
  <1> QED
    BY <1>1, <1>2, <1>3, <1>4, <1>5, <1>6, <1>7, <1>8 DEF QueueInv

(* A heartbeat only moves the expiry of a running row.                    *)
LEMMA RenewRunningInv ==
  ASSUME QueueInv, NEW j \in Job, NEW t \in 1..tokens,
         RenewRunning(j, t)
  PROVE  QueueInv'
  <1> USE QueueConstants DEF QueueInv, claimVars, retryVars, ledgerVars,
                             RenewRunning, CurrentClaim
  <1>1. TypeOK'
    BY DEF TypeOK, Status, DecisionRow
  <1>2. RowShape'
    BY DEF RowShape, TypeOK
  <1>3. LedgerShape'
    BY DEF LedgerShape, TypeOK, LedgerRow, DecisionRow
  <1>4. AtMostOneRunning'
    BY DEF AtMostOneRunning, TypeOK
  <1>5. LabExclusive'
    BY DEF LabExclusive, AtMostOneRunning, OwnsLab, TypeOK, RowShape
  <1>6. OneLabOwner'
    BY DEF OneLabOwner, LabExclusive, OwnsLab, TypeOK, RowShape
  <1>7. MirrorBackedByLedger'
    BY DEF MirrorBackedByLedger, LedgerShape, TypeOK, LedgerRow, DecisionRow
  <1>8. ResumedOnlyWhenDecided'
    BY DEF ResumedOnlyWhenDecided, LedgerShape, TypeOK, DecisionRow
  <1> QED
    BY <1>1, <1>2, <1>3, <1>4, <1>5, <1>6, <1>7, <1>8 DEF QueueInv

(* Reserving makes the one running job the lab owner.                     *)
LEMMA ReserveIncidentInv ==
  ASSUME QueueInv, NEW j \in Job, NEW t \in 1..tokens,
         ReserveIncident(j, t)
  PROVE  QueueInv'
  <1> USE QueueConstants DEF QueueInv, claimVars, retryVars, ledgerVars,
                             ReserveIncident, CurrentClaim
  <1>1. TypeOK'
    BY DEF TypeOK, Status, DecisionRow
  <1>2. RowShape'
    BY DEF RowShape, TypeOK
  <1>3. LedgerShape'
    BY DEF LedgerShape, TypeOK, LedgerRow, DecisionRow
  <1>4. AtMostOneRunning'
    BY DEF AtMostOneRunning, TypeOK
  <1>5. LabExclusive'
    BY DEF LabExclusive, AtMostOneRunning, OwnsLab, TypeOK, RowShape
  <1>6. OneLabOwner'
    BY DEF OneLabOwner, LabExclusive, OwnsLab, TypeOK, RowShape
  <1>7. MirrorBackedByLedger'
    BY DEF MirrorBackedByLedger, LedgerShape, TypeOK, LedgerRow, DecisionRow
  <1>8. ResumedOnlyWhenDecided'
    BY DEF ResumedOnlyWhenDecided, LedgerShape, TypeOK, DecisionRow
  <1> QED
    BY <1>1, <1>2, <1>3, <1>4, <1>5, <1>6, <1>7, <1>8 DEF QueueInv

(* Mark_paused gives up token and lab and names the checkpoint.           *)
LEMMA MarkPausedInv ==
  ASSUME QueueInv, NEW j \in Job, NEW c \in Checkpoint, NEW t \in 1..tokens,
         checkpointId[j] = None,
         MarkPaused(j, c, t)
  PROVE  QueueInv'
  <1> USE QueueConstants DEF QueueInv, claimVars, retryVars, ledgerVars,
                             MarkPaused, CurrentClaim
  <1>1. TypeOK'
    BY DEF TypeOK, Status, DecisionRow
  <1>2. RowShape'
    BY DEF RowShape, TypeOK
  <1>3. LedgerShape'
    BY DEF LedgerShape, TypeOK, LedgerRow, DecisionRow
  <1>4. AtMostOneRunning'
    BY DEF AtMostOneRunning, TypeOK
  <1>5. LabExclusive'
    BY DEF LabExclusive, AtMostOneRunning, OwnsLab, TypeOK, RowShape
  <1>6. OneLabOwner'
    BY DEF OneLabOwner, LabExclusive, OwnsLab, TypeOK, RowShape
  <1>7. MirrorBackedByLedger'
    BY DEF MirrorBackedByLedger, LedgerShape, TypeOK, LedgerRow, DecisionRow
  <1>8. ResumedOnlyWhenDecided'
    BY DEF ResumedOnlyWhenDecided, LedgerShape, TypeOK, DecisionRow
  <1> QED
    BY <1>1, <1>2, <1>3, <1>4, <1>5, <1>6, <1>7, <1>8 DEF QueueInv

(* Finalize gives up the token; a decided job stays decided.              *)
LEMMA FinalizeInv ==
  ASSUME QueueInv, NEW j \in Job, NEW r \in Report, NEW t \in 1..tokens,
         Finalize(j, r, t)
  PROVE  QueueInv'
  <1> USE QueueConstants DEF QueueInv, claimVars, retryVars, ledgerVars,
                             Finalize, CurrentClaim
  <1>1. TypeOK'
    BY DEF TypeOK, Status, DecisionRow
  <1>2. RowShape'
    BY DEF RowShape, TypeOK
  <1>3. LedgerShape'
    BY DEF LedgerShape, TypeOK, LedgerRow, DecisionRow
  <1>4. AtMostOneRunning'
    BY DEF AtMostOneRunning, TypeOK
  <1>5. LabExclusive'
    BY DEF LabExclusive, AtMostOneRunning, OwnsLab, TypeOK, RowShape
  <1>6. OneLabOwner'
    BY DEF OneLabOwner, LabExclusive, OwnsLab, TypeOK, RowShape
  <1>7. MirrorBackedByLedger'
    BY DEF MirrorBackedByLedger, LedgerShape, TypeOK, LedgerRow, DecisionRow
  <1>8. ResumedOnlyWhenDecided'
    BY DEF ResumedOnlyWhenDecided, LedgerShape, TypeOK, DecisionRow
  <1> QED
    BY <1>1, <1>2, <1>3, <1>4, <1>5, <1>6, <1>7, <1>8 DEF QueueInv

(* Retry_running requeues or fails the row; its scenario stays.           *)
LEMMA RetryRunningInv ==
  ASSUME QueueInv, NEW j \in Job, NEW t \in 1..tokens,
         RetryRunning(j, t)
  PROVE  QueueInv'
  <1> USE QueueConstants DEF QueueInv, claimVars, retryVars, ledgerVars,
                             RetryRunning, Exhausted
  <1>1. TypeOK'
    BY RetryDelayInt DEF TypeOK, Status, DecisionRow
  <1>2. RowShape'
    BY DEF RowShape, TypeOK
  <1>3. LedgerShape'
    BY DEF LedgerShape, TypeOK, LedgerRow, DecisionRow
  <1>4. AtMostOneRunning'
    BY DEF AtMostOneRunning, TypeOK
  <1>5. LabExclusive'
    BY DEF LabExclusive, AtMostOneRunning, OwnsLab, TypeOK, RowShape
  <1>6. OneLabOwner'
    BY DEF OneLabOwner, LabExclusive, OwnsLab, TypeOK, RowShape
  <1>7. MirrorBackedByLedger'
    BY DEF MirrorBackedByLedger, LedgerShape, TypeOK, LedgerRow, DecisionRow
  <1>8. ResumedOnlyWhenDecided'
    BY DEF ResumedOnlyWhenDecided, LedgerShape, TypeOK, DecisionRow
  <1> QED
    BY <1>1, <1>2, <1>3, <1>4, <1>5, <1>6, <1>7, <1>8 DEF QueueInv

(* Requeue_running requeues the row; its scenario stays.                  *)
LEMMA RequeueRunningInv ==
  ASSUME QueueInv, NEW j \in Job, NEW t \in 1..tokens,
         RequeueRunning(j, t)
  PROVE  QueueInv'
  <1> USE QueueConstants DEF QueueInv, claimVars, retryVars, ledgerVars,
                             RequeueRunning
  <1>1. TypeOK'
    BY DEF TypeOK, Status, DecisionRow
  <1>2. RowShape'
    BY DEF RowShape, TypeOK
  <1>3. LedgerShape'
    BY DEF LedgerShape, TypeOK, LedgerRow, DecisionRow
  <1>4. AtMostOneRunning'
    BY DEF AtMostOneRunning, TypeOK
  <1>5. LabExclusive'
    BY DEF LabExclusive, AtMostOneRunning, OwnsLab, TypeOK, RowShape
  <1>6. OneLabOwner'
    BY DEF OneLabOwner, LabExclusive, OwnsLab, TypeOK, RowShape
  <1>7. MirrorBackedByLedger'
    BY DEF MirrorBackedByLedger, LedgerShape, TypeOK, LedgerRow, DecisionRow
  <1>8. ResumedOnlyWhenDecided'
    BY DEF ResumedOnlyWhenDecided, LedgerShape, TypeOK, DecisionRow
  <1> QED
    BY <1>1, <1>2, <1>3, <1>4, <1>5, <1>6, <1>7, <1>8 DEF QueueInv

(* The table in the middle of a poll: expired claims back in the queue,    *)
(* durable decisions mirrored.                                             *)
LEMMA ReclaimFacts ==
  ASSUME QueueInv, ~Disagreement
  PROVE  /\ StatusAfterReclaim \in [Job -> Status]
         /\ AttemptsAfterReclaim \in [Job -> Nat]
         /\ FailedAfterReclaim \in [Job -> BOOLEAN]
         /\ AvailableAfterReclaim \in [Job -> Int]
         /\ MirrorAfterReclaim \in [Job -> DecisionRow \cup {None}]
         /\ \A j \in Job :
              /\ MirrorAfterReclaim[j] # None =>
                    /\ MirrorAfterReclaim[j].checkpoint = checkpointId[j]
                    /\ ownerDecisions[j][MirrorAfterReclaim[j].checkpoint]
                         = MirrorAfterReclaim[j].decision
              /\ checkpointId[j] # None
                   /\ StatusAfterReclaim[j] # "PAUSED_APPROVAL" =>
                     MirrorAfterReclaim[j] # None
  <1> USE QueueConstants DEF QueueInv, TypeOK
  <1>1. /\ StatusAfterReclaim \in [Job -> Status]
        /\ AttemptsAfterReclaim \in [Job -> Nat]
        /\ FailedAfterReclaim \in [Job -> BOOLEAN]
    BY DEF StatusAfterReclaim, AttemptsAfterReclaim, FailedAfterReclaim, Status
  <1>2. AvailableAfterReclaim \in [Job -> Int]
    BY RetryDelayInt DEF AvailableAfterReclaim
  <1>3. MirrorAfterReclaim \in [Job -> DecisionRow \cup {None}]
    BY LedgerRowType DEF MirrorAfterReclaim
  <1>4. ASSUME NEW j \in Job
        PROVE  /\ MirrorAfterReclaim[j] # None =>
                    /\ MirrorAfterReclaim[j].checkpoint = checkpointId[j]
                    /\ ownerDecisions[j][MirrorAfterReclaim[j].checkpoint]
                         = MirrorAfterReclaim[j].decision
               /\ checkpointId[j] # None
                    /\ StatusAfterReclaim[j] # "PAUSED_APPROVAL" =>
                      MirrorAfterReclaim[j] # None
    <2>1. CASE j \in Decided /\ mirror[j] = None
      BY <2>1, LedgerRowType
      DEF MirrorAfterReclaim, Decided, Disagreement
    <2>2. CASE ~(j \in Decided /\ mirror[j] = None)
      <3>1. MirrorAfterReclaim[j] = mirror[j]
        BY <2>2 DEF MirrorAfterReclaim
      <3>2. StatusAfterReclaim[j] # "PAUSED_APPROVAL" =>
              status[j] # "PAUSED_APPROVAL" \/ mirror[j] # None
        BY <2>2 DEF StatusAfterReclaim, Expired
      <3> QED
        BY <3>1, <3>2
        DEF LedgerShape, MirrorBackedByLedger, ResumedOnlyWhenDecided
    <2> QED
      BY <2>1, <2>2
  <1> QED
    BY <1>1, <1>2, <1>3, <1>4

(* A poll that hands nothing out commits its reclaims.                    *)
LEMMA ClaimNothingInv ==
  ASSUME QueueInv, ClaimNothing
  PROVE  QueueInv'
  <1> USE QueueConstants DEF QueueInv, ClaimNothing, Reclaim, ledgerVars
  <1>0. ~Disagreement
    OBVIOUS
  <1>1. TypeOK'
    BY <1>0, ReclaimFacts DEF TypeOK
  <1>2. RowShape'
    BY <1>0, ReclaimFacts
    DEF RowShape, TypeOK, StatusAfterReclaim, FailedAfterReclaim, Expired,
        Decided
  <1>3. LedgerShape'
    BY <1>0, ReclaimFacts DEF LedgerShape
  <1>4. AtMostOneRunning'
    BY DEF AtMostOneRunning, StatusAfterReclaim
  <1>5. LabExclusive'
    BY DEF LabExclusive, OwnsLab, StatusAfterReclaim, FailedAfterReclaim,
           Expired, Decided, RowShape
  <1>6. OneLabOwner'
    BY DEF OneLabOwner, OwnsLab, StatusAfterReclaim, FailedAfterReclaim,
           Expired, Decided, RowShape
  <1>7. MirrorBackedByLedger'
    BY <1>0, ReclaimFacts DEF MirrorBackedByLedger
  <1>8. ResumedOnlyWhenDecided'
    <2> SUFFICES ASSUME NEW k \in Job, checkpointId[k] # None,
                        StatusAfterReclaim[k] # "PAUSED_APPROVAL"
                 PROVE  /\ MirrorAfterReclaim[k] # None
                        /\ MirrorAfterReclaim[k].checkpoint = checkpointId[k]
      BY DEF ResumedOnlyWhenDecided
    <2> QED
      BY <1>0, ReclaimFacts
  <1> QED
    BY <1>1, <1>2, <1>3, <1>4, <1>5, <1>6, <1>7, <1>8 DEF QueueInv

(* The ledger already holds what a mirrored decision says: the check that  *)
(* claim_next makes before it hands a job out never writes a row.          *)
LEMMA ClaimNextKeepsLedger ==
  ASSUME QueueInv, NEW j \in Job, ClaimNext(j)
  PROVE  UNCHANGED ledgerVars
  <1> USE QueueConstants DEF QueueInv
  <1>0. ~Disagreement
    BY DEF ClaimNext, Reclaim
  <1>1. CASE MirrorAfterReclaim[j] = None
    BY <1>1 DEF ClaimNext
  <1>2. CASE MirrorAfterReclaim[j] # None
    <2>1. EnsureLedgerDecision(j, checkpointId[j],
                               MirrorAfterReclaim[j].decision)
      BY <1>2 DEF ClaimNext
    <2>2. ownerDecisions[j][checkpointId[j]] = MirrorAfterReclaim[j].decision
      BY <1>0, <1>2, ReclaimFacts
    <2>3. MirrorAfterReclaim[j].decision # None
      BY <1>0, <1>2, ReclaimFacts DEF DecisionRow
    <2> QED
      BY <2>1, <2>2, <2>3 DEF EnsureLedgerDecision, RecordDecision
  <1> QED
    BY <1>1, <1>2

(* A poll hands out the lab owner if there is one.                        *)
LEMMA ClaimNextInv ==
  ASSUME QueueInv, NEW j \in Job, ClaimNext(j)
  PROVE  QueueInv'
  <1> USE QueueConstants DEF QueueInv
  <1>0. ~Disagreement
    BY DEF ClaimNext, Reclaim
  <1>1. /\ status' = [StatusAfterReclaim EXCEPT ![j] = "RUNNING"]
        /\ failed' = FailedAfterReclaim
        /\ mirror' = MirrorAfterReclaim
        /\ UNCHANGED <<incident, checkpointId>>
    BY DEF ClaimNext, Reclaim
  <1>2. UNCHANGED ledgerVars
    BY ClaimNextKeepsLedger
  <1>3. /\ StatusAfterReclaim[j] = "QUEUED"
        /\ ~FailedAfterReclaim[j]
        /\ \A k \in Job : StatusAfterReclaim[k] # "RUNNING"
    BY DEF ClaimNext, FirstReady, Ready, Claimable, LabIsTaken
  <1>4. TypeOK'
    BY <1>0, <1>2, ReclaimFacts
    DEF ClaimNext, Reclaim, TypeOK, Status, ledgerVars
  <1>5. RowShape'
    BY <1>0, <1>3, ReclaimFacts
    DEF ClaimNext, Reclaim, RowShape, TypeOK, StatusAfterReclaim,
        FailedAfterReclaim, Expired, Decided
  <1>6. LedgerShape'
    BY <1>0, <1>1, <1>2, ReclaimFacts DEF LedgerShape, ledgerVars
  <1>7. AtMostOneRunning'
    BY <1>0, <1>1, <1>3, ReclaimFacts DEF AtMostOneRunning
  <1>8. \A k \in Job : OwnsLab(k)' => OwnsLab(k)
    BY <1>0, <1>1, <1>3, ReclaimFacts
    DEF OwnsLab, RowShape, StatusAfterReclaim, FailedAfterReclaim, Expired,
        Decided
  <1>9. LabExclusive'
    <2> SUFFICES ASSUME NEW k \in Job, OwnsLab(k)', k # j, checkpointId[j] = None
                 PROVE  FALSE
      BY <1>1, <1>7, <1>0, ReclaimFacts DEF LabExclusive, AtMostOneRunning
    <2>1. Claimable(k) /\ incident[k]
      BY <1>0, <1>1, <1>7, ReclaimFacts
      DEF OwnsLab, Claimable, AtMostOneRunning
    <2>2. k \in Ready
      BY <1>0, <2>1, ReclaimFacts DEF ClaimNext, LabIsTaken, Ready, TypeOK
    <2>3. incident[j]
      BY <2>1, <2>2 DEF ClaimNext, FirstReady, ClaimedBefore, TypeOK
    <2>4. OwnsLab(j)'
      BY <1>0, <1>1, <1>3, <2>3, ReclaimFacts DEF OwnsLab
    <2> QED
      BY <1>8, <2>4 DEF OneLabOwner
  <1>10. OneLabOwner'
    BY <1>8 DEF OneLabOwner
  <1>11. MirrorBackedByLedger'
    BY <1>0, <1>1, <1>2, ReclaimFacts DEF MirrorBackedByLedger, ledgerVars
  <1>12. ResumedOnlyWhenDecided'
    <2> SUFFICES ASSUME NEW k \in Job, checkpointId[k] # None,
                        status'[k] # "PAUSED_APPROVAL"
                 PROVE  /\ MirrorAfterReclaim[k] # None
                        /\ MirrorAfterReclaim[k].checkpoint = checkpointId[k]
      BY <1>1 DEF ResumedOnlyWhenDecided
    <2>1. StatusAfterReclaim[k] # "PAUSED_APPROVAL"
      BY <1>0, <1>1, <1>3, ReclaimFacts
    <2> QED
      BY <1>0, <2>1, ReclaimFacts
  <1> QED
    BY <1>4, <1>5, <1>6, <1>7, <1>9, <1>10, <1>11, <1>12 DEF QueueInv

(* Time only makes leases and back-offs run out.                          *)
LEMMA TickInv ==
  ASSUME QueueInv, Tick
  PROVE  QueueInv'
  <1> USE DEF QueueInv, Tick, rowVars, claimVars, retryVars, ledgerVars
  <1>1. TypeOK'
    BY DEF TypeOK
  <1>2. RowShape' /\ LedgerShape'
    BY DEF RowShape, LedgerShape
  <1>3. AtMostOneRunning' /\ LabExclusive' /\ OneLabOwner'
    BY DEF AtMostOneRunning, LabExclusive, OneLabOwner, OwnsLab
  <1>4. MirrorBackedByLedger' /\ ResumedOnlyWhenDecided'
    BY DEF MirrorBackedByLedger, ResumedOnlyWhenDecided
  <1> QED
    BY <1>1, <1>2, <1>3, <1>4 DEF QueueInv

(* A refused call changes nothing.                                        *)
LEMMA StutterInv ==
  ASSUME QueueInv, UNCHANGED vars
  PROVE  QueueInv'
  <1> USE DEF QueueInv, vars
  <1>1. TypeOK'
    BY DEF TypeOK
  <1>2. RowShape' /\ LedgerShape'
    BY DEF RowShape, LedgerShape
  <1>3. AtMostOneRunning' /\ LabExclusive' /\ OneLabOwner'
    BY DEF AtMostOneRunning, LabExclusive, OneLabOwner, OwnsLab
  <1>4. MirrorBackedByLedger' /\ ResumedOnlyWhenDecided'
    BY DEF MirrorBackedByLedger, ResumedOnlyWhenDecided
  <1> QED
    BY <1>1, <1>2, <1>3, <1>4 DEF QueueInv

(* Every step of the queue keeps the invariant, one case per operation.    *)
LEMMA StepInv == QueueInv /\ [Next]_vars => QueueInv'
  <1> SUFFICES ASSUME QueueInv, [Next]_vars PROVE QueueInv'
    OBVIOUS
  <1>1. CASE \E j \in Job : OwnerCall(j)
    BY <1>1, CreateInv, DecideInv, DecideCrashInv, DecideAgainInv, CliRecordInv
    DEF OwnerCall
  <1>2. CASE \E j \in Job : ClaimNext(j)
    BY <1>2, ClaimNextInv
  <1>3. CASE ClaimNothing
    BY <1>3, ClaimNothingInv
  <1>4. CASE \E j \in Job : \E t \in 1..tokens : WorkerCall(j, t)
    BY <1>4, RenewRunningInv, ReserveIncidentInv, MarkPausedInv, FinalizeInv,
       RetryRunningInv, RequeueRunningInv
    DEF WorkerCall
  <1>5. CASE Tick
    BY <1>5, TickInv
  <1>6. CASE UNCHANGED vars
    BY <1>6, StutterInv
  <1> QED
    BY <1>1, <1>2, <1>3, <1>4, <1>5, <1>6 DEF Next

(* The inductive invariant holds in every reachable state of the queue.    *)
THEOREM QueueInvariant == Spec => []QueueInv
  <1> QED
    BY InitInv, StepInv, PTL DEF Spec

(* Each column of replay_jobs, its mirror and the ledger keep their types. *)
THEOREM TypeCorrect == Spec => []TypeOK
  <1>1. QueueInv => TypeOK
    BY DEF QueueInv
  <1> QED
    BY <1>1, QueueInvariant, PTL

(* At most one job runs, however many workers poll the table.              *)
THEOREM SingleRunner == Spec => []AtMostOneRunning
  <1>1. QueueInv => AtMostOneRunning
    BY DEF QueueInv
  <1> QED
    BY <1>1, QueueInvariant, PTL

(* The job that reserved the lab keeps it until it pauses, completes or    *)
(* fails.                                                                  *)
THEOREM LabStaysWithOwner == Spec => []LabExclusive /\ []OneLabOwner
  <1>1. QueueInv => LabExclusive /\ OneLabOwner
    BY DEF QueueInv
  <1> QED
    BY <1>1, QueueInvariant, PTL

(* A mirrored decision is in the ledger, through crashes between the two   *)
(* databases and races with the CLI.                                       *)
THEOREM LedgerFirst == Spec => []MirrorBackedByLedger
  <1>1. QueueInv => MirrorBackedByLedger
    BY DEF QueueInv
  <1> QED
    BY <1>1, QueueInvariant, PTL

(* A paused job leaves the pause only with an instruction.                 *)
THEOREM NoResumeWithoutDecision == Spec => []ResumedOnlyWhenDecided
  <1>1. QueueInv => ResumedOnlyWhenDecided
    BY DEF QueueInv
  <1> QED
    BY <1>1, QueueInvariant, PTL

(* No operation moves, reopens or rewrites a completed or failed row.      *)
THEOREM TerminalRowsAreFinal == Spec => TerminalIsFinal
  <1>1. ASSUME QueueInv, [Next]_vars, NEW j \in Job
        PROVE  RowIsFinal(j)
    <2> USE <1>1, QueueConstants DEF QueueInv, TypeOK, RowShape, RowIsFinal,
                                     claimVars, retryVars, rowVars
    <2>1. ASSUME NEW k \in Job, OwnerCall(k) PROVE RowIsFinal(j)
      BY <2>1 DEF OwnerCall, Create, Decide, DecideCrash, DecideAgain, CliRecord
    <2>2. ASSUME NEW k \in Job, ClaimNext(k) PROVE RowIsFinal(j)
      <3>1. /\ StatusAfterReclaim[k] = "QUEUED"
            /\ ~FailedAfterReclaim[k]
            /\ \A i \in Job : StatusAfterReclaim[i] # "RUNNING"
            /\ status' = [StatusAfterReclaim EXCEPT ![k] = "RUNNING"]
            /\ failed' = FailedAfterReclaim
            /\ UNCHANGED reportContent
        BY <2>2 DEF ClaimNext, FirstReady, Ready, Claimable, LabIsTaken, Reclaim
      <3> QED
        BY <2>2, <3>1 DEF ClaimNext, StatusAfterReclaim, FailedAfterReclaim,
                          Expired, Decided
    <2>3. CASE ClaimNothing
      BY <2>3 DEF ClaimNothing, Reclaim, StatusAfterReclaim,
                  FailedAfterReclaim, Expired, Decided
    <2>4. ASSUME NEW k \in Job, NEW t \in 1..tokens, WorkerCall(k, t)
          PROVE  RowIsFinal(j)
      BY <2>4 DEF WorkerCall, CurrentClaim, RenewRunning, ReserveIncident,
                  MarkPaused, Finalize, RetryRunning, RequeueRunning
    <2>5. CASE Tick
      BY <2>5 DEF Tick
    <2>6. CASE UNCHANGED vars
      BY <2>6 DEF vars
    <2> HIDE DEF RowIsFinal, QueueInv
    <2> QED
      BY <2>1, <2>2, <2>3, <2>4, <2>5, <2>6 DEF Next
  <1>2. QueueInv /\ [Next]_vars => [\A j \in Job : RowIsFinal(j)]_vars
    BY <1>1
  <1> QED
    BY <1>2, QueueInvariant, PTL DEF Spec, TerminalIsFinal

(* An expired lease cannot publish, and no token replaces another          *)
(* directly.                                                               *)
THEOREM LeaseFences == Spec => LeaseFencesPublication
  <1>1. ASSUME QueueInv, [Next]_vars, NEW j \in Job
        PROVE  LeaseFenced(j)
    <2> USE <1>1, QueueConstants DEF QueueInv, TypeOK, RowShape, LeaseFenced,
                                     claimVars, retryVars, rowVars
    <2>1. ASSUME NEW k \in Job, OwnerCall(k) PROVE LeaseFenced(j)
      BY <2>1 DEF OwnerCall, Create, Decide, DecideCrash, DecideAgain, CliRecord
    <2>2. ASSUME NEW k \in Job, ClaimNext(k) PROVE LeaseFenced(j)
      <3>1. /\ StatusAfterReclaim[k] = "QUEUED"
            /\ ~FailedAfterReclaim[k]
            /\ \A i \in Job : StatusAfterReclaim[i] # "RUNNING"
            /\ status' = [StatusAfterReclaim EXCEPT ![k] = "RUNNING"]
            /\ failed' = FailedAfterReclaim
            /\ UNCHANGED reportContent
        BY <2>2 DEF ClaimNext, FirstReady, Ready, Claimable, LabIsTaken, Reclaim
      <3> QED
        BY <2>2, <3>1 DEF ClaimNext, StatusAfterReclaim, FailedAfterReclaim,
                          Expired, Decided
    <2>3. CASE ClaimNothing
      BY <2>3 DEF ClaimNothing, Reclaim, StatusAfterReclaim,
                  FailedAfterReclaim, Expired, Decided
    <2>4. ASSUME NEW k \in Job, NEW t \in 1..tokens, WorkerCall(k, t)
          PROVE  LeaseFenced(j)
      BY <2>4 DEF WorkerCall, CurrentClaim, RenewRunning, ReserveIncident,
                  MarkPaused, Finalize, RetryRunning, RequeueRunning
    <2>5. CASE Tick
      BY <2>5 DEF Tick
    <2>6. CASE UNCHANGED vars
      BY <2>6 DEF vars
    <2> HIDE DEF LeaseFenced, QueueInv
    <2> QED
      BY <2>1, <2>2, <2>3, <2>4, <2>5, <2>6 DEF Next
  <1>2. QueueInv /\ [Next]_vars => [\A j \in Job : LeaseFenced(j)]_vars
    BY <1>1
  <1> QED
    BY <1>2, QueueInvariant, PTL DEF Spec, LeaseFencesPublication

-----------------------------------------------------------------------------
(* Refinement: every step of the two databases is a step of ControlPlane,  *)
(* or changes nothing its callers see.                                     *)

ViewKept == UNCHANGED <<incident, reportContent>>

AbstractStep == [Promise!AbstractNext]_(Promise!abstractVars)

(* A row that left its pause carries the owner's instruction, so the       *)
(* abstract decision tells resuming jobs from fresh ones.                  *)
LEMMA DecisionOfRow ==
  ASSUME QueueInv, NEW j \in Job
  PROVE  /\ checkpointId[j] = None => LedgerDecision(j) = None
         /\ checkpointId[j] # None /\ status[j] # "PAUSED_APPROVAL" =>
               LedgerDecision(j) # None
  BY QueueConstants
  DEF QueueInv, TypeOK, DecisionRow, LedgerDecision, ResumedOnlyWhenDecided,
      MirrorBackedByLedger

(* A step that keeps stages, decisions, scenarios and reports is invisible.*)
LEMMA Invisible ==
  ASSUME \A k \in Job : StageOf(k)' = StageOf(k),
         \A k \in Job : LedgerDecision(k)' = LedgerDecision(k),
         ViewKept
  PROVE  AbstractStep
  BY DEF AbstractStep, ViewKept, Promise!abstractVars

(* create makes an absent job queued.                                      *)
LEMMA CreateStep ==
  ASSUME QueueInv, NEW j \in Job, Create(j)
  PROVE  AbstractStep
  <1> USE DEF Create, claimVars, retryVars, ledgerVars
  <1>1. \A k \in Job : StageOf(k)' = IF k = j THEN "queued" ELSE StageOf(k)
    BY DEF StageOf, LedgerDecision, QueueInv, TypeOK, Status, RowShape
  <1>2. \A k \in Job : LedgerDecision(k)' = LedgerDecision(k)
    BY DEF LedgerDecision
  <1>3. StageOf(j) = "absent"
    BY DEF StageOf
  <1>4. Promise!Create(j)
    BY <1>1, <1>2, <1>3 DEF Promise!Create
  <1> QED
    BY <1>4 DEF AbstractStep, Promise!AbstractNext

(* The first ledger row for a paused job's checkpoint is the abstract      *)
(* decision, whoever wrote it and whether or not the queue moved yet.      *)
LEMMA FirstRowDecides ==
  ASSUME QueueInv, NEW j \in Job, NEW d \in Decision,
         status[j] = "PAUSED_APPROVAL", RecordDecision(j, checkpointId[j], d),
         UNCHANGED <<failed, checkpointId>>, ViewKept,
         \/ status' = status
         \/ status' = [status EXCEPT ![j] = "QUEUED"]
  PROVE  AbstractStep
  <1> USE QueueConstants DEF RecordDecision, QueueInv, TypeOK, RowShape,
                             ViewKept
  <1>1. /\ LedgerDecision(j) = None
        /\ LedgerDecision(j)' = d
        /\ d # None
    BY DEF LedgerDecision
  <1>2. \A k \in Job : LedgerDecision(k)' = IF k = j THEN d
                                                   ELSE LedgerDecision(k)
    BY DEF LedgerDecision
  <1>3. \A k \in Job : StageOf(k)' = IF k = j THEN "queued" ELSE StageOf(k)
    BY <1>1, <1>2 DEF StageOf, Status
  <1>4. StageOf(j) = "paused"
    BY <1>1 DEF StageOf
  <1>5. Promise!Decide(j, d)
    BY ONLY ViewKept, <1>2, <1>3, <1>4 DEF Promise!Decide, ViewKept
  <1> QED
    BY <1>5 DEF AbstractStep, Promise!AbstractNext

(* A ledger row the control plane accepts is the decision at that          *)
(* checkpoint.                                                             *)
LEMMA RowIsDecision ==
  ASSUME QueueInv, NEW j \in Job, NEW d \in Decision,
         checkpointId[j] # None,
         LedgerRow(j) = [checkpoint |-> checkpointId[j], decision |-> d]
  PROVE  LedgerDecision(j) = d /\ d # None
  <1>1. LedgerRow(j) # None /\ d # None
    BY QueueConstants DEF QueueInv, TypeOK
  <1>2. ownerDecisions[j][LedgerRow(j).checkpoint] = LedgerRow(j).decision
    BY <1>1, LedgerRowType DEF QueueInv
  <1> QED
    BY <1>1, <1>2 DEF LedgerDecision

(* decide is the abstract decision, unless the CLI or an interrupted       *)
(* decide put the same instruction into the ledger before.                 *)
LEMMA DecideStep ==
  ASSUME QueueInv, NEW j \in Job, NEW d \in Decision,
         Decide(j, d) \/ DecideCrash(j, d)
  PROVE  AbstractStep
  <1>0. /\ status[j] = "PAUSED_APPROVAL"
        /\ checkpointId[j] # None
        /\ EnsureLedgerDecision(j, checkpointId[j], d)
        /\ UNCHANGED <<failed, checkpointId>>
        /\ ViewKept
        /\ \/ status' = status
           \/ status' = [status EXCEPT ![j] = "QUEUED"]
    BY DEF Decide, DecideCrash, rowVars, retryVars, ViewKept
  <1>1. CASE RecordDecision(j, checkpointId[j], d)
    BY <1>0, <1>1, FirstRowDecides
  <1>2. CASE /\ LedgerRow(j) = [checkpoint |-> checkpointId[j], decision |-> d]
             /\ UNCHANGED ledgerVars
    <2>1. LedgerDecision(j) # None
      BY <1>0, <1>2, RowIsDecision
    <2>2. \A k \in Job : LedgerDecision(k)' = LedgerDecision(k)
      BY <1>0, <1>2 DEF LedgerDecision, ledgerVars
    <2>3. \A k \in Job : StageOf(k)' = StageOf(k)
      BY <1>0, <2>1, <2>2 DEF StageOf, QueueInv, TypeOK, Status, RowShape
    <2> QED
      BY <1>0, <2>2, <2>3, Invisible
  <1> QED
    BY <1>0, <1>1, <1>2 DEF EnsureLedgerDecision

(* A repeated decide finds its row: nothing is written.                    *)
LEMMA DecideAgainStep ==
  ASSUME QueueInv, NEW j \in Job, NEW d \in Decision, DecideAgain(j, d)
  PROVE  AbstractStep
  <1>1. ownerDecisions[j][checkpointId[j]] # None
    BY QueueConstants
    DEF DecideAgain, QueueInv, TypeOK, DecisionRow, MirrorBackedByLedger
  <1>2. UNCHANGED ledgerVars
    BY <1>1 DEF DecideAgain, EnsureLedgerDecision, RecordDecision
  <1>3. UNCHANGED <<status, failed, checkpointId>> /\ ViewKept
    BY DEF DecideAgain, rowVars, retryVars, ViewKept
  <1>4. \A k \in Job : LedgerDecision(k)' = LedgerDecision(k)
    BY <1>2, <1>3 DEF LedgerDecision, ledgerVars
  <1>5. \A k \in Job : StageOf(k)' = StageOf(k)
    BY <1>3, <1>4 DEF StageOf, QueueInv, TypeOK, Status
  <1> QED
    BY <1>3, <1>4, <1>5, Invisible

(* A CLI row decides the job it names when it is paused there; for any     *)
(* other checkpoint it is not visible, and the primary key refuses one for *)
(* a job that was already resumed.                                         *)
LEMMA CliRecordStep ==
  ASSUME QueueInv, NEW j \in Job, NEW c \in Checkpoint, NEW d \in Decision,
         CliRecord(j, c, d)
  PROVE  AbstractStep
  <1>0. /\ RecordDecision(j, c, d)
        /\ UNCHANGED <<status, failed, checkpointId>>
        /\ ViewKept
    BY DEF CliRecord, rowVars, retryVars, ViewKept
  <1>1. CASE c = checkpointId[j]
    <2>1. checkpointId[j] # None /\ LedgerDecision(j) = None
      BY <1>0, <1>1, QueueConstants DEF RecordDecision, LedgerDecision
    <2>2. status[j] = "PAUSED_APPROVAL"
      BY <2>1, DecisionOfRow
    <2> QED
      BY <1>0, <1>1, <2>2, FirstRowDecides
  <1>2. CASE c # checkpointId[j]
    <2>1. \A k \in Job : LedgerDecision(k)' = LedgerDecision(k)
      BY <1>0, <1>2 DEF RecordDecision, LedgerDecision, QueueInv, TypeOK
    <2>2. \A k \in Job : StageOf(k)' = StageOf(k)
      BY <1>0, <2>1 DEF StageOf, QueueInv, TypeOK, Status
    <2> QED
      BY <1>0, <2>1, <2>2, Invisible
  <1> QED
    BY <1>1, <1>2

(* Heartbeats and the clock are not visible.                               *)
LEMMA HiddenStep ==
  ASSUME QueueInv,
         \/ \E j \in Job, t \in 1..tokens : RenewRunning(j, t)
         \/ Tick
         \/ UNCHANGED vars
  PROVE  AbstractStep
  <1>1. UNCHANGED <<status, failed, checkpointId, ownerDecisions>> /\ ViewKept
    BY DEF RenewRunning, Tick, vars, rowVars, retryVars, ledgerVars, ViewKept
  <1>2. \A k \in Job : LedgerDecision(k)' = LedgerDecision(k)
    BY <1>1 DEF LedgerDecision
  <1>3. \A k \in Job : StageOf(k)' = StageOf(k)
    BY <1>1, <1>2 DEF StageOf, QueueInv, TypeOK, Status
  <1> QED
    BY <1>1, <1>2, <1>3, Invisible

(* A worker that gives its job back, with or without an attempt, lapses.   *)
LEMMA GiveBackStep ==
  ASSUME QueueInv, NEW j \in Job, NEW t \in 1..tokens,
         RetryRunning(j, t) \/ RequeueRunning(j, t)
  PROVE  AbstractStep
  <1>0. /\ status[j] = "RUNNING"
        /\ status' = [status EXCEPT ![j] = "QUEUED"]
        /\ \A k \in Job \ {j} : failed'[k] = failed[k]
        /\ UNCHANGED <<checkpointId, ownerDecisions>>
        /\ ViewKept
    BY DEF RetryRunning, RequeueRunning, retryVars, ledgerVars, ViewKept,
           QueueInv, TypeOK
  <1>1. \A k \in Job : LedgerDecision(k)' = LedgerDecision(k)
    BY <1>0 DEF LedgerDecision
  <1>2. StageOf(j) = "running"
    BY <1>0 DEF StageOf
  <1>3. StageOf(j)' \in {"queued", "failed"}
    BY <1>0 DEF StageOf, QueueInv, TypeOK
  <1>4. \A k \in Job : StageOf(k)' = IF k = j THEN StageOf(j)' ELSE StageOf(k)
    BY <1>0, <1>1 DEF StageOf, QueueInv, TypeOK, Status
  <1>5. PICK to \in {"queued", "failed"} : to = StageOf(j)'
    BY <1>3
  <1>6. Promise!Lapse(j, to)
    BY ONLY <1>0, <1>1, <1>2, <1>4, <1>5 DEF Promise!Lapse, ViewKept
  <1> QED
    BY <1>6 DEF AbstractStep, Promise!AbstractNext

(* reserve_incident is the abstract reservation.                           *)
LEMMA ReserveStep ==
  ASSUME QueueInv, NEW j \in Job, NEW t \in 1..tokens, ReserveIncident(j, t)
  PROVE  AbstractStep
  <1>0. /\ status[j] = "RUNNING"
        /\ incident' = [incident EXCEPT ![j] = TRUE]
        /\ UNCHANGED <<status, failed, checkpointId, ownerDecisions,
                       reportContent>>
    BY DEF ReserveIncident, CurrentClaim, retryVars, ledgerVars
  <1>1. \A k \in Job : LedgerDecision(k)' = LedgerDecision(k)
    BY <1>0 DEF LedgerDecision
  <1>2. \A k \in Job : StageOf(k)' = StageOf(k)
    BY <1>0, <1>1 DEF StageOf, QueueInv, TypeOK, Status
  <1>3. StageOf(j) = "running"
    BY <1>0 DEF StageOf
  <1>4. Promise!Reserve(j)
    BY <1>0, <1>1, <1>2, <1>3 DEF Promise!Reserve
  <1> QED
    BY <1>4 DEF AbstractStep, Promise!AbstractNext

(* finalize is the abstract completion.                                    *)
LEMMA FinalizeStep ==
  ASSUME QueueInv, NEW j \in Job, NEW t \in 1..tokens, NEW r \in Report,
         Finalize(j, r, t)
  PROVE  AbstractStep
  <1>0. /\ status[j] = "RUNNING"
        /\ status' = [status EXCEPT ![j] = "COMPLETED"]
        /\ reportContent' = [reportContent EXCEPT ![j] = r]
        /\ UNCHANGED <<incident, failed, checkpointId, ownerDecisions>>
    BY DEF Finalize, CurrentClaim, retryVars, ledgerVars
  <1>1. \A k \in Job : LedgerDecision(k)' = LedgerDecision(k)
    BY <1>0 DEF LedgerDecision
  <1>2. \A k \in Job : StageOf(k)' = IF k = j THEN "completed" ELSE StageOf(k)
    BY <1>0, <1>1 DEF StageOf, QueueInv, TypeOK, Status
  <1>3. StageOf(j) = "running"
    BY <1>0 DEF StageOf
  <1>4. Promise!Complete(j, r)
    BY <1>0, <1>1, <1>2, <1>3 DEF Promise!Complete
  <1> QED
    BY <1>4 DEF AbstractStep, Promise!AbstractNext

(* mark_paused is the abstract pause, or a pause that finds the CLI's      *)
(* decision for its checkpoint waiting.                                    *)
LEMMA MarkPausedStep ==
  ASSUME QueueInv, NEW j \in Job, NEW t \in 1..tokens, NEW c \in Checkpoint,
         checkpointId[j] = None, MarkPaused(j, c, t)
  PROVE  AbstractStep
  <1>0. /\ status[j] = "RUNNING"
        /\ status' = [status EXCEPT ![j] = "PAUSED_APPROVAL"]
        /\ checkpointId' = [checkpointId EXCEPT ![j] = c]
        /\ UNCHANGED <<failed, ownerDecisions>>
        /\ ViewKept
    BY DEF MarkPaused, CurrentClaim, retryVars, ledgerVars, ViewKept
  <1>1. PICK e \in Decision \cup {None} : e = ownerDecisions[j][c]
    BY DEF QueueInv, TypeOK
  <1>2. \A k \in Job : LedgerDecision(k)' = IF k = j THEN e
                                                   ELSE LedgerDecision(k)
    BY <1>0, <1>1, QueueConstants DEF LedgerDecision, QueueInv, TypeOK
  <1>3. \A k \in Job : StageOf(k)' = IF k # j THEN StageOf(k)
                                     ELSE IF e = None THEN "paused"
                                     ELSE "queued"
    BY <1>0, <1>2 DEF StageOf, QueueInv, TypeOK, Status
  <1>4. StageOf(j) = "running" /\ LedgerDecision(j) = None
    BY <1>0 DEF StageOf, LedgerDecision
  <1>5. CASE e = None
    <2>1. Promise!Pause(j)
      BY ONLY <1>0, <1>2, <1>3, <1>4, <1>5 DEF Promise!Pause, ViewKept
    <2> QED
      BY <2>1 DEF AbstractStep, Promise!AbstractNext
  <1>6. CASE e \in Decision /\ e # None
    <2>1. Promise!PauseDecided(j, e)
      BY ONLY <1>0, <1>2, <1>3, <1>4, <1>6 DEF Promise!PauseDecided, ViewKept
    <2> QED
      BY <1>6, <2>1 DEF AbstractStep, Promise!AbstractNext
  <1> QED
    BY <1>5, <1>6

(* Where a job stands after the first two steps of a poll.                 *)
StageAfterReclaim(j) ==
    IF StatusAfterReclaim[j] # "QUEUED" THEN StageOf(j)
    ELSE IF FailedAfterReclaim[j] THEN "failed" ELSE "queued"

(* Reconciliation is not visible, and a poll takes at most one job from    *)
(* its worker.                                                             *)
LEMMA ReclaimStages ==
  ASSUME QueueInv, ~Disagreement
  PROVE  /\ \A k \in Job \ Expired : StageAfterReclaim(k) = StageOf(k)
         /\ \A k \in Expired :
               /\ k \in Job
               /\ StageOf(k) = "running"
               /\ StageAfterReclaim(k) \in {"queued", "failed"}
         /\ \A i, k \in Expired : i = k
  <1> USE DEF QueueInv, TypeOK
  <1>1. ASSUME NEW k \in Job \ Expired
        PROVE  StageAfterReclaim(k) = StageOf(k)
    <2>0. FailedAfterReclaim[k] = failed[k]
      BY DEF FailedAfterReclaim
    <2>1. CASE k \in Decided
      <3>1. LedgerRow(k) # None /\ LedgerRow(k).checkpoint = checkpointId[k]
        BY <2>1 DEF Disagreement, Decided
      <3>2. LedgerDecision(k) # None
        BY <3>1, LedgerRowType, QueueConstants DEF LedgerDecision, DecisionRow
      <3>3. status[k] = "PAUSED_APPROVAL" /\ ~failed[k]
        BY <2>1 DEF Decided, RowShape
      <3>4. StageOf(k) = "queued"
        BY <3>2, <3>3 DEF StageOf
      <3> QED
        BY <2>0, <2>1, <3>3, <3>4 DEF StageAfterReclaim, StatusAfterReclaim
    <2>2. CASE k \notin Decided
      <3>1. StatusAfterReclaim[k] = status[k]
        BY <2>2 DEF StatusAfterReclaim
      <3> QED
        BY <2>0, <3>1 DEF StageAfterReclaim, StageOf
    <2> QED
      BY <2>1, <2>2
  <1>2. ASSUME NEW k \in Expired
        PROVE  /\ k \in Job
               /\ StageOf(k) = "running"
               /\ StageAfterReclaim(k) \in {"queued", "failed"}
    BY DEF Expired, StageOf, StageAfterReclaim, StatusAfterReclaim
  <1>3. \A i, k \in Expired : i = k
    BY DEF Expired, AtMostOneRunning
  <1> QED
    BY <1>1, <1>2, <1>3

(* A poll that hands nothing out lapses the expired claim, if any.         *)
LEMMA ClaimNothingStep ==
  ASSUME QueueInv, ClaimNothing
  PROVE  AbstractStep
  <1>0. /\ ~Disagreement
        /\ status' = StatusAfterReclaim
        /\ failed' = FailedAfterReclaim
        /\ UNCHANGED <<checkpointId, ownerDecisions>>
        /\ ViewKept
    BY DEF ClaimNothing, Reclaim, ledgerVars, ViewKept
  <1>1. \A k \in Job : LedgerDecision(k)' = LedgerDecision(k)
    BY <1>0 DEF LedgerDecision
  <1>2. \A k \in Job : StageOf(k)' = StageAfterReclaim(k)
    BY <1>0, <1>1
    DEF StageOf, StageAfterReclaim, StatusAfterReclaim, QueueInv, TypeOK, Status
  <1>3. CASE Expired = {}
    BY <1>0, <1>1, <1>2, <1>3, ReclaimStages, Invisible
  <1>4. CASE Expired # {}
    <2>1. PICK i \in Job, to \in {"queued", "failed"} :
            /\ i \in Expired
            /\ to = StageAfterReclaim(i)
      BY <1>0, <1>4, ReclaimStages
    <2>2. /\ StageOf(i) = "running"
          /\ \A k \in Job : StageOf(k)' = IF k = i THEN to ELSE StageOf(k)
      BY <1>0, <1>2, <2>1, ReclaimStages
    <2>3. Promise!Lapse(i, to)
      BY ONLY <1>0, <1>1, <2>2 DEF Promise!Lapse, ViewKept
    <2> QED
      BY <2>3 DEF AbstractStep, Promise!AbstractNext
  <1> QED
    BY <1>3, <1>4

(* What claim_next hands out may start: nobody runs after the reclaims,    *)
(* and a job without a decision starts only if no other job keeps the lab. *)
LEMMA ClaimMayStart ==
  ASSUME QueueInv, NEW j \in Job, ClaimNext(j)
  PROVE  /\ StageAfterReclaim(j) = "queued"
         /\ \A k \in Job : StageAfterReclaim(k) # "running"
         /\ LedgerDecision(j) = None =>
               \A k \in Job \ {j} :
                  ~ /\ StageAfterReclaim(k) \in {"queued", "running"}
                    /\ incident[k]
                    /\ LedgerDecision(k) = None
  <1> USE DEF QueueInv
  <1>0. ~Disagreement
    BY DEF ClaimNext, Reclaim
  <1>1. /\ StatusAfterReclaim[j] = "QUEUED"
        /\ ~FailedAfterReclaim[j]
        /\ \A k \in Job : StatusAfterReclaim[k] # "RUNNING"
    BY DEF ClaimNext, FirstReady, Ready, Claimable, LabIsTaken
  <1>2. \A k \in Job : StageAfterReclaim(k) # "running"
    BY <1>1 DEF StageAfterReclaim, StatusAfterReclaim, StageOf, TypeOK, Status
  <1>3. ASSUME NEW k \in Job, LedgerDecision(k) = None,
               StageAfterReclaim(k) = "queued", incident[k]
        PROVE  /\ Claimable(k)
               /\ OwnsLab(k)
    <2>1. StatusAfterReclaim[k] = "QUEUED" /\ ~FailedAfterReclaim[k]
      BY <1>3
      DEF StageAfterReclaim, StatusAfterReclaim, StageOf, TypeOK, Status
    <2>2. status[k] # "PAUSED_APPROVAL"
      <3> SUFFICES ASSUME status[k] = "PAUSED_APPROVAL" PROVE FALSE
        OBVIOUS
      <3>1. StageOf(k) = "paused" /\ k \notin Expired
        BY <1>3 DEF StageOf, Expired
      <3> QED
        BY <1>0, <1>3, <3>1, ReclaimStages
    <2>3. checkpointId[k] = None
      BY <1>3, <2>2, DecisionOfRow
    <2>4. status[k] \in {"QUEUED", "RUNNING"} /\ ~failed[k]
      BY <2>1, <2>2
      DEF StatusAfterReclaim, FailedAfterReclaim, Expired, Decided, TypeOK
    <2> QED
      BY <1>3, <2>1, <2>3, <2>4 DEF Claimable, OwnsLab
  <1>4. StageAfterReclaim(j) = "queued"
    BY <1>1 DEF StageAfterReclaim
  <1>5. ASSUME LedgerDecision(j) = None, NEW k \in Job \ {j},
               StageAfterReclaim(k) = "queued", incident[k],
               LedgerDecision(k) = None
        PROVE  FALSE
    <2>1. Claimable(k) /\ OwnsLab(k)
      BY <1>3, <1>5
    <2>2. k \in Ready
      BY <1>0, <1>5, <2>1, ReclaimFacts DEF ClaimNext, LabIsTaken, Ready, TypeOK
    <2>3. incident[j]
      BY <1>5, <2>2 DEF ClaimNext, FirstReady, ClaimedBefore, TypeOK
    <2>4. OwnsLab(j)
      BY <1>3, <1>4, <1>5, <2>3
    <2> QED
      BY <1>5, <2>1, <2>4 DEF OneLabOwner
  <1> QED
    BY <1>2, <1>4, <1>5

(* A poll that hands a job out starts it, after taking the expired claim   *)
(* from its worker, if any.                                                *)
LEMMA ClaimNextStep ==
  ASSUME QueueInv, NEW j \in Job, ClaimNext(j)
  PROVE  AbstractStep
  <1>0. /\ ~Disagreement
        /\ status' = [StatusAfterReclaim EXCEPT ![j] = "RUNNING"]
        /\ failed' = FailedAfterReclaim
        /\ UNCHANGED <<checkpointId, ownerDecisions>>
        /\ ViewKept
    BY ClaimNextKeepsLedger DEF ClaimNext, Reclaim, ledgerVars, ViewKept
  <1>1. \A k \in Job : LedgerDecision(k)' = LedgerDecision(k)
    BY <1>0 DEF LedgerDecision
  <1>2. \A k \in Job : StageOf(k)' = IF k = j THEN "running"
                                            ELSE StageAfterReclaim(k)
    BY <1>0, <1>1
    DEF StageOf, StageAfterReclaim, StatusAfterReclaim, QueueInv, TypeOK, Status
  <1>3. CASE Expired = {}
    <2>1. \A k \in Job : StageAfterReclaim(k) = StageOf(k)
      BY <1>0, <1>3, ReclaimStages
    <2>2. Promise!MayStart([k \in Job |-> StageOf(k)], j)
      BY <2>1, ClaimMayStart DEF Promise!MayStart, Promise!KeepsLab
    <2>3. Promise!Start(j)
      BY ONLY <1>0, <1>1, <1>2, <2>1, <2>2 DEF Promise!Start, ViewKept
    <2> QED
      BY <2>3 DEF AbstractStep, Promise!AbstractNext
  <1>4. CASE Expired # {}
    <2>1. PICK i \in Job, to \in {"queued", "failed"} :
            /\ i \in Expired
            /\ to = StageAfterReclaim(i)
      BY <1>0, <1>4, ReclaimStages
    <2>2. /\ StageOf(i) = "running"
          /\ \A k \in Job : StageAfterReclaim(k) = IF k = i THEN to
                                                          ELSE StageOf(k)
      BY <1>0, <2>1, ReclaimStages
    <2> DEFINE lapsed == [[k \in Job |-> StageOf(k)] EXCEPT ![i] = to]
    <2>3. lapsed = [k \in Job |-> StageAfterReclaim(k)]
      BY <2>2
    <2>4. Promise!MayStart(lapsed, j)
      BY <2>3, ClaimMayStart DEF Promise!MayStart, Promise!KeepsLab
    <2>5. [k \in Job |-> StageOf(k)]' = [lapsed EXCEPT ![j] = "running"]
      BY <1>2, <2>3
    <2>6. Promise!LapseAndStart(i, to, j)
      BY <1>0, <1>1, <2>2, <2>4, <2>5 DEF Promise!LapseAndStart, ViewKept
    <2> QED
      BY <2>6 DEF AbstractStep, Promise!AbstractNext
  <1> QED
    BY <1>3, <1>4

(* The two SQLite databases together implement ControlPlane: for every     *)
(* number of jobs, tokens and leases, owners and workers see decisions     *)
(* taken once, reports kept, ended jobs ended and one job in the lab.      *)
THEOREM QueueImplementsControlPlane == Spec => KeepsPromise
  <1>1. Init => Promise!AbstractInit
    BY DEF Init, Promise!AbstractInit, StageOf, LedgerDecision
  <1>2. QueueInv /\ [Next]_vars => [Promise!AbstractNext]_(Promise!abstractVars)
    <2> SUFFICES ASSUME QueueInv, [Next]_vars PROVE AbstractStep
      BY DEF AbstractStep
    <2>1. CASE \E j \in Job : OwnerCall(j)
      BY <2>1, CreateStep, DecideStep, DecideAgainStep, CliRecordStep
      DEF OwnerCall
    <2>2. CASE \E j \in Job : ClaimNext(j)
      BY <2>2, ClaimNextStep
    <2>3. CASE ClaimNothing
      BY <2>3, ClaimNothingStep
    <2>4. CASE \E j \in Job : \E t \in 1..tokens : WorkerCall(j, t)
      BY <2>4, HiddenStep, ReserveStep, MarkPausedStep, FinalizeStep,
         GiveBackStep
      DEF WorkerCall
    <2>5. CASE Tick \/ UNCHANGED vars
      BY <2>5, HiddenStep
    <2> QED
      BY <2>1, <2>2, <2>3, <2>4, <2>5 DEF Next
  <1> QED
    BY <1>1, <1>2, QueueInvariant, PTL DEF Spec, KeepsPromise,
       Promise!AbstractSpec
=============================================================================
