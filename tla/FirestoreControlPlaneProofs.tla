-------------------- MODULE FirestoreControlPlaneProofs --------------------
(***************************************************************************)
(* What the documents guarantee for any number of jobs, requests and       *)
(* claims, any leases and limits and any number of faults, when one        *)
(* owner-facing process works beside the worker process (OneApi).  No call *)
(* is a transaction: the proofs rest on StagedShape, which says that the   *)
(* documents a staged write was computed from are still the stored ones    *)
(* when it is committed.                                                   *)
(***************************************************************************)
EXTENDS FirestoreControlPlane, FiniteSetTheorems, TLAPS

(* A back-off is an integer.                                               *)
LEMMA RetryDelayInt == \A n \in Nat : RetryDelay(n + 1) \in Int
  BY FirestoreConstants DEF RetryDelay

(* A job whose claim is over is a job document in the status it waits in.   *)
LEMMA ReleasedJob ==
  ASSUME NEW doc \in JobDoc,
         NEW waiting \in {"QUEUED", "PAUSED_APPROVAL", "COMPLETED"}
  PROVE  LET new == Released(doc, waiting)
         IN  /\ new \in JobDoc
             /\ new.status = waiting
             /\ new.key = doc.key
             /\ new.incident = doc.incident
             /\ new.failed = doc.failed
             /\ new.checkpoint = doc.checkpoint
             /\ new.report = doc.report
             /\ new.attempts = doc.attempts
  BY DEF Released, JobDoc

(* The same for a delivery.                                                *)
LEMMA ReleasedDelivery ==
  ASSUME NEW doc \in DeliveryDoc, NEW waiting \in {"PENDING", "SENT"}
  PROVE  Released(doc, waiting) \in DeliveryDoc
  BY DEF Released, DeliveryDoc

(* A job whose claim is given back is a job document again, and only the   *)
(* claim, the attempts, the back-off and the failure differ.               *)
LEMMA SpentJob ==
  ASSUME NEW doc \in JobDoc, NEW time \in Nat
  PROVE  LET new == Spent(doc, "QUEUED", MaxAttempts, time)
         IN  /\ new \in JobDoc
             /\ new.status = "QUEUED"
             /\ new.key = doc.key
             /\ new.incident = doc.incident
             /\ new.checkpoint = doc.checkpoint
             /\ new.report = doc.report
  <1>1. RetryDelay(doc.attempts + 1) \in Int
    BY RetryDelayInt DEF JobDoc
  <1> DEFINE ended == [Released(doc, "QUEUED") EXCEPT !.attempts = doc.attempts + 1]
  <1>2. /\ ended \in JobDoc
        /\ ended.status = "QUEUED" /\ ended.key = doc.key
        /\ ended.incident = doc.incident /\ ended.checkpoint = doc.checkpoint
        /\ ended.report = doc.report
    BY ReleasedJob DEF JobDoc
  <1> HIDE DEF ended
  <1>3. \A n \in Int : LET new == [ended EXCEPT !.available = n]
                      IN  /\ new \in JobDoc
                          /\ new.status = "QUEUED" /\ new.key = doc.key
                          /\ new.incident = doc.incident
                          /\ new.checkpoint = doc.checkpoint
                          /\ new.report = doc.report
    BY <1>2 DEF JobDoc
  <1>4. LET new == [ended EXCEPT !.failed = TRUE]
        IN  /\ new \in JobDoc
            /\ new.status = "QUEUED" /\ new.key = doc.key
            /\ new.incident = doc.incident /\ new.checkpoint = doc.checkpoint
            /\ new.report = doc.report
    BY <1>2 DEF JobDoc
  <1>5. \/ Spent(doc, "QUEUED", MaxAttempts, time) = [ended EXCEPT !.failed = TRUE]
        \/ Spent(doc, "QUEUED", MaxAttempts, time)
             = [ended EXCEPT !.available = time + RetryDelay(doc.attempts + 1)]
    BY DEF Spent, ended
  <1>6. time + RetryDelay(doc.attempts + 1) \in Int
    BY <1>1
  <1> QED
    BY <1>3, <1>4, <1>5, <1>6

(* The same for a delivery.                                                *)
LEMMA SpentDelivery ==
  ASSUME NEW doc \in DeliveryDoc, NEW time \in Nat
  PROVE  Spent(doc, "PENDING", MaxDeliveryAttempts, time) \in DeliveryDoc
  <1>1. RetryDelay(doc.attempts + 1) \in Int
    BY RetryDelayInt DEF DeliveryDoc
  <1> DEFINE ended == [Released(doc, "PENDING") EXCEPT !.attempts = doc.attempts + 1]
  <1>2. ended \in DeliveryDoc
    BY ReleasedDelivery DEF DeliveryDoc
  <1> HIDE DEF ended
  <1>3. \A n \in Int : [ended EXCEPT !.available = n] \in DeliveryDoc
    BY <1>2 DEF DeliveryDoc
  <1>4. [ended EXCEPT !.failed = TRUE] \in DeliveryDoc
    BY <1>2 DEF DeliveryDoc
  <1>5. \/ Spent(doc, "PENDING", MaxDeliveryAttempts, time)
             = [ended EXCEPT !.failed = TRUE]
        \/ Spent(doc, "PENDING", MaxDeliveryAttempts, time)
             = [ended EXCEPT !.available = time + RetryDelay(doc.attempts + 1)]
    BY DEF Spent, ended
  <1>6. time + RetryDelay(doc.attempts + 1) \in Int
    BY <1>1
  <1> QED
    BY <1>3, <1>4, <1>5, <1>6

(* The sequence number of a new document is the number of stored ones.     *)
LEMMA SequenceNumber ==
  ASSUME NEW collection
  PROVE  Cardinality(Stored(collection)) \in Nat
  <1>1. Stored(collection) \subseteq Job
    BY DEF Stored
  <1> QED
    BY <1>1, FirestoreConstants, FS_Subset, FS_CardinalityType

(* The empty collections satisfy the invariant.                            *)
LEMMA InitInv == Init => FirestoreInv
  <1> SUFFICES ASSUME Init PROVE FirestoreInv
    OBVIOUS
  <1> USE DEF Init, Idle
  <1>0. Stored(job) = {} /\ Stored(decision) = {} /\ Stored(delivery) = {}
    BY DEF Stored
  <1>1. TypeOK
    BY DEF TypeOK, CallState
  <1>2. StagedShape /\ ClaimShape
    BY DEF StagedShape, ClaimShape, Process
  <1>3. JobShape /\ LabShape
    BY <1>0 DEF JobShape, LabShape, Status, OwnsLab
  <1>4. KeyShape /\ OutboxMatchesJobs
    BY <1>0 DEF KeyShape, OutboxMatchesJobs
  <1> QED
    BY <1>1, <1>2, <1>3, <1>4 DEF FirestoreInv

-----------------------------------------------------------------------------
(* Steps that commit nothing.                                              *)

(* What a staged write was computed from is unchanged while no document    *)
(* is.                                                                     *)
LEMMA StagedKept ==
  ASSUME UNCHANGED docs, NEW p \in Process, NEW c, op'[p] = c
  PROVE  /\ CreateStaged(c) => CreateStaged(op[p])'
         /\ DecideStaged(c) => DecideStaged(op[p])'
         /\ WorkStaged(c) => WorkStaged(op[p])'
         /\ ClaimStaged(c) => ClaimStaged(op[p])'
         /\ DeliveryStaged(c) => DeliveryStaged(op[p])'
  <1> USE DEF docs, Stored, Status
  <1>1. CreateStaged(c) => CreateStaged(op[p])'
    BY DEF CreateStaged, KeyTaken
  <1>2. DecideStaged(c) => DecideStaged(op[p])'
    BY DEF DecideStaged
  <1>3. WorkStaged(c) => WorkStaged(op[p])'
    BY DEF WorkStaged, Keeps, Pauses, GivesBack, Completes
  <1>4. ClaimStaged(c) => ClaimStaged(op[p])'
    BY DEF ClaimStaged, LabIsFreeFor, OwnsLab
  <1>5. DeliveryStaged(c) => DeliveryStaged(op[p])'
    BY DEF DeliveryStaged
  <1> QED
    BY <1>1, <1>2, <1>3, <1>4, <1>5

(* The invariants of the documents hold while no document changes.         *)
LEMMA DocsKept ==
  ASSUME FirestoreInv, UNCHANGED docs
  PROVE  JobShape' /\ LabShape' /\ KeyShape' /\ OutboxMatchesJobs'
  <1> USE DEF FirestoreInv, docs, Stored, Status
  <1>1. JobShape'
    BY DEF JobShape
  <1>2. LabShape'
    BY DEF LabShape, OwnsLab
  <1>3. KeyShape' /\ OutboxMatchesJobs'
    BY DEF KeyShape, OutboxMatchesJobs
  <1> QED
    BY <1>1, <1>2, <1>3

\* Process p enters, leaves or goes on with a call, whose state is c.
Enters(p, c) ==
    /\ op' = [op EXCEPT ![p] = c]
    /\ UNCHANGED <<docs, now>>
    /\ tokens' \in Nat /\ tokens <= tokens' /\ faults' \in Nat

\* A staged call fits the stored documents.
FitsDocs(p, c) ==
    /\ c.id \in Job
    /\ p \in Api => CreateStaged(c) \/ DecideStaged(c)
    /\ p = Vm => WorkStaged(c) \/ ClaimStaged(c) \/ DeliveryStaged(c)

(* A process may stage any write that fits the stored documents.           *)
LEMMA EnterInv ==
  ASSUME FirestoreInv, NEW p \in Process, NEW c \in CallState, Enters(p, c),
         known' \subseteq 1..tokens',
         c.at <= now,
         c.step = "write" => FitsDocs(p, c),
         /\ p = Vm
         /\ c.step = "claimed" \/ (c.step = "write" /\ c.poll = "claim")
         => IF c.job # None THEN c.job.token \in 1..tokens'
            ELSE c.delivery # None /\ c.delivery.token \in 1..tokens'
  PROVE  FirestoreInv'
  <1> USE DEF FirestoreInv, Enters
  <1>1. TypeOK'
    BY DEF TypeOK, docs
  <1>2. JobShape' /\ LabShape' /\ KeyShape' /\ OutboxMatchesJobs'
    BY DocsKept
  <1>3. op'[p] = c /\ \A q \in Process \ {p} : op'[q] = op[q]
    BY DEF TypeOK
  <1>4. StagedShape'
    <2>1. \A q \in Process : /\ op'[q].step = "write" => op'[q].id \in Job
                             /\ op'[q].at <= now'
      BY <1>3 DEF StagedShape, FitsDocs
    <2>2. ASSUME NEW q \in Api, op'[q].step = "write"
          PROVE  (CreateStaged(op[q]) \/ DecideStaged(op[q]))'
      <3>1. PICK b : b = op'[q]
        OBVIOUS
      <3>2. CreateStaged(b) \/ DecideStaged(b)
        BY <1>3, <2>2, <3>1 DEF StagedShape, FitsDocs, Process
      <3> QED
        BY <3>1, <3>2, StagedKept DEF Process
    <2>3. ASSUME op'[Vm].step = "write"
          PROVE  (\/ WorkStaged(op[Vm]) \/ ClaimStaged(op[Vm])
                  \/ DeliveryStaged(op[Vm]))'
      <3>1. PICK b : b = op'[Vm]
        OBVIOUS
      <3>2. WorkStaged(b) \/ ClaimStaged(b) \/ DeliveryStaged(b)
        BY <1>3, <2>3, <3>1 DEF StagedShape, FitsDocs, Process
      <3> QED
        BY <3>1, <3>2, StagedKept DEF Process
    <2> QED
      BY <2>1, <2>2, <2>3 DEF StagedShape
  <1>5. ClaimShape'
    <2>1. CASE p = Vm
      <3>1. op'[Vm] = c
        BY <1>3, <2>1
      <3> QED
        BY <2>1, <3>1 DEF ClaimShape
    <2>2. CASE p # Vm
      <3>1. op'[Vm] = op[Vm]
        BY <1>3, <2>2 DEF Process
      <3>2. \A t : t \in 1..tokens => t \in 1..tokens'
        BY DEF TypeOK
      <3> QED
        BY <3>1, <3>2 DEF ClaimShape
    <2> QED
      BY <2>1, <2>2
  <1> QED
    BY <1>1, <1>2, <1>4, <1>5


\* The state of a call that staged these documents.
WriteCall(j, jobDoc, decisionDoc, deliveryDoc, by, at, poll) ==
    [step |-> "write", id |-> j, job |-> jobDoc, decision |-> decisionDoc,
     delivery |-> deliveryDoc, by |-> by, at |-> at, poll |-> poll]

StagedAt(poll) == IF poll = "none" THEN 0 ELSE PollTime

(* A poll goes by a time that has come.                                    *)
LEMMA PollTimeType ==
  ASSUME FirestoreInv
  PROVE  /\ PollTime \in Nat
         /\ PollTime <= now
         /\ \A poll : StagedAt(poll) \in Nat /\ StagedAt(poll) <= now
  <1>1. op[Vm] \in CallState /\ now \in Nat /\ op[Vm].at <= now
    BY DEF FirestoreInv, TypeOK, StagedShape, Process
  <1> QED
    BY <1>1 DEF PollTime, StagedAt, CallState

(* A call whose staged documents fit the stored ones keeps the invariant.  *)
LEMMA StageInv ==
  ASSUME FirestoreInv, NEW p \in Process, NEW j \in Job,
         NEW jobDoc \in JobDoc \cup {None},
         NEW decisionDoc \in DecisionDoc \cup {None},
         NEW deliveryDoc \in DeliveryDoc \cup {None},
         NEW by \in Nat, NEW poll \in {"none", "jobs", "deliveries"},
         Stage(p, j, jobDoc, decisionDoc, deliveryDoc, by, poll),
         UNCHANGED tokens,
         FitsDocs(p, WriteCall(j, jobDoc, decisionDoc, deliveryDoc, by,
                               StagedAt(poll), poll))
  PROVE  FirestoreInv'
  <1> DEFINE c == WriteCall(j, jobDoc, decisionDoc, deliveryDoc, by,
                            StagedAt(poll), poll)
  <1>1. c \in CallState /\ c.at <= now /\ c.poll # "claim" /\ c.step = "write"
    BY PollTimeType DEF WriteCall, CallState
  <1>2. Enters(p, c)
    BY DEF Enters, Stage, WriteCall, StagedAt, FirestoreInv, TypeOK
  <1>3. known' \subseteq 1..tokens'
    BY DEF Stage, FirestoreInv, TypeOK
  <1>4. FitsDocs(p, c)
    OBVIOUS
  <1> HIDE DEF c
  <1> QED
    BY <1>1, <1>2, <1>3, <1>4, EnterInv

(* create stages a job for a key that no stored job has.                   *)
LEMMA CreateInv ==
  ASSUME FirestoreInv, NEW p \in Api, NEW j \in Job, NEW k \in Key,
         Create(p, j, k)
  PROVE  FirestoreInv'
  <1> DEFINE doc == [status |-> "QUEUED", key |-> k,
                     sequence |-> Cardinality(Stored(job)), token |-> 0,
                     expires |-> 0, attempts |-> 0, available |-> 0,
                     failed |-> FALSE, incident |-> FALSE, checkpoint |-> None,
                     report |-> None]
  <1>1. doc \in JobDoc
    BY SequenceNumber DEF JobDoc
  <1>2. /\ Stage(p, j, doc, None, None, 0, "none")
        /\ UNCHANGED tokens
        /\ ~KeyTaken(k) /\ j \notin Stored(job)
    BY DEF Create, InUse
  <1>3. FitsDocs(p, WriteCall(j, doc, None, None, 0, StagedAt("none"), "none"))
    BY <1>1, <1>2, AbsentDocument, FirestoreConstants
    DEF FitsDocs, WriteCall, CreateStaged
  <1> HIDE DEF doc
  <1> QED
    BY <1>1, <1>2, <1>3, StageInv DEF Process

(* decide stages the decision and the queued job, both for the checkpoint  *)
(* the job is paused at.                                                   *)
LEMMA DecideInv ==
  ASSUME FirestoreInv, NEW p \in Api, NEW j \in Job, NEW d \in Decision,
         Decide(p, j, d)
  PROVE  FirestoreInv'
  <1> DEFINE doc == [job[j] EXCEPT !.status = "QUEUED"]
             row == [checkpoint |-> job[j].checkpoint, decision |-> d]
  <1>0. /\ Stage(p, j, doc, row, None, 0, "none")
        /\ UNCHANGED tokens
        /\ Status(j, "PAUSED_APPROVAL") /\ decision[j] = None
        /\ job[j].checkpoint # None
    BY DEF Decide, Status
  <1>1. job[j] \in JobDoc
    BY <1>0 DEF Status, Stored, FirestoreInv, TypeOK
  <1>2. doc \in JobDoc /\ row \in DecisionDoc
    BY <1>0, <1>1 DEF JobDoc, DecisionDoc
  <1>3. FitsDocs(p, WriteCall(j, doc, row, None, 0, StagedAt("none"), "none"))
    BY <1>0, <1>2, AbsentDocument, FirestoreConstants
    DEF FitsDocs, WriteCall, DecideStaged
  <1> HIDE DEF doc, row
  <1> QED
    BY <1>0, <1>2, <1>3, StageInv DEF Process

(* A worker's call on the job it presents the token of.                    *)
LEMMA WorkInv ==
  ASSUME FirestoreInv, NEW j \in Job, NEW t \in Nat,
         NEW doc \in JobDoc, NEW row \in DeliveryDoc \cup {None},
         Held(job, j, t, "RUNNING"), doc.key = job[j].key,
         LET c == WriteCall(j, doc, None, row, t, 0, "none")
         IN  \/ Keeps(job[j], c) \/ Pauses(job[j], c)
             \/ GivesBack(job[j], c) \/ Completes(job[j], c),
         Stage(Vm, j, doc, None, row, t, "none"),
         UNCHANGED tokens
  PROVE  FirestoreInv'
  <1> DEFINE c == WriteCall(j, doc, None, row, t, 0, "none")
  <1>1. /\ c.id = j /\ c.job = doc /\ c.decision = None /\ c.by = t
    BY DEF WriteCall
  <1>2. Status(j, "RUNNING") /\ job[j].token = t
    BY DEF Held, Status
  <1>3. WorkStaged(c)
    BY <1>1, <1>2, AbsentDocument DEF WorkStaged
  <1>4. FitsDocs(Vm, WriteCall(j, doc, None, row, t, StagedAt("none"), "none"))
    BY <1>1, <1>3, FirestoreConstants DEF FitsDocs, StagedAt
  <1> QED
    BY <1>4, StageInv DEF Process

(* The document of a job whose token a call presented.                     *)
LEMMA HeldJob ==
  ASSUME FirestoreInv, NEW j \in Job, NEW t \in known,
         Held(job, j, t, "RUNNING") \/ Current(job, j, t, "RUNNING")
  PROVE  /\ Held(job, j, t, "RUNNING")
         /\ job[j] \in JobDoc /\ job[j].status = "RUNNING"
         /\ job[j].token = t
         /\ t \in Nat
  BY DEF Current, Held, Stored, FirestoreInv, TypeOK

(* renew_running and reserve_incident keep the claim.                      *)
LEMMA KeepInv ==
  ASSUME FirestoreInv, NEW j \in Job, NEW t \in known,
         RenewRunning(j, t) \/ ReserveIncident(j, t)
  PROVE  FirestoreInv'
  <1>1. /\ Held(job, j, t, "RUNNING")
        /\ job[j] \in JobDoc /\ job[j].status = "RUNNING" /\ t \in Nat
    BY HeldJob DEF RenewRunning, ReserveIncident
  <1>2. PICK doc \in {[job[j] EXCEPT !.expires = now + LeaseTime],
                      [job[j] EXCEPT !.incident = TRUE]} :
          Stage(Vm, j, doc, None, None, t, "none") /\ UNCHANGED tokens
    BY DEF RenewRunning, ReserveIncident
  <1>3. /\ doc \in JobDoc /\ doc.key = job[j].key
        /\ doc.status = "RUNNING" /\ doc.token = job[j].token
        /\ job[j].incident => doc.incident
        /\ doc.failed = job[j].failed
        /\ doc.checkpoint = job[j].checkpoint /\ doc.report = job[j].report
    <2>1. CASE doc = [job[j] EXCEPT !.expires = now + LeaseTime]
      <3>1. now + LeaseTime \in Nat
        BY FirestoreConstants DEF FirestoreInv, TypeOK
      <3> QED
        BY <1>1, <2>1, <3>1 DEF JobDoc
    <2>2. CASE doc = [job[j] EXCEPT !.incident = TRUE]
      BY <1>1, <2>2 DEF JobDoc
    <2> QED
      BY <1>2, <2>1, <2>2
  <1>4. Keeps(job[j], WriteCall(j, doc, None, None, t, 0, "none"))
    BY <1>3 DEF Keeps, WriteCall
  <1> QED
    BY <1>1, <1>2, <1>3, <1>4, WorkInv

(* mark_paused.                                                            *)
LEMMA PauseInv ==
  ASSUME FirestoreInv, NEW j \in Job, NEW t \in known, NEW c \in Checkpoint,
         job[j].checkpoint = None, MarkPaused(j, c, t)
  PROVE  FirestoreInv'
  <1>1. /\ Held(job, j, t, "RUNNING")
        /\ job[j] \in JobDoc /\ t \in Nat
    BY HeldJob DEF MarkPaused
  <1> DEFINE doc == [Released(job[j], "PAUSED_APPROVAL") EXCEPT !.checkpoint = c]
  <1>2. /\ doc \in JobDoc /\ doc.key = job[j].key
        /\ doc.status = "PAUSED_APPROVAL"
        /\ doc.incident = job[j].incident /\ doc.failed = job[j].failed
        /\ doc.checkpoint = c /\ doc.report = job[j].report
    BY <1>1, ReleasedJob DEF JobDoc
  <1>3. Stage(Vm, j, doc, None, None, t, "none") /\ UNCHANGED tokens
    BY DEF MarkPaused
  <1> HIDE DEF doc
  <1>4. Pauses(job[j], WriteCall(j, doc, None, None, t, 0, "none"))
    BY <1>2, FirestoreConstants DEF Pauses, WriteCall
  <1> QED
    BY <1>1, <1>2, <1>3, <1>4, WorkInv

(* requeue_running and retry_running give the job back.                    *)
LEMMA GiveBackInv ==
  ASSUME FirestoreInv, NEW j \in Job, NEW t \in known,
         RequeueRunning(j, t) \/ RetryRunning(j, t)
  PROVE  FirestoreInv'
  <1>1. /\ Held(job, j, t, "RUNNING")
        /\ job[j] \in JobDoc /\ t \in Nat
    BY HeldJob DEF RequeueRunning, RetryRunning
  <1>2. PICK doc \in {Released(job[j], "QUEUED"),
                      Spent(job[j], "QUEUED", MaxAttempts, now)} :
          Stage(Vm, j, doc, None, None, t, "none") /\ UNCHANGED tokens
    BY DEF RequeueRunning, RetryRunning
  <1>3. now \in Nat
    BY DEF FirestoreInv, TypeOK
  <1>4. /\ doc \in JobDoc /\ doc.key = job[j].key
        /\ doc.status = "QUEUED" /\ doc.incident = job[j].incident
        /\ doc.checkpoint = job[j].checkpoint /\ doc.report = job[j].report
    <2>1. CASE doc = Released(job[j], "QUEUED")
      BY <1>1, <2>1, ReleasedJob
    <2>2. CASE doc = Spent(job[j], "QUEUED", MaxAttempts, now)
      BY <1>1, <1>3, <2>2, SpentJob
    <2> QED
      BY <1>2, <2>1, <2>2
  <1>5. GivesBack(job[j], WriteCall(j, doc, None, None, t, 0, "none"))
    BY <1>4 DEF GivesBack, WriteCall
  <1> QED
    BY <1>1, <1>2, <1>4, <1>5, WorkInv

(* finalize stages the completed job together with its outbox entry.       *)
LEMMA FinalizeInv ==
  ASSUME FirestoreInv, NEW j \in Job, NEW t \in known, NEW r \in Report,
         Finalize(j, r, t)
  PROVE  FirestoreInv'
  <1>1. /\ Held(job, j, t, "RUNNING")
        /\ job[j] \in JobDoc /\ t \in Nat
    BY HeldJob DEF Finalize
  <1> DEFINE doc == [Released(job[j], "COMPLETED") EXCEPT !.report = r]
             row == [status |-> "PENDING",
                     sequence |-> Cardinality(Stored(delivery)), token |-> 0,
                     expires |-> 0, attempts |-> 0, available |-> 0,
                     failed |-> FALSE]
  <1>2. /\ doc \in JobDoc /\ doc.key = job[j].key /\ doc.status = "COMPLETED"
        /\ doc.incident = job[j].incident /\ doc.failed = job[j].failed
        /\ doc.checkpoint = job[j].checkpoint /\ doc.report = r
    BY <1>1, ReleasedJob DEF JobDoc
  <1>3. row \in DeliveryDoc
    BY SequenceNumber DEF DeliveryDoc
  <1>4. Stage(Vm, j, doc, None, row, t, "none") /\ UNCHANGED tokens
    BY DEF Finalize
  <1> HIDE DEF doc, row
  <1>5. Completes(job[j], WriteCall(j, doc, None, row, t, 0, "none"))
    BY <1>2, <1>3, FirestoreConstants, AbsentDocument DEF Completes, WriteCall
  <1> QED
    BY <1>1, <1>2, <1>3, <1>4, <1>5, WorkInv

(* A poll stages the return of a job whose lease ran out.                  *)
LEMMA ReclaimInv ==
  ASSUME FirestoreInv, NEW j \in Job, ReclaimInvestigation(j)
  PROVE  FirestoreInv'
  <1>1. /\ job[j] \in JobDoc /\ Status(j, "RUNNING")
        /\ job[j].expires <= PollTime
    BY DEF ReclaimInvestigation, Expired, Stored, Status, FirestoreInv, TypeOK
  <1>2. PICK doc : doc = Spent(job[j], "QUEUED", MaxAttempts, PollTime)
    OBVIOUS
  <1>3. Stage(Vm, j, doc, None, None, 0, "jobs") /\ UNCHANGED tokens
    BY <1>2 DEF ReclaimInvestigation
  <1>4. /\ doc \in JobDoc /\ doc.key = job[j].key
        /\ doc.status = "QUEUED" /\ doc.incident = job[j].incident
        /\ doc.checkpoint = job[j].checkpoint /\ doc.report = job[j].report
    BY <1>1, <1>2, SpentJob, PollTimeType
  <1> DEFINE c == WriteCall(j, doc, None, None, 0, StagedAt("jobs"), "jobs")
  <1>5. /\ c.id = j /\ c.job = doc /\ c.decision = None /\ c.delivery = None
        /\ c.at = PollTime
    BY DEF WriteCall, StagedAt
  <1> HIDE DEF c
  <1>6. WorkStaged(c)
    BY <1>1, <1>4, <1>5, AbsentDocument DEF WorkStaged, GivesBack
  <1>7. FitsDocs(Vm, c)
    BY <1>5, <1>6, FirestoreConstants DEF FitsDocs
  <1> QED
    BY <1>3, <1>4, <1>7, StageInv DEF Process, c

(* A write to a stored delivery.                                           *)
LEMMA DeliveryInv ==
  ASSUME FirestoreInv, NEW j \in Stored(delivery), NEW row \in DeliveryDoc,
         NEW by \in Nat, NEW poll \in {"none", "deliveries"},
         Stage(Vm, j, None, None, row, by, poll), UNCHANGED tokens
  PROVE  FirestoreInv'
  <1> DEFINE c == WriteCall(j, None, None, row, by, StagedAt(poll), poll)
  <1>1. DeliveryStaged(c) /\ c.id = j
    BY AbsentDocument DEF DeliveryStaged, WriteCall
  <1>2. FitsDocs(Vm, c)
    BY <1>1, FirestoreConstants DEF FitsDocs, Stored
  <1> QED
    BY <1>2, StageInv DEF Process, Stored

(* mark_delivered, renew_delivery, release_delivery, retry_delivery and    *)
(* the reclaim of a poll.                                                  *)
LEMMA OutboxInv ==
  ASSUME FirestoreInv, NEW j \in Job,
         \/ ReclaimDelivery(j)
         \/ \E t \in known : \/ MarkDelivered(j, t) \/ RenewDelivery(j, t)
                             \/ ReleaseDelivery(j, t) \/ RetryDelivery(j, t)
  PROVE  FirestoreInv'
  <1>0. now \in Nat /\ \A t \in known : t \in Nat
    BY DEF FirestoreInv, TypeOK
  <1>1. j \in Stored(delivery)
    BY DEF ReclaimDelivery, Expired, MarkDelivered, RenewDelivery,
           ReleaseDelivery, RetryDelivery, Current, Held
  <1>2. delivery[j] \in DeliveryDoc
    BY <1>1 DEF Stored, FirestoreInv, TypeOK
  <1>3. CASE ReclaimDelivery(j)
    BY <1>1, <1>2, <1>3, SpentDelivery, PollTimeType, DeliveryInv
    DEF ReclaimDelivery
  <1>4. ASSUME NEW t \in known, MarkDelivered(j, t) PROVE FirestoreInv'
    BY <1>0, <1>1, <1>2, <1>4, ReleasedDelivery, DeliveryInv DEF MarkDelivered
  <1>5. ASSUME NEW t \in known, RenewDelivery(j, t) PROVE FirestoreInv'
    <2>1. now + LeaseTime \in Nat
      BY <1>0, FirestoreConstants
    <2>2. [delivery[j] EXCEPT !.expires = now + LeaseTime] \in DeliveryDoc
      BY <1>2, <2>1 DEF DeliveryDoc
    <2> QED
      BY <1>0, <1>1, <1>5, <2>2, DeliveryInv DEF RenewDelivery
  <1>6. ASSUME NEW t \in known, ReleaseDelivery(j, t) PROVE FirestoreInv'
    BY <1>0, <1>1, <1>2, <1>6, ReleasedDelivery, DeliveryInv
    DEF ReleaseDelivery
  <1>7. ASSUME NEW t \in known, RetryDelivery(j, t) PROVE FirestoreInv'
    BY <1>0, <1>1, <1>2, <1>7, SpentDelivery, DeliveryInv DEF RetryDelivery
  <1> QED
    BY <1>3, <1>4, <1>5, <1>6, <1>7

(* When claim_next picks a job, nobody runs and nobody else has the lab:   *)
(* a job that owns it either blocks the poll or is due itself and comes    *)
(* first.                                                                  *)
LEMMA ClaimFindsLabFree ==
  ASSUME FirestoreInv, NEW j \in Job, ~LabIsTaken, FirstDueJob(j)
  PROVE  LabIsFreeFor(j)
  <1> USE DEF FirestoreInv
  <1>1. \A k \in Job : ~Status(k, "RUNNING")
    BY DEF LabIsTaken, Status
  <1>2. ASSUME decision[j] = None, NEW k \in Job \ {j}, OwnsLab(k)
        PROVE  FALSE
    <2>1. k \in Waiting(job, "QUEUED") /\ job[k].incident
      BY <1>1, <1>2 DEF OwnsLab, Waiting, Status
    <2>2. k \in Due(job, "QUEUED")
      <3>1. job[k] \in JobDoc /\ PollTime \in Nat
        BY <2>1, PollTimeType DEF Waiting, Stored, TypeOK
      <3>2. ~(job[k].available > PollTime) /\ job[k].available \in Int
        BY <2>1, <3>1 DEF LabIsTaken, JobDoc
      <3> QED
        BY <2>1, <3>1, <3>2 DEF Due
    <2>3. job[j].incident
      BY <2>1, <2>2 DEF FirstDueJob, ClaimedBefore
    <2>4. OwnsLab(j)
      BY <1>2, <2>3 DEF FirstDueJob, Due, Waiting, OwnsLab, Status
    <2> QED
      BY <1>2, <2>4 DEF LabShape
  <1> QED
    BY <1>1, <1>2 DEF LabIsFreeFor

(* A claim stages a new token.                                             *)
LEMMA StageClaimInv ==
  ASSUME FirestoreInv, NEW j \in Job,
         NEW doc \in JobDoc \cup {None}, NEW row \in DeliveryDoc \cup {None},
         StageClaim(j, doc, row, "claim"),
         IF doc # None THEN doc.token = tokens + 1
         ELSE row # None /\ row.token = tokens + 1,
         LET c == WriteCall(j, doc, None, row, 0, 0, "claim")
         IN  ClaimStaged(c) \/ DeliveryStaged(c)
  PROVE  FirestoreInv'
  <1> DEFINE c == WriteCall(j, doc, None, row, 0, 0, "claim")
  <1>0. tokens \in Nat /\ now \in Nat /\ faults \in Nat /\ tokens' = tokens + 1
    BY DEF FirestoreInv, TypeOK, StageClaim
  <1>1. /\ c \in CallState /\ c.at <= now /\ c.step = "write" /\ c.id = j
        /\ c.job = doc /\ c.delivery = row
    BY <1>0 DEF WriteCall, CallState
  <1>2. Enters(Vm, c)
    BY <1>0 DEF Enters, StageClaim, WriteCall
  <1>3. known' \subseteq 1..tokens'
    BY <1>0 DEF StageClaim, FirestoreInv, TypeOK
  <1>4. FitsDocs(Vm, c)
    BY <1>1, FirestoreConstants DEF FitsDocs
  <1>5. IF c.job # None THEN c.job.token \in 1..tokens'
        ELSE c.delivery # None /\ c.delivery.token \in 1..tokens'
    BY <1>0, <1>1
  <1> HIDE DEF c
  <1> QED
    BY <1>1, <1>2, <1>3, <1>4, <1>5, EnterInv DEF Process

(* A claimed delivery is a delivery document with the new token.           *)
LEMMA ClaimedDelivery ==
  ASSUME NEW doc \in DeliveryDoc, NEW t \in Nat, NEW e \in Nat
  PROVE  LET new == [doc EXCEPT !.status = "SENDING", !.token = t,
                                !.expires = e]
         IN  new \in DeliveryDoc /\ new.token = t
  BY DEF DeliveryDoc

(* claim_next and claim_delivery up to their commit.                       *)
LEMMA ClaimInv ==
  ASSUME FirestoreInv, NEW j \in Job, ClaimNext(j) \/ ClaimDelivery(j)
  PROVE  FirestoreInv'
  <1>0. tokens + 1 \in Nat /\ PollTime + LeaseTime \in Nat
    BY PollTimeType, FirestoreConstants DEF FirestoreInv, TypeOK
  <1>1. CASE ClaimNext(j)
    <2>1. LabIsFreeFor(j)
      BY <1>1, ClaimFindsLabFree DEF ClaimNext
    <2>2. job[j] \in JobDoc /\ Status(j, "QUEUED") /\ ~job[j].failed
      BY <1>1 DEF ClaimNext, FirstDueJob, Due, Waiting, Status, Stored,
                  FirestoreInv, TypeOK
    <2> DEFINE doc == [job[j] EXCEPT !.status = "RUNNING", !.token = tokens + 1,
                                     !.expires = PollTime + LeaseTime]
    <2>3. /\ doc \in JobDoc /\ doc.key = job[j].key /\ doc.status = "RUNNING"
          /\ doc.incident = job[j].incident /\ doc.failed = job[j].failed
          /\ doc.checkpoint = job[j].checkpoint /\ doc.report = job[j].report
          /\ doc.token = tokens + 1
      <3>1. PICK t \in Nat, e \in Nat : t = tokens + 1 /\ e = PollTime + LeaseTime
        BY <1>0
      <3>2. doc = [job[j] EXCEPT !.status = "RUNNING", !.token = t, !.expires = e]
        BY ONLY <3>1
      <3> HIDE DEF doc
      <3> QED
        <4>1. job[j] \in JobDoc
          BY <2>2
        <4>2. /\ doc \in JobDoc /\ doc.key = job[j].key
              /\ doc.status = "RUNNING" /\ doc.token = t
              /\ doc.incident = job[j].incident /\ doc.failed = job[j].failed
              /\ doc.checkpoint = job[j].checkpoint /\ doc.report = job[j].report
          BY ONLY <3>2, <4>1, t \in Nat, e \in Nat DEF JobDoc
        <4> QED
          BY <3>1, <4>2
    <2>4. StageClaim(j, doc, None, "claim")
      BY <1>1 DEF ClaimNext
    <2> HIDE DEF doc
    <2>5. ClaimStaged(WriteCall(j, doc, None, None, 0, 0, "claim"))
      BY <2>1, <2>2, <2>3, AbsentDocument DEF ClaimStaged, WriteCall
    <2> QED
      BY <2>3, <2>4, <2>5, AbsentDocument, StageClaimInv
  <1>2. CASE ClaimDelivery(j)
    <2>1. delivery[j] \in DeliveryDoc /\ j \in Stored(delivery)
      BY <1>2 DEF ClaimDelivery, FirstDueDelivery, Due, Waiting, Stored,
                  FirestoreInv, TypeOK
    <2> DEFINE row == [delivery[j] EXCEPT !.status = "SENDING",
                                          !.token = tokens + 1,
                                          !.expires = PollTime + LeaseTime]
    <2>2. row \in DeliveryDoc /\ row.token = tokens + 1
      BY <1>0, <2>1, ClaimedDelivery
    <2>3. StageClaim(j, None, row, "claim")
      BY <1>2 DEF ClaimDelivery
    <2> HIDE DEF row
    <2>4. DeliveryStaged(WriteCall(j, None, None, row, 0, 0, "claim"))
      BY <2>1, <2>2, AbsentDocument DEF DeliveryStaged, WriteCall
    <2> QED
      BY <2>2, <2>3, <2>4, AbsentDocument, StageClaimInv
  <1> QED
    BY <1>1, <1>2

(* A process that gives up its call, and the return of a claim.            *)
LEMMA LeaveInv ==
  ASSUME FirestoreInv,
         \/ ClaimNothing \/ ReturnClaim \/ Crash
         \/ \E p \in Process : Fault(p)
  PROVE  FirestoreInv'
  <1> USE DEF FirestoreInv
  <1>0. Idle \in CallState /\ Idle.step = "free" /\ Idle.at <= now
    BY DEF Idle, CallState, TypeOK
  <1>1. known' \subseteq 1..tokens'
    <2>1. CASE ReturnClaim
      <3>1. IF op[Vm].job # None THEN op[Vm].job.token \in 1..tokens
            ELSE op[Vm].delivery.token \in 1..tokens
        BY <2>1 DEF ReturnClaim, ClaimShape
      <3> QED
        BY <2>1, <3>1 DEF ReturnClaim, TypeOK
    <2> QED
      BY <2>1 DEF ClaimNothing, Crash, Fault, TypeOK
  <1>2. PICK p \in Process : Enters(p, Idle)
    BY DEF ClaimNothing, ReturnClaim, Crash, Fault, Enters, Process, TypeOK
  <1> QED
    BY <1>0, <1>1, <1>2, EnterInv

-----------------------------------------------------------------------------
(* Commits.                                                                *)

(* A commit writes the staged documents of one id, and leaves the call.    *)
LEMMA CommitWrites ==
  ASSUME FirestoreInv, NEW p \in Process, Commit(p)
  PROVE  /\ op[p].step = "write" /\ op[p].id \in Job /\ op[p] \in CallState
         /\ \A k \in Job \ {op[p].id} : /\ job'[k] = job[k]
                                        /\ decision'[k] = decision[k]
                                        /\ delivery'[k] = delivery[k]
         /\ op[p].job # None => job'[op[p].id] = op[p].job
         /\ op[p].job = None => job' = job
         /\ op[p].decision # None => decision'[op[p].id] = op[p].decision
         /\ op[p].decision = None => decision' = decision
         /\ op[p].delivery # None => delivery'[op[p].id] = op[p].delivery
         /\ op[p].delivery = None => delivery' = delivery
         /\ UNCHANGED <<known, now, tokens, faults>>
  BY DEF Commit, Overwrite, FirestoreInv, TypeOK, StagedShape

(* Afterwards the call is over, scans on, or has its claim to return.      *)
LEMMA CommitLeaves ==
  ASSUME FirestoreInv, NEW p \in Process, Commit(p)
  PROVE  /\ op' \in [Process -> CallState]
         /\ \A q \in Process \ {p} : op'[q] = op[q]
         /\ op'[p].step # "write" /\ op'[p].at <= now
         /\ op'[p].step = "claimed" =>
               /\ op[p].poll = "claim"
               /\ op'[p].job = op[p].job /\ op'[p].delivery = op[p].delivery
  <1> DEFINE c == CASE op[p].poll = "none"  -> Idle
                    [] op[p].poll = "claim" -> [op[p] EXCEPT !.step = "claimed"]
                    [] OTHER -> [Idle EXCEPT !.step = "scan", !.at = op[p].at,
                                             !.poll = op[p].poll]
  <1>0. /\ op[p] \in CallState /\ op \in [Process -> CallState] /\ now \in Nat
        /\ op[p].at <= now
    BY DEF FirestoreInv, TypeOK, StagedShape
  <1>1. op' = [op EXCEPT ![p] = c]
    BY DEF Commit
  <1>2. /\ c \in CallState /\ c.step # "write" /\ c.at <= now
        /\ c.step = "claimed" =>
              /\ op[p].poll = "claim"
              /\ c.job = op[p].job /\ c.delivery = op[p].delivery
    <2>1. CASE op[p].poll = "none"
      BY <1>0, <2>1 DEF Idle, CallState
    <2>2. CASE op[p].poll = "claim"
      BY <1>0, <2>2 DEF CallState
    <2>3. CASE op[p].poll \notin {"none", "claim"}
      <3>1. c = [Idle EXCEPT !.step = "scan", !.at = op[p].at,
                             !.poll = op[p].poll]
        BY <2>3
      <3> QED
        BY <1>0, <2>3, <3>1 DEF Idle, CallState
    <2> QED
      BY <2>1, <2>2, <2>3
  <1> HIDE DEF c
  <1> QED
    BY <1>0, <1>1, <1>2

(* Types, and the token of a claim to return.                              *)
LEMMA CommitTypes ==
  ASSUME FirestoreInv, NEW p \in Process, Commit(p)
  PROVE  TypeOK' /\ ClaimShape'
  <1>1. TypeOK'
    <2>1. /\ job' \in [Job -> JobDoc \cup {None}]
          /\ decision' \in [Job -> DecisionDoc \cup {None}]
          /\ delivery' \in [Job -> DeliveryDoc \cup {None}]
      <3>1. op[p] \in CallState
        BY CommitWrites
      <3> QED
        BY <3>1 DEF Commit, Overwrite, FirestoreInv, TypeOK, CallState
    <2> QED
      <3>1. op' \in [Process -> CallState]
        BY CommitLeaves
      <3>2. UNCHANGED <<known, now, tokens, faults>>
        BY CommitWrites
      <3> QED
        BY <2>1, <3>1, <3>2 DEF FirestoreInv, TypeOK
  <1>2. ClaimShape'
    <2>1. UNCHANGED tokens
      BY CommitWrites
    <2>2. CASE p = Vm
      <3>1. ASSUME op'[Vm].step = "claimed"
            PROVE  op[Vm].step = "write" /\ op[Vm].poll = "claim"
        BY <2>2, <3>1, CommitLeaves, CommitWrites
      <3> QED
        BY <2>1, <2>2, <3>1, CommitLeaves DEF FirestoreInv, ClaimShape
    <2>3. CASE p # Vm
      <3>1. op'[Vm] = op[Vm]
        BY <2>3, CommitLeaves DEF Process
      <3> QED
        BY <2>1, <3>1 DEF FirestoreInv, ClaimShape
    <2> QED
      BY <2>2, <2>3
  <1> QED
    BY <1>1, <1>2

(* An owner's commit leaves alone what the worker process has staged: it   *)
(* writes a new document or one that is paused.                            *)
LEMMA WorkerStagedKept ==
  ASSUME FirestoreInv, OneApi, NEW p \in Api, Commit(p)
  PROVE  StagedShape'
  <1> USE DEF FirestoreInv
  <1>0. p \in Process /\ p # Vm /\ Vm \in Process
    BY FirestoreConstants DEF Process
  <1>1. \A q \in Process : op'[q] = op[q] \/ q = p
    BY <1>0, CommitLeaves
  <1>2. \A q \in Process : /\ op'[q].step = "write" => op'[q].id \in Job
                           /\ op'[q].at <= now'
    BY <1>0, <1>1, CommitLeaves, CommitWrites DEF StagedShape
  <1>3. \A q \in Api : op'[q].step # "write"
    BY <1>0, CommitLeaves DEF OneApi
  <1>4. CreateStaged(op[p]) \/ DecideStaged(op[p])
    BY <1>0, CommitWrites DEF StagedShape
  <1>5. op'[Vm] = op[Vm]
    BY <1>0, <1>1
  <1>6. PICK i \in Job : i = op[p].id
    BY <1>0, CommitWrites
  <1>7. /\ ~Status(i, "RUNNING") /\ ~Status(i, "QUEUED")
        /\ ~Status(i, "RUNNING")'
        /\ ~OwnsLab(i)'
        /\ delivery' = delivery
        /\ \A k \in Job \ {i} : job'[k] = job[k] /\ decision'[k] = decision[k]
    <2>1. CASE CreateStaged(op[p])
      BY <1>0, <1>6, <2>1, CommitWrites
      DEF CreateStaged, Status, OwnsLab, Stored
    <2>2. CASE DecideStaged(op[p])
      <3>1. /\ job'[i] = [job[i] EXCEPT !.status = "QUEUED"]
            /\ decision'[i] # None
            /\ job[i] \in JobDoc /\ job[i].status = "PAUSED_APPROVAL"
        <4>1. op[p].job # None
          <5>1. job[i] \in JobDoc
            BY <1>6, <2>2 DEF DecideStaged, Status, Stored, TypeOK
          <5>2. [job[i] EXCEPT !.status = "QUEUED"] \in JobDoc
            BY <5>1 DEF JobDoc
          <5> QED
            BY <1>6, <2>2, <5>2, AbsentDocument DEF DecideStaged
        <4> QED
          BY <1>0, <1>6, <2>2, <4>1, CommitWrites
          DEF DecideStaged, Status, Stored, TypeOK
      <3> QED
        BY <1>0, <1>6, <2>2, <3>1, CommitWrites
        DEF DecideStaged, Status, OwnsLab, JobDoc
    <2> QED
      BY <1>4, <2>1, <2>2
  <1>8. ASSUME op[Vm].step = "write"
        PROVE  (\/ WorkStaged(op[Vm]) \/ ClaimStaged(op[Vm])
                \/ DeliveryStaged(op[Vm]))'
    <2>1. PICK c : c = op[Vm] /\ c = op'[Vm]
      BY <1>5
    <2>2. c.id \in Job
      BY <1>0, <1>8, <2>1 DEF StagedShape
    <2>3. CASE WorkStaged(c)
      BY <1>7, <2>1, <2>2, <2>3
      DEF WorkStaged, Status, Stored, Keeps, Pauses, GivesBack, Completes
    <2>4. CASE ClaimStaged(c)
      <3>1. job'[c.id] = job[c.id] /\ decision'[c.id] = decision[c.id]
        BY <1>7, <2>2, <2>4 DEF ClaimStaged
      <3>2. \A k \in Job : ~Status(k, "RUNNING")'
        BY <1>7, <2>4 DEF ClaimStaged, LabIsFreeFor, Status, Stored
      <3>3. ASSUME decision[c.id] = None, NEW k \in Job \ {c.id}
            PROVE  ~OwnsLab(k)'
        <4>1. ~OwnsLab(k)
          BY <2>4, <3>3 DEF ClaimStaged, LabIsFreeFor
        <4> QED
          BY <1>7, <4>1 DEF OwnsLab, Status, Stored
      <3>4. (Status(c.id, "QUEUED"))' /\ Status(c.id, "QUEUED")
        BY <2>2, <2>4, <3>1 DEF ClaimStaged, Status, Stored
      <3> QED
        BY <2>1, <2>4, <3>1, <3>2, <3>3, <3>4
        DEF ClaimStaged, LabIsFreeFor, Status
    <2>5. CASE DeliveryStaged(c)
      BY <1>7, <2>1, <2>5 DEF DeliveryStaged, Stored
    <2> QED
      BY <1>8, <2>1, <2>3, <2>4, <2>5 DEF StagedShape
  <1> QED
    BY <1>2, <1>3, <1>5, <1>8 DEF StagedShape

(* The worker's commit leaves alone what the owner's process has staged:   *)
(* it writes no new and no paused document, and keeps the keys.            *)
LEMMA OwnerStagedKept ==
  ASSUME FirestoreInv, Commit(Vm)
  PROVE  StagedShape'
  <1> USE DEF FirestoreInv
  <1>0. Vm \in Process /\ \A q \in Api : q \in Process /\ q # Vm
    BY FirestoreConstants DEF Process
  <1>1. \A q \in Process : op'[q] = op[q] \/ q = Vm
    BY <1>0, CommitLeaves
  <1>2. \A q \in Process : /\ op'[q].step = "write" => op'[q].id \in Job
                           /\ op'[q].at <= now'
    BY <1>0, <1>1, CommitLeaves, CommitWrites DEF StagedShape
  <1>3. op'[Vm].step # "write"
    BY <1>0, CommitLeaves
  <1>4. PICK i \in Job : i = op[Vm].id
    BY <1>0, CommitWrites
  <1>5. /\ decision' = decision
        /\ \A k \in Job \ {i} : job'[k] = job[k]
        /\ \/ job' = job
           \/ /\ i \in Stored(job) /\ job'[i] # None
              /\ job[i].status \in {"QUEUED", "RUNNING"}
              /\ job'[i].key = job[i].key
    <2>1. WorkStaged(op[Vm]) \/ ClaimStaged(op[Vm]) \/ DeliveryStaged(op[Vm])
      BY <1>0, CommitWrites DEF StagedShape
    <2> QED
      BY <1>0, <1>4, <2>1, CommitWrites
      DEF WorkStaged, ClaimStaged, DeliveryStaged, Status
  <1>6. ASSUME NEW q \in Api, op'[q].step = "write"
        PROVE  (CreateStaged(op[q]) \/ DecideStaged(op[q]))'
    <2>1. PICK c : c = op[q] /\ c = op'[q]
      BY <1>0, <1>1
    <2>2. c.id \in Job /\ (CreateStaged(c) \/ DecideStaged(c))
      BY <1>0, <1>6, <2>1 DEF StagedShape
    <2>3. CASE CreateStaged(c)
      <3>1. c.id \notin Stored(job)'
        BY <1>5, <2>2, <2>3 DEF CreateStaged, Stored
      <3>2. ~KeyTaken(c.job.key)'
        BY <1>5, <2>3 DEF CreateStaged, KeyTaken, Stored
      <3> QED
        BY <2>1, <2>3, <3>1, <3>2 DEF CreateStaged
    <2>4. CASE DecideStaged(c)
      <3>1. job'[c.id] = job[c.id]
        BY <1>5, <2>2, <2>4 DEF DecideStaged, Status
      <3> QED
        BY <1>5, <2>1, <2>2, <2>4, <3>1 DEF DecideStaged, Status, Stored
    <2> QED
      BY <2>2, <2>3, <2>4
  <1> QED
    BY <1>2, <1>3, <1>6 DEF StagedShape

(* What one written job has to satisfy for the documents' invariants.      *)
LEMMA OneJobWritten ==
  ASSUME FirestoreInv, NEW i \in Job,
         \A k \in Job \ {i} : /\ job'[k] = job[k] /\ decision'[k] = decision[k]
                              /\ delivery'[k] = delivery[k],
         job'[i] # None, i \in Stored(job)',
         \/ i \in Stored(job) /\ job'[i].key = job[i].key
         \/ ~KeyTaken(job'[i].key),
         delivery'[i] # None <=>
             job'[i].status = "COMPLETED" /\ job'[i].report # None,
         job'[i].failed => job'[i].status = "QUEUED",
         job'[i].status = "PAUSED_APPROVAL" => job'[i].checkpoint # None,
         decision'[i] # None => job'[i].checkpoint = decision'[i].checkpoint,
         job'[i].status = "RUNNING" =>
             /\ \A k \in Job \ {i} : ~Status(k, "RUNNING")
             /\ decision'[i] = None => \A k \in Job \ {i} : ~OwnsLab(k),
         OwnsLab(i)' =>
             \/ OwnsLab(i)
             \/ \A k \in Job \ {i} :
                   ~OwnsLab(k) /\ ~(Status(k, "RUNNING") /\ decision[k] = None)
  PROVE  JobShape' /\ LabShape' /\ KeyShape' /\ OutboxMatchesJobs'
  <1> USE DEF FirestoreInv
  <1>1. \A k \in Job \ {i} :
          /\ k \in Stored(job)' <=> k \in Stored(job)
          /\ Status(k, "RUNNING")' <=> Status(k, "RUNNING")
          /\ Status(k, "PAUSED_APPROVAL")' <=> Status(k, "PAUSED_APPROVAL")
          /\ OwnsLab(k)' <=> OwnsLab(k)
    BY DEF Stored, Status, OwnsLab
  <1>2. JobShape'
    BY <1>1 DEF JobShape, Status
  <1>3. LabShape'
    <2>1. Status(i, "RUNNING")' <=> job'[i].status = "RUNNING"
      BY DEF Status
    <2>2. \A k, l \in Job :
            (Status(k, "RUNNING") /\ Status(l, "RUNNING"))' => k = l
      BY <1>1, <2>1 DEF LabShape
    <2>3. \A k, l \in Job : (OwnsLab(k) /\ OwnsLab(l))' => k = l
      BY <1>1 DEF LabShape
    <2>4. \A k, l \in Job :
            (Status(k, "RUNNING") /\ decision[k] = None /\ OwnsLab(l))' => k = l
      BY <1>1, <2>1 DEF LabShape
    <2> QED
      BY <2>2, <2>3, <2>4 DEF LabShape
  <1>4. KeyShape'
    BY <1>1 DEF KeyShape, KeyTaken, Stored
  <1>5. OutboxMatchesJobs'
    BY <1>1 DEF OutboxMatchesJobs
  <1> QED
    BY <1>2, <1>3, <1>4, <1>5

(* Every commit keeps the invariant, if the documents' part is kept.       *)
LEMMA CommitInv ==
  ASSUME FirestoreInv, OneApi, NEW p \in Process, Commit(p),
         JobShape' /\ LabShape' /\ KeyShape' /\ OutboxMatchesJobs'
  PROVE  FirestoreInv'
  BY CommitTypes, WorkerStagedKept, OwnerStagedKept DEF FirestoreInv, Process

(* The refinement: what the callers of a control plane can see.            *)

AbstractStep == [Promise!AbstractNext]_(Promise!abstractVars)

ScenarioOf(j) == FieldOf(job, j, "incident", FALSE)
DecisionOf(j) == FieldOf(decision, j, "decision", None)
ReportOf(j) == FieldOf(job, j, "report", None)

\* The step shows at most in job i, and there as given.
Shows(i, stage, scenario, chosen, report) ==
    \A k \in Job :
        /\ StageOf(k)' = IF k = i THEN stage ELSE StageOf(k)
        /\ ScenarioOf(k)' = IF k = i THEN scenario ELSE ScenarioOf(k)
        /\ DecisionOf(k)' = IF k = i THEN chosen ELSE DecisionOf(k)
        /\ ReportOf(k)' = IF k = i THEN report ELSE ReportOf(k)

(* A job's stage and fields depend on its own documents only.              *)
LEMMA OthersUnseen ==
  ASSUME NEW i \in Job, NEW stage, NEW scenario, NEW chosen, NEW report,
         \A k \in Job \ {i} : job'[k] = job[k] /\ decision'[k] = decision[k],
         StageOf(i)' = stage, ScenarioOf(i)' = scenario,
         DecisionOf(i)' = chosen, ReportOf(i)' = report
  PROVE  Shows(i, stage, scenario, chosen, report)
  <1> SUFFICES ASSUME NEW k \in Job \ {i}
               PROVE  /\ StageOf(k)' = StageOf(k)
                      /\ ScenarioOf(k)' = ScenarioOf(k)
                      /\ DecisionOf(k)' = DecisionOf(k)
                      /\ ReportOf(k)' = ReportOf(k)
    BY DEF Shows
  <1>1. job'[k] = job[k] /\ decision'[k] = decision[k]
    OBVIOUS
  <1> QED
    BY <1>1 DEF StageOf, ScenarioOf, DecisionOf, ReportOf, FieldOf

(* A commit that shows nothing new is a stuttering step.                   *)
LEMMA Invisible ==
  ASSUME NEW i \in Job,
         Shows(i, StageOf(i), ScenarioOf(i), DecisionOf(i), ReportOf(i))
  PROVE  AbstractStep
  BY DEF AbstractStep, Promise!abstractVars, Shows, ScenarioOf, DecisionOf,
         ReportOf

(* create's commit is the abstract creation.                               *)
LEMMA CommitCreate ==
  ASSUME FirestoreInv, OneApi, NEW p \in Api, Commit(p), CreateStaged(op[p])
  PROVE  FirestoreInv' /\ AbstractStep
  <1>0. p \in Process
    BY DEF Process
  <1>1. PICK i \in Job : i = op[p].id
    BY <1>0, CommitWrites
  <1>2. /\ \A k \in Job \ {i} : /\ job'[k] = job[k] /\ decision'[k] = decision[k]
                                /\ delivery'[k] = delivery[k]
        /\ decision' = decision /\ delivery' = delivery
        /\ job[i] = None /\ job'[i] # None
        /\ job'[i].status = "QUEUED" /\ ~job'[i].failed /\ ~job'[i].incident
        /\ job'[i].checkpoint = None /\ job'[i].report = None
        /\ ~KeyTaken(job'[i].key)
    BY <1>0, <1>1, CommitWrites DEF CreateStaged, Stored
  <1>3. decision[i] = None /\ delivery[i] = None
    BY <1>2 DEF FirestoreInv, JobShape, OutboxMatchesJobs, Stored
  <1>4. JobShape' /\ LabShape' /\ KeyShape' /\ OutboxMatchesJobs'
    <2>1. i \in Stored(job)' /\ ~OwnsLab(i)'
      BY <1>2 DEF Stored, OwnsLab
    <2> QED
      BY <1>2, <1>3, <2>1, OneJobWritten
  <1>5. FirestoreInv'
    BY <1>0, <1>4, CommitInv
  <1>6. /\ StageOf(i) = "absent" /\ StageOf(i)' = "queued"
        /\ ScenarioOf(i) = FALSE /\ ScenarioOf(i)' = FALSE
        /\ DecisionOf(i)' = DecisionOf(i)
        /\ ReportOf(i) = None /\ ReportOf(i)' = None
    <2>1. job'[i].incident = FALSE
      BY <1>2, <1>5 DEF FirestoreInv, TypeOK, JobDoc
    <2> QED
      BY <1>2, <2>1 DEF StageOf, ScenarioOf, DecisionOf, ReportOf, FieldOf
  <1>7. Shows(i, "queued", ScenarioOf(i), DecisionOf(i), ReportOf(i))
    BY <1>2, <1>6, OthersUnseen
  <1>8. Promise!Create(i)
    BY <1>6, <1>7 DEF Promise!Create, Shows, ScenarioOf, DecisionOf, ReportOf
  <1> QED
    BY <1>5, <1>8 DEF AbstractStep, Promise!AbstractNext

(* decide's commit is the abstract decision: the job is still paused.      *)
LEMMA CommitDecide ==
  ASSUME FirestoreInv, OneApi, NEW p \in Api, Commit(p), DecideStaged(op[p])
  PROVE  FirestoreInv' /\ AbstractStep
  <1>0. p \in Process
    BY DEF Process
  <1>1. PICK i \in Job : i = op[p].id
    BY <1>0, CommitWrites
  <1>2. /\ job[i] \in JobDoc /\ job[i].status = "PAUSED_APPROVAL"
        /\ job[i] # None /\ ~job[i].failed
    BY <1>1, AbsentDocument
    DEF DecideStaged, Status, Stored, FirestoreInv, TypeOK, JobShape
  <1>3. PICK doc \in JobDoc :
          /\ doc = [job[i] EXCEPT !.status = "QUEUED"]
          /\ doc.status = "QUEUED" /\ doc.key = job[i].key
          /\ doc.failed = job[i].failed /\ doc.incident = job[i].incident
          /\ doc.checkpoint = job[i].checkpoint /\ doc.report = job[i].report
    <2> DEFINE new == [job[i] EXCEPT !.status = "QUEUED"]
    <2>1. /\ new \in JobDoc
          /\ new.status = "QUEUED" /\ new.key = job[i].key
          /\ new.failed = job[i].failed /\ new.incident = job[i].incident
          /\ new.checkpoint = job[i].checkpoint /\ new.report = job[i].report
      BY <1>2 DEF JobDoc
    <2>2. new = [job[i] EXCEPT !.status = "QUEUED"]
      OBVIOUS
    <2> HIDE DEF new
    <2> QED
      BY <2>1, <2>2
  <1>4. /\ \A k \in Job \ {i} : /\ job'[k] = job[k] /\ decision'[k] = decision[k]
                                /\ delivery'[k] = delivery[k]
        /\ delivery' = delivery /\ job'[i] = doc
        /\ decision'[i] = op[p].decision /\ op[p].decision \in DecisionDoc
        /\ op[p].decision # None
        /\ op[p].decision.checkpoint = job[i].checkpoint
        /\ op[p].decision.decision \in Decision
    <2>1. op[p].job = doc /\ doc # None /\ op[p] \in CallState
      BY <1>0, <1>1, <1>3, AbsentDocument, CommitWrites DEF DecideStaged
    <2>2. op[p].decision \in DecisionDoc
      BY <2>1 DEF DecideStaged, CallState
    <2> QED
      BY <1>0, <1>1, <2>1, <2>2, CommitWrites DEF DecideStaged, DecisionDoc
  <1>5. delivery[i] = None
    BY <1>2 DEF FirestoreInv, OutboxMatchesJobs
  <1>6. JobShape' /\ LabShape' /\ KeyShape' /\ OutboxMatchesJobs'
    <2>1. /\ i \in Stored(job)' /\ job'[i] # None /\ i \in Stored(job)
          /\ ~OwnsLab(i)'
      BY <1>2, <1>4, AbsentDocument DEF Stored, OwnsLab
    <2>2. /\ job'[i].key = job[i].key /\ job'[i].status = "QUEUED"
          /\ ~job'[i].failed /\ job'[i].checkpoint = decision'[i].checkpoint
          /\ delivery'[i] = None
      BY <1>2, <1>3, <1>4, <1>5
    <2>3. \A k \in Job \ {i} : /\ job'[k] = job[k] /\ decision'[k] = decision[k]
                               /\ delivery'[k] = delivery[k]
      BY <1>4
    <2> QED
      BY <2>1, <2>2, <2>3, OneJobWritten
  <1>7. FirestoreInv'
    BY <1>0, <1>6, CommitInv
  <1>8. /\ StageOf(i) = "paused" /\ StageOf(i)' = "queued"
        /\ ScenarioOf(i)' = ScenarioOf(i)
        /\ DecisionOf(i)' = op[p].decision.decision
        /\ ReportOf(i)' = ReportOf(i)
    <2>1. job'[i] = doc /\ doc # None /\ ~doc.failed
      BY <1>2, <1>3, <1>4, AbsentDocument
    <2>2. StageOf(i) = "paused" /\ StageOf(i)' = "queued"
      BY <1>2, <1>3, <2>1 DEF StageOf
    <2>3. ScenarioOf(i)' = ScenarioOf(i) /\ ReportOf(i)' = ReportOf(i)
      BY <1>2, <1>3, <2>1 DEF ScenarioOf, ReportOf, FieldOf
    <2>4. DecisionOf(i)' = op[p].decision.decision
      BY <1>4 DEF DecisionOf, FieldOf
    <2> QED
      BY <2>2, <2>3, <2>4
  <1>9. Shows(i, "queued", ScenarioOf(i), op[p].decision.decision, ReportOf(i))
    BY <1>4, <1>8, OthersUnseen
  <1>10. Promise!Decide(i, op[p].decision.decision)
    BY <1>8, <1>9 DEF Promise!Decide, Shows, ScenarioOf, DecisionOf, ReportOf
  <1> QED
    BY <1>4, <1>7, <1>10 DEF AbstractStep, Promise!AbstractNext

(* The job a worker's commit writes is running, and alone.                 *)
LEMMA WorkFacts ==
  ASSUME FirestoreInv, Commit(Vm), WorkStaged(op[Vm]), NEW i \in Job,
         i = op[Vm].id
  PROVE  /\ job[i] \in JobDoc /\ job[i] # None /\ i \in Stored(job)
         /\ job[i].status = "RUNNING" /\ ~job[i].failed
         /\ job'[i] = op[Vm].job /\ job'[i] \in JobDoc /\ job'[i] # None
         /\ i \in Stored(job)' /\ job'[i].key = job[i].key
         /\ decision' = decision /\ delivery[i] = None
         /\ \A k \in Job \ {i} : /\ job'[k] = job[k] /\ decision'[k] = decision[k]
                                 /\ delivery'[k] = delivery[k]
         /\ \A k \in Job \ {i} : /\ ~Status(k, "RUNNING")
                                 /\ decision[i] = None => ~OwnsLab(k)
         /\ StageOf(i) = "running"
         /\ DecisionOf(i)' = DecisionOf(i)
  <1> USE DEF FirestoreInv
  <1>0. Vm \in Process
    BY DEF Process
  <1>1. /\ job[i] \in JobDoc /\ job[i] # None /\ i \in Stored(job)
        /\ job[i].status = "RUNNING" /\ ~job[i].failed /\ Status(i, "RUNNING")
    BY DEF WorkStaged, Status, Stored, TypeOK, JobShape
  <1>2. /\ job'[i] = op[Vm].job /\ op[Vm].job \in JobDoc /\ op[Vm].job # None
        /\ op[Vm].job.key = job[i].key
    BY <1>0, CommitWrites DEF WorkStaged, CallState
  <1>3. /\ decision' = decision
        /\ \A k \in Job \ {i} : /\ job'[k] = job[k] /\ decision'[k] = decision[k]
                                /\ delivery'[k] = delivery[k]
    BY <1>0, CommitWrites DEF WorkStaged
  <1>4. delivery[i] = None
    BY <1>1 DEF OutboxMatchesJobs
  <1>5. \A k \in Job \ {i} : /\ ~Status(k, "RUNNING")
                             /\ decision[i] = None => ~OwnsLab(k)
    BY <1>1 DEF LabShape
  <1>6. StageOf(i) = "running" /\ DecisionOf(i)' = DecisionOf(i)
    BY <1>1, <1>3 DEF StageOf, DecisionOf, FieldOf
  <1> QED
    BY <1>1, <1>2, <1>3, <1>4, <1>5, <1>6 DEF Stored

(* renew_running shows nothing; reserve_incident is the abstract           *)
(* reservation.                                                            *)
LEMMA CommitKeeps ==
  ASSUME FirestoreInv, OneApi, Commit(Vm), WorkStaged(op[Vm]),
         Keeps(job[op[Vm].id], op[Vm])
  PROVE  FirestoreInv' /\ AbstractStep
  <1>0. Vm \in Process
    BY DEF Process
  <1>1. PICK i \in Job : i = op[Vm].id
    BY <1>0, CommitWrites
  <1>2. /\ job'[i].status = "RUNNING"
        /\ job[i].incident => job'[i].incident
        /\ job'[i].failed = job[i].failed
        /\ job'[i].checkpoint = job[i].checkpoint
        /\ job'[i].report = job[i].report
        /\ delivery' = delivery
    BY <1>0, <1>1, WorkFacts, CommitWrites DEF Keeps
  <1>3. JobShape' /\ LabShape' /\ KeyShape' /\ OutboxMatchesJobs'
    <2>1. ~job'[i].failed
      BY <1>1, <1>2, WorkFacts
    <2>2. decision'[i] # None => job'[i].checkpoint = decision'[i].checkpoint
      BY <1>1, <1>2, WorkFacts DEF FirestoreInv, JobShape
    <2>3. OwnsLab(i)' => decision[i] = None
      BY <1>1, WorkFacts DEF OwnsLab
    <2> QED
      BY <1>1, <1>2, <2>1, <2>2, <2>3, WorkFacts, OneJobWritten
  <1>4. FirestoreInv'
    BY <1>0, <1>3, CommitInv
  <1>5. StageOf(i)' = "running" /\ ReportOf(i)' = ReportOf(i)
    BY <1>1, <1>2, WorkFacts DEF StageOf, ReportOf, FieldOf
  <1>6. ScenarioOf(i)' = ScenarioOf(i) \/ ScenarioOf(i)' = TRUE
    <2>1. job[i].incident \in BOOLEAN /\ job'[i].incident \in BOOLEAN
      BY <1>1, WorkFacts DEF JobDoc
    <2> QED
      BY <1>1, <2>1, <1>2, WorkFacts DEF ScenarioOf, FieldOf
  <1>7. CASE ScenarioOf(i)' = ScenarioOf(i)
    <2>1. Shows(i, StageOf(i), ScenarioOf(i), DecisionOf(i), ReportOf(i))
      BY <1>1, <1>5, <1>7, WorkFacts, OthersUnseen
    <2> QED
      BY <1>4, <2>1, Invisible
  <1>8. CASE ScenarioOf(i)' = TRUE
    <2>1. Shows(i, StageOf(i), TRUE, DecisionOf(i), ReportOf(i))
      BY <1>1, <1>5, <1>8, WorkFacts, OthersUnseen
    <2>2. StageOf(i) = "running"
      BY <1>1, WorkFacts
    <2>3. Promise!Reserve(i)
      BY <2>1, <2>2
      DEF Promise!Reserve, Shows, ScenarioOf, DecisionOf, ReportOf
    <2> QED
      BY <1>4, <2>3 DEF AbstractStep, Promise!AbstractNext
  <1> QED
    BY <1>6, <1>7, <1>8

(* mark_paused is the abstract pause: nothing is decided for a job that    *)
(* never paused before.                                                    *)
LEMMA CommitPauses ==
  ASSUME FirestoreInv, OneApi, Commit(Vm), WorkStaged(op[Vm]),
         Pauses(job[op[Vm].id], op[Vm])
  PROVE  FirestoreInv' /\ AbstractStep
  <1>0. Vm \in Process
    BY DEF Process
  <1>1. PICK i \in Job : i = op[Vm].id
    BY <1>0, CommitWrites
  <1>2. /\ job'[i].status = "PAUSED_APPROVAL" /\ job'[i].checkpoint # None
        /\ job'[i].failed = job[i].failed /\ job'[i].incident = job[i].incident
        /\ job[i].checkpoint = None
        /\ job'[i].report = job[i].report
        /\ delivery' = delivery
    BY <1>0, <1>1, WorkFacts, CommitWrites DEF Pauses
  <1>3. decision[i] = None
    <2>1. decision[i] # None => decision[i].checkpoint \in Checkpoint
      BY DEF FirestoreInv, TypeOK, DecisionDoc
    <2> QED
      BY <1>2, <2>1, FirestoreConstants DEF FirestoreInv, JobShape
  <1>4. JobShape' /\ LabShape' /\ KeyShape' /\ OutboxMatchesJobs'
    <2>1. ~job'[i].failed
      BY <1>1, <1>2, WorkFacts
    <2>2. ~OwnsLab(i)' /\ decision'[i] = None
      BY <1>1, <1>2, <1>3, WorkFacts DEF OwnsLab, Status
    <2> QED
      BY <1>1, <1>2, <2>1, <2>2, WorkFacts, OneJobWritten
  <1>5. FirestoreInv'
    BY <1>0, <1>4, CommitInv
  <1>6. StageOf(i)' = "paused" /\ ReportOf(i)' = ReportOf(i)
    BY <1>1, <1>2, WorkFacts DEF StageOf, ReportOf, FieldOf
  <1>7. ScenarioOf(i)' = ScenarioOf(i) /\ DecisionOf(i) = None
    BY <1>1, <1>2, <1>3, WorkFacts DEF ScenarioOf, DecisionOf, FieldOf
  <1>8. Shows(i, "paused", ScenarioOf(i), DecisionOf(i), ReportOf(i))
    BY <1>1, <1>6, <1>7, WorkFacts, OthersUnseen
  <1>9. StageOf(i) = "running"
    BY <1>1, WorkFacts
  <1>10. Promise!Pause(i)
    BY <1>7, <1>8, <1>9
    DEF Promise!Pause, Shows, ScenarioOf, DecisionOf, ReportOf
  <1> QED
    BY <1>5, <1>10 DEF AbstractStep, Promise!AbstractNext

(* A job that is given back, or up, lapses.                                *)
LEMMA CommitGivesBack ==
  ASSUME FirestoreInv, OneApi, Commit(Vm), WorkStaged(op[Vm]),
         GivesBack(job[op[Vm].id], op[Vm])
  PROVE  FirestoreInv' /\ AbstractStep
  <1>0. Vm \in Process
    BY DEF Process
  <1>1. PICK i \in Job : i = op[Vm].id
    BY <1>0, CommitWrites
  <1>2. /\ job'[i].status = "QUEUED" /\ job'[i].incident = job[i].incident
        /\ job'[i].checkpoint = job[i].checkpoint
        /\ job'[i].report = job[i].report
        /\ delivery' = delivery
    BY <1>0, <1>1, WorkFacts, CommitWrites DEF GivesBack
  <1>3. JobShape' /\ LabShape' /\ KeyShape' /\ OutboxMatchesJobs'
    <2>1. decision'[i] # None => job'[i].checkpoint = decision'[i].checkpoint
      BY <1>1, <1>2, WorkFacts DEF FirestoreInv, JobShape
    <2>2. OwnsLab(i)' => OwnsLab(i)
      BY <1>1, <1>2, WorkFacts DEF OwnsLab, Status
    <2> QED
      BY <1>1, <1>2, <2>1, <2>2, WorkFacts, OneJobWritten
  <1>4. FirestoreInv'
    BY <1>0, <1>3, CommitInv
  <1>5. PICK to \in {"queued", "failed"} : StageOf(i)' = to
    BY <1>1, <1>2, WorkFacts DEF StageOf
  <1>6. ScenarioOf(i)' = ScenarioOf(i) /\ ReportOf(i)' = ReportOf(i)
    BY <1>1, <1>2, WorkFacts DEF ScenarioOf, ReportOf, FieldOf
  <1>7. Shows(i, to, ScenarioOf(i), DecisionOf(i), ReportOf(i))
    BY <1>1, <1>5, <1>6, WorkFacts, OthersUnseen
  <1>8. StageOf(i) = "running"
    BY <1>1, WorkFacts
  <1>9. Promise!Lapse(i, to)
    BY <1>7, <1>8 DEF Promise!Lapse, Shows, ScenarioOf, DecisionOf, ReportOf
  <1> QED
    BY <1>4, <1>9 DEF AbstractStep, Promise!AbstractNext

(* finalize's batch is the abstract completion, with the outbox entry.     *)
LEMMA CommitCompletes ==
  ASSUME FirestoreInv, OneApi, Commit(Vm), WorkStaged(op[Vm]),
         Completes(job[op[Vm].id], op[Vm])
  PROVE  FirestoreInv' /\ AbstractStep
  <1>0. Vm \in Process
    BY DEF Process
  <1>1. PICK i \in Job : i = op[Vm].id
    BY <1>0, CommitWrites
  <1>2. /\ job'[i].status = "COMPLETED" /\ job'[i].incident = job[i].incident
        /\ job'[i].failed = job[i].failed
        /\ job'[i].checkpoint = job[i].checkpoint
        /\ job'[i].report # None /\ delivery'[i] # None
    BY <1>0, <1>1, WorkFacts, CommitWrites DEF Completes
  <1>3. PICK r \in Report : r = job'[i].report
    BY <1>1, <1>2, WorkFacts DEF JobDoc
  <1>4. JobShape' /\ LabShape' /\ KeyShape' /\ OutboxMatchesJobs'
    <2>1. ~job'[i].failed
      BY <1>1, <1>2, WorkFacts
    <2>2. decision'[i] # None => job'[i].checkpoint = decision'[i].checkpoint
      BY <1>1, <1>2, WorkFacts DEF FirestoreInv, JobShape
    <2>3. ~OwnsLab(i)'
      BY <1>1, <1>2, WorkFacts DEF OwnsLab, Status
    <2> QED
      BY <1>1, <1>2, <2>1, <2>2, <2>3, WorkFacts, OneJobWritten
  <1>5. FirestoreInv'
    BY <1>0, <1>4, CommitInv
  <1>6. StageOf(i)' = "completed" /\ ReportOf(i)' = r
    BY <1>1, <1>2, <1>3, WorkFacts DEF StageOf, ReportOf, FieldOf
  <1>7. ScenarioOf(i)' = ScenarioOf(i)
    BY <1>1, <1>2, WorkFacts DEF ScenarioOf, FieldOf
  <1>8. Shows(i, "completed", ScenarioOf(i), DecisionOf(i), r)
    BY <1>1, <1>6, <1>7, WorkFacts, OthersUnseen
  <1>9. StageOf(i) = "running"
    BY <1>1, WorkFacts
  <1>10. Promise!Complete(i, r)
    BY <1>8, <1>9 DEF Promise!Complete, Shows, ScenarioOf, DecisionOf, ReportOf
  <1> QED
    BY <1>5, <1>10 DEF AbstractStep, Promise!AbstractNext

(* A claim's commit is the abstract start: the lab is still free for the   *)
(* job.                                                                    *)
LEMMA CommitClaim ==
  ASSUME FirestoreInv, OneApi, Commit(Vm), ClaimStaged(op[Vm])
  PROVE  FirestoreInv' /\ AbstractStep
  <1>0. Vm \in Process
    BY DEF Process
  <1>1. PICK i \in Job : i = op[Vm].id
    BY <1>0, CommitWrites
  <1>2. /\ job[i] # None /\ i \in Stored(job)
        /\ job[i].status = "QUEUED" /\ ~job[i].failed
        /\ LabIsFreeFor(i)
    BY <1>1 DEF ClaimStaged, Status, Stored
  <1>3. /\ job'[i] # None /\ job'[i].status = "RUNNING" /\ ~job'[i].failed
        /\ job'[i].key = job[i].key /\ job'[i].incident = job[i].incident
        /\ job'[i].checkpoint = job[i].checkpoint
        /\ job'[i].report = job[i].report
        /\ decision' = decision /\ delivery' = delivery
        /\ \A k \in Job \ {i} : /\ job'[k] = job[k] /\ decision'[k] = decision[k]
                                /\ delivery'[k] = delivery[k]
    BY <1>0, <1>1, CommitWrites DEF ClaimStaged
  <1>4. JobShape' /\ LabShape' /\ KeyShape' /\ OutboxMatchesJobs'
    <2>1. i \in Stored(job)' /\ delivery[i] = None
      BY <1>2, <1>3 DEF Stored, FirestoreInv, OutboxMatchesJobs
    <2>2. decision'[i] # None => job'[i].checkpoint = decision'[i].checkpoint
      BY <1>2, <1>3 DEF FirestoreInv, JobShape
    <2>3. OwnsLab(i)' => OwnsLab(i)
      BY <1>2, <1>3 DEF OwnsLab, Status
    <2> QED
      BY <1>2, <1>3, <2>1, <2>2, <2>3, OneJobWritten DEF LabIsFreeFor
  <1>5. FirestoreInv'
    BY <1>0, <1>4, CommitInv
  <1>6. /\ StageOf(i) = "queued" /\ StageOf(i)' = "running"
        /\ DecisionOf(i)' = DecisionOf(i) /\ ReportOf(i)' = ReportOf(i)
    BY <1>2, <1>3 DEF StageOf, DecisionOf, ReportOf, FieldOf
  <1>7. ScenarioOf(i)' = ScenarioOf(i)
    BY <1>2, <1>3 DEF ScenarioOf, FieldOf
  <1>8. Shows(i, "running", ScenarioOf(i), DecisionOf(i), ReportOf(i))
    BY <1>3, <1>6, <1>7, OthersUnseen
  <1>9. \A k \in Job : StageOf(k) # "running"
    <2> SUFFICES ASSUME NEW k \in Job, StageOf(k) = "running" PROVE FALSE
      OBVIOUS
    <2>1. ~Status(k, "RUNNING")
      BY <1>2 DEF LabIsFreeFor
    <2>2. job[k] = None \/ (job[k] # None /\ job[k].status # "RUNNING")
      BY <2>1 DEF Status, Stored
    <2>3. job[k] # None => job[k].status \in {"QUEUED", "PAUSED_APPROVAL", "COMPLETED"}
      BY <2>2 DEF FirestoreInv, TypeOK, JobDoc
    <2> QED
      BY <2>2, <2>3 DEF StageOf
  <1>10. ASSUME DecisionOf(i) = None, NEW k \in Job \ {i},
                StageOf(k) \in {"queued", "running"}, ScenarioOf(k),
                DecisionOf(k) = None
         PROVE  FALSE
    <2>1. \A l \in Job : DecisionOf(l) = None => decision[l] = None
      BY FirestoreConstants DEF DecisionOf, FieldOf, FirestoreInv, TypeOK,
                                DecisionDoc
    <2>2. StageOf(k) = "queued"
      BY <1>9, <1>10
    <2>3. job[k] # None /\ ~job[k].failed /\ job[k].status = "QUEUED"
      <3>1. job[k] = None \/ job[k] \in JobDoc
        BY DEF FirestoreInv, TypeOK
      <3>2. job[k] # None /\ ~job[k].failed
        BY <2>2 DEF StageOf
      <3>3. job[k].status \in {"QUEUED", "RUNNING", "PAUSED_APPROVAL", "COMPLETED"}
        BY <3>1, <3>2 DEF JobDoc
      <3> QED
        BY <2>2, <3>2, <3>3 DEF StageOf
    <2>4. job[k].incident
      BY <1>10, <2>3 DEF ScenarioOf, FieldOf
    <2>5. OwnsLab(k)
      BY <1>10, <2>1, <2>3, <2>4 DEF OwnsLab, Status, Stored
    <2> QED
      BY <1>2, <1>10, <2>1, <2>5 DEF LabIsFreeFor
  <1>11. Promise!Start(i)
    BY <1>6, <1>8, <1>9, <1>10
    DEF Promise!Start, Promise!MayStart, Promise!KeepsLab, Shows, ScenarioOf,
        DecisionOf, ReportOf
  <1> QED
    BY <1>5, <1>11 DEF AbstractStep, Promise!AbstractNext

(* The outbox is not part of the promise: its commits show nothing.        *)
LEMMA CommitDelivery ==
  ASSUME FirestoreInv, OneApi, Commit(Vm), DeliveryStaged(op[Vm])
  PROVE  FirestoreInv' /\ AbstractStep
  <1>0. Vm \in Process
    BY DEF Process
  <1>1. PICK i \in Job : i = op[Vm].id
    BY <1>0, CommitWrites
  <1>2. /\ job' = job /\ decision' = decision
        /\ delivery[i] # None /\ delivery'[i] # None
        /\ \A k \in Job \ {i} : delivery'[k] = delivery[k]
    BY <1>0, <1>1, CommitWrites DEF DeliveryStaged, Stored
  <1>3. JobShape' /\ LabShape' /\ KeyShape'
    BY <1>2 DEF FirestoreInv, JobShape, LabShape, KeyShape, Status,
                OwnsLab, Stored
  <1>4. OutboxMatchesJobs'
    BY <1>2 DEF FirestoreInv, OutboxMatchesJobs, Stored
  <1>5. FirestoreInv'
    BY <1>0, <1>3, <1>4, CommitInv
  <1>6. /\ StageOf(i)' = StageOf(i) /\ ScenarioOf(i)' = ScenarioOf(i)
        /\ DecisionOf(i)' = DecisionOf(i) /\ ReportOf(i)' = ReportOf(i)
    BY <1>2 DEF StageOf, ScenarioOf, DecisionOf, ReportOf, FieldOf
  <1>7. Shows(i, StageOf(i), ScenarioOf(i), DecisionOf(i), ReportOf(i))
    BY <1>2, <1>6, OthersUnseen
  <1> QED
    BY <1>5, <1>7, Invisible

(* Every commit keeps the invariant and is a step of the promise.          *)
LEMMA CommitStep ==
  ASSUME FirestoreInv, OneApi, NEW p \in Process, Commit(p)
  PROVE  FirestoreInv' /\ AbstractStep
  <1>1. CASE p \in Api
    <2>1. CreateStaged(op[p]) \/ DecideStaged(op[p])
      BY <1>1, CommitWrites DEF FirestoreInv, StagedShape
    <2> QED
      BY <1>1, <2>1, CommitCreate, CommitDecide
  <1>2. CASE p = Vm
    <2>1. WorkStaged(op[Vm]) \/ ClaimStaged(op[Vm]) \/ DeliveryStaged(op[Vm])
      BY <1>2, CommitWrites DEF FirestoreInv, StagedShape
    <2>2. CASE WorkStaged(op[Vm])
      BY <1>2, <2>2, CommitKeeps, CommitPauses, CommitGivesBack, CommitCompletes
      DEF WorkStaged
    <2> QED
      BY <1>2, <2>1, <2>2, CommitClaim, CommitDelivery
  <1> QED
    BY <1>1, <1>2 DEF Process

-----------------------------------------------------------------------------
(* The theorems.                                                           *)

(* A step either commits a staged write or leaves every document alone.    *)
LEMMA StepKind ==
  ASSUME [Next]_vars
  PROVE  UNCHANGED docs \/ \E p \in Process : Commit(p)
  <1> USE DEF docs, Stage, StageClaim
  <1>1. CASE \E p \in Api : OwnerCall(p)
    BY <1>1 DEF OwnerCall, Create, Decide
  <1>2. ASSUME NEW j \in Job, NEW t \in known, WorkerCall(j, t)
        PROVE  UNCHANGED docs
    BY <1>2 DEF WorkerCall, RenewRunning, ReserveIncident, MarkPaused,
                RequeueRunning, RetryRunning, Finalize, MarkDelivered,
                RenewDelivery, ReleaseDelivery, RetryDelivery
  <1>3. CASE Poll
    BY <1>3 DEF Poll, ReclaimInvestigation, ReclaimDelivery, ClaimNext,
                ClaimDelivery, ClaimNothing, ReturnClaim
  <1>4. CASE Crash \/ Tick \/ UNCHANGED vars \/ \E p \in Process : Fault(p)
    BY <1>4 DEF Crash, Tick, Fault, vars
  <1> QED
    BY <1>1, <1>2, <1>3, <1>4 DEF Next

(* Time passing, and nothing happening, keep the invariant.                *)
LEMMA TickInv ==
  ASSUME FirestoreInv, Tick \/ UNCHANGED vars
  PROVE  FirestoreInv'
  <1> USE DEF FirestoreInv
  <1>1. /\ UNCHANGED <<docs, op, known, tokens, faults>>
        /\ now' \in Nat /\ now <= now'
    BY DEF Tick, vars, docs, TypeOK
  <1>2. JobShape' /\ LabShape' /\ KeyShape' /\ OutboxMatchesJobs'
    BY <1>1, DocsKept
  <1>3. TypeOK' /\ ClaimShape'
    BY <1>1 DEF docs, TypeOK, ClaimShape
  <1>4. StagedShape'
    <2>1. \A q \in Process : /\ op'[q].step = "write" => op'[q].id \in Job
                             /\ op'[q].at <= now'
      <3> SUFFICES ASSUME NEW q \in Process
                   PROVE  /\ op'[q].step = "write" => op'[q].id \in Job
                          /\ op'[q].at <= now'
        OBVIOUS
      <3>1. op[q].at \in Nat /\ op[q].at <= now /\ now \in Nat
        BY DEF TypeOK, CallState, StagedShape
      <3> QED
        BY <1>1, <3>1 DEF StagedShape
    <2>2. \A q \in Api : op'[q].step = "write" =>
            (CreateStaged(op[q]) \/ DecideStaged(op[q]))'
      BY <1>1, StagedKept DEF StagedShape, Process
    <2>3. op'[Vm].step = "write" =>
            (\/ WorkStaged(op[Vm]) \/ ClaimStaged(op[Vm])
             \/ DeliveryStaged(op[Vm]))'
      BY <1>1, StagedKept DEF StagedShape, Process
    <2> QED
      BY <2>1, <2>2, <2>3 DEF StagedShape
  <1> QED
    BY <1>2, <1>3, <1>4

(* Every step keeps the invariant.                                         *)
LEMMA StepInv ==
  ASSUME FirestoreInv, OneApi, [Next]_vars
  PROVE  FirestoreInv'
  <1>1. CASE \E p \in Api : OwnerCall(p)
    BY <1>1, CreateInv, DecideInv DEF OwnerCall
  <1>2. ASSUME NEW j \in Job, NEW t \in known, WorkerCall(j, t)
        PROVE  FirestoreInv'
    BY <1>2, KeepInv, PauseInv, FinalizeInv, GiveBackInv, OutboxInv
    DEF WorkerCall
  <1>3. CASE Poll
    BY <1>3, ReclaimInv, ClaimInv, OutboxInv, LeaveInv DEF Poll
  <1>4. CASE \E p \in Process : Commit(p) \/ Fault(p)
    BY <1>4, CommitStep, LeaveInv
  <1>5. CASE Crash \/ Tick \/ UNCHANGED vars
    BY <1>5, LeaveInv, TickInv
  <1> QED
    BY <1>1, <1>2, <1>3, <1>4, <1>5 DEF Next

(* The inductive invariant holds in every reachable state, whatever the    *)
(* interleaving of the two processes' reads and commits.                   *)
THEOREM FirestoreInvariant ==
  ASSUME OneApi
  PROVE  Spec => []FirestoreInv
  <1>1. FirestoreInv /\ [Next]_vars => FirestoreInv'
    BY StepInv
  <1> QED
    BY <1>1, InitInv, PTL DEF Spec

(* A report is in the outbox exactly when its job is completed, at every   *)
(* instant and through any crashes around finalize.                        *)
THEOREM OutboxAgrees ==
  ASSUME OneApi
  PROVE  Spec => []OutboxMatchesJobs
  <1>1. FirestoreInv => OutboxMatchesJobs
    BY DEF FirestoreInv
  <1> QED
    BY <1>1, FirestoreInvariant, PTL

(* No commit ends a claim whose lease is running except with its token: a  *)
(* poll judged the lease by a clock that had already passed it, and an     *)
(* owner's write goes to a paused job.                                     *)
THEOREM LiveClaimsAreKept ==
  ASSUME OneApi
  PROVE  Spec => LiveClaimKept
  <1>1. FirestoreInv /\ [Next]_vars => [\A j \in Job : ClaimKept(j)]_vars
    <2> SUFFICES ASSUME FirestoreInv, [Next]_vars, NEW j \in Job,
                        Status(j, "RUNNING"), job[j].expires > now,
                        job'[j].token # job[j].token
                 PROVE  op[Vm].by = job[j].token
      BY DEF ClaimKept, Status
    <2>1. PICK p \in Process : Commit(p)
      BY StepKind DEF docs
    <2>2. j = op[p].id /\ op[p].job # None /\ job'[j] = op[p].job
      BY <2>1, CommitWrites
    <2>3. p \notin Api
      <3> SUFFICES ASSUME p \in Api PROVE FALSE
        OBVIOUS
      <3>1. CreateStaged(op[p]) \/ DecideStaged(op[p])
        BY <2>1, CommitWrites DEF FirestoreInv, StagedShape
      <3> QED
        BY <2>2, <3>1 DEF CreateStaged, DecideStaged, Status
    <2>4. p = Vm
      BY <2>3 DEF Process
    <2>5. WorkStaged(op[Vm])
      <3>1. \/ WorkStaged(op[Vm]) \/ ClaimStaged(op[Vm])
            \/ DeliveryStaged(op[Vm])
        BY <2>1, <2>4, CommitWrites DEF FirestoreInv, StagedShape
      <3> QED
        BY <2>2, <2>4, <3>1 DEF ClaimStaged, DeliveryStaged, Status
    <2>6. ~Keeps(job[j], op[Vm])
      BY <2>2, <2>4 DEF Keeps
    <2>7. ~(job[j].expires <= op[Vm].at)
      <3>1. job[j] \in JobDoc /\ op[Vm] \in CallState /\ now \in Nat
            /\ op[Vm].at <= now
        BY DEF FirestoreInv, TypeOK, StagedShape, Status, Stored, Process
      <3>2. job[j].expires \in Nat /\ op[Vm].at \in Nat
        BY <3>1 DEF JobDoc, CallState
      <3> QED
        BY <3>1, <3>2
    <2> QED
      BY <2>2, <2>4, <2>5, <2>6, <2>7 DEF WorkStaged
  <1> QED
    BY <1>1, FirestoreInvariant, PTL DEF Spec, LiveClaimKept

(* The documents implement the abstract control plane: every commit is one *)
(* of its steps or shows nothing, and nothing else shows at all.           *)
THEOREM FirestoreImplementsControlPlane ==
  ASSUME OneApi
  PROVE  Spec => KeepsPromise
  <1>1. Init => Promise!AbstractInit
    BY DEF Init, Promise!AbstractInit, StageOf, FieldOf
  <1>2. FirestoreInv /\ [Next]_vars => [Promise!AbstractNext]_(Promise!abstractVars)
    <2> SUFFICES ASSUME FirestoreInv, [Next]_vars PROVE AbstractStep
      BY DEF AbstractStep
    <2>1. CASE UNCHANGED docs
      BY <2>1 DEF docs, AbstractStep, Promise!abstractVars, StageOf, FieldOf
    <2>2. CASE \E p \in Process : Commit(p)
      BY <2>2, CommitStep
    <2> QED
      BY <2>1, <2>2, StepKind
  <1> QED
    BY <1>1, <1>2, FirestoreInvariant, PTL DEF Spec, KeepsPromise,
       Promise!AbstractSpec
=============================================================================
