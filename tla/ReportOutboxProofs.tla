------------------------- MODULE ReportOutboxProofs -------------------------
(***************************************************************************)
(* What the report outbox guarantees for every number of deliveries and    *)
(* workers, every lease, back-off and attempt limit, and every             *)
(* interleaving of polls, sends, heartbeats, crashes and the clock.  The   *)
(* properties are proved from one inductive invariant, OutboxInv.          *)
(***************************************************************************)
EXTENDS ReportOutbox, TLAPS

(* A back-off is an integer: availableAt never leaves its type.            *)
LEMMA RetryDelayInt == \A n \in Nat : RetryDelay(n + 1) \in Int
  BY OutboxConstants DEF RetryDelay

(* The reclaim inside claim_delivery counts an attempt of an expired row,  *)
(* which is one that was still allowed.                                    *)
LEMMA ReclaimFacts ==
  ASSUME OutboxInv
  PROVE  /\ StatusAfterReclaim \in [Job -> {"ABSENT", "PENDING", "SENDING", "SENT"}]
         /\ AttemptsAfterReclaim \in [Job -> 0..MaxAttempts]
         /\ FailedAfterReclaim \in [Job -> BOOLEAN]
         /\ AvailableAfterReclaim \in [Job -> Int]
         /\ \A j \in Job \ Expired :
               /\ StatusAfterReclaim[j] = status[j]
               /\ AttemptsAfterReclaim[j] = attemptCount[j]
               /\ FailedAfterReclaim[j] = failed[j]
         /\ \A j \in Expired :
               /\ j \in Job /\ status[j] = "SENDING" /\ claimExpiresAt[j] <= now
               /\ StatusAfterReclaim[j] = "PENDING"
               /\ AttemptsAfterReclaim[j] = attemptCount[j] + 1
               /\ FailedAfterReclaim[j] <=> attemptCount[j] + 1 = MaxAttempts
  <1> USE OutboxConstants DEF OutboxInv
  <1>1. \A j \in Expired : /\ j \in Job
                           /\ status[j] = "SENDING"
                           /\ claimExpiresAt[j] <= now
                           /\ ~failed[j]
                           /\ attemptCount[j] + 1 \in 1..MaxAttempts
    BY DEF Expired, DeliveryShape, TypeOK
  <1>2. AvailableAfterReclaim \in [Job -> Int]
    BY <1>1, RetryDelayInt DEF AvailableAfterReclaim, TypeOK
  <1>3. StatusAfterReclaim \in [Job -> {"ABSENT", "PENDING", "SENDING", "SENT"}]
    BY DEF StatusAfterReclaim, TypeOK
  <1>4. AttemptsAfterReclaim \in [Job -> 0..MaxAttempts]
    BY <1>1 DEF AttemptsAfterReclaim, TypeOK
  <1>5. FailedAfterReclaim \in [Job -> BOOLEAN]
    BY Zenon DEF FailedAfterReclaim
  <1>6. \A j \in Job \ Expired :
               /\ StatusAfterReclaim[j] = status[j]
               /\ AttemptsAfterReclaim[j] = attemptCount[j]
    BY DEF StatusAfterReclaim, AttemptsAfterReclaim
  <1>7. \A j \in Expired :
               /\ StatusAfterReclaim[j] = "PENDING"
               /\ AttemptsAfterReclaim[j] = attemptCount[j] + 1
    BY <1>1 DEF StatusAfterReclaim, AttemptsAfterReclaim
  <1>8. \A j \in Job \ Expired : FailedAfterReclaim[j] = failed[j]
    <2>1. \A j \in Job : failed[j] \in BOOLEAN
      BY DEF TypeOK
    <2> QED
      BY <2>1, Zenon DEF FailedAfterReclaim
  <1>9. \A j \in Expired : FailedAfterReclaim[j] <=> attemptCount[j] + 1 = MaxAttempts
    <2>1. \A j \in Expired : Exhausted(attemptCount[j] + 1)
                              <=> attemptCount[j] + 1 = MaxAttempts
      BY <1>1 DEF Exhausted
    <2> QED
      BY <1>1, <2>1, Zenon DEF FailedAfterReclaim
  <1> QED
    BY <1>1, <1>2, <1>3, <1>4, <1>5, <1>6, <1>7, <1>8, <1>9

(* A worker that leaves run_once forgets its claim.                        *)
LEMMA ForgetType ==
  ASSUME TypeOK, NEW w \in Worker, Forget(w)
  PROVE  /\ pc' \in [Worker -> {"idle", "claimed", "sent", "failing"}]
         /\ job' \in [Worker -> Job \cup {None}]
         /\ token' \in [Worker -> Nat]
         /\ heartbeatFailed' \in [Worker -> BOOLEAN]
  BY DEF TypeOK, Forget

(* No delivery exists yet.                                                 *)
LEMMA InitInv == Init => OutboxInv
  BY OutboxConstants
     DEF Init, OutboxInv, TypeOK, DeliveryShape, WorkerShape, SentIsHandedOff

(* finalize adds a row nobody has claimed.                                 *)
LEMMA EnqueueInv ==
  ASSUME OutboxInv, NEW j \in Job, Enqueue(j)
  PROVE  OutboxInv'
  <1> USE OutboxConstants
      DEF OutboxInv, Enqueue, claimVars, retryVars, workerVars
  <1>1. TypeOK'
    BY DEF TypeOK
  <1>2. DeliveryShape'
    BY DEF DeliveryShape, TypeOK
  <1>3. WorkerShape'
    BY DEF WorkerShape
  <1>4. SentIsHandedOff'
    BY DEF SentIsHandedOff, TypeOK
  <1> QED
    BY <1>1, <1>2, <1>3, <1>4

(* A poll that finds nothing leaves its reclaims.                          *)
LEMMA ClaimNothingInv ==
  ASSUME OutboxInv, NEW w \in Worker, ClaimNothing(w)
  PROVE  OutboxInv'
  <1> USE OutboxConstants, ReclaimFacts
      DEF OutboxInv, ClaimNothing, Reclaim, workerVars
  <1>1. TypeOK'
    BY DEF TypeOK
  <1>2. DeliveryShape'
    BY DEF DeliveryShape, TypeOK
  <1>3. WorkerShape'
    BY DEF WorkerShape
  <1>4. SentIsHandedOff'
    BY DEF SentIsHandedOff, TypeOK
  <1> QED
    BY <1>1, <1>2, <1>3, <1>4

(* A claim takes a row with attempts left and issues the next token.       *)
LEMMA ClaimDeliveryInv ==
  ASSUME OutboxInv, NEW w \in Worker, NEW j \in Job, ClaimDelivery(w, j)
  PROVE  OutboxInv'
  <1> USE OutboxConstants, ReclaimFacts
      DEF OutboxInv, ClaimDelivery, Reclaim
  <1>1. StatusAfterReclaim[j] = "PENDING" /\ ~FailedAfterReclaim[j]
    BY DEF First, Deliverable
  <1>2. TypeOK'
    BY DEF TypeOK
  <1>3. DeliveryShape'
    BY <1>1 DEF DeliveryShape, TypeOK
  <1>4. WorkerShape'
    BY DEF WorkerShape, TypeOK
  <1>5. SentIsHandedOff'
    BY DEF SentIsHandedOff, TypeOK
  <1> QED
    BY <1>2, <1>3, <1>4, <1>5

(* send() only adds hand-off files, whether it returns or raises.          *)
LEMMA SendInv ==
  ASSUME OutboxInv, NEW w \in Worker, Send(w) \/ SendFails(w)
  PROVE  OutboxInv'
  <1> USE OutboxConstants DEF OutboxInv, rowVars, claimVars, retryVars
  <1>1. PICK linked \in BOOLEAN, to \in {"sent", "failing"} :
          /\ pc[w] = "claimed"
          /\ to = "sent" => linked
          /\ spooled' = [spooled EXCEPT ![job[w]] = @ \/ linked]
          /\ pc' = [pc EXCEPT ![w] = to]
          /\ UNCHANGED <<rowVars, claims, job, token, heartbeatFailed, now>>
    <2>1. CASE Send(w)
      <3>1. (spooled[job[w]] \/ TRUE) = TRUE
        OBVIOUS
      <3> QED
        BY <2>1, <3>1 DEF Send
    <2>2. CASE SendFails(w)
      BY <2>2 DEF SendFails
    <2> QED
      BY <2>1, <2>2
  <1>2. job[w] \in Job
    BY <1>1 DEF WorkerShape
  <1>3. spooled' \in [Job -> BOOLEAN]
    BY <1>1, <1>2 DEF TypeOK
  <1>4. \A j \in Job : spooled[j] => spooled'[j]
    BY <1>1, <1>2 DEF TypeOK
  <1>5. to = "sent" => spooled'[job[w]]
    BY <1>1, <1>2 DEF TypeOK
  <1>6. TypeOK'
    BY <1>1, <1>3 DEF TypeOK
  <1>7. DeliveryShape'
    BY <1>1 DEF DeliveryShape
  <1>8. WorkerShape'
    BY <1>1, <1>2, <1>4, <1>5 DEF WorkerShape, TypeOK
  <1>9. SentIsHandedOff'
    BY <1>1, <1>4 DEF SentIsHandedOff
  <1> QED
    BY <1>6, <1>7, <1>8, <1>9

(* mark_delivered comes after send(): the file is there.                   *)
LEMMA MarkDeliveredInv ==
  ASSUME OutboxInv, NEW w \in Worker, MarkDelivered(w)
  PROVE  OutboxInv'
  <1> USE OutboxConstants
      DEF OutboxInv, MarkDelivered, CurrentClaim, Forget, retryVars
  <1>1. job[w] \in Job /\ spooled[job[w]]
    BY DEF WorkerShape
  <1>2. TypeOK'
    BY <1>1 DEF TypeOK
  <1>3. DeliveryShape'
    BY <1>1 DEF DeliveryShape, TypeOK
  <1>4. WorkerShape'
    BY DEF WorkerShape, TypeOK
  <1>5. SentIsHandedOff'
    BY <1>1 DEF SentIsHandedOff, TypeOK
  <1> QED
    BY <1>2, <1>3, <1>4, <1>5

(* retry_delivery counts the attempt of the claim it ends.                 *)
LEMMA RetryDeliveryInv ==
  ASSUME OutboxInv, NEW w \in Worker, RetryDelivery(w)
  PROVE  OutboxInv'
  <1> USE OutboxConstants DEF OutboxInv
  <1>1. PICK j \in Job : j = job[w] /\ status[j] = "SENDING"
    BY DEF RetryDelivery, HoldsToken, WorkerShape
  <1>2. ~failed[j] /\ attemptCount[j] + 1 \in 1..MaxAttempts
    BY <1>1 DEF DeliveryShape, TypeOK
  <1>3. PICK f \in BOOLEAN :
          /\ f <=> attemptCount[j] + 1 = MaxAttempts
          /\ failed' = [failed EXCEPT ![j] = f]
    <2>1. Exhausted(attemptCount[j] + 1) <=> attemptCount[j] + 1 = MaxAttempts
      BY <1>2 DEF Exhausted
    <2>2. failed' = [failed EXCEPT
                       ![j] = failed[j] \/ Exhausted(attemptCount[j] + 1)]
      BY <1>1 DEF RetryDelivery, ScheduleRetry
    <2> QED
      BY <2>1, <2>2, <1>2, Zenon
  <1>4. availableAt' \in [Job -> Int]
    <2>1. now + RetryDelay(attemptCount[j] + 1) \in Int
      BY <1>2, RetryDelayInt DEF TypeOK
    <2>2. \/ availableAt' = availableAt
          \/ availableAt' = [availableAt EXCEPT
                               ![j] = now + RetryDelay(attemptCount[j] + 1)]
      BY <1>1 DEF RetryDelivery, ScheduleRetry
    <2> QED
      BY <2>1, <2>2 DEF TypeOK
  <1>5. /\ status' = [status EXCEPT ![j] = "PENDING"]
        /\ claimToken' = [claimToken EXCEPT ![j] = 0]
        /\ claimExpiresAt' = [claimExpiresAt EXCEPT ![j] = 0]
        /\ attemptCount' = [attemptCount EXCEPT ![j] = attemptCount[j] + 1]
        /\ Forget(w)
        /\ UNCHANGED <<spooled, claims, now>>
    BY <1>1 DEF RetryDelivery, ScheduleRetry
  <1>6. TypeOK'
    <2>1. failed' \in [Job -> BOOLEAN]
      BY <1>3 DEF TypeOK
    <2>2. attemptCount' \in [Job -> 0..MaxAttempts]
      BY <1>2, <1>5 DEF TypeOK
    <2>3. /\ status' \in [Job -> {"ABSENT", "PENDING", "SENDING", "SENT"}]
          /\ claimToken' \in [Job -> Nat]
          /\ claimExpiresAt' \in [Job -> Nat]
      BY <1>5 DEF TypeOK
    <2> QED
      BY <1>4, <1>5, <2>1, <2>2, <2>3, ForgetType DEF TypeOK
  <1>7. DeliveryShape'
    BY <1>1, <1>2, <1>3, <1>5 DEF DeliveryShape, TypeOK
  <1>8. WorkerShape'
    BY <1>5 DEF WorkerShape, TypeOK, Forget
  <1>9. SentIsHandedOff'
    BY <1>5 DEF SentIsHandedOff, TypeOK
  <1> QED
    BY <1>6, <1>7, <1>8, <1>9

(* Steps that end or fail a worker's run_once and leave the row alone.     *)
LEMMA WorkerOnlyInv ==
  ASSUME OutboxInv, NEW w \in Worker,
         MarkRefused(w) \/ RetryConflict(w) \/ HeartbeatFails(w) \/ Crash(w)
  PROVE  OutboxInv'
  <1> USE OutboxConstants
      DEF OutboxInv, MarkRefused, RetryConflict, HeartbeatFails, Crash,
          rowVars, claimVars, retryVars
  <1>1. TypeOK'
    <2>1. CASE MarkRefused(w)
      BY <2>1 DEF TypeOK
    <2>2. CASE HeartbeatFails(w)
      BY <2>2 DEF TypeOK
    <2>3. CASE RetryConflict(w) \/ Crash(w)
      BY <2>3, ForgetType DEF TypeOK
    <2> QED
      BY <2>1, <2>2, <2>3
  <1>2. DeliveryShape'
    BY DEF DeliveryShape
  <1>3. WorkerShape'
    BY DEF WorkerShape, TypeOK, Forget
  <1>4. SentIsHandedOff'
    BY DEF SentIsHandedOff
  <1> QED
    BY <1>1, <1>2, <1>3, <1>4

(* A renewal only moves the end of a lease.                                *)
LEMMA HeartbeatInv ==
  ASSUME OutboxInv, NEW w \in Worker, Heartbeat(w)
  PROVE  OutboxInv'
  <1> USE OutboxConstants DEF OutboxInv, Heartbeat, retryVars, workerVars
  <1>1. TypeOK'
    BY DEF TypeOK, WorkerShape
  <1>2. DeliveryShape' /\ WorkerShape' /\ SentIsHandedOff'
    BY DEF DeliveryShape, WorkerShape, SentIsHandedOff
  <1> QED
    BY <1>1, <1>2

(* The clock and stuttering.                                               *)
LEMMA ClockInv ==
  ASSUME OutboxInv, Tick \/ UNCHANGED vars
  PROVE  OutboxInv'
  <1> USE OutboxConstants
      DEF OutboxInv, Tick, rowVars, claimVars, retryVars, workerVars, vars
  <1>1. TypeOK'
    BY DEF TypeOK
  <1>2. DeliveryShape' /\ WorkerShape' /\ SentIsHandedOff'
    BY DEF DeliveryShape, WorkerShape, SentIsHandedOff
  <1> QED
    BY <1>1, <1>2

(* Every step keeps the invariant.                                         *)
LEMMA NextInv == OutboxInv /\ [Next]_vars => OutboxInv'
  <1> SUFFICES ASSUME OutboxInv, [Next]_vars PROVE OutboxInv'
    OBVIOUS
  <1>1. CASE \E j \in Job : Enqueue(j)
    BY <1>1, EnqueueInv
  <1>2. CASE \E w \in Worker : Poll(w)
    BY <1>2, ClaimNothingInv, ClaimDeliveryInv DEF Poll
  <1>3. CASE \E w \in Worker : Deliver(w)
    BY <1>3, SendInv, MarkDeliveredInv, RetryDeliveryInv, WorkerOnlyInv DEF Deliver
  <1>4. CASE \E w \in Worker : Heartbeat(w) \/ HeartbeatFails(w) \/ Crash(w)
    BY <1>4, HeartbeatInv, WorkerOnlyInv
  <1>5. CASE Tick \/ UNCHANGED vars
    BY <1>5, ClockInv
  <1> QED
    BY <1>1, <1>2, <1>3, <1>4, <1>5 DEF Next

(* The rows of report_deliveries and the workers' run_once keep the shape  *)
(* OutboxInv describes, forever.                                           *)
THEOREM OutboxInvariant == Spec => []OutboxInv
  BY InitInv, NextInv, PTL DEF Spec

(* Every column and every worker variable keeps its type; no row ever      *)
(* counts more attempts than max_delivery_attempts.                        *)
THEOREM OutboxTypeCorrect == Spec => []TypeOK
  <1>1. OutboxInv => TypeOK
    BY DEF OutboxInv
  <1> QED
    BY <1>1, OutboxInvariant, PTL

(* A delivery recorded as SENT by mark_delivered was handed off by send(), *)
(* whichever worker sent it.                                               *)
THEOREM SentWasHandedOff == Spec => []SentIsHandedOff
  <1>1. OutboxInv => SentIsHandedOff
    BY DEF OutboxInv
  <1> QED
    BY <1>1, OutboxInvariant, PTL

(* claim_delivery hands a delivery out at most max_delivery_attempts times *)
(* and failure_reason is set after exactly that many, although both        *)
(* reclaim and retry_delivery advance the counter.                         *)
THEOREM BudgetIsExact == Spec => []DeliveryBudget
  <1>1. OutboxInv => DeliveryBudget
    BY OutboxConstants DEF OutboxInv, DeliveryShape, DeliveryBudget, TypeOK
  <1> QED
    BY <1>1, OutboxInvariant, PTL

(* While a lease lasts, only the worker that holds the claim ends it: no   *)
(* poll, and no late call with an older token, does.                       *)
THEOREM HolderEndsClaim == Spec => OnlyHolderEndsClaim
  <1> DEFINE Ends(j) ==
        status[j] = "SENDING" /\ claimExpiresAt[j] > now
          /\ claimToken'[j] # claimToken[j] =>
            \E w \in Worker :
                /\ job[w] = j
                /\ token[w] = claimToken[j]
                /\ pc[w] # "idle" /\ pc'[w] = "idle"
  <1>1. ASSUME OutboxInv, [Next]_vars PROVE \A j \in Job : Ends(j)
    <2> SUFFICES ASSUME NEW j \in Job, status[j] = "SENDING",
                        claimExpiresAt[j] > now,
                        claimToken'[j] # claimToken[j]
                 PROVE  \E w \in Worker :
                           /\ job[w] = j
                           /\ token[w] = claimToken[j]
                           /\ pc[w] # "idle" /\ pc'[w] = "idle"
      OBVIOUS
    <2> USE <1>1 DEF OutboxInv
    <2>1. j \notin Expired
      BY DEF Expired, TypeOK
    <2>2. ASSUME NEW w \in Worker, ClaimNothing(w) PROVE FALSE
      BY <2>1, <2>2 DEF ClaimNothing
    <2>3. ASSUME NEW w \in Worker, NEW k \in Job, ClaimDelivery(w, k)
          PROVE FALSE
      <3>1. k # j
        BY <2>1, <2>3, ReclaimFacts DEF ClaimDelivery, First, Deliverable
      <3> QED
        BY <2>1, <2>3, <3>1 DEF ClaimDelivery
    <2>4. ASSUME NEW w \in Worker, MarkDelivered(w)
          PROVE  /\ job[w] = j /\ token[w] = claimToken[j]
                 /\ pc[w] # "idle" /\ pc'[w] = "idle"
      BY <2>4 DEF MarkDelivered, CurrentClaim, Forget, TypeOK, WorkerShape
    <2>5. ASSUME NEW w \in Worker, RetryDelivery(w)
          PROVE  /\ job[w] = j /\ token[w] = claimToken[j]
                 /\ pc[w] # "idle" /\ pc'[w] = "idle"
      BY <2>5 DEF RetryDelivery, HoldsToken, ScheduleRetry, Forget, TypeOK,
                  WorkerShape
    <2>6. \E w \in Worker : \/ ClaimNothing(w)
                            \/ \E k \in Job : ClaimDelivery(w, k)
                            \/ MarkDelivered(w)
                            \/ RetryDelivery(w)
      BY DEF Next, Poll, Deliver, Enqueue, Send, SendFails, MarkRefused,
             RetryConflict, Heartbeat, HeartbeatFails, Crash, Tick, vars,
             rowVars, claimVars
    <2> QED
      BY <2>2, <2>3, <2>4, <2>5, <2>6
  <1>2. OutboxInv /\ [Next]_vars => [\A j \in Job : Ends(j)]_vars
    BY <1>1
  <1> QED
    BY <1>2, OutboxInvariant, PTL DEF Spec, OnlyHolderEndsClaim
=============================================================================
