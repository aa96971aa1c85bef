----------------------- MODULE InvestigationGraphProofs -----------------------
(***************************************************************************)
(* Proofs about InvestigationGraph for all budgets, checks and numbers of  *)
(* process deaths.                                                         *)
(*                                                                         *)
(* The invariant ties the counters of the state to the place in the graph: *)
(* a turn may start only with two calls left, every successful turn costs  *)
(* exactly one call that is no repair, and a turn takes three supersteps.  *)
(***************************************************************************)
EXTENDS InvestigationGraph, FiniteSetTheorems, TLAPS

\* The part of TypeOK the arithmetic needs.
Numbers ==
    /\ mode \in {"owner", "scored", "baseline"}
    /\ node \in Node
    /\ phase \in {"running", "paused", "returned"}
    /\ modelTurn \in Nat /\ modelCalls \in Nat /\ repairs \in 0..Repairs
    /\ steps \in Nat /\ asked \in Nat /\ crashes \in Nat

\* How many calls are left at each node, and what they pay for.
CallsAt ==
    /\ modelTurn <= modelCalls - repairs
    /\ CallsLeft >= 0
    /\ node = "investigate" => CallsLeft >= 2
    /\ node \in {"dispatch_tool", "normalize_evidence", "final_assessment"} =>
          CallsLeft >= 1
    /\ node \in {"dispatch_tool", "normalize_evidence"} => modelTurn >= 1
    /\ node = "final_assessment" => modelTurn >= 1 \/ mode = "baseline"

\* Supersteps taken when a node is entered.
StepsAt ==
    /\ node = "investigate" => steps <= 3 * modelTurn
    /\ node = "dispatch_tool" => steps <= 3 * modelTurn - 2
    /\ node = "normalize_evidence" => steps <= 3 * modelTurn - 1
    /\ node = "final_assessment" => steps <= 3 * ModelCalls - 3
    /\ node = "escalation_interrupt" =>
          steps <= IF phase = "running" THEN 3 * ModelCalls - 2
                                        ELSE 3 * ModelCalls - 1
    /\ node = "final_report" => steps <= 3 * ModelCalls - 2
    /\ node = "end" => steps <= 3 * ModelCalls - 1

\* Where an assessment or a failure can be found.
VerdictAt ==
    /\ phase = "paused" => node = "escalation_interrupt"
    /\ assessment # None =>
          failure = None /\ node \in {"escalation_interrupt", "final_report", "end"}
    /\ failure # None =>
          node \in {"normalize_evidence", "final_report", "end"}

BudgetInv == Numbers /\ CallsAt /\ StepsAt /\ VerdictAt

-----------------------------------------------------------------------------
\* What a turn can cost: as many calls as repairs more than one, and none at
\* all only when the clock or the budget stopped it (_ask_with_repair).
LEMMA AnswerCost ==
    ASSUME Numbers, NEW a \in Answers
    PROVE  /\ a.calls \in 0..2 /\ a.repairs \in 0..1
           /\ a.calls - a.repairs \in 0..1
           /\ a.result = "valid" => a.calls - a.repairs = 1
           /\ repairs + a.repairs <= Repairs
           /\ a.result \in Failure \cup {"valid"}
           /\ CallsLeft <= 0 => a.calls = 0
BY GraphConstants DEF Answers, Answer, Numbers, CallsLeft, Failure

\* What an invocation does without a checkpoint: it asks within the budgets
\* that are left, and runs permitted checks once each.
LEMMA UnrecordedWork ==
    ASSUME Numbers, Unrecorded
    PROVE  /\ asked' \in Nat
           /\ asked' <= asked + (ModelCalls + Repairs - modelCalls)
           /\ \E lost \in SUBSET InPolicy :
                 ran' = [c \in Check |-> IF c \in lost THEN ran[c] + 1
                                                      ELSE ran[c]]
BY GraphConstants DEF Unrecorded, Numbers

\* The initial state satisfies the invariant.
LEMMA InitBudget == Init => BudgetInv
BY GraphConstants
   DEF Init, BudgetInv, Numbers, CallsAt, StepsAt, VerdictAt, CallsLeft, Node

\* Every step preserves it.
LEMMA StepBudget == BudgetInv /\ [Next]_vars => BudgetInv'
<1> SUFFICES ASSUME BudgetInv, [Next]_vars PROVE BudgetInv'
  OBVIOUS
<1> USE GraphConstants DEF BudgetInv, Numbers, Node
<1>1. CASE Propose
  <2>1. PICK a \in Answers : a.result = "valid" /\ Count(a)
    BY <1>1 DEF Propose
  <2>2. node = "investigate" /\ phase = "running" /\ node' = "dispatch_tool"
    BY <1>1 DEF Propose, Enter, GoTo
  <2>3. Numbers' /\ CallsAt'
    BY <1>1, <2>1, <2>2, AnswerCost DEF Propose, Count, CallsAt, CallsLeft, GoTo
  <2>4. StepsAt' /\ VerdictAt'
    BY <1>1, <2>2 DEF Propose, StepsAt, VerdictAt, GoTo, outcome
  <2> QED BY <2>3, <2>4
<1>2. CASE ProposeNothing
  <2>1. PICK a \in Answers : a.result = "valid" /\ Count(a)
    BY <1>2 DEF ProposeNothing
  <2>2. node = "investigate" /\ phase = "running" /\ node' = "final_assessment"
    BY <1>2 DEF ProposeNothing, Enter, GoTo
  <2>3. Numbers' /\ CallsAt'
    BY <1>2, <2>1, <2>2, AnswerCost
    DEF ProposeNothing, Count, CallsAt, CallsLeft, GoTo
  <2>4. StepsAt' /\ VerdictAt'
    BY <1>2, <2>2
    DEF ProposeNothing, CallsAt, CallsLeft, StepsAt, VerdictAt, GoTo, outcome
  <2> QED BY <2>3, <2>4
<1>3. CASE Stop
  <2>1. PICK a \in Answers :
          /\ a.result # "valid" /\ Count(a)
          /\ failure' = IF StopIsFatal(a) THEN a.result ELSE None
          /\ GoTo(IF StopIsFatal(a) THEN "final_report" ELSE "final_assessment")
    BY <1>3 DEF Stop
  <2>2. node = "investigate" /\ phase = "running"
    BY <1>3 DEF Stop, Enter
  <2>3. Numbers' /\ CallsAt'
    BY <1>3, <2>1, <2>2, AnswerCost
    DEF Stop, Count, CallsAt, CallsLeft, GoTo, StopIsFatal
  <2>4. StepsAt' /\ VerdictAt'
    BY <1>3, <2>1, <2>2
    DEF Stop, CallsAt, CallsLeft, StepsAt, VerdictAt, GoTo, StopIsFatal, outcome
  <2> QED BY <2>3, <2>4
<1>4. CASE Deny \/ Execute \/ BackendRaises \/ RaisesAfterSettle
  <2>1. Enter("dispatch_tool") /\ Dispatched
    BY <1>4 DEF Deny, Execute, BackendRaises, RaisesAfterSettle, RunCheck
  <2> QED
    BY <2>1 DEF Dispatched, Enter, GoTo, counters, outcome, CallsAt, CallsLeft,
                StepsAt, VerdictAt
<1>5. CASE Normalize
  <2>1. node = "normalize_evidence" /\ phase = "running"
    BY <1>5 DEF Normalize, Enter
  <2>2. Numbers' /\ CallsAt'
    BY <1>5, <2>1
    DEF Normalize, GoTo, MayInvestigate, CallsAt, CallsLeft, counters, history
  <2>3. StepsAt' /\ VerdictAt'
    BY <1>5, <2>1
    DEF Normalize, GoTo, MayInvestigate, CallsAt, CallsLeft, StepsAt, VerdictAt,
        counters, outcome
  <2> QED BY <2>2, <2>3
<1>6. CASE Assess
  <2>1. PICK ans \in Answers : ans.result = "valid" /\ Count(ans)
    BY <1>6 DEF Assess
  <2>2. PICK a \in Assessment : assessment' = a /\ GoTo(AfterAssessment(a))
    BY <1>6 DEF Assess
  <2>3. /\ node = "final_assessment" /\ phase = "running"
        /\ node' \in {"escalation_interrupt", "final_report"}
    BY <1>6, <2>2 DEF Assess, Enter, GoTo, AfterAssessment
  <2>4. Numbers' /\ CallsAt'
    BY <1>6, <2>1, <2>2, <2>3, AnswerCost
    DEF Assess, Count, CallsAt, CallsLeft, GoTo
  <2>5. StepsAt' /\ VerdictAt'
    BY <1>6, <2>2, <2>3 DEF Assess, StepsAt, VerdictAt, GoTo
  <2> QED BY <2>4, <2>5
<1>7. CASE AssessmentFails
  <2>1. PICK ans \in Answers : Count(ans)
    BY <1>7 DEF AssessmentFails
  <2>2. node = "final_assessment" /\ phase = "running" /\ node' = "final_report"
    BY <1>7 DEF AssessmentFails, Enter, GoTo
  <2>3. Numbers' /\ CallsAt'
    BY <1>7, <2>1, <2>2, AnswerCost
    DEF AssessmentFails, Count, CallsAt, CallsLeft, GoTo
  <2>4. StepsAt' /\ VerdictAt'
    BY <1>7, <2>2 DEF AssessmentFails, StepsAt, VerdictAt, GoTo, outcome
  <2> QED BY <2>3, <2>4
<1>8. CASE Interrupt
  BY <1>8 DEF Interrupt, Enter, counters, outcome, history, CallsAt, CallsLeft,
              StepsAt, VerdictAt
<1>9. CASE Resume
  BY <1>9 DEF Resume, counters, history, CallsAt, CallsLeft, StepsAt, VerdictAt
<1>10. CASE FinalReport
  BY <1>10 DEF FinalReport, Enter, GoTo, counters, outcome, history, CallsAt,
               CallsLeft, StepsAt, VerdictAt
<1>11. CASE GiveUp
  BY <1>11, UnrecordedWork DEF GiveUp, counters, outcome, CallsAt, CallsLeft,
                               StepsAt, VerdictAt
<1>12. CASE WallClockExpires
  BY <1>12 DEF WallClockExpires, counters, outcome, history, CallsAt, CallsLeft,
               StepsAt, VerdictAt
<1>13. CASE Crash
  <2>1. asked' \in Nat
    BY <1>13, UnrecordedWork DEF Crash
  <2>2. Numbers' /\ CallsAt'
    BY <1>13, <2>1 DEF Crash, counters, CallsAt, CallsLeft
  <2>3. StepsAt' /\ VerdictAt'
    BY <1>13 DEF Crash, counters, outcome, CallsAt, StepsAt, VerdictAt
  <2> QED BY <2>2, <2>3
<1>14. CASE UNCHANGED vars
  BY <1>14 DEF vars, CallsAt, CallsLeft, StepsAt, VerdictAt
<1> QED
  BY <1>1, <1>2, <1>3, <1>4, <1>5, <1>6, <1>7, <1>8, <1>9, <1>10, <1>11, <1>12,
     <1>13, <1>14 DEF Next, NodeStep

\* The invariant holds throughout every investigation.
THEOREM BudgetInvariant == Spec => []BudgetInv
BY InitBudget, StepBudget, PTL DEF Spec

\* For all budgets with at least two model calls: the assessment always has a
\* call left to be made with.
THEOREM AssessmentIsFunded == Spec => []AssessmentFunded
<1>1. BudgetInv => AssessmentFunded
  BY DEF BudgetInv, CallsAt, AssessmentFunded
<1> QED BY <1>1, BudgetInvariant, PTL

\* Between two deaths the requests are the ones the state counts; an
\* invocation that gives up may have made the rest of its budget.
AskedAt ==
    /\ asked <= (ModelCalls + Repairs) * (crashes + 1)
    /\ ~GaveUp => asked <= modelCalls + (ModelCalls + Repairs) * crashes

\* Requests that are counted as they are made stay within the budgets.
LEMMA CountedRequests ==
    ASSUME AskedAt, ~GaveUp, BudgetInv, BudgetInv', crashes' = crashes,
           NEW d \in Nat, asked' = asked + d, modelCalls' = modelCalls + d
    PROVE  AskedAt'
<1>1. /\ asked \in Nat /\ modelCalls \in Nat /\ crashes \in Nat
      /\ asked' \in Nat /\ modelCalls' \in Nat
      /\ modelCalls' <= ModelCalls + Repairs
  <2>1. Numbers /\ Numbers' /\ CallsAt'
    BY DEF BudgetInv
  <2>2. /\ asked \in Nat /\ modelCalls \in Nat /\ crashes \in Nat
        /\ asked' \in Nat /\ modelCalls' \in Nat /\ repairs' \in 0..Repairs
    BY ONLY <2>1 DEF Numbers
  <2>3. ModelCalls - (modelCalls' - repairs') >= 0
    BY ONLY <2>1 DEF CallsAt, CallsLeft
  <2>4. ModelCalls \in Nat /\ Repairs \in Nat
    BY GraphConstants
  <2>5. ASSUME NEW m \in Nat, NEW c \in Nat, NEW q \in 0..Repairs,
               m - (c - q) >= 0
        PROVE  c <= m + Repairs
    BY <2>4, <2>5
  <2>6. modelCalls' <= ModelCalls + Repairs
    BY ONLY <2>2, <2>3, <2>4, <2>5
  <2> QED BY <2>2, <2>6
<1>2. PICK k \in Nat : k = ModelCalls + Repairs
  BY GraphConstants
<1>3. PICK w \in Nat : w = k * crashes /\ k * (crashes + 1) = w + k
  BY <1>1
<1>4. asked <= modelCalls + w
  <2>1. asked <= modelCalls + (ModelCalls + Repairs) * crashes
    BY DEF AskedAt
  <2>2. (ModelCalls + Repairs) * crashes = w
    BY ONLY <1>2, <1>3
  <2> QED BY ONLY <2>1, <2>2
<1>5. asked' <= modelCalls' + w /\ asked' <= w + k
  BY ONLY <1>1, <1>2, <1>4, k \in Nat, w \in Nat, d \in Nat, asked' = asked + d,
          modelCalls' = modelCalls + d
<1>6. /\ (ModelCalls + Repairs) * crashes' = w
      /\ (ModelCalls + Repairs) * (crashes' + 1) = w + k
  BY ONLY <1>2, <1>3, crashes' = crashes
<1> QED BY ONLY <1>5, <1>6 DEF AskedAt

\* Every step preserves it: a death may lose at most one budget of requests.
LEMMA StepAsked == AskedAt /\ BudgetInv /\ BudgetInv' /\ [Next]_vars => AskedAt'
<1> SUFFICES ASSUME AskedAt, BudgetInv, BudgetInv', [Next]_vars PROVE AskedAt'
  OBVIOUS
<1>0. Numbers /\ Numbers'
  BY DEF BudgetInv
<1>1. CASE Propose \/ ProposeNothing \/ Stop \/ Assess \/ AssessmentFails
  <2>1. phase = "running" /\ \E a \in Answers : Count(a)
    BY <1>1 DEF Propose, ProposeNothing, Stop, Assess, AssessmentFails, Enter
  <2>2. PICK a \in Answers : Count(a)
    BY <2>1
  <2>3. PICK d \in Nat : d = a.calls
    BY <1>0, AnswerCost
  <2> QED
    BY <1>1, <2>1, <2>2, <2>3, CountedRequests DEF Count, GaveUp
<1>2. CASE \/ Deny \/ Execute \/ BackendRaises \/ RaisesAfterSettle \/ Normalize
           \/ Interrupt \/ FinalReport \/ Resume
  <2>1. phase # "returned" /\ UNCHANGED <<asked, modelCalls, crashes>>
    BY <1>2
    DEF Deny, Execute, BackendRaises, RaisesAfterSettle, RunCheck, Dispatched,
        Normalize, Interrupt, FinalReport, Resume, Enter, counters, history
  <2>2. asked' = asked + 0 /\ modelCalls' = modelCalls + 0
    BY <1>0, <2>1 DEF Numbers
  <2> QED BY <2>1, <2>2, CountedRequests DEF GaveUp
<1>3. CASE GiveUp
  <2>1. /\ phase = "running" /\ crashes' = crashes
        /\ phase' = "returned" /\ node' = node /\ node # "end" /\ Unrecorded
    BY <1>3 DEF GiveUp
  <2>2. /\ asked \in Nat /\ modelCalls \in Nat /\ crashes \in Nat
        /\ asked' \in Nat
    BY <1>0 DEF Numbers
  <2>3. PICK k \in Nat : k = ModelCalls + Repairs
    BY GraphConstants
  <2>4. PICK w \in Nat : w = k * crashes /\ k * (crashes + 1) = w + k
    BY <2>2
  <2>5. asked <= modelCalls + w
    <3>1. asked <= modelCalls + (ModelCalls + Repairs) * crashes
      BY <2>1 DEF AskedAt, GaveUp
    <3>2. (ModelCalls + Repairs) * crashes = w
      BY ONLY <2>3, <2>4
    <3> QED BY ONLY <3>1, <3>2
  <2>a. asked' <= asked + (ModelCalls + Repairs - modelCalls)
    BY <1>0, <2>1, UnrecordedWork
  <2>b. asked' <= asked + (k - modelCalls)
    BY ONLY <2>a, <2>2, <2>3, GraphConstants
  <2>6. asked' <= w + k
    BY ONLY <2>2, <2>b, <2>5, k \in Nat, w \in Nat
  <2>7. (ModelCalls + Repairs) * (crashes' + 1) = w + k
    BY ONLY <2>1, <2>3, <2>4
  <2> QED BY ONLY <2>1, <2>6, <2>7 DEF AskedAt, GaveUp
<1>4. CASE Crash
  <2>1. crashes' = crashes + 1 /\ phase' = "running" /\ modelCalls' = modelCalls
    BY <1>4 DEF Crash, counters
  <2>2. /\ asked \in Nat /\ modelCalls \in Nat /\ crashes \in Nat
        /\ asked' \in Nat
    BY <1>0 DEF Numbers
  <2>3. PICK k \in Nat : k = ModelCalls + Repairs
    BY GraphConstants
  <2>4. PICK w \in Nat : /\ w = k * crashes /\ k * (crashes + 1) = w + k
                         /\ k * ((crashes + 1) + 1) = w + k + k
    BY <2>2
  <2>5. asked' <= w + k
    <3>1. CASE phase = "running"
      <4>a. Unrecorded
        BY <1>4, <3>1 DEF Crash
      <4>b. asked' <= asked + (ModelCalls + Repairs - modelCalls)
        BY <1>0, <4>a, UnrecordedWork
      <4>1. asked' <= asked + (k - modelCalls)
        BY ONLY <2>2, <2>3, <4>b, GraphConstants
      <4>2. asked <= modelCalls + w
        <5>1. asked <= modelCalls + (ModelCalls + Repairs) * crashes
          BY <3>1 DEF AskedAt, GaveUp
        <5>2. (ModelCalls + Repairs) * crashes = w
          BY ONLY <2>3, <2>4
        <5> QED BY ONLY <5>1, <5>2
      <4> QED BY ONLY <2>2, <4>1, <4>2, k \in Nat, w \in Nat
    <3>2. CASE phase # "running"
      <4>1. asked' <= (ModelCalls + Repairs) * (crashes + 1)
        BY <1>4, <3>2 DEF Crash, AskedAt
      <4>2. (ModelCalls + Repairs) * (crashes + 1) = w + k
        BY ONLY <2>3, <2>4
      <4> QED BY ONLY <4>1, <4>2
    <3> QED BY <3>1, <3>2
  <2>6. /\ (ModelCalls + Repairs) * crashes' = w + k
        /\ (ModelCalls + Repairs) * (crashes' + 1) = w + k + k
    BY ONLY <2>1, <2>3, <2>4
  <2>7. asked' <= modelCalls' + (w + k) /\ asked' <= w + k + k
    BY ONLY <2>1, <2>2, <2>5, k \in Nat, w \in Nat
  <2> QED BY ONLY <2>6, <2>7 DEF AskedAt
<1>5. CASE WallClockExpires \/ UNCHANGED vars
  <2>1. UNCHANGED <<asked, modelCalls, crashes, phase, node>>
    BY <1>5 DEF WallClockExpires, counters, history, vars
  <2> QED BY <2>1 DEF AskedAt, GaveUp
<1> QED BY <1>1, <1>2, <1>3, <1>4, <1>5 DEF Next, NodeStep

\* The model is asked at most ModelCalls + Repairs times, and as often again
\* for each process death.
THEOREM SpendIsBounded == Spec => []ModelSpendBounded
<1>1. Init => AskedAt
  <2>1. ASSUME NEW k \in Nat PROVE 0 <= k * (0 + 1) /\ 0 <= 0 + k * 0
    OBVIOUS
  <2>2. ModelCalls + Repairs \in Nat
    BY GraphConstants
  <2> QED BY <2>1, <2>2 DEF Init, AskedAt
<1>2. AskedAt => ModelSpendBounded
  BY DEF AskedAt, ModelSpendBounded
<1> QED BY <1>1, <1>2, StepAsked, BudgetInvariant, PTL DEF Spec

\* The loop between the three tool nodes ends by itself within the bound that
\* the recursion limit leaves room for.
THEOREM LimitIsUnreached == Spec => []RecursionLimitUnreached
<1>1. BudgetInv => RecursionLimitUnreached
  BY GraphConstants
  DEF BudgetInv, Numbers, Node, CallsAt, CallsLeft, StepsAt, RecursionLimitUnreached
<1> QED BY <1>1, BudgetInvariant, PTL

\* Failures and assessments exclude each other, and no assessment is made
\* after a first turn without an answer.
THEOREM ConclusionIsEarned == Spec => []ConclusionEarned
<1>1. BudgetInv => ConclusionEarned
  BY DEF BudgetInv, Numbers, CallsAt, VerdictAt, ConclusionEarned
<1> QED BY <1>1, BudgetInvariant, PTL

-----------------------------------------------------------------------------
(* Type correctness.                                                       *)

\* The dispatch node is only entered with a proposal to dispatch.
TypeInv == TypeOK /\ (node = "dispatch_tool" => pending \in Check)

\* _escalation_reason returns one of its four reasons or none.
LEMMA ReasonType ==
    ASSUME NEW a PROVE ReasonToEscalate(a) \in EscalationReason \cup {None}
BY DEF ReasonToEscalate, EscalationReason

\* Type correctness is preserved by every step.
LEMMA StepType == TypeInv /\ BudgetInv /\ [Next]_vars => TypeInv'
<1> SUFFICES ASSUME TypeInv, BudgetInv, [Next]_vars PROVE TypeInv'
  OBVIOUS
<1> USE GraphConstants DEF TypeInv, TypeOK, Node
<1>0. Numbers
  BY DEF BudgetInv
<1>1. CASE Propose
  BY <1>0, <1>1, AnswerCost
  DEF Propose, Enter, GoTo, Count, findings, outcome
<1>2. CASE ProposeNothing
  BY <1>0, <1>2, AnswerCost
  DEF ProposeNothing, Enter, GoTo, Count, findings, outcome
<1>3. CASE Stop
  <2>1. PICK a \in Answers :
          /\ a.result # "valid" /\ Count(a)
          /\ failure' = IF StopIsFatal(a) THEN a.result ELSE None
          /\ GoTo(IF StopIsFatal(a) THEN "final_report" ELSE "final_assessment")
    BY <1>3 DEF Stop
  <2> QED
    BY <1>0, <1>3, <2>1, AnswerCost DEF Stop, Enter, GoTo, Count, findings, outcome
<1>4. CASE Deny \/ Execute \/ BackendRaises \/ RaisesAfterSettle
  <2>1. Enter("dispatch_tool") /\ Dispatched
    BY <1>4 DEF Deny, Execute, BackendRaises, RaisesAfterSettle, RunCheck
  <2>2. \A p \in {"ALLOWED", "DENIED"}, st \in {"RESERVED", "SETTLED"},
           o \in {"EXECUTED", "UNAVAILABLE", "TIMEOUT", "ERROR",
                 "NOT_EXECUTED"} :
             ReceiptOf(p, st, o) \in Receipt
    BY <2>1 DEF Enter, ReceiptOf, Receipt
  <2>3. receipts' \subseteq Receipt
    BY <1>4, <2>2
    DEF Deny, Execute, BackendRaises, RaisesAfterSettle, Settled
  <2>4. evidence' \subseteq Nat /\ passages' \subseteq Nat
    BY <1>4 DEF Deny, Execute, BackendRaises, RaisesAfterSettle, Settled
  <2>5. failure' \in Failure \cup {None}
    BY <1>4 DEF Deny, Execute, BackendRaises, RaisesAfterSettle, Failure
  <2>6. UNCHANGED ran \/ ran' = [ran EXCEPT ![pending] = @ + 1]
    BY <1>4 DEF Deny, Execute, BackendRaises, RaisesAfterSettle, RunCheck
  <2>7. ran' \in [Check -> Nat]
    BY <2>1, <2>6 DEF Enter
  <2> QED
    BY <2>1, <2>3, <2>4, <2>5, <2>7 DEF Dispatched, Enter, GoTo, counters, outcome
<1>5. CASE Normalize
  BY <1>5 DEF Normalize, Enter, GoTo, counters, findings, outcome, history
<1>6. CASE Assess
  <2>1. PICK ans \in Answers : ans.result = "valid" /\ Count(ans)
    BY <1>6 DEF Assess
  <2>2. PICK a \in Assessment : assessment' = a /\ GoTo(AfterAssessment(a))
    BY <1>6 DEF Assess
  <2> QED
    BY <1>0, <1>6, <2>1, <2>2, AnswerCost
    DEF Assess, Enter, GoTo, AfterAssessment, Count, findings
<1>7. CASE AssessmentFails
  <2>1. PICK ans \in Answers :
          /\ Count(ans)
          /\ failure' = IF ans.result = "valid" THEN "FORGED_EVIDENCE_REFERENCE"
                                                ELSE ans.result
    BY <1>7 DEF AssessmentFails
  <2>2. failure' \in Failure
    BY <1>0, <2>1, AnswerCost DEF Failure
  <2> QED
    BY <1>0, <1>7, <2>1, <2>2, AnswerCost
    DEF AssessmentFails, Enter, GoTo, Count, findings, outcome
<1>8. CASE Interrupt
  BY <1>8 DEF Interrupt, Enter, counters, findings, outcome, history
<1>9. CASE Resume
  BY <1>9, ReasonType DEF Resume, counters, findings, history
<1>10. CASE FinalReport
  BY <1>10
  DEF FinalReport, Enter, GoTo, Disposition, Assessment, counters, findings,
      outcome, history
<1>11. CASE GiveUp
  <2>1. asked' \in Nat /\ ran' \in [Check -> Nat]
    BY <1>0, <1>11, UnrecordedWork DEF GiveUp
  <2> QED BY <1>11, <2>1 DEF GiveUp, counters, findings, outcome
<1>12. CASE WallClockExpires
  BY <1>12 DEF WallClockExpires, counters, findings, outcome, history
<1>13. CASE Crash
  <2>1. asked' \in Nat /\ ran' \in [Check -> Nat]
    BY <1>0, <1>13, UnrecordedWork DEF Crash
  <2> QED
    BY <1>13, <2>1 DEF Crash, counters, findings, outcome
<1>14. CASE UNCHANGED vars
  BY <1>14 DEF vars
<1> QED
  BY <1>1, <1>2, <1>3, <1>4, <1>5, <1>6, <1>7, <1>8, <1>9, <1>10, <1>11, <1>12,
     <1>13, <1>14 DEF Next, NodeStep

\* The graph's state keeps its types, and dispatch_tool has a proposal.
THEOREM GraphTypeInvariant == Spec => []TypeInv
<1>1. Init => TypeInv
  <2> SUFFICES ASSUME Init PROVE TypeInv
    OBVIOUS
  <2>1. expired \in BOOLEAN
    BY Zenon DEF Init
  <2>2. ran \in [Check -> Nat]
    BY DEF Init
  <2>3. receipts \subseteq Receipt /\ seen \subseteq Check
    BY DEF Init
  <2>4. node \in Node /\ node # "dispatch_tool"
    BY DEF Init, Node
  <2> QED
    BY <2>1, <2>2, <2>3, <2>4, GraphConstants DEF Init, TypeInv, TypeOK
<1> QED BY <1>1, StepType, BudgetInvariant, PTL DEF Spec

\* The checkpointed state of graph.py keeps its types at every superstep.
THEOREM GraphTypeCorrect == Spec => []TypeOK
<1>1. TypeInv => TypeOK
  BY DEF TypeInv
<1> QED BY <1>1, GraphTypeInvariant, PTL

-----------------------------------------------------------------------------
(* The reservation ledger.                                                 *)

\* A proposal is dispatched in its own turn, so its receipt is a new one; what
\* is missing from the receipts was lost to a death, or to the invocation that
\* has just given up.
LedgerInv ==
    /\ IsFiniteSet(receipts)
    /\ \A r \in receipts : r.turn <= modelTurn
    /\ node = "dispatch_tool" => \A r \in receipts : r.turn < modelTurn
    /\ ChecksAccountedFor
    /\ EvidenceMatchesReceipts

\* One more receipt counts once for the pools of its check if it is ALLOWED,
\* and not at all if it is DENIED.
LEMMA SpentAfter ==
    ASSUME NEW R, IsFiniteSet(R), NEW x, x \notin R, NEW pool
    PROVE  LET Of(S) == {r \in S : r.policy = "ALLOWED" /\ r.check \in pool}
           IN  /\ Cardinality(Of(R)) \in Nat
               /\ Cardinality(Of(R \cup {x})) =
                     IF x.policy = "ALLOWED" /\ x.check \in pool
                     THEN Cardinality(Of(R)) + 1 ELSE Cardinality(Of(R))
<1> DEFINE Of(S) == {r \in S : r.policy = "ALLOWED" /\ r.check \in pool}
<1>1. IsFiniteSet(Of(R)) /\ Cardinality(Of(R)) \in Nat
  BY FS_Subset, FS_CardinalityType
<1>2. CASE x.policy = "ALLOWED" /\ x.check \in pool
  <2>1. Of(R \cup {x}) = Of(R) \cup {x} /\ x \notin Of(R)
    BY <1>2
  <2> QED BY <1>1, <1>2, <2>1, FS_AddElement
<1>3. CASE ~(x.policy = "ALLOWED" /\ x.check \in pool)
  <2>1. Of(R \cup {x}) = Of(R)
    BY <1>3
  <2> QED BY <1>1, <1>3, <2>1
<1> QED BY <1>2, <1>3

\* The ledger invariant is preserved by the steps of the dispatch node.
LEMMA DispatchLedger ==
    ASSUME TypeInv, LedgerInv,
           Deny \/ Execute \/ BackendRaises \/ RaisesAfterSettle
    PROVE  LedgerInv'
<1>1. Enter("dispatch_tool") /\ Dispatched
  BY DEF Deny, Execute, BackendRaises, RaisesAfterSettle, RunCheck
<1>2. /\ pending \in Check /\ modelTurn \in Nat /\ ran \in [Check -> Nat]
      /\ crashes \in Nat /\ crashes' = crashes /\ modelTurn' = modelTurn
      /\ node' = "normalize_evidence"
  BY <1>1, GraphConstants
  DEF Enter, Dispatched, GoTo, counters, TypeInv, TypeOK
<1>a. \E p, st, out :
         /\ receipts' = receipts \cup {ReceiptOf(p, st, out)}
         /\ \/ p = "DENIED" /\ UNCHANGED ran
            \/ /\ p = "ALLOWED" /\ Authorized(pending)
               /\ ran' = [ran EXCEPT ![pending] = @ + 1]
         /\ evidence' = IF out = "EXECUTED" /\ pending \notin RunbookCheck
                        THEN evidence \cup {modelTurn} ELSE evidence
  <2>1. CASE Deny
    <3>1. /\ receipts' = receipts
                            \cup {ReceiptOf("DENIED", "SETTLED", "NOT_EXECUTED")}
          /\ UNCHANGED ran
          /\ evidence' = IF /\ "NOT_EXECUTED" = "EXECUTED"
                            /\ pending \notin RunbookCheck
                         THEN evidence \cup {modelTurn} ELSE evidence
      BY <2>1 DEF Deny
    <3> WITNESS "DENIED", "SETTLED", "NOT_EXECUTED"
    <3> QED BY <3>1
  <2>2. CASE Execute
    <3>1. PICK out \in {"EXECUTED", "UNAVAILABLE", "TIMEOUT", "ERROR"},
                found \in BOOLEAN :
            Settled(out, found)
      BY <2>2 DEF Execute
    <3> QED BY <2>2, <3>1 DEF Execute, RunCheck, Settled
  <2>3. CASE BackendRaises
    <3>1. /\ receipts' = receipts
                            \cup {ReceiptOf("ALLOWED", "RESERVED", "NOT_EXECUTED")}
          /\ Authorized(pending)
          /\ ran' = [ran EXCEPT ![pending] = @ + 1]
          /\ evidence' = IF /\ "NOT_EXECUTED" = "EXECUTED"
                            /\ pending \notin RunbookCheck
                         THEN evidence \cup {modelTurn} ELSE evidence
      BY <2>3 DEF BackendRaises, RunCheck
    <3> WITNESS "ALLOWED", "RESERVED", "NOT_EXECUTED"
    <3> QED BY <3>1
  <2>4. CASE RaisesAfterSettle
    <3>1. PICK out \in {"EXECUTED", "UNAVAILABLE", "TIMEOUT", "ERROR"} :
                Settled(out, FALSE)
      BY <2>4 DEF RaisesAfterSettle
    <3> QED BY <2>4, <3>1 DEF RaisesAfterSettle, RunCheck, Settled
  <2> QED BY <2>1, <2>2, <2>3, <2>4
<1>b. PICK p, st, out :
         /\ receipts' = receipts \cup {ReceiptOf(p, st, out)}
         /\ \/ p = "DENIED" /\ UNCHANGED ran
            \/ /\ p = "ALLOWED" /\ Authorized(pending)
               /\ ran' = [ran EXCEPT ![pending] = @ + 1]
         /\ evidence' = IF out = "EXECUTED" /\ pending \notin RunbookCheck
                        THEN evidence \cup {modelTurn} ELSE evidence
  BY <1>a
<1> DEFINE x == ReceiptOf(p, st, out)
<1>c. /\ x.turn = modelTurn /\ x.check = pending
      /\ x.policy = p /\ x.outcome = out
  BY DEF ReceiptOf
<1> HIDE DEF x
<1>3. /\ receipts' = receipts \cup {x}
      /\ x.turn = modelTurn /\ x.check = pending
      /\ \/ x.policy = "DENIED" /\ UNCHANGED ran
         \/ /\ x.policy = "ALLOWED" /\ Authorized(pending)
            /\ ran' = [ran EXCEPT ![pending] = @ + 1]
      /\ evidence' = IF x.outcome = "EXECUTED" /\ x.check \notin RunbookCheck
                     THEN evidence \cup {x.turn} ELSE evidence
  BY <1>b, <1>c DEF x
<1>4. x \notin receipts /\ IsFiniteSet(receipts)
  BY <1>1, <1>2, <1>3 DEF Enter, LedgerInv
<1>5. IsFiniteSet(receipts')
  BY <1>3, <1>4, FS_AddElement
<1>6. \A pool : /\ Spent(pool) \in Nat
                /\ Spent(pool)' = IF x.policy = "ALLOWED" /\ x.check \in pool
                                  THEN Spent(pool) + 1 ELSE Spent(pool)
  BY <1>3, <1>4, SpentAfter DEF Spent
<1>7. EvidenceMatchesReceipts'
  BY <1>3 DEF LedgerInv, EvidenceMatchesReceipts
<1>8. /\ Spent(RunbookCheck)' <= RunbookSearches
      /\ Spent(Check \ RunbookCheck)' <= ExecutedTools
  BY <1>2, <1>3, <1>6, GraphConstants
  DEF LedgerInv, ChecksAccountedFor, Authorized, SlotsLeftFor, ToolsLeft
<1>9. \A c \in Check :
         /\ ran'[c] >= Allowed(c)' /\ ran'[c] <= Allowed(c)' + crashes'
         /\ c \notin InPolicy => ran'[c] = 0
  <2> TAKE c \in Check
  <2>0. ~GaveUp
    BY <1>1 DEF Enter, GaveUp
  <2>1. /\ Allowed(c) \in Nat
        /\ Allowed(c)' = IF x.policy = "ALLOWED" /\ pending = c
                         THEN Allowed(c) + 1 ELSE Allowed(c)
    BY <1>3, <1>6 DEF Allowed
  <2>2. /\ ran[c] \in Nat
        /\ ran'[c] = IF x.policy = "ALLOWED" /\ pending = c
                     THEN ran[c] + 1 ELSE ran[c]
    BY <1>2, <1>3
  <2>3. /\ ran[c] >= Allowed(c) /\ ran[c] <= Allowed(c) + crashes
        /\ c \notin InPolicy => ran[c] = 0
    BY <1>2, <2>0, <2>1, <2>2 DEF LedgerInv, ChecksAccountedFor
  <2>4. x.policy = "ALLOWED" => pending \in InPolicy
    BY <1>3 DEF Authorized
  <2> QED BY <1>2, <2>1, <2>2, <2>3, <2>4
<1>10. ChecksAccountedFor'
  <2>1. ~GaveUp'
    BY <1>1 DEF Enter, Dispatched, GaveUp
  <2>2. \A c \in Check : ran'[c] <= Allowed(c)' + crashes' + 0
    BY <1>2, <1>3, <1>6, <1>9 DEF Allowed
  <2> QED BY <1>8, <1>9, <2>1, <2>2 DEF ChecksAccountedFor
<1> QED
  BY <1>2, <1>3, <1>5, <1>7, <1>10 DEF LedgerInv

\* The other steps leave receipts and evidence alone; an invocation that dies
\* or gives up may have run checks without a receipt, each of them once.
LEMMA StepLedger == TypeInv /\ BudgetInv /\ LedgerInv /\ [Next]_vars => LedgerInv'
<1> SUFFICES ASSUME TypeInv, BudgetInv, LedgerInv, [Next]_vars PROVE LedgerInv'
  OBVIOUS
<1>1. CASE Deny \/ Execute \/ BackendRaises \/ RaisesAfterSettle
  BY <1>1, DispatchLedger
<1>2. CASE ~(Deny \/ Execute \/ BackendRaises \/ RaisesAfterSettle)
  <2>1. UNCHANGED <<receipts, evidence>>
    BY <1>2
    DEF Next, NodeStep, Propose, ProposeNothing, Stop, Normalize, Assess,
        AssessmentFails, Interrupt, Resume, FinalReport, GiveUp,
        WallClockExpires, Crash, findings, vars
  <2>2. /\ modelTurn \in Nat /\ modelTurn' \in Nat /\ modelTurn <= modelTurn'
        /\ node' = "dispatch_tool" =>
              modelTurn < modelTurn' \/ (node = "dispatch_tool")
    BY <1>2
    DEF TypeInv, TypeOK, Next, NodeStep, Propose, ProposeNothing, Stop, Normalize,
        Assess, AssessmentFails, Interrupt, Resume, FinalReport, GiveUp,
        WallClockExpires, Crash, GoTo, Enter, AfterAssessment, counters, vars
  <2>3. \A r \in receipts : r.turn \in Nat
    BY DEF TypeInv, TypeOK, Receipt
  <2>4. /\ \A r \in receipts' : r.turn <= modelTurn'
        /\ node' = "dispatch_tool" => \A r \in receipts' : r.turn < modelTurn'
    BY <2>1, <2>2, <2>3 DEF LedgerInv
  <2>5. EvidenceMatchesReceipts' /\ IsFiniteSet(receipts')
    BY <2>1 DEF LedgerInv, EvidenceMatchesReceipts
  <2>6. \A pool : Spent(pool)' = Spent(pool)
    BY <2>1 DEF Spent
  <2>7. \A c \in Check : Allowed(c)' = Allowed(c) /\ Allowed(c) \in Nat
    BY <2>6, FS_Subset, FS_CardinalityType DEF LedgerInv, Allowed, Spent
  <2>8. ChecksAccountedFor'
    <3>0. /\ crashes \in Nat /\ ran \in [Check -> Nat]
          /\ \A c \in Check :
                /\ ran[c] >= Allowed(c)
                /\ c \notin InPolicy => ran[c] = 0
                /\ ran[c] <= Allowed(c) + crashes + (IF GaveUp THEN 1 ELSE 0)
          /\ GaveUp => result = "FAILED_SAFE"
          /\ Spent(RunbookCheck)' <= RunbookSearches
          /\ Spent(Check \ RunbookCheck)' <= ExecutedTools
      BY <2>6, GraphConstants
      DEF LedgerInv, ChecksAccountedFor, TypeInv, TypeOK
    <3>1. CASE UNCHANGED <<ran, crashes>> /\ (GaveUp <=> GaveUp')
               /\ (GaveUp => UNCHANGED result)
      BY <2>6, <2>7, <3>0, <3>1 DEF ChecksAccountedFor
    <3>2. CASE UNCHANGED <<ran, crashes>> /\ ~GaveUp /\ ~GaveUp'
      BY <2>6, <2>7, <3>0, <3>2 DEF ChecksAccountedFor
    <3>3. CASE GiveUp \/ Crash
      <4>0. Numbers
        BY DEF BudgetInv
      <4>1. \A c \in Check :
               \/ ran'[c] = ran[c]
               \/ c \in InPolicy /\ ran'[c] = ran[c] + 1
        <5>1. CASE UNCHANGED ran
          BY ONLY <5>1
        <5>2. CASE Unrecorded
          <6>1. PICK lost \in SUBSET InPolicy :
                  ran' = [c \in Check |-> IF c \in lost THEN ran[c] + 1
                                                       ELSE ran[c]]
            BY <4>0, <5>2, UnrecordedWork
          <6> QED BY ONLY <6>1
        <5> QED BY <3>3, <5>1, <5>2 DEF GiveUp, Crash
      <4>2. CASE GiveUp
        <5>1. /\ ~GaveUp /\ GaveUp' /\ crashes' = crashes
              /\ result' = "FAILED_SAFE"
          BY <4>2 DEF GiveUp, GaveUp
        <5>2. \A c \in Check :
                 /\ ran'[c] >= Allowed(c)'
                 /\ c \notin InPolicy => ran'[c] = 0
                 /\ ran'[c] <= Allowed(c)' + crashes' + 1
          BY <2>7, <3>0, <4>1, <5>1
        <5> QED BY <3>0, <5>1, <5>2 DEF ChecksAccountedFor
      <4>3. CASE Crash
        <5>1. ~GaveUp' /\ crashes' = crashes + 1
          BY <4>3 DEF Crash, GaveUp
        <5>2. phase # "running" => UNCHANGED ran
          BY <4>3 DEF Crash
        <5>3. \A c \in Check :
                 /\ ran'[c] >= Allowed(c)'
                 /\ c \notin InPolicy => ran'[c] = 0
                 /\ ran'[c] <= Allowed(c)' + crashes' + 0
          <6>1. CASE GaveUp
            BY <2>7, <3>0, <5>1, <5>2, <6>1 DEF GaveUp
          <6>2. CASE ~GaveUp
            BY <2>7, <3>0, <4>1, <5>1, <6>2
          <6> QED BY <6>1, <6>2
        <5> QED BY <3>0, <5>1, <5>3 DEF ChecksAccountedFor
      <4> QED BY <3>3, <4>2, <4>3
    <3>4. CASE ~(GiveUp \/ Crash)
      <4>1. CASE WallClockExpires \/ UNCHANGED vars
        <5>1. UNCHANGED <<ran, crashes, phase, node, result>>
          BY <4>1 DEF WallClockExpires, history, vars
        <5> QED BY <3>1, <5>1 DEF GaveUp
      <4>2. CASE FinalReport
        BY <3>2, <4>2 DEF FinalReport, Enter, GoTo, history, GaveUp
      <4>3. CASE Resume \/ Interrupt \/ Normalize
        BY <3>2, <4>3 DEF Resume, Interrupt, Normalize, Enter, history, GaveUp
      <4>4. CASE Propose \/ ProposeNothing \/ Stop \/ Assess \/ AssessmentFails
        <5>1. /\ phase = "running" /\ phase' = phase
              /\ UNCHANGED <<ran, crashes>>
          BY <4>4 DEF Propose, ProposeNothing, Stop, Assess, AssessmentFails,
                      Enter, Count
        <5> QED BY <3>2, <5>1 DEF GaveUp
      <4> QED
        BY <1>2, <3>4, <4>1, <4>2, <4>3, <4>4 DEF Next, NodeStep
    <3> QED BY <3>3, <3>4
  <2> QED BY <2>4, <2>5, <2>8 DEF LedgerInv
<1> QED BY <1>1, <1>2

\* No checks are on the books at the start.
LEMMA InitLedger == Init => LedgerInv
<1> SUFFICES ASSUME Init PROVE LedgerInv
  OBVIOUS
<1>1. \A pool : Spent(pool) = 0
  <2>1. \A pool : {r \in receipts : r.policy = "ALLOWED" /\ r.check \in pool} = {}
    BY DEF Init
  <2> QED BY <2>1, FS_EmptySet DEF Spent
<1>2. ChecksAccountedFor
  <2>1. ~GaveUp
    BY DEF Init, GaveUp
  <2> QED BY <1>1, <2>1, GraphConstants DEF Init, ChecksAccountedFor, Allowed
<1>3. EvidenceMatchesReceipts
  BY DEF Init, EvidenceMatchesReceipts
<1> QED BY <1>2, <1>3, FS_EmptySet DEF Init, LedgerInv

\* The ledger invariant holds throughout every investigation.
THEOREM LedgerInvariant == Spec => []LedgerInv
BY InitLedger, StepLedger, BudgetInvariant, GraphTypeInvariant, PTL DEF Spec

\* For every set of checks and both pools: each execution is on a receipt, or
\* was lost to a process death or to an investigation reported FAILED_SAFE, and
\* neither pool is overdrawn.
THEOREM ChecksAreAccountedFor == Spec => []ChecksAccountedFor
<1>1. LedgerInv => ChecksAccountedFor
  BY DEF LedgerInv
<1> QED BY <1>1, LedgerInvariant, PTL

\* Receipts that claim evidence and the evidence itself stay together through
\* every exception of the dispatch node.
THEOREM EvidenceIsMatched == Spec => []EvidenceMatchesReceipts
<1>1. LedgerInv => EvidenceMatchesReceipts
  BY DEF LedgerInv
<1> QED BY <1>1, LedgerInvariant, PTL

-----------------------------------------------------------------------------
(* The owner gate.                                                         *)

\* Nothing the triggers read changes once the assessment is made.
GateInv ==
    /\ node = "escalation_interrupt" =>
          assessment # None /\ failure = None /\ ReasonToEscalate(assessment) # None
    /\ node \in {"final_report", "end"} /\ assessment # None =>
          \/ decision # None
          \/ mode # "owner"
          \/ ReasonToEscalate(assessment) = None
    /\ result \in {"DIAGNOSED", "INSUFFICIENT_EVIDENCE"} =>
          /\ node = "end" /\ assessment # None
          /\ result = assessment.disposition
    /\ escalation # None =>
          /\ node \in {"final_report", "end"}
          /\ escalation = ReasonToEscalate(assessment)

\* What the triggers mean, whatever their order: without a reason nothing is
\* wrong, and the first two come before what the model concluded.
LEMMA ReasonMeaning ==
    ASSUME NEW a
    PROVE  /\ ReasonToEscalate(a) = None =>
                /\ ~Unavailable /\ ~RetrievalCameBackEmpty
                /\ ~a.contrary
                /\ ~(a.disposition = "INSUFFICIENT_EVIDENCE" /\ ToolsLeft > 0)
           /\ ReasonToEscalate(a) # None =>
                /\ Unavailable <=> ReasonToEscalate(a) = "TOOL_UNAVAILABLE"
                /\ RetrievalCameBackEmpty =>
                      ReasonToEscalate(a) \in {"TOOL_UNAVAILABLE",
                                   "RETRIEVAL_COVERAGE_INSUFFICIENT"}
BY NoReason DEF ReasonToEscalate, EscalationReason

\* The triggers depend on receipts, passages and the assessment alone.
LEMMA ReasonStable ==
    UNCHANGED <<receipts, passages, assessment>> =>
        ReasonToEscalate(assessment)' = ReasonToEscalate(assessment)
BY DEF ReasonToEscalate, Unavailable, RetrievalCameBackEmpty, ToolsLeft, Spent

\* The gate is preserved by every step.
LEMMA StepGate == TypeInv /\ BudgetInv /\ GateInv /\ [Next]_vars => GateInv'
<1> SUFFICES ASSUME TypeInv, BudgetInv, GateInv, [Next]_vars PROVE GateInv'
  OBVIOUS
<1> USE GraphConstants DEF GateInv
<1>0. /\ assessment # None => failure = None
      /\ assessment # None =>
            node \in {"escalation_interrupt", "final_report", "end"}
      /\ phase = "paused" => node = "escalation_interrupt"
  BY DEF BudgetInv, VerdictAt
<1>1. CASE Propose \/ ProposeNothing \/ Stop \/ Normalize \/ AssessmentFails
  <2>1. /\ assessment = None /\ UNCHANGED <<assessment, result>>
        /\ node' # "escalation_interrupt" /\ node # "end"
        /\ escalation' = None
    BY <1>0, <1>1
    DEF Propose, ProposeNothing, Stop, Normalize, AssessmentFails, Enter, GoTo,
        outcome
  <2> QED BY <2>1
<1>2. CASE Deny \/ Execute \/ BackendRaises \/ RaisesAfterSettle
  <2>1. Enter("dispatch_tool") /\ Dispatched
    BY <1>2 DEF Deny, Execute, BackendRaises, RaisesAfterSettle, RunCheck
  <2> QED BY <1>0, <2>1 DEF Enter, Dispatched, GoTo, outcome
<1>3. CASE Assess
  <2>1. PICK a \in Assessment : assessment' = a /\ GoTo(AfterAssessment(a))
    BY <1>3 DEF Assess
  <2>2. ReasonToEscalate(assessment)' = ReasonToEscalate(a)
    BY <1>3, <2>1
    DEF Assess, findings, ReasonToEscalate, Unavailable, RetrievalCameBackEmpty,
        ToolsLeft, Spent
  <2>3. failure = None
    BY <1>3 DEF Assess, Enter, BudgetInv, VerdictAt
  <2>4. a # None
    BY NoAssessment
  <2> QED
    BY <1>3, <2>1, <2>2, <2>3, <2>4 DEF Assess, Enter, GoTo, AfterAssessment
<1>4. CASE Resume
  <2>1. ReasonToEscalate(assessment)' = ReasonToEscalate(assessment)
    BY <1>4, ReasonStable DEF Resume, findings
  <2> QED BY <1>0, <1>4, <2>1 DEF Resume
<1>5. CASE FinalReport
  <2>1. ReasonToEscalate(assessment)' = ReasonToEscalate(assessment)
    BY <1>5, ReasonStable DEF FinalReport, findings, outcome
  <2> QED
    BY <1>5, <2>1 DEF FinalReport, Enter, GoTo, Disposition, outcome
<1>6. CASE Interrupt \/ GiveUp \/ WallClockExpires \/ Crash \/ UNCHANGED vars
  <2>1. /\ UNCHANGED <<mode, node, failure, assessment, decision, escalation>>
        /\ result' \in {result, None, "FAILED_SAFE"}
    BY <1>6 DEF Interrupt, GiveUp, WallClockExpires, Crash, outcome, vars
  <2>2. ReasonToEscalate(assessment)' = ReasonToEscalate(assessment)
    BY <1>6, ReasonStable
    DEF Interrupt, GiveUp, WallClockExpires, Crash, findings, outcome, vars
  <2> QED BY <2>1, <2>2
<1> QED
  BY <1>1, <1>2, <1>3, <1>4, <1>5, <1>6 DEF Next, NodeStep

\* An owner's run with a reason to escalate concludes only after the owner
\* decided, and it never pauses on a failure.
THEOREM OwnerGateHolds == Spec => []OwnerGate
<1>1. Init => GateInv
  BY GraphConstants DEF Init, GateInv
<1>2. LedgerInv /\ BudgetInv /\ GateInv => OwnerGate
  <2> SUFFICES ASSUME LedgerInv, BudgetInv, GateInv PROVE OwnerGate
    OBVIOUS
  <2>1. ASSUME result \in {"DIAGNOSED", "INSUFFICIENT_EVIDENCE"},
               mode = "owner", decision = None
        PROVE  /\ ~Unavailable /\ ~RetrievalCameBackEmpty
               /\ ~assessment.contrary
               /\ result = "INSUFFICIENT_EVIDENCE" => ToolsLeft <= 0
    <3>1. /\ ReasonToEscalate(assessment) = None
          /\ result = assessment.disposition
      BY <2>1 DEF GateInv
    <3>2. ToolsLeft \in Int
      <4>1. IsFiniteSet({r \in receipts : /\ r.policy = "ALLOWED"
                                        /\ r.check \in Check \ RunbookCheck})
        BY FS_Subset DEF LedgerInv
      <4> QED BY <4>1, FS_CardinalityType, GraphConstants DEF ToolsLeft, Spent
    <3> QED BY <3>1, <3>2, ReasonMeaning
  <2>2. phase = "paused" => failure = None /\ assessment # None
    BY DEF BudgetInv, VerdictAt, GateInv
  <2>3. ASSUME escalation # None
        PROVE  /\ Unavailable <=> escalation = "TOOL_UNAVAILABLE"
               /\ RetrievalCameBackEmpty =>
                     escalation \in {"TOOL_UNAVAILABLE",
                                     "RETRIEVAL_COVERAGE_INSUFFICIENT"}
    BY <2>3, ReasonMeaning DEF GateInv
  <2> QED BY <2>1, <2>2, <2>3 DEF OwnerGate
<1> QED
  BY <1>1, <1>2, StepGate, BudgetInvariant, GraphTypeInvariant, LedgerInvariant,
     PTL DEF Spec
=============================================================================
