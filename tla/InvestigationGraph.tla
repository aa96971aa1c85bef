------------------------- MODULE InvestigationGraph -------------------------
(***************************************************************************)
(* One investigation as src/causalops/graph.py runs it: the nodes of the   *)
(* checkpointed graph with the routers on their outgoing edges, the policy *)
(* (policy.py) and the reservation ledger (tool_wrappers.py) behind the    *)
(* dispatch node, and the entry points that start, recover and resume it.  *)
(*                                                                         *)
(* A checkpoint holds a node's state update together with the edge it      *)
(* takes, so a node and its router are one step.  No caller passes a       *)
(* durability, so the library stores checkpoints in the background, in     *)
(* order, while the next nodes run, and waits for them before the          *)
(* invocation returns.  A process that dies loses everything since the     *)
(* last stored checkpoint: what its nodes asked the model or ran on the    *)
(* lab meanwhile has happened, and they are executed again.                *)
(*                                                                         *)
(* A check stands for the effective arguments of a tool call, that is for  *)
(* its fingerprint.  What the model answers and what a backend returns are *)
(* choices.                                                                *)
(***************************************************************************)
EXTENDS Integers, FiniteSets

CONSTANTS
    Check,            \* the checks the model may propose
    RunbookCheck,     \* those that are search_runbooks calls
    InPolicy,         \* those inside scope and row limits
    None,
    ModelCalls,       \* Budgets.model_calls
    ExecutedTools,    \* Budgets.executed_tools
    RunbookSearches,  \* Budgets.runbook_searches
    Repairs,          \* Budgets.repairs
    RecursionLimit,   \* GRAPH_RECURSION_LIMIT
    MaxCrashes        \* bound on process deaths

ASSUME GraphConstants ==
    /\ RunbookCheck \subseteq Check /\ InPolicy \subseteq Check
    /\ None \notin Check \cup {"accept", "reject"}
    /\ None \notin {"DIAGNOSED", "INSUFFICIENT_EVIDENCE"}
    /\ ModelCalls \in Nat /\ ModelCalls >= 2
    /\ ExecutedTools \in Nat /\ RunbookSearches \in Nat /\ Repairs \in Nat
    /\ RecursionLimit \in Nat /\ 3 * ModelCalls <= RecursionLimit
    /\ MaxCrashes \in Nat

VARIABLES
    mode,        \* "owner", "scored" (no escalation) or "baseline" (no tools)
    node,        \* the node the checkpoint says is next
    phase,       \* "running", "paused" at the interrupt, or "returned"
    modelTurn, modelCalls, repairs,
    expired,     \* the wall-clock budget has run out
    pending,     \* the proposed check
    seen,        \* fingerprints already proposed
    receipts,    \* one per dispatched proposal, named by its turn
    evidence,    \* turns whose check added evidence
    passages,    \* turns whose search returned passages
    assessment, failure, escalation, decision,
    result,      \* disposition of the report this invocation returned
    steps,       \* supersteps of the current invocation
    asked,       \* history: requests given to the model
    ran,         \* history: how often each check was run
    crashes

counters == <<modelTurn, modelCalls, repairs>>
findings == <<receipts, evidence, passages>>
outcome == <<assessment, escalation, decision>>
history == <<asked, ran, crashes>>
vars == <<mode, node, phase, modelTurn, modelCalls, repairs, expired, pending,
          seen, receipts, evidence, passages, assessment, failure, escalation,
          decision, result, steps, asked, ran, crashes>>

Node == {"investigate", "dispatch_tool", "normalize_evidence",
         "final_assessment", "escalation_interrupt", "final_report", "end"}

Receipt ==
    [turn : Nat, check : Check, policy : {"ALLOWED", "DENIED"},
     state : {"RESERVED", "SETTLED"},
     outcome : {"EXECUTED", "UNAVAILABLE", "TIMEOUT", "ERROR",
                "NOT_EXECUTED"}]

Assessment ==
    [disposition : {"DIAGNOSED", "INSUFFICIENT_EVIDENCE"}, contrary : BOOLEAN]

ASSUME NoAssessment == None \notin Assessment

\* "REFUSED" stands for the three ways live_model refuses before sending.
Failure == {"WALL_CLOCK_EXPIRED", "MODEL_CALL_BUDGET_EXHAUSTED", "REFUSED",
            "REPAIR_EXHAUSTED", "MODEL_OUTPUT_INVALID", "INTERNAL_ERROR",
            "FORGED_EVIDENCE_REFERENCE"}

EscalationReason == {"TOOL_UNAVAILABLE", "RETRIEVAL_COVERAGE_INSUFFICIENT",
                     "INSUFFICIENT_EVIDENCE_WITH_CHECK_REMAINING",
                     "CONFLICTING_EVIDENCE"}

ASSUME NoReason == None \notin EscalationReason

\* Counters are naturals, every receipt, assessment and reason is a known one,
\* and the graph is paused only at the interrupt node.
TypeOK ==
    /\ mode \in {"owner", "scored", "baseline"}
    /\ node \in Node
    /\ phase \in {"running", "paused", "returned"}
    /\ modelTurn \in Nat /\ modelCalls \in Nat /\ repairs \in 0..Repairs
    /\ expired \in BOOLEAN
    /\ pending \in Check \cup {None}
    /\ seen \subseteq Check
    /\ receipts \subseteq Receipt
    /\ evidence \subseteq Nat /\ passages \subseteq Nat
    /\ assessment \in Assessment \cup {None}
    /\ failure \in Failure \cup {None}
    /\ escalation \in EscalationReason \cup {None}
    /\ decision \in {"accept", "reject", None}
    /\ result \in {"DIAGNOSED", "INSUFFICIENT_EVIDENCE", "FAILED_SAFE", None}
    /\ steps \in Nat /\ asked \in Nat
    /\ ran \in [Check -> Nat]
    /\ crashes \in 0..MaxCrashes
    /\ phase = "paused" => node = "escalation_interrupt"

Init ==
    /\ mode \in {"owner", "scored", "baseline"}
    /\ node = IF mode = "baseline" THEN "final_assessment" ELSE "investigate"
    /\ phase = "running"
    /\ modelTurn = 0 /\ modelCalls = 0 /\ repairs = 0
    /\ expired = FALSE
    /\ pending = None /\ seen = {}
    /\ receipts = {} /\ evidence = {} /\ passages = {}
    /\ assessment = None /\ failure = None
    /\ escalation = None /\ decision = None /\ result = None
    /\ steps = 0 /\ asked = 0 /\ crashes = 0
    /\ ran = [c \in Check |-> 0]

-----------------------------------------------------------------------------
(* Budgets.                                                                *)

\* Fault variant of CallsLeft: a repair is charged twice, to both pools.
CallsLeftWithRepairs == ModelCalls - modelCalls

\* _model_calls_left: repairs are paid from their own pool.
CallsLeft == ModelCalls - (modelCalls - repairs)

Spent(pool) ==
    Cardinality({r \in receipts : r.policy = "ALLOWED" /\ r.check \in pool})

\* slots_left and runbook_slots_left.
ToolsLeft == ExecutedTools - Spent(Check \ RunbookCheck)
SlotsLeftFor(c) ==
    IF c \in RunbookCheck THEN RunbookSearches - Spent(RunbookCheck)
                          ELSE ToolsLeft

-----------------------------------------------------------------------------
(* Asking the model.                                                       *)

Answer(calls, fixes, r) == [calls |-> calls, repairs |-> fixes, result |-> r]

\* Fault variant of Answers: the repair budget is not consulted.
AlwaysRepair ==
    IF expired THEN {Answer(0, 0, "WALL_CLOCK_EXPIRED")}
    ELSE IF CallsLeft <= 0 THEN {Answer(0, 0, "MODEL_CALL_BUDGET_EXHAUSTED")}
    ELSE {Answer(1, 0, r) : r \in {"valid", "REFUSED", "INTERNAL_ERROR"}}
         \cup {Answer(2, 1, r) : r \in {"valid", "MODEL_OUTPUT_INVALID",
                                        "REFUSED", "INTERNAL_ERROR"}}

\* The ways _ask_with_repair ends, with the calls and repairs it has counted:
\* every request is counted before it is sent, a refused or failed one too.
Answers ==
    IF expired THEN {Answer(0, 0, "WALL_CLOCK_EXPIRED")}
    ELSE IF CallsLeft <= 0 THEN {Answer(0, 0, "MODEL_CALL_BUDGET_EXHAUSTED")}
    ELSE {Answer(1, 0, r) : r \in {"valid", "REFUSED", "INTERNAL_ERROR"}}
         \cup IF repairs < Repairs
                THEN {Answer(2, 1, r) : r \in {"valid", "MODEL_OUTPUT_INVALID",
                                               "REFUSED", "INTERNAL_ERROR"}}
                ELSE {Answer(1, 0, "REPAIR_EXHAUSTED")}

Count(a) ==
    /\ modelCalls' = modelCalls + a.calls
    /\ repairs' = repairs + a.repairs
    /\ asked' = asked + a.calls
    /\ UNCHANGED <<ran, crashes>>

\* A node runs in a superstep of its own and names its successor.
Enter(n) == phase = "running" /\ node = n
GoTo(n) == node' = n /\ steps' = steps + 1

-----------------------------------------------------------------------------
(* The investigate node and route_after_investigate.                       *)

Propose ==
    /\ Enter("investigate")
    /\ \E a \in Answers :
          /\ a.result = "valid"
          /\ Count(a)
    /\ \E c \in Check : pending' = c
    /\ modelTurn' = modelTurn + 1
    /\ GoTo("dispatch_tool")
    /\ UNCHANGED <<mode, phase, expired, seen, findings, outcome, failure, result>>

\* The model gives a stop reason instead of a check.
ProposeNothing ==
    /\ Enter("investigate")
    /\ \E a \in Answers :
          /\ a.result = "valid"
          /\ Count(a)
    /\ modelTurn' = modelTurn + 1
    /\ GoTo("final_assessment")
    /\ UNCHANGED <<mode, phase, expired, pending, seen, findings, outcome,
                   failure, result>>

\* Fault variant of StopIsFatal: the first turn is treated as the others.
CrashIsFatal(a) == a.result = "INTERNAL_ERROR"

\* A stopped turn ends the run on the first turn; later the run goes on to
\* the assessment with the evidence it has.  An exception always ends it.
StopIsFatal(a) == a.result = "INTERNAL_ERROR" \/ modelTurn = 0

Stop ==
    /\ Enter("investigate")
    /\ \E a \in Answers :
          /\ a.result # "valid"
          /\ Count(a)
          /\ failure' = IF StopIsFatal(a) THEN a.result ELSE None
          /\ GoTo(IF StopIsFatal(a) THEN "final_report" ELSE "final_assessment")
    /\ UNCHANGED <<mode, phase, modelTurn, expired, pending, seen, findings,
                   outcome, result>>

-----------------------------------------------------------------------------
(* The dispatch_tool node: authorize, reserve, run, settle.                *)

\* Fault variant of Authorized: the pool of the check is not consulted.
AuthorizedUnbudgeted(c) == c \notin seen /\ c \in InPolicy

Authorized(c) == SlotsLeftFor(c) > 0 /\ c \notin seen /\ c \in InPolicy

ReceiptOf(policy, st, out) ==
    [turn |-> modelTurn, check |-> pending, policy |-> policy, state |-> st,
     outcome |-> out]

\* A proposal is marked seen whether it is allowed or not.
Dispatched ==
    /\ seen' = seen \cup {pending}
    /\ pending' = None
    /\ GoTo("normalize_evidence")
    /\ UNCHANGED <<mode, phase, counters, expired, outcome, result, asked,
                   crashes>>

Deny ==
    /\ Enter("dispatch_tool")
    /\ ~Authorized(pending)
    /\ receipts' = receipts \cup {ReceiptOf("DENIED", "SETTLED", "NOT_EXECUTED")}
    /\ Dispatched
    /\ UNCHANGED <<evidence, passages, failure, ran>>

RunCheck ==
    /\ Enter("dispatch_tool")
    /\ Authorized(pending)
    /\ ran' = [ran EXCEPT ![pending] = @ + 1]
    /\ Dispatched

\* Evidence or passages enter the state with the receipt that names them.
Settled(out, found) ==
    /\ receipts' = receipts \cup {ReceiptOf("ALLOWED", "SETTLED", out)}
    /\ evidence' = IF pending \notin RunbookCheck /\ out = "EXECUTED"
                     THEN evidence \cup {modelTurn} ELSE evidence
    /\ passages' = IF pending \in RunbookCheck /\ found
                     THEN passages \cup {modelTurn} ELSE passages

Execute ==
    /\ RunCheck
    /\ \E out \in {"EXECUTED", "UNAVAILABLE", "TIMEOUT", "ERROR"},
          found \in BOOLEAN :
          /\ found => out = "EXECUTED"
          /\ Settled(out, found)
    /\ UNCHANGED failure

\* The backend, or building its evidence, raises: the reservation is kept.
BackendRaises ==
    /\ RunCheck
    /\ receipts' = receipts \cup {ReceiptOf("ALLOWED", "RESERVED", "NOT_EXECUTED")}
    /\ failure' = "INTERNAL_ERROR"
    /\ UNCHANGED <<evidence, passages>>

\* Fault variant of RaisesAfterSettle: the handler keeps only the receipt.
RaisesWithoutEvidence ==
    /\ RunCheck
    /\ receipts' = receipts \cup {ReceiptOf("ALLOWED", "SETTLED", "EXECUTED")}
    /\ failure' = "INTERNAL_ERROR"
    /\ UNCHANGED <<evidence, passages>>

\* An exception after settle: the handler recovers the evidence from the
\* ledger.  Passages are not held there.
RaisesAfterSettle ==
    /\ RunCheck
    /\ \E out \in {"EXECUTED", "UNAVAILABLE", "TIMEOUT", "ERROR"} :
          Settled(out, FALSE)
    /\ failure' = "INTERNAL_ERROR"

-----------------------------------------------------------------------------
(* normalize_evidence and route_after_normalize.                           *)

\* Fault variant of MayInvestigate: no call is kept for the assessment.
MayInvestigateToLastCall ==
    ToolsLeft > 0 /\ CallsLeft >= 1 /\ ~expired /\ modelTurn < ModelCalls

\* Another turn needs a check slot, a call for it and one for the assessment.
MayInvestigate ==
    ToolsLeft > 0 /\ CallsLeft >= 2 /\ ~expired /\ modelTurn < ModelCalls

Normalize ==
    /\ Enter("normalize_evidence")
    /\ GoTo(IF failure # None THEN "final_report"
            ELSE IF MayInvestigate THEN "investigate"
            ELSE "final_assessment")
    /\ UNCHANGED <<mode, phase, counters, expired, pending, seen, findings,
                   outcome, failure, result, history>>

-----------------------------------------------------------------------------
(* final_assessment, the escalation triggers and route_after_final_assess. *)

Unavailable == \E r \in receipts : r.outcome = "UNAVAILABLE"

RetrievalCameBackEmpty ==
    /\ \E r \in receipts : /\ r.check \in RunbookCheck
                           /\ r.policy = "ALLOWED" /\ r.state = "SETTLED"
    /\ passages = {}

\* _escalation_reason, in the order of its checks.
ReasonToEscalate(a) ==
    CASE Unavailable -> "TOOL_UNAVAILABLE"
      [] ~Unavailable /\ RetrievalCameBackEmpty ->
            "RETRIEVAL_COVERAGE_INSUFFICIENT"
      [] ~Unavailable /\ ~RetrievalCameBackEmpty
         /\ a.disposition = "INSUFFICIENT_EVIDENCE" /\ ToolsLeft > 0 ->
            "INSUFFICIENT_EVIDENCE_WITH_CHECK_REMAINING"
      [] ~Unavailable /\ ~RetrievalCameBackEmpty
         /\ ~(a.disposition = "INSUFFICIENT_EVIDENCE" /\ ToolsLeft > 0)
         /\ a.contrary -> "CONFLICTING_EVIDENCE"
      [] OTHER -> None

\* Fault variant of AfterAssessment: a diagnosis is never escalated.
EscalateAbstentions(a) ==
    IF /\ mode = "owner"
       /\ a.disposition = "INSUFFICIENT_EVIDENCE" /\ ReasonToEscalate(a) # None
    THEN "escalation_interrupt" ELSE "final_report"

AfterAssessment(a) ==
    IF mode = "owner" /\ ReasonToEscalate(a) # None
    THEN "escalation_interrupt" ELSE "final_report"

Assess ==
    /\ Enter("final_assessment")
    /\ \E ans \in Answers : ans.result = "valid" /\ Count(ans)
    /\ \E a \in Assessment :
          /\ assessment' = a
          /\ GoTo(AfterAssessment(a))
    /\ UNCHANGED <<mode, phase, modelTurn, expired, pending, seen, findings,
                   escalation, decision, failure, result>>

\* Every stop is terminal here, and so is a citation of unknown evidence.
AssessmentFails ==
    /\ Enter("final_assessment")
    /\ \E ans \in Answers :
          /\ Count(ans)
          /\ failure' = IF ans.result = "valid" THEN "FORGED_EVIDENCE_REFERENCE"
                                                ELSE ans.result
    /\ GoTo("final_report")
    /\ UNCHANGED <<mode, phase, modelTurn, expired, pending, seen, findings,
                   outcome, result>>

-----------------------------------------------------------------------------
(* The interrupt, its resume, and the report.                              *)

Interrupt ==
    /\ Enter("escalation_interrupt")
    /\ phase' = "paused"
    /\ steps' = steps + 1
    /\ UNCHANGED <<mode, node, counters, expired, pending, seen, findings,
                   outcome, failure, result, history>>

\* resume_graph_investigation with a recorded decision: a new invocation that
\* runs the interrupt node again, this time to its end.
Resume ==
    /\ phase = "paused"
    /\ phase' = "running"
    /\ \E d \in {"accept", "reject"} : decision' = d
    /\ escalation' = ReasonToEscalate(assessment)
    /\ node' = "final_report"
    /\ steps' = 1
    /\ UNCHANGED <<mode, counters, expired, pending, seen, findings, assessment,
                   failure, result, history>>

\* _build_report
Disposition == IF assessment = None THEN "FAILED_SAFE" ELSE assessment.disposition

\* Fault variant of FinalReport: the report is built but never returned.
ReportNotReturned ==
    /\ Enter("final_report")
    /\ result' = Disposition
    /\ GoTo("end")
    /\ UNCHANGED <<mode, phase, counters, expired, pending, seen, findings,
                   outcome, failure, history>>

FinalReport ==
    /\ Enter("final_report")
    /\ result' = Disposition
    /\ phase' = "returned"
    /\ GoTo("end")
    /\ UNCHANGED <<mode, counters, expired, pending, seen, findings, outcome,
                   failure, history>>

\* What an invocation can still do that no stored checkpoint will show: the
\* request or the check of a node that raises out of its own handler, and all
\* that follows a checkpoint that is not stored.  Each check is run once, from
\* the slots that are left, and each request comes from the budgets that are
\* left, at the nodes still ahead.
Unrecorded ==
    \E n \in 0..(ModelCalls + Repairs - modelCalls), lost \in SUBSET InPolicy :
        /\ n > 0 => ~expired /\ failure = None
        /\ n > 0 => node \notin {"escalation_interrupt", "final_report", "end"}
        /\ lost # {} => failure = None /\ mode # "baseline"
        /\ lost # {} => node \in {"investigate", "dispatch_tool",
                                  "normalize_evidence"}
        /\ lost \cap seen = {}
        /\ Cardinality(lost \cap RunbookCheck) <=
              RunbookSearches - Spent(RunbookCheck)
        /\ Cardinality(lost \ RunbookCheck) <= ToolsLeft
        /\ asked' = asked + n
        /\ ran' = [c \in Check |-> IF c \in lost THEN ran[c] + 1 ELSE ran[c]]

\* A node raises past its own handlers (its handler's own recorder.event may
\* be what raises), a checkpoint cannot be stored, or the graph exceeds its
\* recursion limit: _settle_invocation reports FAILED_SAFE from the last
\* stored checkpoint and writes nothing to it.
GiveUp ==
    /\ phase = "running"
    /\ node # "end"
    /\ result' = "FAILED_SAFE"
    /\ phase' = "returned"
    /\ Unrecorded
    /\ UNCHANGED <<mode, node, counters, expired, pending, seen, findings,
                   outcome, failure, steps, crashes>>

-----------------------------------------------------------------------------
(* Environment.                                                            *)

WallClockExpires ==
    /\ ~expired
    /\ expired' = TRUE
    /\ UNCHANGED <<mode, node, phase, counters, pending, seen, findings, outcome,
                   failure, result, steps, history>>

\* The process dies, at this node or at a later one whose checkpoints are not
\* stored yet, or before it published what the invocation returned;
\* recover_graph_investigation continues the thread from here.  Scored and
\* baseline runs keep their checkpoints in memory and are lost.
Crash ==
    /\ mode = "owner"
    /\ phase # "paused"
    /\ node # "end"
    /\ crashes < MaxCrashes
    /\ crashes' = crashes + 1
    /\ phase' = "running"
    /\ steps' = 0
    /\ result' = None
    /\ IF phase = "running" THEN Unrecorded ELSE UNCHANGED <<asked, ran>>
    /\ UNCHANGED <<mode, node, counters, expired, pending, seen, findings,
                   outcome, failure>>

NodeStep ==
    \/ Propose
    \/ ProposeNothing
    \/ Stop
    \/ Deny
    \/ Execute
    \/ BackendRaises
    \/ RaisesAfterSettle
    \/ Normalize
    \/ Assess
    \/ AssessmentFails
    \/ Interrupt
    \/ FinalReport

Next ==
    \/ NodeStep
    \/ GiveUp
    \/ Resume
    \/ WallClockExpires
    \/ Crash

Spec == Init /\ [][Next]_vars

\* The library keeps running nodes while the invocation lasts; the owner need
\* not decide, no process need die and the clock need not run out.
FairSpec == Spec /\ WF_vars(NodeStep)

-----------------------------------------------------------------------------
(* Properties.                                                             *)

\* The reserve of route_after_normalize: whatever was denied, repaired,
\* stopped or re-executed on the way, the run that reaches final_assessment
\* still has a model call to make it with.
AssessmentFunded == node = "final_assessment" => CallsLeft >= 1

\* Spending follows the two pools and the repair pool, counting the requests
\* of failed and refused attempts and of invocations that gave up; a process
\* death can have it start over, no more than once each.
ModelSpendBounded == asked <= (ModelCalls + Repairs) * (crashes + 1)

Allowed(c) == Spent({c})

\* The invocation gave up: what it ran last may be missing from the receipts.
GaveUp == phase = "returned" /\ node # "end"

\* Every check that was run is on a receipt, through exceptions of backend and
\* handler, and no check outside the policy or beyond its pool was run.  An
\* execution without receipt costs a process death or the investigation: it
\* is reported FAILED_SAFE, and no check is missing twice.
ChecksAccountedFor ==
    /\ \A c \in Check : ran[c] >= Allowed(c)
    /\ \A c \in Check \ InPolicy : ran[c] = 0
    /\ Spent(RunbookCheck) <= RunbookSearches
    /\ Spent(Check \ RunbookCheck) <= ExecutedTools
    /\ \A c \in Check : ran[c] <= Allowed(c) + crashes + (IF GaveUp THEN 1 ELSE 0)
    /\ GaveUp => result = "FAILED_SAFE"

\* A receipt that says EXECUTED and the evidence it names are in the state
\* together, or neither is.
EvidenceMatchesReceipts ==
    evidence = {r.turn : r \in {s \in receipts :
                    s.outcome = "EXECUTED" /\ s.check \notin RunbookCheck}}

\* The owner gate: a conclusion the owner has not decided on rests on tools
\* that were all available, on a search that found something, on no contrary
\* evidence and, when it abstains, on checks that are used up.  A failed run
\* never pauses, and the owner is told of an unavailable tool or an empty
\* retrieval before anything the model concluded.
OwnerGate ==
    /\ /\ result \in {"DIAGNOSED", "INSUFFICIENT_EVIDENCE"}
       /\ mode = "owner"
       /\ decision = None
       => /\ ~Unavailable /\ ~RetrievalCameBackEmpty
          /\ ~assessment.contrary
          /\ result = "INSUFFICIENT_EVIDENCE" => ToolsLeft <= 0
    /\ phase = "paused" => failure = None /\ assessment # None
    /\ escalation # None =>
          /\ Unavailable <=> escalation = "TOOL_UNAVAILABLE"
          /\ RetrievalCameBackEmpty =>
                escalation \in {"TOOL_UNAVAILABLE",
                                "RETRIEVAL_COVERAGE_INSUFFICIENT"}

\* A failure reason and an assessment never coexist, and a first turn without
\* an answer ends as a failure: no conclusion comes from a stopped plan.
ConclusionEarned ==
    /\ failure = None \/ assessment = None
    /\ node = "final_assessment" => modelTurn > 0 \/ mode = "baseline"

\* The graph ends on its own, well before the library's recursion limit would
\* turn a sound investigation into INTERNAL_ERROR.
RecursionLimitUnreached == steps < 3 * ModelCalls

\* Every invocation returns a report or pauses for its owner.
Terminates == []<>(phase # "running")
=============================================================================
