-------------------------- MODULE PairedEvaluation --------------------------
(***************************************************************************)
(* causalops-evaluate (evaluate_cli.py): the corpus of incidents, each     *)
(* scored once without tools and once with them, over the MCP transport,   *)
(* and the scoring and summary of evaluation.py.                           *)
(*                                                                         *)
(* Every run starts its own child.  What the model concludes is a choice   *)
(* among Report; the investigation graph in between is left to its own     *)
(* module, except that an exception of a check ends it with INTERNAL_ERROR *)
(* and that an assessment may cite only what a check has observed.         *)
(*                                                                         *)
(* Every request reserves the most one can: PreflightPrice is that amount  *)
(* at the prices the preflight uses, those of Claude Sonnet 5 whatever     *)
(* model CAUSALOPS_LIVE_MODEL selects, and CallPrice at the selected       *)
(* model's.  A bill above its reservation counts at the bill.              *)
(***************************************************************************)
EXTENDS McpTransport

CONSTANTS
    Incidents,      \* number of (family, seed) pairs
    Cause,          \* the root cause each incident is expected to have
    Predicated,     \* incidents whose family requires evidence
    Report,         \* what the model may come to
    Repairs,        \* Budgets.repairs
    Ceiling,        \* LIVE_EVALUATION_MAX_USD
    Buffer,         \* RESERVATION_CEILING_BUFFER_USD
    PreflightPrice, \* MAXIMUM_POSSIBLE_RESERVATION_USD
    CallPrice,      \* the largest reservation at the selected model's prices
    MaxExcess,      \* bound on what bills exceed their reservations by
    AlreadySpent,   \* what the cost ledger may hold before the batch
    OtherRequests   \* what another process may ask during the batch

Arm == <<"no_tool_baseline", "tool_enabled">>

RootCauseCode == {"CONFIG_CHANGE", "DOWNSTREAM_TIMEOUT_RETRY_AMPLIFICATION",
                  "RESOURCE_POOL_SATURATION", "UNDETERMINED"}

Disposition == {"DIAGNOSED", "INSUFFICIENT_EVIDENCE", "FAILED_SAFE"}

RetrievalMode == {"DISABLED", "FTS5_LEXICAL", "PINECONE_SEMANTIC"}

\* INFRASTRUCTURE_ABORT_REASONS.
AbortReason == {"COST_CEILING_EXCEEDED", "INPUT_TOKEN_CAP_EXCEEDED",
                "AMBIGUOUS_MODEL_REQUEST", "WALL_CLOCK_EXPIRED",
                "INTERNAL_ERROR"}

\* The codes an investigation can end with.
ReasonCode == AbortReason \cup
    {"MODEL_OUTPUT_INVALID", "REPAIR_EXHAUSTED",
     "MODEL_CALL_BUDGET_EXHAUSTED", "FORGED_EVIDENCE_REFERENCE"}

\* What main can report.
Status == ReasonCode \cup
    {"OK", "killed", "CEILING_BELOW_RESERVATION_BUFFER", "LAB_ERROR",
     "RUN_FAILED", "WRITE_FAILED", "RESET_FAILED", "SUMMARY_WRITE_FAILED"}

\* The part of an InvestigationReport that is scored.
Conclusion == [disposition : Disposition,
               cause       : RootCauseCode,
               cites       : {"supporting", "contrary", None},
               retrieval   : RetrievalMode,
               reason      : ReasonCode \cup {None}]

ASSUME EvaluationConstants ==
    /\ Incidents \in Nat \ {0}
    /\ Cause \in [1..Incidents -> RootCauseCode]
    /\ Predicated \subseteq 1..Incidents
    /\ Report \subseteq Conclusion
    /\ \A r \in Report :
          /\ r.reason # "COST_CEILING_EXCEEDED"  \* CeilingStops returns it
          /\ r.disposition = "FAILED_SAFE" =>
                r.cause = "UNDETERMINED" /\ r.cites = None
          \* _build_report: FAILED_SAFE exactly where there is a reason
          /\ r.disposition = "FAILED_SAFE" <=> r.reason # None
    /\ Repairs \in Nat /\ Ceiling \in Nat /\ Buffer \in Nat
    /\ PreflightPrice \in Nat /\ CallPrice \in Nat
    /\ MaxExcess \in Nat /\ OtherRequests \in Nat /\ AlreadySpent \subseteq Nat
    /\ None \notin Status

\* The figures of one group of records; a summary is told from its absence.
Figures == [total      : Nat,
            correct    : Nat,
            sufficient : Nat,
            grounded   : Nat,
            applicable : Nat,
            costKnown  : Nat]

ASSUME AbsentSummary ==
    \A S \in SUBSET (ToSet(Arm) \X RetrievalMode) : None \notin [S -> Figures]

Runs == 2 * Incidents
CallsPerRun == (ExecutedTools + 2) + Repairs

VARIABLES
    stage,      \* where run_evaluation is
    run,        \* number of the scored run, two for each incident
    lab,        \* the incident whose scenario is up, 0 for none
    report,     \* what the graph returned in this run
    settled,    \* every request of this run is settled in the cost ledger
    record,     \* the record _run_one returned
    finalized,  \* runs with a directory under results/investigations
    file,       \* records.jsonl
    summary,    \* summary.json, or None
    failure,    \* the exception on its way out of run_evaluation
    first,      \* the first failure of the batch (history)
    unreset,    \* reset_scenario failed (history)
    exit,       \* what main reports: a reason, "OK", or "killed"
    spent,      \* application-wide spend
    excess,     \* what bills of this batch exceeded their reservations by
    other       \* requests of other processes

money == <<spent, excess, other>>
disk == <<finalized, file, summary>>
ends == <<failure, first, unreset, exit>>
loop == <<stage, run, lab, report, settled, record, finalized, file, summary,
          failure, first, unreset, exit, spent, excess, other>>
vars == <<transport, loop>>

Init ==
    /\ TransportInit
    /\ stage = "preflight"
    /\ run = 1
    /\ lab = 0
    /\ report = None /\ settled = TRUE /\ record = None
    /\ finalized = {} /\ file = <<>> /\ summary = None
    /\ failure = None /\ first = None /\ unreset = FALSE /\ exit = None
    /\ spent \in AlreadySpent
    /\ excess = 0
    /\ other = 0

IncidentOf(n) == (n + 1) \div 2
ArmOf(n) == Arm[2 - (n % 2)]

\* The requests a run can make: without tools, one assessment, repaired once.
RequestsOf(n) ==
    IF ArmOf(n) = "tool_enabled" THEN CallsPerRun
    ELSE IF Repairs = 0 THEN 1 ELSE 2

\* An exception leaves what it is in; the finally of the incident comes next.
Fails(reason) ==
    /\ failure' = reason
    /\ first' = IF first = None THEN reason ELSE first
    /\ UNCHANGED <<unreset, exit>>

-----------------------------------------------------------------------------
(* Before the first scenario.                                              *)

\* Fault variant of WorstCase: one run for each incident.
WorstCaseOfOneArm == Incidents * (CallsPerRun * PreflightPrice)

\* _preflight_worst_case_batch_usd, at Sonnet 5 prices.
WorstCase == Runs * (CallsPerRun * PreflightPrice)

\* _check_preflight_cost: an exception of run_evaluation, with nothing to
\* reset.
Preflight ==
    /\ stage = "preflight"
    /\ IF spent + WorstCase + Buffer > Ceiling
         THEN /\ Fails("CEILING_BELOW_RESERVATION_BUFFER")
              /\ stage' = "out"
         ELSE /\ stage' = "scenario"
              /\ UNCHANGED ends
    /\ UNCHANGED <<transport, run, lab, report, settled, record, disk, money>>

\* start_scenario, which is outside the try, and the incident's files.
StartScenario ==
    /\ stage = "scenario"
    /\ lab' = IncidentOf(run)
    /\ stage' = "build"
    /\ UNCHANGED <<transport, run, report, settled, record, disk, ends, money>>

ScenarioFails ==
    /\ stage = "scenario"
    /\ Fails("LAB_ERROR")
    /\ stage' = "out"
    /\ UNCHANGED <<transport, run, lab, report, settled, record, disk, money>>

\* The incident or its expected outcome cannot be read, inside the try.
ReadFails ==
    /\ stage = "build"
    /\ run % 2 = 1
    /\ Fails("RUN_FAILED")
    /\ stage' = "reset"
    /\ UNCHANGED <<transport, run, lab, report, settled, record, disk, money>>

-----------------------------------------------------------------------------
(* _run_one.                                                               *)

\* build_claude_model_and_mcp_registry up to the handshake.
Build ==
    /\ stage = "build"
    /\ StartChild
    /\ stage' = "handshake"
    /\ UNCHANGED <<run, lab, report, settled, record, disk, ends, money>>

\* The ledger connection and the model, once the child is up.
Built ==
    /\ stage = "handshake"
    /\ ChildReady /\ session.verified
    /\ stage' = "investigate"
    /\ UNCHANGED <<transport, run, lab, report, settled, record, disk, ends,
                   money>>

\* They fail, and the child is closed.
BuildFails ==
    /\ stage = "handshake"
    /\ ChildReady /\ session.verified
    /\ Closed
    /\ Fails("INTERNAL_ERROR")
    /\ stage' = "reset"
    /\ UNCHANGED <<call, receipts, ran, faults, run, lab, report, settled,
                   record, disk, money>>

\* The handshake fails: start() is outside the try, and the child is left.
StartFails ==
    /\ stage = "handshake"
    /\ ChildReady /\ ~session.verified
    /\ Fails("INTERNAL_ERROR")
    /\ stage' = "reset"
    /\ UNCHANGED <<transport, run, lab, report, settled, record, disk, money>>

\* The tool loop of the tool-enabled arm: the model has proposed a check.
DispatchTool ==
    /\ stage = "investigate"
    /\ ArmOf(run) = "tool_enabled"
    /\ spent + CallPrice + Buffer <= Ceiling
    /\ \E c \in Call : Forward(c)
    /\ UNCHANGED loop

\* Evidence that can satisfy a predicate comes from an executed check.
Observed == \E c \in Call : receipt[c] = "EXECUTED"

\* The run's requests, reserved one by one while they fit under the ceiling.
\* Bills exceed their reservations by over in all: on the last request, whose
\* bill no reservation of the run waits for, unless its answer is lost and it
\* stays at its reservation.
Ask(requests, over, lost) ==
    /\ requests > 0 =>
          spent + requests * CallPrice + (IF lost THEN over ELSE 0) + Buffer
            <= Ceiling
    /\ requests = 0 => over = 0
    /\ excess + over <= MaxExcess
    /\ settled' = ~lost
    /\ spent' = spent + requests * CallPrice + over
    /\ excess' = excess + over

Returns(r) ==
    /\ report' = r
    /\ stage' = "returned"
    /\ UNCHANGED <<transport, run, lab, record, disk, ends, other>>

Failed(reason) ==
    [disposition |-> "FAILED_SAFE", cause |-> "UNDETERMINED", cites |-> None,
     retrieval |-> "DISABLED", reason |-> reason]

\* run_graph_investigation returns an assessment or a failed-safe report.  It
\* has used up its budget of requests: the ceiling is nearest then.
Conclude(r) ==
    /\ stage = "investigate"
    /\ call = 0 /\ waiting = None
    /\ r.cites # None => Observed
    /\ ArmOf(run) = "no_tool_baseline" => r.retrieval = "DISABLED"
    /\ \E over \in 0..MaxExcess :
          Ask(RequestsOf(run), over, r.reason = "AMBIGUOUS_MODEL_REQUEST")
    /\ Returns(r)

\* Some requests were made, and the reservation of the next does not fit.
CeilingStops ==
    /\ stage = "investigate"
    /\ call = 0 /\ waiting = None
    /\ \E n \in 0..(RequestsOf(run) - 1), over \in 0..MaxExcess :
          /\ spent + n * CallPrice + over + CallPrice + Buffer > Ceiling
          /\ Ask(n, over, FALSE)
    /\ Returns(Failed("COST_CEILING_EXCEEDED"))

\* An exception of a check: dispatch_tool keeps its receipt RESERVED.
CheckRaised ==
    /\ stage = "investigate"
    /\ Raised
    /\ \E n \in 1..RequestsOf(run), over \in 0..MaxExcess :
          Ask(n, over, FALSE)
    /\ Returns(Failed("INTERNAL_ERROR"))

\* finalize_investigation.
Finalize ==
    /\ stage = "returned"
    /\ finalized' = finalized \cup {run}
    /\ stage' = "finalized"
    /\ UNCHANGED <<transport, run, lab, report, settled, record, file, summary,
                   ends, money>>

\* finally: the ledger connection and the child are closed.
Release ==
    /\ Closed
    /\ call' = 0
    /\ receipt' = [c \in Call |-> None]
    /\ answeredBy' = [c \in Call |-> 0]
    /\ sentAs' = [c \in Call |-> 0]
    /\ ran' = [c \in Call |-> 0]
    /\ UNCHANGED faults

\* finalize_investigation, the scores or the ledger raise.
RunRaises ==
    /\ stage \in {"returned", "finalized"}
    /\ Release
    /\ Fails("RUN_FAILED")
    /\ stage' = "reset"
    /\ UNCHANGED <<run, lab, report, settled, record, disk, money>>

-----------------------------------------------------------------------------
(* score_run.                                                              *)

\* Fault variant of DiagnosisCorrect: the cause alone is compared.
CauseMatches(n, r) == r.cause = Cause[IncidentOf(n)]

\* A failed-safe report has the cause UNDETERMINED without a diagnosis.
DiagnosisCorrect(n, r) ==
    r.disposition # "FAILED_SAFE" /\ r.cause = Cause[IncidentOf(n)]

\* citations_sufficient: "n/a" without predicates; contrary evidence does
\* not count.
Sufficient(n, r) ==
    IF IncidentOf(n) \notin Predicated THEN "n/a"
    ELSE IF r.cites = "supporting" THEN "yes" ELSE "no"

Unsettled == Cardinality({c \in Call : receipt[c] = "RESERVED"})

ScoreRun(n, r) ==
    [run |-> n, arm |-> ArmOf(n), retrieval |-> r.retrieval,
     reason |-> r.reason, diagnosed |-> DiagnosisCorrect(n, r),
     sufficient |-> Sufficient(n, r), unsettled |-> Unsettled,
     costKnown |-> settled]

Score ==
    /\ stage = "finalized"
    /\ record' = ScoreRun(run, report)
    /\ report' = None
    /\ Release
    /\ stage' = "scored"
    /\ UNCHANGED <<run, lab, settled, disk, ends, money>>

-----------------------------------------------------------------------------
(* The loop of run_evaluation.                                             *)

\* Fault variant of WriteRecord: an abort comes before the write.
AbortBeforeWrite ==
    /\ stage = "scored"
    /\ IF record.reason \in AbortReason
         THEN /\ Fails(record.reason)
              /\ stage' = "reset"
              /\ UNCHANGED <<file, run>>
         ELSE /\ file' = Append(file, record)
              /\ stage' = IF run % 2 = 1 THEN "build" ELSE "reset"
              /\ run' = IF run % 2 = 1 THEN run + 1 ELSE run
              /\ UNCHANGED ends
    /\ record' = None
    /\ UNCHANGED <<transport, lab, report, settled, finalized, summary, money>>

\* Fault variant of WriteRecord: an infrastructure failure is only recorded.
WriteAndGoOn ==
    /\ stage = "scored"
    /\ file' = Append(file, record)
    /\ stage' = IF run % 2 = 1 THEN "build" ELSE "reset"
    /\ run' = IF run % 2 = 1 THEN run + 1 ELSE run
    /\ record' = None
    /\ UNCHANGED <<transport, lab, report, settled, finalized, summary, ends,
                   money>>

\* write_jsonl rewrites the file atomically with all records, then an
\* infrastructure failure ends the batch.
WriteRecord ==
    /\ stage = "scored"
    /\ file' = Append(file, record)
    /\ record' = None
    /\ IF record.reason \in AbortReason
         THEN Fails(record.reason) /\ stage' = "reset" /\ UNCHANGED run
         ELSE /\ stage' = IF run % 2 = 1 THEN "build" ELSE "reset"
              /\ run' = IF run % 2 = 1 THEN run + 1 ELSE run
              /\ UNCHANGED ends
    /\ UNCHANGED <<transport, lab, report, settled, finalized, summary, money>>

\* OSError: the file is as it was.
WriteFails ==
    /\ stage = "scored"
    /\ record' = None
    /\ Fails("WRITE_FAILED")
    /\ stage' = "reset"
    /\ UNCHANGED <<transport, run, lab, report, settled, disk, money>>

\* finally: reset_scenario.
Reset ==
    /\ stage = "reset"
    /\ lab' = 0
    /\ IF failure = None /\ run < Runs
         THEN stage' = "scenario" /\ run' = run + 1
         ELSE stage' = "out" /\ UNCHANGED run
    /\ UNCHANGED <<transport, report, settled, record, disk, ends, money>>

\* Fault variant of ResetFails: the cleanup's exception replaces the other.
ResetReplacesFailure ==
    /\ stage = "reset"
    /\ unreset' = TRUE
    /\ failure' = "RESET_FAILED"
    /\ first' = IF first = None THEN "RESET_FAILED" ELSE first
    /\ stage' = "out"
    /\ UNCHANGED <<transport, run, lab, report, settled, record, disk, exit,
                   money>>

\* It raises: an exception already on its way is not replaced.
ResetFails ==
    /\ stage = "reset"
    /\ unreset' = TRUE
    /\ failure' = IF failure = None THEN "RESET_FAILED" ELSE failure
    /\ first' = IF first = None THEN "RESET_FAILED" ELSE first
    /\ stage' = "out"
    /\ UNCHANGED <<transport, run, lab, report, settled, record, disk, exit,
                   money>>

-----------------------------------------------------------------------------
(* main, and summarize_paired_evaluation.                                  *)

GroupKey(rec) == <<rec.arm, rec.retrieval>>

\* summarize_evaluation of the records of one group.
SummaryOf(recs) ==
    [total |-> Cardinality(recs),
     correct |-> Cardinality({r \in recs : r.diagnosed}),
     sufficient |-> Cardinality({r \in recs : r.sufficient = "yes"}),
     grounded |-> Cardinality({r \in recs : r.diagnosed /\ r.sufficient = "yes"}),
     applicable |-> Cardinality({r \in recs :
                                   IncidentOf(r.run) \in Predicated}),
     costKnown |-> Cardinality({r \in recs : r.costKnown})]

SummarizePaired(recs) ==
    [k \in {GroupKey(r) : r \in recs} |->
        SummaryOf({r \in recs : GroupKey(r) = k})]

\* The process ends: its pipes close, and a child that was left behind exits.
Exits(status) ==
    /\ exit' = status
    /\ stage' = "exited"
    /\ Release
    /\ UNCHANGED <<run, lab, report, settled, record, finalized, file, failure,
                   first, unreset, money>>

MainSucceeds ==
    /\ stage = "out"
    /\ failure = None
    /\ summary' = SummarizePaired(ToSet(file))
    /\ Exits("OK")

\* SUMMARY_WRITE_FAILED, or the failure of run_evaluation.
MainFails ==
    /\ stage = "out"
    /\ Exits(IF failure = None THEN "SUMMARY_WRITE_FAILED" ELSE failure)
    /\ UNCHANGED summary

\* The process is killed.
Kill ==
    /\ stage \notin {"preflight", "exited"}
    /\ faults < MaxFaults
    /\ Exits("killed")
    /\ UNCHANGED summary

\* Another process reserves on the same cost ledger, between two runs.
OtherSpends ==
    /\ stage \in {"scenario", "build"}
    /\ other = 0 /\ OtherRequests > 0
    /\ spent + OtherRequests * CallPrice + Buffer <= Ceiling
    /\ other' = OtherRequests
    /\ spent' = spent + OtherRequests * CallPrice
    /\ UNCHANGED <<transport, stage, run, lab, report, settled, record, disk,
                   ends, excess>>

Next ==
    \/ Preflight
    \/ StartScenario
    \/ ScenarioFails
    \/ ReadFails
    \/ Build
    \/ Built
    \/ BuildFails
    \/ StartFails
    \/ DispatchTool
    \/ TransportStep /\ stage \in {"handshake", "investigate"} /\ UNCHANGED loop
    \/ \E r \in Report : Conclude(r)
    \/ CeilingStops
    \/ CheckRaised
    \/ Finalize
    \/ RunRaises
    \/ Score
    \/ WriteRecord
    \/ WriteFails
    \/ Reset
    \/ ResetFails
    \/ MainSucceeds
    \/ MainFails
    \/ Kill
    \/ OtherSpends

Spec == Init /\ [][Next]_vars
-----------------------------------------------------------------------------
(* Properties.                                                             *)

\* What the transport leaves in the receipts can be believed.
ReceiptsTruthful == OwnAnswer /\ LedgersAgree

\* No paid-for result is lost: records.jsonl holds the scored runs in corpus
\* order, none missing, none twice.  Only the last finalized investigation can
\* have no record there, and after the batch only if it was killed or that
\* run's own scoring or write failed.
RecordsDurable ==
    /\ \A k \in DOMAIN file : file[k].run = k
    /\ DOMAIN file \subseteq finalized
    /\ finalized \subseteq 1..(Len(file) + 1)
    /\ exit # None /\ finalized # DOMAIN file =>
          exit \in {"killed", "RUN_FAILED", "WRITE_FAILED"}

\* Once an infrastructure failure is on record, or a receipt was left
\* unsettled, the batch pays for no further request.
NoSpendAfterAbort ==
    [][ (\E k \in DOMAIN file : \/ file[k].reason \in AbortReason
                                \/ file[k].unsettled > 0)
          => spent' = spent ]_vars

\* Nothing but the batch's own reservations counts against the ceiling.
OwnReservationsOnly == other = 0 /\ excess = 0

\* What _check_preflight_cost is documented to do: a batch that does not fit
\* is refused before anything is spent on it, instead of partway through.
DoomedBatchRefused ==
    OwnReservationsOnly =>
        (report # None => report.reason # "COST_CEILING_EXCEEDED")

\* With a model no dearer than the one the preflight is priced for, a batch
\* that passed it is not stopped by the ceiling half-way, and can pay for
\* every run still to come, unless another process spends from the same
\* ledger or a bill exceeds its reservation.
PreflightSuffices ==
    CallPrice <= PreflightPrice /\ OwnReservationsOnly =>
        /\ report # None => report.reason # "COST_CEILING_EXCEEDED"
        /\ stage = "investigate" =>
              spent + RequestsOf(run) * CallPrice + Buffer <= Ceiling

\* No child outlives its run in a batch that goes on, and main ends with the
\* lab released, reports the first failure and not what the cleanup met
\* later, and writes a summary only for the whole corpus.
CleansUp ==
    /\ stage \in {"scenario", "build"} => proc = "none"
    /\ exit \notin {None, "killed"} =>
          /\ lab = 0 \/ unreset
          /\ first # None => exit = first
          /\ summary # None <=> exit = "OK"
          /\ exit = "OK" => Len(file) = Runs

\* The published figures: the whole corpus is in, every record is in one group,
\* no group blends two retrieval modes, no numerator passes its denominator,
\* and a run that reached no diagnosis is not counted as a correct one, not
\* even where the expected cause is UNDETERMINED.
SummaryHonest ==
    summary # None =>
        /\ Len(file) = Runs
        /\ \A n \in DOMAIN file :
              <<file[n].arm, file[n].retrieval>> \in DOMAIN summary
        /\ \A k \in DOMAIN summary :
              LET members == {n \in DOMAIN file : file[n].arm = k[1]
                                                  /\ file[n].retrieval = k[2]}
              IN  /\ summary[k].total = Cardinality(members)
                  /\ summary[k].grounded <= summary[k].sufficient
                  /\ summary[k].sufficient <= summary[k].applicable
                  /\ summary[k].correct <=
                        Cardinality({n \in members : file[n].reason = None})
-----------------------------------------------------------------------------
(* The invariant behind them.                                              *)

Record == [run        : 1..Runs,
           arm        : ToSet(Arm),
           retrieval  : RetrievalMode,
           reason     : ReasonCode \cup {None},
           diagnosed  : BOOLEAN,
           sufficient : {"n/a", "yes", "no"},
           unsettled  : Nat,
           costKnown  : BOOLEAN]

BatchTypeOK ==
    /\ TransportTypeOK
    /\ stage \in {"preflight", "scenario", "build", "handshake",
                  "investigate", "returned", "finalized", "scored", "reset",
                  "out", "exited"}
    /\ run \in 1..Runs
    /\ stage \in {"returned", "finalized"} => report \in Conclusion
    /\ settled \in BOOLEAN
    /\ stage = "scored" => record \in Record
    /\ file \in Seq(Record)
    /\ spent \in Nat /\ excess \in Nat /\ other \in Nat

\* How far the batch is: the runs before this one are on file and on disk, and
\* a failure leaves at most one run on disk only.
FileShape ==
    /\ \A k \in DOMAIN file : file[k].run = k
    /\ stage = "preflight" => run = 1
    /\ stage \in {"preflight", "scenario", "build", "handshake",
                  "investigate", "returned"} =>
          Len(file) = run - 1 /\ finalized = 1..(run - 1)
    /\ stage \in {"finalized", "scored"} =>
          /\ Len(file) = run - 1 /\ finalized = 1..run
          /\ stage = "scored" => record.run = run
    /\ stage = "reset" /\ failure = None =>
          Len(file) = run /\ finalized = 1..run
    /\ stage = "out" /\ failure = None =>
          Len(file) = Runs /\ finalized = 1..Runs
    /\ finalized = 1..Len(file) \/ finalized = 1..(Len(file) + 1)
    /\ failure # None /\ finalized # 1..Len(file) =>
          failure \in {"RUN_FAILED", "WRITE_FAILED"}

\* Failures are the first ones met, and end the batch.
EndShape ==
    /\ failure = first
    /\ failure \in (Status \cup {None}) \ {"OK"}
    /\ failure # None => stage \in {"reset", "out", "exited"}
    /\ exit = None <=> stage # "exited"
    /\ exit = None => summary = None
    /\ stage \in {"preflight", "scenario"} => lab = 0
    /\ stage = "out" => lab = 0 \/ unreset

\* No child is left where the batch may go on without one.
ChildShape ==
    \/ stage \in {"preflight", "scenario", "build", "scored"}
    \/ stage = "reset" /\ failure = None
    => proc = "none" /\ call = 0

\* The preflight has covered every run that is still to come, where its
\* price is the right one.
RunEstimate == CallsPerRun * PreflightPrice

SpendShape ==
    CallPrice <= PreflightPrice /\ OwnReservationsOnly =>
        /\ stage \in {"scenario", "build", "handshake", "investigate"} =>
              spent + (Runs - run + 1) * RunEstimate + Buffer <= Ceiling
        /\ \/ stage \in {"returned", "finalized", "scored"}
           \/ stage = "reset" /\ failure = None
           => spent + (Runs - run) * RunEstimate + Buffer <= Ceiling
        /\ report # None => report.reason # "COST_CEILING_EXCEEDED"

\* An open receipt ends in a record with an abort reason, and such a record
\* in a failure.
AbortShape ==
    /\ stage \in {"returned", "finalized"} /\ Unsettled > 0 =>
          report.reason \in AbortReason
    /\ stage = "scored" /\ record.unsettled > 0 =>
          record.reason \in AbortReason
    /\ (\E k \in DOMAIN file : \/ file[k].reason \in AbortReason
                               \/ file[k].unsettled > 0)
          => failure # None

\* What a record claims: a correct diagnosis was reached, and sufficient
\* citations were asked for.
HonestRecord(rec) ==
    /\ rec.diagnosed => rec.reason = None
    /\ rec.sufficient = "yes" => IncidentOf(rec.run) \in Predicated

\* Records are honest from the report to the file, and the summary is of the
\* whole file.
ScoreShape ==
    /\ stage \in {"returned", "finalized"} /\ report.reason # None =>
          report.disposition = "FAILED_SAFE"
    /\ stage = "scored" => HonestRecord(record)
    /\ \A n \in DOMAIN file : HonestRecord(file[n])
    /\ summary # None => /\ summary = SummarizePaired(ToSet(file))
                         /\ Len(file) = Runs

EvaluationInv ==
    /\ BatchTypeOK
    /\ OpenReceiptIsCall
    /\ FileShape
    /\ EndShape
    /\ ChildShape
    /\ SpendShape
    /\ AbortShape
    /\ RecordsDurable
    /\ CleansUp
=============================================================================
