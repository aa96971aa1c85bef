---------------------------- MODULE CostLedger ----------------------------
(***************************************************************************)
(* The application-wide spend gate: the cost_ledger table                  *)
(* (src/causalops/cost_ledger.py) and the reserve - send - settle sequence *)
(* of LiveClaudeModel._send (src/causalops/live_model.py).  One row is the *)
(* reservation and the idempotency record of one model request.            *)
(*                                                                         *)
(* Any number of processes share the ledger: the CLI, the hosted worker    *)
(* and a worker that outlived its lease, each with its own connection.     *)
(* Money is counted in integer units.  The provider is external: what it   *)
(* bills is decided at the invocation and is unknown to the program until  *)
(* settlement.                                                             *)
(***************************************************************************)
EXTENDS Integers, FiniteSets, Functions

CONSTANTS
    Process,   \* processes holding a LiveClaudeModel
    Run,       \* run ids
    Turn,      \* (graph_phase, model_turn, context_digest) of a run's requests
    Price,     \* possible reservations (worst-case price of a rendered request)
    MaxError,  \* how far a bill may exceed its reservation
    Ceiling,   \* LIVE_EVALUATION_MAX_USD
    Buffer,    \* RESERVATION_CEILING_BUFFER_USD
    Nobody     \* no request

Request == Run \X Turn

ASSUME CostConstants ==
    /\ IsFiniteSet(Process)
    /\ IsFiniteSet(Request)
    /\ Nobody \notin Request
    /\ Price \subseteq Nat
    /\ MaxError \in Nat
    /\ Ceiling \in Nat
    /\ Buffer \in 0..Ceiling   \* live_evaluation_ceiling_usd refuses less

VARIABLES
    rowState,  \* "NONE" (no row), "RESERVED" or "SETTLED"
    reserved,  \* reserved_usd
    actual,    \* actual_usd, 0 until settled
    phase,     \* where each process is in _send
    current,   \* the request it is sending
    sends,     \* how often the provider was invoked for a request
    billed     \* what the provider really charged for it

ledgerVars == <<rowState, reserved, actual>>
processVars == <<phase, current>>
providerVars == <<sends, billed>>
vars == <<rowState, reserved, actual, phase, current, sends, billed>>

-----------------------------------------------------------------------------
\* Rows keep the states and amounts CostLedgerRow validates when it reads
\* them back, and a process is always at a known point of _send.
TypeOK ==
    /\ rowState \in [Request -> {"NONE", "RESERVED", "SETTLED"}]
    /\ reserved \in [Request -> Nat]
    /\ actual \in [Request -> Nat]
    /\ phase \in [Process -> {"idle", "reserved", "answered"}]
    /\ current \in [Process -> Request \cup {Nobody}]
    /\ sends \in [Request -> Nat]
    /\ billed \in [Request -> Nat]

Init ==
    /\ rowState = [k \in Request |-> "NONE"]
    /\ reserved = [k \in Request |-> 0]
    /\ actual = [k \in Request |-> 0]
    /\ phase = [p \in Process |-> "idle"]
    /\ current = [p \in Process |-> Nobody]
    /\ sends = [k \in Request |-> 0]
    /\ billed = [k \in Request |-> 0]

-----------------------------------------------------------------------------
\* What _reserved_and_settled_total counts for one row.
Counted(k) ==
    IF rowState[k] = "SETTLED" /\ actual[k] > reserved[k]
      THEN actual[k] ELSE reserved[k]

Accounted == SumFunctionOnSet([k \in Request |-> Counted(k)], Request)

Limit == Ceiling - Buffer

\* Fault variant of Reserve: an unsettled row is taken for a fresh one.
ReserveAgain(p, k, usd) ==
    /\ phase[p] = "idle"
    /\ rowState[k] \in {"NONE", "RESERVED"}
    /\ rowState[k] = "NONE" => usd <= Limit - Accounted
    /\ rowState' = [rowState EXCEPT ![k] = "RESERVED"]
    /\ reserved' = [reserved EXCEPT ![k] = usd]
    /\ phase' = [phase EXCEPT ![p] = "reserved"]
    /\ current' = [current EXCEPT ![p] = k]
    /\ UNCHANGED <<actual, providerVars>>

\* record_reservation_before_request, one BEGIN IMMEDIATE transaction.  The
\* other outcomes write nothing and end the call: the balance does not cover
\* the reservation (CostCeilingExceeded), or a row exists in whatever state
\* (is_new = False, AmbiguousReservationNotResent).
Reserve(p, k, usd) ==
    /\ phase[p] = "idle"
    /\ rowState[k] = "NONE"
    /\ usd <= Limit - Accounted
    /\ rowState' = [rowState EXCEPT ![k] = "RESERVED"]
    /\ reserved' = [reserved EXCEPT ![k] = usd]
    /\ phase' = [phase EXCEPT ![p] = "reserved"]
    /\ current' = [current EXCEPT ![p] = k]
    /\ UNCHANGED <<actual, providerVars>>

\* The provider runs process p's request and charges bill for it.
Charge(p, bill) ==
    /\ sends' = [sends EXCEPT ![current[p]] = sends[current[p]] + 1]
    /\ billed' = [billed EXCEPT ![current[p]] = billed[current[p]] + bill]

\* The client answered with usage metadata.
Answer(p, bill) ==
    /\ phase[p] = "reserved"
    /\ Charge(p, bill)
    /\ phase' = [phase EXCEPT ![p] = "answered"]
    /\ UNCHANGED <<ledgerVars, current>>

\* Fault variant of LoseAnswer: a failed request gives its reservation back.
ReleaseOnFailure(p, bill) ==
    /\ phase[p] = "reserved"
    /\ Charge(p, bill)
    /\ rowState' = [rowState EXCEPT ![current[p]] = "NONE"]
    /\ reserved' = [reserved EXCEPT ![current[p]] = 0]
    /\ phase' = [phase EXCEPT ![p] = "idle"]
    /\ current' = [current EXCEPT ![p] = Nobody]
    /\ UNCHANGED actual

\* A time-out, connection error, provider error or missing usage: _send
\* raises, the row stays RESERVED; the provider may have charged for it.
LoseAnswer(p, bill) ==
    /\ phase[p] = "reserved"
    /\ Charge(p, bill)
    /\ phase' = [phase EXCEPT ![p] = "idle"]
    /\ current' = [current EXCEPT ![p] = Nobody]
    /\ UNCHANGED ledgerVars

\* settle_reservation: the UPDATE matches only a RESERVED row.
Settle(p) ==
    /\ phase[p] = "answered"
    /\ rowState[current[p]] = "RESERVED"
    /\ rowState' = [rowState EXCEPT ![current[p]] = "SETTLED"]
    /\ actual' = [actual EXCEPT ![current[p]] = billed[current[p]]]
    /\ phase' = [phase EXCEPT ![p] = "idle"]
    /\ current' = [current EXCEPT ![p] = Nobody]
    /\ UNCHANGED <<reserved, providerVars>>

\* The process dies, before or after the provider saw the request; it comes
\* back and may re-render the identical request.
Crash(p) ==
    /\ phase[p] # "idle"
    /\ phase' = [phase EXCEPT ![p] = "idle"]
    /\ current' = [current EXCEPT ![p] = Nobody]
    /\ UNCHANGED <<ledgerVars, providerVars>>

\* The bills a request in progress can draw.
Bill(p) ==
    IF phase[p] = "idle" THEN {} ELSE 0..(reserved[current[p]] + MaxError)

Next ==
    \E p \in Process :
        \/ \E k \in Request, usd \in Price : Reserve(p, k, usd)
        \/ \E bill \in Bill(p) : Answer(p, bill)
        \/ \E bill \in Bill(p) : LoseAnswer(p, bill)
        \/ Settle(p)
        \/ Crash(p)

Spec == Init /\ [][Next]_vars

-----------------------------------------------------------------------------
(* run_cost_totals, the per-run figures of an evaluation record.           *)

RowsOf(r) == {k \in Request : k[1] = r /\ rowState[k] # "NONE"}

\* Fault variant of FullySettled: infers completeness from a nonzero total.
SomethingSettled(r) == \E k \in RowsOf(r) : actual[k] > 0

FullySettled(r) == \A k \in RowsOf(r) : rowState[k] = "SETTLED"

ActualTotal(r) ==
    SumFunctionOnSet([k \in RowsOf(r) |-> actual[k]], RowsOf(r))

-----------------------------------------------------------------------------
(* Properties.                                                             *)

\* The provider is never invoked twice for one request key, through crashes,
\* restarts, time-outs and processes racing for the same key: an existing
\* row, RESERVED or SETTLED, always stops the send.
NeverResent == \A k \in Request : sends[k] <= 1

\* The requests of run r the provider has seen.
SentFor(r) == {k \in Request : k[1] = r /\ sends[k] > 0}

\* A run reported as fully settled reports its real cost: every request of
\* the run that reached the provider is in the sum, at what was charged.
ReportedCostIsReal ==
    \A r \in Run :
        FullySettled(r) =>
            ActualTotal(r)
              = SumFunctionOnSet([k \in SentFor(r) |-> billed[k]], SentFor(r))

\* The requests that may have been charged but will never be settled.
Lost ==
    {k \in Request : /\ sends[k] > 0
                     /\ rowState[k] # "SETTLED"
                     /\ \A p \in Process : current[p] # k}

RealSpend == SumFunctionOnSet(billed, Request)

\* What was really charged passes the limit by at most one error per process
\* and one per request whose answer was lost: a lost answer keeps its
\* reservation forever, but the ledger never learns its overrun.
RealSpendBounded ==
    RealSpend <= Limit + (Cardinality(Process) + Cardinality(Lost)) * MaxError

\* The bound the module documentation gives: real spend passes the ceiling
\* by at most one request's estimation error.
OverrunOfOneRequest == RealSpend <= Ceiling + MaxError

-----------------------------------------------------------------------------
(* The inductive invariant behind the theorems of CostLedgerProofs.        *)

\* A process in _send holds a RESERVED row of its own; the provider saw a
\* request only under a row; a settled row records the charge.
SendShape ==
    /\ \A p \in Process :
          /\ phase[p] # "idle" => /\ current[p] \in Request
                                  /\ rowState[current[p]] = "RESERVED"
          /\ phase[p] = "reserved" => sends[current[p]] = 0
          /\ phase[p] = "answered" => sends[current[p]] = 1
    /\ \A p, q \in Process :
          phase[p] # "idle" /\ phase[q] # "idle" /\ current[p] = current[q]
            => p = q
    /\ \A k \in Request :
          /\ rowState[k] = "NONE" => sends[k] = 0
          /\ rowState[k] = "SETTLED" => sends[k] = 1 /\ actual[k] = billed[k]

CostInv == TypeOK /\ SendShape /\ NeverResent

\* Charged but not settled; and the processes that may still settle.
Exposed == {k \in Request : sends[k] > 0 /\ rowState[k] # "SETTLED"}

Sending == {p \in Process : phase[p] # "idle"}

\* One request is charged at most an error more than it reserved.  A process
\* that has reserved can still raise the accounted total by one error; what
\* was authorised left room for every process to do so.
SpendShape ==
    /\ \A p \in Process : phase[p] = "idle" => current[p] = Nobody
    /\ \A k \in Request :
          /\ rowState[k] = "NONE" => reserved[k] = 0
          /\ sends[k] = 0 => billed[k] = 0
          /\ billed[k] <= reserved[k] + MaxError
    /\ Accounted + Cardinality(Sending) * MaxError
          <= Limit + Cardinality(Process) * MaxError
=============================================================================
