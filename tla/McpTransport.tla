---------------------------- MODULE McpTransport ----------------------------
(***************************************************************************)
(* The local-stdio MCP transport of one investigation: the parent's        *)
(* session and supervision of the child process (mcp_stdio.py,             *)
(* mcp_child_process.py), the forwarders that turn what happens into a     *)
(* receipt (mcp_client_registry.py), and the child with its own policy     *)
(* ledger (mcp_server_main.py, mcp_policy_adapter.py).                     *)
(*                                                                         *)
(* Parent, child and the parent's reader thread interleave.  The child may *)
(* die at any moment, in the middle of a line too, may print something     *)
(* that is no answer, and may answer after the parent has stopped waiting. *)
(* Requests are numbered from 1 in every session: initialize, tools/list,  *)
(* then the calls.  A call stands for one check that the parent's policy   *)
(* has allowed, so no two calls are about the same check.                  *)
(***************************************************************************)
EXTENDS Integers, Sequences, SequencesExt, FiniteSets

CONSTANTS
    ExecutedTools,   \* Budgets.executed_tools
    None,
    MaxFaults        \* bound on deaths, garbage lines, timeouts, late threads

ToolOutcome == {"EXECUTED", "TIMEOUT", "UNAVAILABLE", "ERROR", "NOT_EXECUTED"}

\* The requests of a session.
RequestMethod == {"initialize", "tools/list", "tools/call"}

ASSUME TransportConstants ==
    /\ ExecutedTools \in Nat \ {0}
    /\ MaxFaults \in Nat
    /\ None \notin ToolOutcome \cup {"RESERVED"} \cup RequestMethod

Call == 1..ExecutedTools

VARIABLES
    proc,       \* "none", "alive" or "dead", as poll() would report it
    session,    \* McpStdioSession, or None
    poisoned,
    queue,      \* lines the reader has handed to the parent
    stdin,      \* messages on their way to the child
    stdout,     \* lines on their way to the reader
    late,       \* what a reader that outlived its join still has to hand over
    server,     \* state of the child's McpObservabilityServer
    ledger,     \* calls the child's own ReservationLedger has admitted
    waiting,    \* the request whose answer the parent is reading, or None
    call,       \* the call being forwarded, 0 for none
    receipt,    \* outcome of each call, "RESERVED" until it is settled
    answeredBy, \* the call an accepted answer was computed for (history)
    sentAs,     \* request id of each call (history)
    ran,        \* how often the backend ran for each call (history)
    faults

child == <<stdin, server, ledger, ran>>
receipts == <<receipt, answeredBy, sentAs>>
transport == <<proc, session, poisoned, queue, stdin, stdout, late, server,
               ledger, waiting, call, receipt, answeredBy, sentAs, ran, faults>>

-----------------------------------------------------------------------------
(* Messages.                                                               *)

Request(method, id, about) == [method |-> method, id |-> id, about |-> about]
Answer(id, about, res) == [id |-> id, about |-> about, result |-> res]

EOF == Answer(0, 0, "EOF")
Garbage == Answer(0, 0, "malformed")

NewSession == [state |-> "NEW", id |-> 0, pending |-> None, verified |-> FALSE]

\* Popen, the reader threads, a new queue and session, and the first request
\* of the handshake.
Started(rest) ==
    /\ proc' = "alive"
    /\ poisoned' = FALSE
    /\ queue' = <<>>
    /\ stdin' = <<Request("initialize", 1, 0)>>
    /\ stdout' = <<>>
    /\ late' = rest
    /\ server' = "NEW"
    /\ ledger' = {}
    /\ session' = [NewSession EXCEPT !.state = "INITIALIZING", !.id = 1,
                                     !.pending = "initialize"]
    /\ waiting' = "initialize"

\* close(): the reader thread usually ends before its join.
Closed ==
    /\ proc' = "none"
    /\ session' = None
    /\ queue' = <<>>
    /\ stdin' = <<>>
    /\ stdout' = <<>>
    /\ late' = <<>>
    /\ server' = "NEW"
    /\ ledger' = {}
    /\ poisoned' = TRUE
    /\ waiting' = None

NoReceipts ==
    /\ receipt = [c \in Call |-> None]
    /\ answeredBy = [c \in Call |-> 0]
    /\ sentAs = [c \in Call |-> 0]
    /\ ran = [c \in Call |-> 0]

TransportInit ==
    /\ proc = "none"
    /\ session = None
    /\ poisoned = TRUE
    /\ queue = <<>> /\ stdin = <<>> /\ stdout = <<>> /\ late = <<>>
    /\ server = "NEW"
    /\ ledger = {}
    /\ waiting = None
    /\ call = 0
    /\ NoReceipts
    /\ faults = 0

Fault == faults < MaxFaults /\ faults' = faults + 1

-----------------------------------------------------------------------------
(* The child.                                                              *)

\* The child's own policy and ledger, for a check inside its scope.
Admits(c) == Cardinality(ledger) < ExecutedTools /\ c \notin ledger

Reply(m, res) == stdout' = Append(stdout, Answer(m.id, m.about, res))

\* McpObservabilityServer.handle and main's loop: a message that is out of
\* order is logged and dropped.
Handle ==
    LET m == Head(stdin)
    IN  /\ proc = "alive"
        /\ stdin # <<>>
        /\ stdin' = Tail(stdin)
        /\ CASE m.method = "initialize" /\ server = "NEW" ->
                  /\ server' = "INITIALIZED"
                  /\ Reply(m, "ok")
                  /\ UNCHANGED <<ledger, ran>>
             [] m.method = "notifications/initialized"
                  /\ server = "INITIALIZED" ->
                  /\ server' = "READY"
                  /\ UNCHANGED <<stdout, ledger, ran>>
             [] m.method = "tools/list" /\ server = "READY" ->
                  /\ Reply(m, "ok")
                  /\ UNCHANGED <<server, ledger, ran>>
             [] m.method = "tools/call" /\ server = "READY" ->
                  /\ IF Admits(m.about)
                       THEN /\ ledger' = ledger \cup {m.about}
                            /\ ran' = [ran EXCEPT ![m.about] = @ + 1]
                            /\ \E res \in {"EXECUTED", "UNAVAILABLE"} :
                                  Reply(m, res)
                       ELSE /\ Reply(m, "NOT_EXECUTED")
                            /\ UNCHANGED <<ledger, ran>>
                  /\ UNCHANGED server
             [] OTHER -> UNCHANGED <<server, stdout, ledger, ran>>
        /\ UNCHANGED <<proc, session, poisoned, queue, late, waiting, call,
                       receipts, faults>>

\* The child dies, possibly in the middle of a line, and possibly with a check
\* that has run and is not answered.
ChildDies ==
    /\ proc = "alive"
    /\ Fault
    /\ proc' = "dead"
    /\ stdin' = <<>>
    /\ \E cut \in {<<>>, <<Garbage>>} : stdout' = stdout \o cut \o <<EOF>>
    /\ \/ UNCHANGED ran
       \/ LET m == Head(stdin)
          IN  /\ stdin # <<>>
              /\ m.method = "tools/call" /\ server = "READY"
              /\ Admits(m.about)
              /\ ran' = [ran EXCEPT ![m.about] = @ + 1]
    /\ UNCHANGED <<session, poisoned, queue, late, server, ledger, waiting,
                   call, receipts>>

\* Something in the child prints to stdout.
ChildPrints ==
    /\ proc = "alive"
    /\ Fault
    /\ stdout' = Append(stdout, Garbage)
    /\ UNCHANGED <<proc, session, poisoned, queue, late, waiting, call, child,
                   receipts>>

\* _drain_stdout hands over one line.
Drain ==
    /\ stdout # <<>>
    /\ queue' = Append(queue, Head(stdout))
    /\ stdout' = Tail(stdout)
    /\ UNCHANGED <<proc, session, poisoned, late, waiting, call, child,
                   receipts, faults>>

\* So does the reader of an earlier child: self._queue is now the new one.
DrainLate ==
    /\ late # <<>>
    /\ queue' = Append(queue, Head(late))
    /\ late' = Tail(late)
    /\ UNCHANGED <<proc, session, poisoned, stdout, waiting, call, child,
                   receipts, faults>>

-----------------------------------------------------------------------------
(* What a forwarded call comes to.                                         *)

\* run_check returns, and the parent's wrapper settles the receipt.
Settle(out, by) ==
    /\ receipt' = [receipt EXCEPT ![call] = out]
    /\ answeredBy' = [answeredBy EXCEPT ![call] = by]
    /\ call' = 0
    /\ UNCHANGED sentAs

\* An exception that run_check does not catch: the receipt stays RESERVED,
\* and dispatch_tool ends the investigation.
Raise == UNCHANGED <<call, receipts>>

Raised == call # 0 /\ waiting = None

\* Any failure of the handshake is UNAVAILABLE for the call that respawned,
\* and a refusal to start otherwise.
HandshakeFails ==
    IF call = 0 THEN UNCHANGED <<call, receipts>> ELSE Settle("UNAVAILABLE", 0)

-----------------------------------------------------------------------------
(* The parent.                                                             *)

\* McpChildProcess.start, from build.
StartChild ==
    /\ Started(<<>>)
    /\ UNCHANGED <<call, receipts, ran, faults>>

\* The test of respawn_if_dead.
Healthy == ~poisoned /\ proc = "alive"

\* tool_call_request and _request raise McpProtocolError otherwise.
MayRequest ==
    session.state = "READY" /\ session.verified /\ session.pending = None

\* Send the call; nobody reads the pipe of a child that has just died.
Send(c) ==
    /\ session' = [session EXCEPT !.id = @ + 1, !.pending = "tools/call"]
    /\ sentAs' = [sentAs EXCEPT ![c] = session.id + 1]
    /\ stdin' = Append(stdin, Request("tools/call", session.id + 1, c))
    /\ waiting' = "tools/call"

\* What the reader has not handed over when the child is closed.
Unread == IF proc = "alive" THEN Append(stdout, EOF) ELSE stdout

\* respawn_if_dead: close, whose join may time out while the reader still has
\* lines, and start.  A reader that is late already may stay so.
RespawnAndCall(c) ==
    /\ ~Healthy
    /\ \E old \in Suffixes(late) :
          \/ Started(old) /\ UNCHANGED faults
          \/ /\ Fault
             /\ \E rest \in Suffixes(Unread) \ {<<>>} : Started(old \o rest)
    /\ call' = c
    /\ receipt' = [receipt EXCEPT ![c] = "RESERVED"]
    /\ UNCHANGED <<answeredBy, sentAs, ran>>

CallHealthy(c) ==
    /\ Healthy
    /\ MayRequest
    /\ Send(c)
    /\ call' = c
    /\ receipt' = [receipt EXCEPT ![c] = "RESERVED"]
    /\ UNCHANGED <<proc, poisoned, queue, stdout, late, server, ledger,
                   answeredBy, ran, faults>>

\* The child dies between poll() and the write: BrokenPipeError.
CallBreaks(c) ==
    /\ Healthy
    /\ MayRequest
    /\ Fault
    /\ proc' = "dead"
    /\ session' = [session EXCEPT !.id = @ + 1, !.pending = "tools/call"]
    /\ sentAs' = [sentAs EXCEPT ![c] = session.id + 1]
    /\ stdout' = Append(stdout, EOF)
    /\ call' = c
    /\ receipt' = [receipt EXCEPT ![c] = "RESERVED"]
    /\ UNCHANGED <<poisoned, queue, stdin, late, server, ledger, waiting,
                   answeredBy, ran>>

\* A session that is not ready, or has an outstanding request, refuses.
CallRefused(c) ==
    /\ Healthy
    /\ ~MayRequest
    /\ receipt' = [receipt EXCEPT ![c] = "ERROR"]
    /\ UNCHANGED <<proc, session, poisoned, queue, stdin, stdout, late, server,
                   ledger, waiting, call, answeredBy, sentAs, ran, faults>>

\* The next check of the tool loop: reserve a receipt, forward the call.
Forward(c) ==
    /\ call = 0 /\ waiting = None /\ proc # "none"
    /\ receipt[c] = None
    /\ \A b \in 1..(c - 1) : receipt[b] # None
    /\ \/ CallHealthy(c)
       \/ CallBreaks(c)
       \/ CallRefused(c)
       \/ RespawnAndCall(c)

\* Fault variant of IdMatches: the answer is taken on trust.
AnyId(m) == m.result # "malformed"

\* decode_jsonrpc_line and the checks of _response.
IdMatches(m) == m.result # "malformed" /\ m.id = session.id

\* accept_initialize_response, the notification and tools/list.
AcceptInitialize ==
    LET m == Head(queue)
    IN  /\ waiting = "initialize"
        /\ queue # <<>> /\ m # EOF
        /\ queue' = Tail(queue)
        /\ IF IdMatches(m) /\ m.about = 0 /\ proc = "alive"
             THEN /\ session' = [session EXCEPT !.state = "READY", !.id = 2,
                                                !.pending = "tools/list"]
                  /\ stdin' = stdin \o
                       <<Request("notifications/initialized", 0, 0),
                         Request("tools/list", 2, 0)>>
                  /\ waiting' = "tools/list"
                  /\ UNCHANGED <<call, receipts>>
             ELSE /\ session' = IF IdMatches(m)
                                  THEN [session EXCEPT !.pending = None]
                                  ELSE session
                  /\ waiting' = None
                  /\ HandshakeFails
                  /\ UNCHANGED stdin
        /\ UNCHANGED <<proc, poisoned, stdout, late, server, ledger, ran, faults>>

\* accept_tools_list_response; a respawned child then gets the call.
AcceptTools ==
    LET m == Head(queue)
    IN  /\ waiting = "tools/list"
        /\ queue # <<>> /\ m # EOF
        /\ queue' = Tail(queue)
        /\ IF IdMatches(m) /\ m.about = 0
             THEN IF call = 0
                    THEN /\ session' = [session EXCEPT !.pending = None,
                                                       !.verified = TRUE]
                         /\ waiting' = None
                         /\ UNCHANGED <<stdin, call, receipts>>
                    ELSE /\ session' = [session EXCEPT !.id = 3,
                                                       !.pending = "tools/call",
                                                       !.verified = TRUE]
                         /\ sentAs' = [sentAs EXCEPT ![call] = 3]
                         /\ IF proc = "alive"
                              THEN /\ stdin' = Append(stdin,
                                         Request("tools/call", 3, call))
                                   /\ waiting' = "tools/call"
                              ELSE waiting' = None /\ UNCHANGED stdin
                         /\ UNCHANGED <<call, receipt, answeredBy>>
             ELSE /\ session' = IF IdMatches(m)
                                  THEN [session EXCEPT !.pending = None]
                                  ELSE session
                  /\ waiting' = None
                  /\ HandshakeFails
                  /\ UNCHANGED stdin
        /\ UNCHANGED <<proc, poisoned, stdout, late, server, ledger, ran, faults>>

\* accept_tool_call_response, then _parse_dispatch_result.  A malformed or
\* misnumbered answer leaves the request outstanding.  A session that has an
\* answer to something else under its number cannot tell.
AcceptCall ==
    LET m == Head(queue)
    IN  /\ waiting = "tools/call"
        /\ queue # <<>> /\ m # EOF
        /\ queue' = Tail(queue)
        /\ waiting' = None
        /\ IF IdMatches(m)
             THEN /\ session' = [session EXCEPT !.pending = None]
                  /\ IF m.about = 0 THEN Settle("ERROR", 0)
                                    ELSE Settle(m.result, m.about)
             ELSE /\ Settle("ERROR", 0)
                  /\ UNCHANGED session
        /\ UNCHANGED <<proc, poisoned, stdin, stdout, late, server, ledger, ran,
                       faults>>

\* _read_one meets the end of the child's output.
ReadEof ==
    /\ waiting # None
    /\ queue # <<>> /\ Head(queue) = EOF
    /\ queue' = Tail(queue)
    /\ poisoned' = TRUE
    /\ waiting' = None
    /\ IF waiting = "tools/call" THEN Raise ELSE HandshakeFails
    /\ UNCHANGED <<proc, session, stdout, late, child, faults>>

\* _read_one gives up; the child may still answer.
ReadTimesOut ==
    /\ waiting # None
    /\ queue = <<>>
    /\ Fault
    /\ poisoned' = TRUE
    /\ waiting' = None
    /\ IF waiting = "tools/call" THEN Settle("TIMEOUT", 0) ELSE HandshakeFails
    /\ UNCHANGED <<proc, session, queue, stdout, late, child>>

\* What happens between the parent's calls into the transport.
TransportStep ==
    \/ Handle
    \/ ChildDies
    \/ ChildPrints
    \/ Drain
    \/ DrainLate
    \/ AcceptInitialize
    \/ AcceptTools
    \/ AcceptCall
    \/ ReadEof
    \/ ReadTimesOut

\* The child is up and the last start went through.
ChildReady == call = 0 /\ waiting = None /\ proc # "none"

-----------------------------------------------------------------------------
(* Properties.                                                             *)

\* A receipt never holds another check's observation, with one exception: the
\* reader thread of an earlier child outlived its five-second join, and hands
\* over the answer to a check that was given up without it, under the number
\* of the call now waiting, because every session counts from 1.
OwnAnswer ==
    \A c \in Call : answeredBy[c] \notin {0, c} =>
        /\ answeredBy[c] < c
        /\ sentAs[answeredBy[c]] = sentAs[c]
        /\ answeredBy[answeredBy[c]] # answeredBy[c]

\* The two policy ledgers never disagree: what the parent has reserved, the
\* child, whose ledger starts again with every respawn, does not refuse; no
\* check runs twice for its receipt, whatever was lost, late or restarted; and
\* a check reported unavailable by the transport has not run.
LedgersAgree ==
    \A c \in Call :
        /\ receipt[c] # "NOT_EXECUTED"
        /\ ran[c] <= 1
        /\ receipt[c] = "UNAVAILABLE" /\ answeredBy[c] = 0 => ran[c] = 0
-----------------------------------------------------------------------------
(* Types.                                                                  *)

Line == [id     : Nat,
         about  : 0..ExecutedTools,
         result : {"ok", "EXECUTED", "UNAVAILABLE", "NOT_EXECUTED",
                   "malformed", "EOF"}]

Message == [method : RequestMethod \cup {"notifications/initialized"},
            id     : Nat,
            about  : 0..ExecutedTools]

Session == [state    : {"NEW", "INITIALIZING", "READY"},
            id       : Nat,
            pending  : RequestMethod \cup {None},
            verified : BOOLEAN]

TransportTypeOK ==
    /\ proc \in {"none", "alive", "dead"}
    /\ proc # "none" => session \in Session
    /\ waiting \in RequestMethod \cup {None}
    /\ waiting # None => proc # "none"
    /\ {queue, stdout, late} \subseteq Seq(Line)
    /\ stdin \in Seq(Message)
    /\ call \in 0..ExecutedTools
    /\ DOMAIN receipt = Call

\* Only the check being forwarded has an open receipt.
OpenReceiptIsCall == \A c \in Call : receipt[c] = "RESERVED" => c = call

-----------------------------------------------------------------------------
(* The invariant behind the two.                                           *)

\* The checks that messages or lines are about, and that none is about twice.
About(s) == {s[i].about : i \in DOMAIN s} \ {0}

Once(s) ==
    \A i, j \in DOMAIN s : s[i].about = s[j].about /\ s[i].about # 0 => i = j

\* The checks whose answer was accepted, for themselves or for another.
Used == {answeredBy[c] : c \in Call} \ {0}

\* A check is in one place at a time: on its way to the child, on its way
\* back, handed over, left to a late reader, or answered.
InOnePlace ==
    /\ Once(stdin) /\ Once(stdout) /\ Once(queue) /\ Once(late)
    /\ About(stdin) \cap (About(stdout) \cup About(queue) \cup About(late)
                             \cup Used) = {}
    /\ About(stdout) \cap (About(queue) \cup About(late) \cup Used) = {}
    /\ About(queue) \cap (About(late) \cup Used) = {}
    /\ About(late) \cap Used = {}

\* Answers carry the number their check was sent under, and no refusal.
TrueLine(m) ==
    m.about # 0 =>
        /\ m.id = sentAs[m.about] /\ m.id # 0
        /\ m.result \in {"EXECUTED", "UNAVAILABLE"}

\* A check that has not reached the child has not run.
TrueMessage(m) ==
    /\ m.method = "tools/call" <=> m.about # 0
    /\ m.about # 0 =>
          /\ m.id = sentAs[m.about] /\ m.id # 0
          /\ ran[m.about] = 0

LinesShape ==
    /\ \A i \in DOMAIN stdin : TrueMessage(stdin[i])
    /\ \A i \in DOMAIN stdout : TrueLine(stdout[i])
    /\ \A i \in DOMAIN queue : TrueLine(queue[i])
    /\ \A i \in DOMAIN late : TrueLine(late[i])

\* What is known of a check: it runs only after it was sent, and is answered
\* only then; without an answer it is unavailable only if it never was sent.
CheckShape(c) ==
    /\ receipt[c] # "NOT_EXECUTED"
    /\ receipt[c] = None => sentAs[c] = 0
    /\ sentAs[c] = 0 => ran[c] = 0 /\ answeredBy[c] = 0
    /\ c \in ledger => ran[c] = 1
    /\ receipt[c] = "UNAVAILABLE" /\ answeredBy[c] = 0 => sentAs[c] = 0

\* Checks are forwarded in order, one at a time; the one under way is not
\* answered, and was sent under the session's number or not at all.
CallShape ==
    /\ \A b, c \in Call : b < c /\ receipt[c] # None => receipt[b] # None
    /\ call # 0 =>
          /\ receipt[call] = "RESERVED" /\ answeredBy[call] = 0
          /\ \A c \in Call : c > call => receipt[c] = None
    /\ waiting = "tools/call" => call # 0 /\ sentAs[call] = session.id
    /\ waiting \in {"initialize", "tools/list"} /\ call # 0 =>
          sentAs[call] = 0

\* No answer is accepted twice.
AnsweredOnce ==
    \A b, c \in Call : answeredBy[b] = answeredBy[c] /\ answeredBy[b] # 0 =>
        b = c

ChecksInv ==
    /\ answeredBy \in [Call -> 0..ExecutedTools]
    /\ sentAs \in [Call -> Nat]
    /\ ran \in [Call -> {0, 1}]
    /\ ledger \subseteq Call
    /\ \A c \in Call : CheckShape(c)
    /\ CallShape
    /\ AnsweredOnce
    /\ OwnAnswer

ReceiptInv == ChecksInv /\ InOnePlace /\ LinesShape
=============================================================================
