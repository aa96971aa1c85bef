----------------------- MODULE PairedEvaluationProofs -----------------------
(***************************************************************************)
(* What an evaluation batch guarantees for any corpus, any budgets and     *)
(* ceiling, and any faults of the transport, the disk and the lab: paid    *)
(* runs are on disk in order, the batch cleans up after itself and reports *)
(* its first failure, a preflight at the right price suffices, nothing is  *)
(* paid for after an abort, receipts tell what the checks did, and the     *)
(* published figures are honest.                                           *)
(***************************************************************************)
EXTENDS PairedEvaluation, FiniteSetTheorems, SequenceTheorems, TLAPS

(* A reader that is late has an end of what it had, still lines.           *)
LEMMA SuffixesAreSeqs ==
  ASSUME NEW S, NEW s \in Seq(S), NEW t \in Suffixes(s)
  PROVE  t \in Seq(S)
  <1>1. CASE t = <<>>
    BY <1>1
  <1>2. ASSUME NEW l \in 1..Len(s), t = SubSeq(s, l, Len(s))
        PROVE  t \in Seq(S)
    <2>1. \A i \in l..Len(s) : s[i] \in S
      OBVIOUS
    <2> QED
      BY <1>2, <2>1, SubSeqProperties
  <1> QED
    BY <1>1, <1>2 DEF Suffixes

(* Lines and messages of the protocol.                                     *)
LEMMA LineTypes ==
  /\ EOF \in Line /\ Garbage \in Line
  /\ \A m \in Message, res \in {"ok", "EXECUTED", "UNAVAILABLE", "NOT_EXECUTED"} :
        Answer(m.id, m.about, res) \in Line
  /\ \A c \in 0..ExecutedTools, n \in Nat,
        method \in RequestMethod \cup {"notifications/initialized"} :
        Request(method, n, c) \in Message
  <1>1. EOF \in Line /\ Garbage \in Line
    BY TransportConstants DEF EOF, Garbage, Answer, Line
  <1>2. ASSUME NEW m \in Message,
               NEW res \in {"ok", "EXECUTED", "UNAVAILABLE", "NOT_EXECUTED"}
        PROVE  Answer(m.id, m.about, res) \in Line
    BY DEF Answer, Line, Message
  <1>3. ASSUME NEW c \in 0..ExecutedTools, NEW n \in Nat,
               NEW method \in RequestMethod \cup {"notifications/initialized"}
        PROVE  Request(method, n, c) \in Message
    BY DEF Request, Message
  <1> QED
    BY <1>1, <1>2, <1>3

(* The transport before the first child.                                   *)
LEMMA TransportInitInv == TransportInit => TransportTypeOK /\ OpenReceiptIsCall
  <1> SUFFICES ASSUME TransportInit PROVE TransportTypeOK /\ OpenReceiptIsCall
    OBVIOUS
  <1>1. OpenReceiptIsCall
    <2>1. None # "RESERVED"
      BY TransportConstants, Zenon
    <2>2. receipt = [c \in Call |-> None]
      BY DEF TransportInit, NoReceipts
    <2> QED
      BY <2>1, <2>2 DEF OpenReceiptIsCall
  <1>2. call \in 0..ExecutedTools /\ DOMAIN receipt = Call
    BY TransportConstants DEF TransportInit, NoReceipts
  <1>3. {queue, stdout, late} \subseteq Seq(Line) /\ stdin \in Seq(Message)
    BY DEF TransportInit
  <1> QED
    BY <1>1, <1>2, <1>3 DEF TransportInit, TransportTypeOK

(* A start gives the new child an empty session and its first request.     *)
LEMMA StartedTypes ==
  ASSUME NEW rest \in Seq(Line), Started(rest)
  PROVE  /\ proc' \in {"none", "alive", "dead"}
         /\ session' \in Session
         /\ waiting' \in RequestMethod \cup {None}
         /\ proc' # "none"
         /\ {queue', stdout', late'} \subseteq Seq(Line)
         /\ stdin' \in Seq(Message)
  <1>1. Request("initialize", 1, 0) \in Message
    BY LineTypes, TransportConstants DEF RequestMethod
  <1>2. session' \in Session
    BY DEF Started, NewSession, Session, RequestMethod
  <1> QED
    BY <1>1, <1>2 DEF Started, RequestMethod

(* Closing, and the end of a run.                                          *)
LEMMA ClosedTypes ==
  ASSUME Closed
  PROVE  /\ proc' = "none" /\ waiting' = None
         /\ {queue', stdout', late'} \subseteq Seq(Line)
         /\ stdin' \in Seq(Message)
  BY DEF Closed

-----------------------------------------------------------------------------
(* Steps of the transport keep its types, and only the call that is being  *)
(* forwarded has an open receipt.                                          *)

(* Child and reader.                                                       *)
LEMMA ChildSteps ==
  ASSUME TransportTypeOK, OpenReceiptIsCall,
         Handle \/ ChildDies \/ ChildPrints \/ Drain \/ DrainLate
  PROVE  TransportTypeOK' /\ OpenReceiptIsCall'
  <1> USE DEF TransportTypeOK, OpenReceiptIsCall
  <1>1. CASE Handle
    <2>1. /\ stdin' \in Seq(Message)
          /\ UNCHANGED <<proc, session, queue, late, waiting, call, receipt>>
      BY <1>1 DEF Handle, receipts
    <2>2. stdout' \in Seq(Line)
      <3>1. PICK m \in Message : m = Head(stdin)
        BY <1>1 DEF Handle
      <3>2. \/ stdout' = stdout
            \/ \E res \in {"ok", "EXECUTED", "UNAVAILABLE", "NOT_EXECUTED"} :
                  stdout' = Append(stdout, Answer(m.id, m.about, res))
        <4>1. CASE m.method = "initialize" /\ server = "NEW"
          BY <1>1, <3>1, <4>1 DEF Handle, Reply
        <4>2. CASE m.method = "notifications/initialized"
          BY <1>1, <3>1, <4>2 DEF Handle
        <4>3. CASE m.method = "tools/list" /\ server = "READY"
          BY <1>1, <3>1, <4>3 DEF Handle, Reply
        <4>4. CASE m.method = "tools/call" /\ server = "READY"
          <5>1. IF Admits(m.about)
                  THEN \E res \in {"EXECUTED", "UNAVAILABLE"} : Reply(m, res)
                  ELSE Reply(m, "NOT_EXECUTED")
            BY <1>1, <3>1, <4>4 DEF Handle
          <5> QED
            BY <5>1 DEF Reply
        <4>5. CASE /\ ~(m.method = "initialize" /\ server = "NEW")
                   /\ ~(m.method = "notifications/initialized")
                   /\ ~(m.method = "tools/list" /\ server = "READY")
                   /\ ~(m.method = "tools/call" /\ server = "READY")
          BY <1>1, <3>1, <4>5 DEF Handle
        <4> QED
          BY <4>1, <4>2, <4>3, <4>4, <4>5
      <3>3. CASE stdout' # stdout
        <4>1. PICK res \in {"ok", "EXECUTED", "UNAVAILABLE", "NOT_EXECUTED"} :
                 stdout' = Append(stdout, Answer(m.id, m.about, res))
          BY <3>2, <3>3
        <4>2. PICK l \in Line : l = Answer(m.id, m.about, res)
          BY LineTypes
        <4> QED
          BY <4>1, <4>2
      <3> QED
        BY <3>3
    <2> QED
      BY <2>1, <2>2
  <1>2. CASE ChildDies
    <2>1. /\ UNCHANGED <<session, queue, late, waiting, call, receipt>>
          /\ proc' = "dead" /\ proc # "none" /\ stdin' = <<>>
      BY <1>2 DEF ChildDies, receipts
    <2>2. stdout' \in Seq(Line)
      <3>1. PICK cut \in {<<>>, <<Garbage>>} : stdout' = stdout \o cut \o <<EOF>>
        BY <1>2 DEF ChildDies
      <3>2. PICK g \in Line, e \in Line : g = Garbage /\ e = EOF
        BY LineTypes
      <3>3. <<g>> \in Seq(Line) /\ <<e>> \in Seq(Line) /\ <<>> \in Seq(Line)
        OBVIOUS
      <3>4. cut \in Seq(Line)
        BY <3>2, <3>3, Zenon
      <3>5. stdout \in Seq(Line)
        OBVIOUS
      <3>6. stdout \o cut \in Seq(Line)
        BY ONLY <3>4, <3>5, ConcatProperties, Zenon
      <3>7. (stdout \o cut) \o <<e>> \in Seq(Line)
        BY ONLY <3>3, <3>6, ConcatProperties, Zenon
      <3> QED
        BY <3>1, <3>2, <3>7, Zenon
    <2> QED
      BY <2>1, <2>2
  <1>3. CASE ChildPrints
    <2>1. stdout' \in Seq(Line)
      BY <1>3, LineTypes DEF ChildPrints
    <2> QED
      BY <1>3, <2>1 DEF ChildPrints, child, receipts
  <1>4. CASE Drain
    <2>1. Head(stdout) \in Line /\ Tail(stdout) \in Seq(Line)
      BY <1>4 DEF Drain
    <2> QED
      BY <1>4, <2>1 DEF Drain, child, receipts
  <1>5. CASE DrainLate
    <2>1. Head(late) \in Line /\ Tail(late) \in Seq(Line)
      BY <1>5 DEF DrainLate
    <2> QED
      BY <1>5, <2>1 DEF DrainLate, child, receipts
  <1> QED
    BY <1>1, <1>2, <1>3, <1>4, <1>5

(* A settled receipt is not an open one.                                   *)
LEMMA Settles ==
  ASSUME TransportTypeOK, OpenReceiptIsCall,
         NEW out, NEW by, Settle(out, by), out # "RESERVED"
  PROVE  /\ call' = 0 /\ call' \in 0..ExecutedTools
         /\ DOMAIN receipt' = Call
         /\ \A c \in Call : receipt'[c] # "RESERVED"
  <1>1. call' = 0 /\ call' \in 0..ExecutedTools
    BY TransportConstants DEF Settle
  <1>2. receipt' = [receipt EXCEPT ![call] = out]
    BY DEF Settle
  <1>3. DOMAIN receipt' = Call
    BY <1>2 DEF TransportTypeOK
  <1>4. \A c \in Call : receipt'[c] # "RESERVED"
    BY <1>2 DEF TransportTypeOK, OpenReceiptIsCall
  <1> QED
    BY <1>1, <1>3, <1>4

(* A call that fails with the handshake, or is left as it was.             *)
LEMMA ReceiptSteps ==
  ASSUME TransportTypeOK, OpenReceiptIsCall,
         \/ HandshakeFails
         \/ Raise
         \/ \E out, by : Settle(out, by) /\ out # "RESERVED"
  PROVE  /\ call' \in 0..ExecutedTools
         /\ DOMAIN receipt' = Call
         /\ OpenReceiptIsCall'
  <1>1. CASE \E out, by : Settle(out, by) /\ out # "RESERVED"
    BY <1>1, Settles DEF OpenReceiptIsCall
  <1>2. CASE UNCHANGED <<call, receipts>>
    BY <1>2 DEF receipts, TransportTypeOK, OpenReceiptIsCall
  <1>3. CASE HandshakeFails
    <2>1. CASE call = 0
      BY <1>2, <1>3, <2>1 DEF HandshakeFails
    <2>2. CASE call # 0
      <3>1. Settle("UNAVAILABLE", 0)
        BY <1>3, <2>2 DEF HandshakeFails
      <3> QED
        BY <1>1, <3>1
    <2> QED
      BY <2>1, <2>2
  <1> QED
    BY <1>1, <1>2, <1>3 DEF Raise

(* The parent reads an answer, the end of the output, or nothing.          *)
LEMMA ParentSteps ==
  ASSUME TransportTypeOK, OpenReceiptIsCall,
         AcceptInitialize \/ AcceptTools \/ AcceptCall \/ ReadEof
           \/ ReadTimesOut
  PROVE  TransportTypeOK' /\ OpenReceiptIsCall'
  <1>0. "initialize" # None /\ "tools/list" # None /\ "tools/call" # None
    BY TransportConstants DEF RequestMethod
  <1>1. waiting # None /\ proc # "none" /\ session \in Session
    BY <1>0
    DEF TransportTypeOK, AcceptInitialize, AcceptTools, AcceptCall, ReadEof,
        ReadTimesOut
  <1>2. /\ queue' \in Seq(Line)
        /\ UNCHANGED <<proc, stdout, late>>
    <2>1. UNCHANGED <<proc, stdout, late>>
      BY Zenon
      DEF AcceptInitialize, AcceptTools, AcceptCall, ReadEof, ReadTimesOut
    <2>2. queue' = queue \/ (queue # <<>> /\ queue' = Tail(queue))
      BY Zenon
      DEF AcceptInitialize, AcceptTools, AcceptCall, ReadEof, ReadTimesOut
    <2>3. queue \in Seq(Line)
      BY DEF TransportTypeOK
    <2>4. ASSUME NEW q \in Seq(Line), q # <<>>
          PROVE  Tail(q) \in Seq(Line)
      BY <2>4
    <2>5. queue' \in Seq(Line)
      BY <2>2, <2>3, <2>4, Zenon
    <2> QED
      BY <2>1, <2>5
  <1>3. ASSUME NEW s \in Session
        PROVE  /\ [s EXCEPT !.pending = None] \in Session
               /\ [s EXCEPT !.pending = None, !.verified = TRUE] \in Session
               /\ [s EXCEPT !.state = "READY", !.id = 2,
                            !.pending = "tools/list"] \in Session
               /\ [s EXCEPT !.id = 3, !.pending = "tools/call",
                            !.verified = TRUE] \in Session
    <2>1. PICK two \in Nat, three \in Nat : two = 2 /\ three = 3
      OBVIOUS
    <2>2. /\ [s EXCEPT !.pending = None] \in Session
          /\ [s EXCEPT !.state = "READY", !.id = two,
                       !.pending = "tools/list"] \in Session
      BY DEF Session, RequestMethod
    <2>3. /\ [s EXCEPT !.pending = None, !.verified = TRUE] \in Session
          /\ [s EXCEPT !.id = three, !.pending = "tools/call",
                       !.verified = TRUE] \in Session
      BY Zenon DEF Session, RequestMethod
    <2> QED
      BY <2>1, <2>2, <2>3, Zenon
  <1>4. waiting' \in RequestMethod \cup {None}
    BY Zenon
    DEF RequestMethod, AcceptInitialize, AcceptTools, AcceptCall, ReadEof,
        ReadTimesOut
  <1>5. session' \in Session
    BY <1>1, <1>3
    DEF AcceptInitialize, AcceptTools, AcceptCall, ReadEof, ReadTimesOut
  <1>6. stdin' \in Seq(Message)
    <2>1. CASE stdin' = stdin
      BY <2>1 DEF TransportTypeOK
    <2>2. CASE AcceptInitialize /\ stdin' # stdin
      <3>1. PICK a \in Message, b \in Message :
               /\ a = Request("notifications/initialized", 0, 0)
               /\ b = Request("tools/list", 2, 0)
        BY LineTypes, TransportConstants DEF RequestMethod
      <3>2. stdin' = stdin \o <<a, b>>
        BY <2>2, <3>1, Zenon DEF AcceptInitialize
      <3>3. stdin \in Seq(Message) /\ <<a, b>> \in Seq(Message)
        BY DEF TransportTypeOK
      <3> QED
        BY ONLY <3>2, <3>3, ConcatProperties
    <2>3. CASE AcceptTools /\ stdin' # stdin
      <3>1. PICK a \in Message : a = Request("tools/call", 3, call)
        BY LineTypes DEF TransportTypeOK, RequestMethod
      <3>2. stdin' = Append(stdin, a)
        BY <2>3, <3>1, Zenon DEF AcceptTools
      <3> QED
        BY <3>2 DEF TransportTypeOK
    <2> QED
      BY <2>1, <2>2, <2>3
      DEF AcceptCall, ReadEof, ReadTimesOut, child
  <1>7. /\ call' \in 0..ExecutedTools
        /\ DOMAIN receipt' = Call
        /\ OpenReceiptIsCall'
    <2>1. CASE UNCHANGED <<call, receipt>>
      BY <2>1 DEF TransportTypeOK, OpenReceiptIsCall
    <2>2. CASE AcceptInitialize /\ ~UNCHANGED <<call, receipt>>
      <3>1. HandshakeFails
        BY <2>2, Zenon DEF AcceptInitialize, receipts
      <3> QED
        BY <3>1, ReceiptSteps
    <2>3. CASE AcceptTools /\ ~UNCHANGED <<call, receipt>>
      <3>1. HandshakeFails
        BY <2>3, Zenon DEF AcceptTools, receipts
      <3> QED
        BY <3>1, ReceiptSteps
    <2>4. CASE AcceptCall
      <3>1. PICK m \in Line : m = Head(queue)
        BY <2>4 DEF AcceptCall, TransportTypeOK
      <3>2. m.result # "RESERVED" /\ "ERROR" # "RESERVED"
        BY DEF Line
      <3>3. Settle("ERROR", 0) \/ Settle(m.result, m.about)
        BY <2>4, <3>1, Zenon DEF AcceptCall
      <3>4. \E out, by : Settle(out, by) /\ out # "RESERVED"
        BY <3>2, <3>3
      <3> QED
        BY <3>4, ReceiptSteps
    <2>5. CASE ReadEof
      <3>1. Raise \/ HandshakeFails
        BY <2>5 DEF ReadEof
      <3> QED
        BY <3>1, ReceiptSteps
    <2>6. CASE ReadTimesOut
      <3>1. Settle("TIMEOUT", 0) \/ HandshakeFails
        BY <2>6 DEF ReadTimesOut
      <3>2. "TIMEOUT" # "RESERVED"
        OBVIOUS
      <3> QED
        BY <3>1, <3>2, ReceiptSteps
    <2> QED
      BY <2>1, <2>2, <2>3, <2>4, <2>5, <2>6
  <1> QED
    BY <1>1, <1>2, <1>4, <1>5, <1>6, <1>7 DEF TransportTypeOK

(* The next check is forwarded, over the child that is up or a new one.    *)
LEMMA ForwardStep ==
  ASSUME TransportTypeOK, OpenReceiptIsCall, NEW c \in Call, Forward(c)
  PROVE  TransportTypeOK' /\ OpenReceiptIsCall'
  <1>1. /\ call = 0 /\ waiting = None /\ proc # "none"
        /\ session \in Session
        /\ \A b \in Call : receipt[b] # "RESERVED"
    BY DEF Forward, TransportTypeOK, OpenReceiptIsCall, Call
  <1>2. PICK n \in Nat : n = session.id + 1
    BY <1>1 DEF Session
  <1>3. [session EXCEPT !.id = n, !.pending = "tools/call"] \in Session
    BY <1>1 DEF Session, RequestMethod
  <1>4. c \in 0..ExecutedTools
    BY DEF Call
  <1>5. ASSUME call' = c, receipt' = [receipt EXCEPT ![c] = "RESERVED"]
        PROVE  /\ call' \in 0..ExecutedTools
               /\ DOMAIN receipt' = Call
               /\ OpenReceiptIsCall'
    BY <1>1, <1>4, <1>5 DEF TransportTypeOK, OpenReceiptIsCall
  <1>6. CASE CallHealthy(c)
    <2>1. PICK m \in Message : m = Request("tools/call", n, c)
      BY <1>4, LineTypes DEF RequestMethod
    <2>2. stdin' = Append(stdin, m)
      BY <1>2, <1>6, <2>1, Zenon DEF CallHealthy, Send
    <2>3. stdin' \in Seq(Message)
      BY <2>2 DEF TransportTypeOK
    <2>4. session' \in Session
      BY <1>2, <1>3, <1>6 DEF CallHealthy, Send
    <2>5. waiting' \in RequestMethod
      BY <1>6 DEF CallHealthy, Send, RequestMethod
    <2> QED
      BY <1>1, <1>5, <1>6, <2>3, <2>4, <2>5
      DEF CallHealthy, TransportTypeOK
  <1>7. CASE CallBreaks(c)
    <2>1. PICK e \in Line : e = EOF
      BY LineTypes
    <2>2. stdout' \in Seq(Line)
      BY <1>7, <2>1 DEF CallBreaks, TransportTypeOK
    <2>3. session' \in Session
      BY <1>2, <1>3, <1>7 DEF CallBreaks
    <2> QED
      BY <1>1, <1>5, <1>7, <2>2, <2>3 DEF CallBreaks, TransportTypeOK
  <1>8. CASE CallRefused(c)
    <2>1. UNCHANGED <<proc, session, queue, stdin, stdout, late, waiting, call>>
      BY <1>8 DEF CallRefused
    <2>2. receipt' = [receipt EXCEPT ![c] = "ERROR"]
      BY <1>8 DEF CallRefused
    <2>3. OpenReceiptIsCall' /\ DOMAIN receipt' = Call
      BY <1>1, <2>2 DEF OpenReceiptIsCall, TransportTypeOK
    <2> QED
      BY <2>1, <2>3 DEF TransportTypeOK
  <1>9. CASE RespawnAndCall(c)
    <2>1. PICK old \in Suffixes(late) :
             \/ Started(old)
             \/ \E rest \in Suffixes(Unread) : Started(old \o rest)
      BY <1>9, Zenon DEF RespawnAndCall
    <2>2. old \in Seq(Line)
      BY SuffixesAreSeqs DEF TransportTypeOK
    <2>3. PICK e \in Line : e = EOF
      BY LineTypes
    <2>4. Unread \in Seq(Line)
      BY <2>3 DEF Unread, TransportTypeOK
    <2>5. \E all \in Seq(Line) : Started(all)
      <3>1. CASE Started(old)
        BY <2>2, <3>1
      <3>2. ASSUME NEW rest \in Suffixes(Unread), Started(old \o rest)
            PROVE  \E all \in Seq(Line) : Started(all)
        <4>1. rest \in Seq(Line)
          BY <2>4, SuffixesAreSeqs
        <4>2. old \o rest \in Seq(Line)
          BY ONLY <2>2, <4>1, ConcatProperties
        <4> QED
          BY <3>2, <4>2
      <3> QED
        BY <2>1, <3>1, <3>2
    <2>6. /\ proc' \in {"none", "alive", "dead"} /\ proc' # "none"
          /\ session' \in Session
          /\ waiting' \in RequestMethod \cup {None}
          /\ {queue', stdout', late'} \subseteq Seq(Line)
          /\ stdin' \in Seq(Message)
      BY <2>5, StartedTypes
    <2>7. call' = c /\ receipt' = [receipt EXCEPT ![c] = "RESERVED"]
      BY <1>9 DEF RespawnAndCall
    <2>8. /\ call' \in 0..ExecutedTools
          /\ DOMAIN receipt' = Call
          /\ OpenReceiptIsCall'
      BY <1>5, <2>7
    <2> QED
      BY <2>6, <2>8 DEF TransportTypeOK
  <1> QED
    BY <1>6, <1>7, <1>8, <1>9 DEF Forward

(* The transport of a run is in order after each of its steps.             *)
LEMMA TransportSteps ==
  ASSUME TransportTypeOK, OpenReceiptIsCall,
         TransportStep \/ \E c \in Call : Forward(c)
  PROVE  TransportTypeOK' /\ OpenReceiptIsCall'
  BY ChildSteps, ParentSteps, ForwardStep DEF TransportStep

(* A run ends: the child is closed and the receipts are gone.              *)
LEMMA ReleaseSteps ==
  ASSUME Release
  PROVE  TransportTypeOK' /\ OpenReceiptIsCall' /\ proc' = "none" /\ call' = 0
  <1>1. /\ proc' = "none" /\ waiting' = None
        /\ {queue', stdout', late'} \subseteq Seq(Line)
        /\ stdin' \in Seq(Message)
    BY ClosedTypes DEF Release
  <1>2. call' \in 0..ExecutedTools /\ receipt' = [c \in Call |-> None]
    BY TransportConstants DEF Release
  <1>3. None # "RESERVED"
    BY TransportConstants
  <1>4. OpenReceiptIsCall' /\ DOMAIN receipt' = Call
    BY <1>2, <1>3 DEF OpenReceiptIsCall
  <1> QED
    BY <1>1, <1>2, <1>4 DEF TransportTypeOK, Release

-----------------------------------------------------------------------------
(* The batch.                                                              *)

(* Before main has ended, what is on disk and who is up follow from how    *)
(* far the batch is.                                                       *)
LEMMA DurableWhileOpen ==
  ASSUME BatchTypeOK', FileShape', EndShape', ChildShape', stage' # "exited"
  PROVE  RecordsDurable' /\ CleansUp'
  <1>1. exit' = None
    BY DEF EndShape
  <1>2. Len(file') \in Nat /\ DOMAIN file' = 1..Len(file')
    BY DEF BatchTypeOK
  <1>3. RecordsDurable'
    BY <1>1, <1>2 DEF FileShape, RecordsDurable
  <1>4. CleansUp'
    BY <1>1 DEF ChildShape, CleansUp
  <1> QED
    BY <1>3, <1>4

(* The transport moves within a run.                                       *)
LEMMA RunSteps ==
  ASSUME EvaluationInv, UNCHANGED loop, stage \in {"handshake", "investigate"},
         TransportTypeOK', OpenReceiptIsCall'
  PROVE  EvaluationInv'
  <1>1. /\ BatchTypeOK /\ FileShape /\ EndShape /\ ChildShape /\ SpendShape
        /\ AbortShape
    BY DEF EvaluationInv
  <1>2. BatchTypeOK'
    BY <1>1 DEF BatchTypeOK, loop
  <1>3. FileShape'
    BY <1>1 DEF FileShape, loop
  <1>4. EndShape'
    BY <1>1 DEF EndShape, loop
  <1>5. ChildShape'
    BY DEF ChildShape, loop
  <1>6. SpendShape'
    BY <1>1 DEF SpendShape, OwnReservationsOnly, loop
  <1>7. AbortShape'
    BY <1>1 DEF AbortShape, loop
  <1>8. stage' # "exited"
    BY DEF loop
  <1>9. RecordsDurable' /\ CleansUp'
    BY <1>2, <1>3, <1>4, <1>5, <1>8, DurableWhileOpen
  <1> QED
    BY <1>2, <1>3, <1>4, <1>5, <1>6, <1>7, <1>9 DEF EvaluationInv

(* Arithmetic of the worst case.                                           *)
LEMMA WorstCaseSplits ==
  /\ RunEstimate \in Nat /\ Runs \in Nat /\ Runs >= 2
  /\ \A n \in Nat : /\ n * RunEstimate \in Nat
                    /\ (n + 1) * RunEstimate = n * RunEstimate + RunEstimate
  <1>1. Runs \in Nat /\ Runs >= 2
    BY EvaluationConstants DEF Runs
  <1>2. ASSUME NEW n \in Nat, NEW k \in Nat
        PROVE  n * k \in Nat /\ (n + 1) * k = n * k + k
    OBVIOUS
  <1>3. CallsPerRun \in Nat /\ PreflightPrice \in Nat
    BY TransportConstants, EvaluationConstants DEF CallsPerRun
  <1>4. RunEstimate \in Nat
    BY <1>2, <1>3 DEF RunEstimate
  <1> QED
    BY <1>1, <1>2, <1>4

(* The requests of a run cost no more than was estimated for it, if one    *)
(* does not.                                                               *)
LEMMA RequestsFit ==
  ASSUME NEW m \in Nat, NEW n \in 0..RequestsOf(m)
  PROVE  /\ n \in Nat /\ CallPrice \in Nat /\ n * CallPrice \in Nat
         /\ CallPrice <= PreflightPrice => n * CallPrice <= RunEstimate
         /\ n < RequestsOf(m) /\ CallPrice <= PreflightPrice =>
               n * CallPrice + CallPrice <= RunEstimate
  <1>1. CallsPerRun \in Nat /\ PreflightPrice \in Nat /\ CallPrice \in Nat
    BY TransportConstants, EvaluationConstants DEF CallsPerRun
  <1>2. RequestsOf(m) \in Nat /\ RequestsOf(m) <= CallsPerRun
    BY TransportConstants, EvaluationConstants DEF RequestsOf, CallsPerRun
  <1>3. n \in Nat /\ n <= CallsPerRun /\ (n < RequestsOf(m) => n + 1 <= CallsPerRun)
    BY <1>1, <1>2
  <1>4. ASSUME NEW i \in Nat, NEW k \in Nat, i <= k,
               NEW c \in Nat, NEW e \in Nat, c <= e
        PROVE  i * c \in Nat /\ i * c <= k * e
    <2>1. PICK d \in Nat, f \in Nat : k = i + d /\ e = c + f
      <3>1. k - i \in Nat /\ e - c \in Nat /\ k = i + (k - i) /\ e = c + (e - c)
        BY <1>4
      <3> QED
        BY <3>1
    <2>2. i * c \in Nat /\ i * f \in Nat /\ d * c \in Nat /\ d * f \in Nat
      OBVIOUS
    <2>3. (i + d) * (c + f) = i * c + i * f + d * c + d * f
      OBVIOUS
    <2> QED
      BY <2>1, <2>2, <2>3
  <1>5. ASSUME NEW i \in Nat, NEW c \in Nat
        PROVE  i * c \in Nat /\ (i + 1) * c = i * c + c
    OBVIOUS
  <1>6. CallPrice <= PreflightPrice => n * CallPrice <= RunEstimate
    BY <1>1, <1>3, <1>4 DEF RunEstimate
  <1>7. n < RequestsOf(m) /\ CallPrice <= PreflightPrice =>
           (n + 1) * CallPrice <= RunEstimate
    BY <1>1, <1>3, <1>4 DEF RunEstimate
  <1> QED
    BY <1>1, <1>3, <1>5, <1>6, <1>7

(* What asking does to the ledger: sums stay numbers, and where the        *)
(* preflight has covered the run, what is left covers the runs after it    *)
(* and every request the run may still make.                               *)
LEMMA AskSpends ==
  ASSUME BatchTypeOK, SpendShape, stage = "investigate",
         NEW n \in 0..RequestsOf(run), NEW over \in 0..MaxExcess, NEW lost,
         Ask(n, over, lost)
  PROVE  /\ spent' \in Nat /\ excess' \in Nat
         /\ CallPrice <= PreflightPrice /\ other = 0 /\ excess' = 0 =>
              /\ spent' + (Runs - run) * RunEstimate + Buffer <= Ceiling
              /\ n < RequestsOf(run) =>
                    spent + n * CallPrice + over + CallPrice + Buffer <= Ceiling
  <1>1. /\ spent \in Nat /\ excess \in Nat /\ run \in 1..Runs
        /\ Buffer \in Nat /\ Ceiling \in Nat /\ over \in Nat
    BY EvaluationConstants DEF BatchTypeOK
  <1>2. PICK k \in Nat : k = Runs - run
    BY <1>1, WorstCaseSplits
  <1>3. PICK e \in Nat, w \in Nat, more \in Nat :
           /\ e = RunEstimate /\ w = k * RunEstimate
           /\ more = (k + 1) * RunEstimate /\ more = w + e
    BY WorstCaseSplits
  <1>4. (Runs - run + 1) * RunEstimate = more /\ (Runs - run) * RunEstimate = w
    <2>1. Runs - run + 1 = k + 1
      BY <1>1, <1>2, WorstCaseSplits
    <2> QED
      BY <1>2, <1>3, <2>1
  <1>5. PICK cost \in Nat, price \in Nat :
           /\ cost = n * CallPrice /\ price = CallPrice
           /\ price <= PreflightPrice => cost <= e
           /\ n < RequestsOf(run) /\ price <= PreflightPrice =>
                 cost + price <= e
    <2>1. run \in Nat
      BY <1>1, WorstCaseSplits
    <2> QED
      BY <1>3, <2>1, RequestsFit
  <1>6. spent' = spent + cost + over /\ excess' = excess + over
    BY <1>5 DEF Ask
  <1>7. price <= PreflightPrice /\ other = 0 /\ excess = 0 =>
           spent + more + Buffer <= Ceiling
    BY <1>4, <1>5 DEF SpendShape, OwnReservationsOnly
  <1>8. spent' \in Nat /\ excess' \in Nat
    BY <1>1, <1>5, <1>6
  <1>9. ASSUME price <= PreflightPrice, other = 0, excess' = 0
        PROVE  /\ spent' + w + Buffer <= Ceiling
               /\ n < RequestsOf(run) =>
                     spent + cost + over + price + Buffer <= Ceiling
    <2>1. over = 0 /\ excess = 0
      BY <1>1, <1>6, <1>9
    <2>2. spent + more + Buffer <= Ceiling
      BY <1>7, <1>9, <2>1
    <2> QED
      BY <1>1, <1>3, <1>5, <1>6, <1>9, <2>1, <2>2
  <1> QED
    BY <1>4, <1>5, <1>8, <1>9

(* An exception of a batch that has not failed is its first.               *)
LEMMA FirstFailure ==
  ASSUME EndShape, NEW reason, Fails(reason),
         stage \notin {"reset", "out", "exited"}
  PROVE  /\ failure = None /\ failure' = reason /\ first' = reason
         /\ UNCHANGED <<unreset, exit>>
         /\ exit = None /\ summary = None
  BY DEF EndShape, Fails

(* No exception is the absence of one.                                     *)
LEMMA NoneApart ==
  /\ None \notin Status /\ None \notin AbortReason
  /\ "OK" \notin AbortReason
  /\ \A s \in {"OK", "killed", "CEILING_BELOW_RESERVATION_BUFFER",
               "LAB_ERROR", "RUN_FAILED", "WRITE_FAILED", "RESET_FAILED",
               "SUMMARY_WRITE_FAILED", "INTERNAL_ERROR"} : None # s
  BY EvaluationConstants DEF Status, ReasonCode, AbortReason

(* Nothing of the transport moves.                                         *)
LEMMA TransportStays ==
  ASSUME TransportTypeOK, OpenReceiptIsCall, UNCHANGED transport
  PROVE  TransportTypeOK' /\ OpenReceiptIsCall' /\ proc' = proc
         /\ receipt' = receipt
  BY DEF TransportTypeOK, OpenReceiptIsCall, transport

(* The preflight.                                                          *)
LEMMA PreflightStep ==
  ASSUME EvaluationInv, Preflight
  PROVE  EvaluationInv'
  <1>0. /\ BatchTypeOK /\ FileShape /\ EndShape /\ ChildShape /\ SpendShape
        /\ AbortShape /\ OpenReceiptIsCall
    BY DEF EvaluationInv
  <1>1. /\ stage = "preflight" /\ lab = 0 /\ failure = None /\ exit = None
        /\ summary = None /\ first = None
    BY <1>0 DEF EndShape, Preflight
  <1>2. /\ UNCHANGED <<transport, run, lab, report, settled, record, finalized,
                       file, summary, spent, excess, other, unreset,
                       exit>>
        /\ \/ /\ stage' = "out" /\ first' = failure'
              /\ failure' = "CEILING_BELOW_RESERVATION_BUFFER"
           \/ /\ stage' = "scenario" /\ UNCHANGED <<failure, first>>
              /\ ~(spent + WorstCase + Buffer > Ceiling)
    BY <1>1, Zenon DEF Preflight, Fails, ends, disk, money
  <1>3. None # "CEILING_BELOW_RESERVATION_BUFFER"
    BY NoneApart
  <1>t. TransportTypeOK' /\ OpenReceiptIsCall'
    BY <1>0, <1>2, TransportStays DEF BatchTypeOK
  <1>b. BatchTypeOK'
    BY <1>0, <1>t, <1>1, <1>2, <1>3 DEF BatchTypeOK
  <1>f. FileShape'
    BY <1>0, <1>1, <1>2, <1>3 DEF BatchTypeOK, FileShape
  <1>e. EndShape'
    BY <1>0, <1>1, <1>2, <1>3 DEF EndShape, Status, ReasonCode, AbortReason
  <1>c. ChildShape'
    BY <1>0, <1>1, <1>2, <1>3 DEF ChildShape, transport
  <1>s. SpendShape'
    <2>1. run = 1 /\ Runs - run + 1 = Runs
      BY <1>0, <1>1, WorstCaseSplits DEF FileShape
    <2>2. Runs * RunEstimate \in Nat /\ spent \in Nat /\ Buffer \in Nat
          /\ Ceiling \in Nat
      BY <1>0, WorstCaseSplits, EvaluationConstants DEF BatchTypeOK
    <2>3. stage' = "scenario" =>
             spent' + (Runs - run' + 1) * RunEstimate + Buffer <= Ceiling
      <3> DEFINE w == Runs * RunEstimate
      <3>1. (Runs - run' + 1) * RunEstimate = w
        BY <1>2, <2>1
      <3>2. stage' = "scenario" => ~(spent + w + Buffer > Ceiling)
        BY <1>2 DEF WorstCase, RunEstimate
      <3> HIDE DEF w
      <3>3. w \in Nat
        BY <2>2 DEF w
      <3> QED
        BY <1>2, <2>2, <3>1, <3>2, <3>3
    <2> QED
      BY <1>0, <1>1, <1>2, <2>3 DEF SpendShape, OwnReservationsOnly
  <1>a. AbortShape'
    BY <1>0, <1>1, <1>2, <1>3 DEF AbortShape
  <1>x. stage' # "exited"
    BY <1>0, <1>1, <1>2, <1>3
  <1>d. RecordsDurable' /\ CleansUp'
    BY <1>b, <1>f, <1>e, <1>c, <1>x, DurableWhileOpen
  <1> QED
    BY <1>t, <1>b, <1>f, <1>e, <1>c, <1>s, <1>a, <1>d DEF EvaluationInv

(* A scenario comes up.                                                    *)
LEMMA StartScenarioStep ==
  ASSUME EvaluationInv, StartScenario
  PROVE  EvaluationInv'
  <1>0. /\ BatchTypeOK /\ FileShape /\ EndShape /\ ChildShape /\ SpendShape
        /\ AbortShape /\ OpenReceiptIsCall
    BY DEF EvaluationInv
  <1>1. stage = "scenario" /\ stage' = "build"
    BY DEF StartScenario
  <1>2. UNCHANGED <<transport, run, report, settled, record, finalized, file,
                    summary, failure, first, unreset, exit, spent, excess, other>>
    BY Zenon DEF StartScenario, disk, ends, money
  <1>t. TransportTypeOK' /\ OpenReceiptIsCall'
    BY <1>0, <1>2, TransportStays DEF BatchTypeOK
  <1>b. BatchTypeOK'
    BY <1>0, <1>t, <1>1, <1>2 DEF BatchTypeOK
  <1>f. FileShape'
    BY <1>0, <1>1, <1>2 DEF BatchTypeOK, FileShape
  <1>e. EndShape'
    BY <1>0, <1>1, <1>2 DEF EndShape
  <1>c. ChildShape'
    BY <1>0, <1>1, <1>2 DEF ChildShape, transport
  <1>s. SpendShape'
    BY <1>0, <1>1, <1>2 DEF BatchTypeOK, SpendShape, OwnReservationsOnly
  <1>a. AbortShape'
    BY <1>0, <1>1, <1>2 DEF AbortShape
  <1>x. stage' # "exited"
    BY <1>0, <1>1, <1>2
  <1>d. RecordsDurable' /\ CleansUp'
    BY <1>b, <1>f, <1>e, <1>c, <1>x, DurableWhileOpen
  <1> QED
    BY <1>t, <1>b, <1>f, <1>e, <1>c, <1>s, <1>a, <1>d DEF EvaluationInv

(* A scenario does not come up.                                            *)
LEMMA ScenarioFailsStep ==
  ASSUME EvaluationInv, ScenarioFails
  PROVE  EvaluationInv'
  <1>0. /\ BatchTypeOK /\ FileShape /\ EndShape /\ ChildShape /\ SpendShape
        /\ AbortShape /\ OpenReceiptIsCall
    BY DEF EvaluationInv
  <1>1. /\ stage = "scenario" /\ stage' = "out" /\ failure' = "LAB_ERROR"
        /\ first' = "LAB_ERROR" /\ lab = 0
    BY <1>0, FirstFailure DEF ScenarioFails, EndShape
  <1>2. UNCHANGED <<transport, run, lab, report, settled, record, finalized,
                    file, summary, unreset, exit, spent, excess, other>>
    BY Zenon DEF ScenarioFails, Fails, disk, money
  <1>3. None # "LAB_ERROR"
    BY NoneApart
  <1>t. TransportTypeOK' /\ OpenReceiptIsCall'
    BY <1>0, <1>2, TransportStays DEF BatchTypeOK
  <1>b. BatchTypeOK'
    BY <1>0, <1>t, <1>1, <1>2, <1>3 DEF BatchTypeOK
  <1>f. FileShape'
    BY <1>0, <1>1, <1>2, <1>3 DEF BatchTypeOK, FileShape
  <1>e. EndShape'
    BY <1>0, <1>1, <1>2, <1>3 DEF EndShape, Status, ReasonCode, AbortReason
  <1>c. ChildShape'
    BY <1>0, <1>1, <1>2, <1>3 DEF ChildShape, transport
  <1>s. SpendShape'
    BY <1>0, <1>1, <1>2, <1>3 DEF BatchTypeOK, SpendShape, OwnReservationsOnly
  <1>a. AbortShape'
    BY <1>0, <1>1, <1>2, <1>3 DEF AbortShape
  <1>x. stage' # "exited"
    BY <1>0, <1>1, <1>2, <1>3
  <1>d. RecordsDurable' /\ CleansUp'
    BY <1>b, <1>f, <1>e, <1>c, <1>x, DurableWhileOpen
  <1> QED
    BY <1>t, <1>b, <1>f, <1>e, <1>c, <1>s, <1>a, <1>d DEF EvaluationInv

(* A run starts its child.                                                 *)
LEMMA BuildStep ==
  ASSUME EvaluationInv, Build
  PROVE  EvaluationInv'
  <1>0. /\ BatchTypeOK /\ FileShape /\ EndShape /\ ChildShape /\ SpendShape
        /\ AbortShape /\ OpenReceiptIsCall
    BY DEF EvaluationInv
  <1>1. /\ stage = "build" /\ stage' = "handshake"
        /\ Started(<<>>) /\ UNCHANGED <<call, receipt>>
    BY DEF Build, StartChild, receipts
  <1>2. UNCHANGED <<run, lab, report, settled, record, finalized, file, summary,
                    failure, first, unreset, exit, spent, excess, other>>
    BY Zenon DEF Build, disk, ends, money
  <1>t. TransportTypeOK' /\ OpenReceiptIsCall'
    <2>1. <<>> \in Seq(Line)
      OBVIOUS
    <2>2. /\ proc' \in {"none", "alive", "dead"} /\ proc' # "none"
          /\ session' \in Session
          /\ waiting' \in RequestMethod \cup {None}
          /\ {queue', stdout', late'} \subseteq Seq(Line)
          /\ stdin' \in Seq(Message)
      BY <1>1, <2>1, StartedTypes
    <2> QED
      BY <1>0, <1>1, <2>2 DEF BatchTypeOK, TransportTypeOK, OpenReceiptIsCall
  <1>b. BatchTypeOK'
    BY <1>0, <1>t, <1>1, <1>2 DEF BatchTypeOK
  <1>f. FileShape'
    BY <1>0, <1>1, <1>2 DEF BatchTypeOK, FileShape
  <1>e. EndShape'
    BY <1>0, <1>1, <1>2 DEF EndShape
  <1>c. ChildShape'
    BY <1>0, <1>1, <1>2 DEF ChildShape, transport
  <1>s. SpendShape'
    BY <1>0, <1>1, <1>2 DEF BatchTypeOK, SpendShape, OwnReservationsOnly
  <1>a. AbortShape'
    BY <1>0, <1>1, <1>2 DEF AbortShape
  <1>x. stage' # "exited"
    BY <1>0, <1>1, <1>2
  <1>d. RecordsDurable' /\ CleansUp'
    BY <1>b, <1>f, <1>e, <1>c, <1>x, DurableWhileOpen
  <1> QED
    BY <1>t, <1>b, <1>f, <1>e, <1>c, <1>s, <1>a, <1>d DEF EvaluationInv

(* The child is up.                                                        *)
LEMMA BuiltStep ==
  ASSUME EvaluationInv, Built
  PROVE  EvaluationInv'
  <1>0. /\ BatchTypeOK /\ FileShape /\ EndShape /\ ChildShape /\ SpendShape
        /\ AbortShape /\ OpenReceiptIsCall
    BY DEF EvaluationInv
  <1>1. stage = "handshake" /\ stage' = "investigate"
    BY DEF Built
  <1>2. UNCHANGED <<transport, run, lab, report, settled, record, finalized,
                    file, summary, failure, first, unreset, exit, spent, excess, other>>
    BY Zenon DEF Built, disk, ends, money
  <1>t. TransportTypeOK' /\ OpenReceiptIsCall'
    BY <1>0, <1>2, TransportStays DEF BatchTypeOK
  <1>b. BatchTypeOK'
    BY <1>0, <1>t, <1>1, <1>2 DEF BatchTypeOK
  <1>f. FileShape'
    BY <1>0, <1>1, <1>2 DEF BatchTypeOK, FileShape
  <1>e. EndShape'
    BY <1>0, <1>1, <1>2 DEF EndShape
  <1>c. ChildShape'
    BY <1>0, <1>1, <1>2 DEF ChildShape, transport
  <1>s. SpendShape'
    BY <1>0, <1>1, <1>2 DEF BatchTypeOK, SpendShape, OwnReservationsOnly
  <1>a. AbortShape'
    BY <1>0, <1>1, <1>2 DEF AbortShape
  <1>x. stage' # "exited"
    BY <1>0, <1>1, <1>2
  <1>d. RecordsDurable' /\ CleansUp'
    BY <1>b, <1>f, <1>e, <1>c, <1>x, DurableWhileOpen
  <1> QED
    BY <1>t, <1>b, <1>f, <1>e, <1>c, <1>s, <1>a, <1>d DEF EvaluationInv

(* The rest of a build fails, and the child is closed.                     *)
LEMMA BuildFailsStep ==
  ASSUME EvaluationInv, BuildFails
  PROVE  EvaluationInv'
  <1>0. /\ BatchTypeOK /\ FileShape /\ EndShape /\ ChildShape /\ SpendShape
        /\ AbortShape /\ OpenReceiptIsCall
    BY DEF EvaluationInv
  <1>1. /\ stage = "handshake" /\ stage' = "reset"
        /\ failure' = "INTERNAL_ERROR" /\ first' = "INTERNAL_ERROR"
        /\ Closed /\ UNCHANGED <<call, receipt>>
    BY <1>0, FirstFailure DEF BuildFails, receipts
  <1>2. UNCHANGED <<run, lab, report, settled, record, finalized,
                    file, summary, unreset, exit, spent, excess, other>>
    BY Zenon DEF BuildFails, Fails, disk, money
  <1>3. None # "INTERNAL_ERROR"
    BY NoneApart
  <1>t. TransportTypeOK' /\ OpenReceiptIsCall'
    <2>1. /\ proc' = "none" /\ waiting' = None
          /\ {queue', stdout', late'} \subseteq Seq(Line)
          /\ stdin' \in Seq(Message)
      BY <1>1, ClosedTypes
    <2> QED
      BY <1>0, <1>1, <2>1 DEF BatchTypeOK, TransportTypeOK, OpenReceiptIsCall
  <1>b. BatchTypeOK'
    BY <1>0, <1>t, <1>1, <1>2, <1>3 DEF BatchTypeOK
  <1>f. FileShape'
    BY <1>0, <1>1, <1>2, <1>3 DEF BatchTypeOK, FileShape
  <1>e. EndShape'
    BY <1>0, <1>1, <1>2, <1>3 DEF EndShape, Status, ReasonCode, AbortReason
  <1>c. ChildShape'
    BY <1>0, <1>1, <1>2, <1>3 DEF ChildShape, transport
  <1>s. SpendShape'
    BY <1>0, <1>1, <1>2, <1>3 DEF BatchTypeOK, SpendShape, OwnReservationsOnly
  <1>a. AbortShape'
    BY <1>0, <1>1, <1>2, <1>3 DEF AbortShape
  <1>x. stage' # "exited"
    BY <1>0, <1>1, <1>2, <1>3
  <1>d. RecordsDurable' /\ CleansUp'
    BY <1>b, <1>f, <1>e, <1>c, <1>x, DurableWhileOpen
  <1> QED
    BY <1>t, <1>b, <1>f, <1>e, <1>c, <1>s, <1>a, <1>d DEF EvaluationInv

(* The incident cannot be read.                                            *)
LEMMA ReadFailsStep ==
  ASSUME EvaluationInv, ReadFails
  PROVE  EvaluationInv'
  <1>0. /\ BatchTypeOK /\ FileShape /\ EndShape /\ ChildShape /\ SpendShape
        /\ AbortShape /\ OpenReceiptIsCall
    BY DEF EvaluationInv
  <1>1. /\ stage = "build" /\ stage' = "reset"
        /\ failure' = "RUN_FAILED" /\ first' = "RUN_FAILED"
    BY <1>0, FirstFailure DEF ReadFails
  <1>2. UNCHANGED <<transport, run, lab, report, settled, record, finalized,
                    file, summary, unreset, exit, spent, excess, other>>
    BY Zenon DEF ReadFails, Fails, disk, money
  <1>3. None # "RUN_FAILED"
    BY NoneApart
  <1>t. TransportTypeOK' /\ OpenReceiptIsCall'
    BY <1>0, <1>2, TransportStays DEF BatchTypeOK
  <1>b. BatchTypeOK'
    BY <1>0, <1>t, <1>1, <1>2, <1>3 DEF BatchTypeOK
  <1>f. FileShape'
    BY <1>0, <1>1, <1>2, <1>3 DEF BatchTypeOK, FileShape
  <1>e. EndShape'
    BY <1>0, <1>1, <1>2, <1>3 DEF EndShape, Status, ReasonCode, AbortReason
  <1>c. ChildShape'
    BY <1>0, <1>1, <1>2, <1>3 DEF ChildShape, transport
  <1>s. SpendShape'
    BY <1>0, <1>1, <1>2, <1>3 DEF BatchTypeOK, SpendShape, OwnReservationsOnly
  <1>a. AbortShape'
    BY <1>0, <1>1, <1>2, <1>3 DEF AbortShape
  <1>x. stage' # "exited"
    BY <1>0, <1>1, <1>2, <1>3
  <1>d. RecordsDurable' /\ CleansUp'
    BY <1>b, <1>f, <1>e, <1>c, <1>x, DurableWhileOpen
  <1> QED
    BY <1>t, <1>b, <1>f, <1>e, <1>c, <1>s, <1>a, <1>d DEF EvaluationInv

(* The handshake fails.                                                    *)
LEMMA StartFailsStep ==
  ASSUME EvaluationInv, StartFails
  PROVE  EvaluationInv'
  <1>0. /\ BatchTypeOK /\ FileShape /\ EndShape /\ ChildShape /\ SpendShape
        /\ AbortShape /\ OpenReceiptIsCall
    BY DEF EvaluationInv
  <1>1. /\ stage = "handshake" /\ stage' = "reset"
        /\ failure' = "INTERNAL_ERROR" /\ first' = "INTERNAL_ERROR"
    BY <1>0, FirstFailure DEF StartFails
  <1>2. UNCHANGED <<transport, run, lab, report, settled, record, finalized,
                    file, summary, unreset, exit, spent, excess, other>>
    BY Zenon DEF StartFails, Fails, disk, money
  <1>3. None # "INTERNAL_ERROR"
    BY NoneApart
  <1>t. TransportTypeOK' /\ OpenReceiptIsCall'
    BY <1>0, <1>2, TransportStays DEF BatchTypeOK
  <1>b. BatchTypeOK'
    BY <1>0, <1>t, <1>1, <1>2, <1>3 DEF BatchTypeOK
  <1>f. FileShape'
    BY <1>0, <1>1, <1>2, <1>3 DEF BatchTypeOK, FileShape
  <1>e. EndShape'
    BY <1>0, <1>1, <1>2, <1>3 DEF EndShape, Status, ReasonCode, AbortReason
  <1>c. ChildShape'
    BY <1>0, <1>1, <1>2, <1>3 DEF ChildShape, transport
  <1>s. SpendShape'
    BY <1>0, <1>1, <1>2, <1>3 DEF BatchTypeOK, SpendShape, OwnReservationsOnly
  <1>a. AbortShape'
    BY <1>0, <1>1, <1>2, <1>3 DEF AbortShape
  <1>x. stage' # "exited"
    BY <1>0, <1>1, <1>2, <1>3
  <1>d. RecordsDurable' /\ CleansUp'
    BY <1>b, <1>f, <1>e, <1>c, <1>x, DurableWhileOpen
  <1> QED
    BY <1>t, <1>b, <1>f, <1>e, <1>c, <1>s, <1>a, <1>d DEF EvaluationInv

(* The graph returns what the model came to.                               *)
LEMMA ConcludeStep ==
  ASSUME EvaluationInv, NEW r \in Report, Conclude(r)
  PROVE  EvaluationInv'
  <1>0. /\ BatchTypeOK /\ FileShape /\ EndShape /\ ChildShape /\ SpendShape
        /\ AbortShape /\ OpenReceiptIsCall
    BY DEF EvaluationInv
  <1>1. /\ stage = "investigate" /\ stage' = "returned" /\ report' = r
        /\ call = 0
    BY DEF Conclude, Returns
  <1>2. UNCHANGED <<transport, run, lab, record, finalized, file, summary,
                    failure, first, unreset, exit, other>>
    BY Zenon DEF Conclude, Returns, disk, ends
  <1>p. PICK over \in 0..MaxExcess :
           Ask(RequestsOf(run), over, r.reason = "AMBIGUOUS_MODEL_REQUEST")
    BY DEF Conclude
  <1>q. RequestsOf(run) \in 0..RequestsOf(run)
    BY TransportConstants, EvaluationConstants DEF RequestsOf, CallsPerRun
  <1>r. /\ spent' \in Nat /\ excess' \in Nat
        /\ CallPrice <= PreflightPrice /\ other = 0 /\ excess' = 0 =>
              spent' + (Runs - run) * RunEstimate + Buffer <= Ceiling
    BY <1>0, <1>1, <1>p, <1>q, AskSpends
  <1>3. /\ r \in Conclusion /\ r.reason # "COST_CEILING_EXCEEDED"
        /\ settled' \in BOOLEAN /\ spent' \in Nat /\ excess' \in Nat
    <2>1. settled' \in BOOLEAN
      BY <1>p, Zenon DEF Ask
    <2> QED
      BY <1>r, <2>1, EvaluationConstants
  <1>t. TransportTypeOK' /\ OpenReceiptIsCall'
    BY <1>0, <1>2, TransportStays DEF BatchTypeOK
  <1>b. BatchTypeOK'
    BY <1>0, <1>t, <1>1, <1>2, <1>3 DEF BatchTypeOK
  <1>f. FileShape'
    BY <1>0, <1>1, <1>2, <1>3 DEF BatchTypeOK, FileShape
  <1>e. EndShape'
    BY <1>0, <1>1, <1>2, <1>3 DEF EndShape, Status, ReasonCode, AbortReason
  <1>c. ChildShape'
    BY <1>0, <1>1, <1>2, <1>3 DEF ChildShape, transport
  <1>s. SpendShape'
    BY <1>1, <1>2, <1>3, <1>r DEF SpendShape, OwnReservationsOnly
  <1>a. AbortShape'
    <2>1. Unsettled' = 0
      <3>1. {c \in Call : receipt'[c] = "RESERVED"} = {}
        BY <1>0, <1>1, <1>2 DEF OpenReceiptIsCall, Call, transport
      <3> QED
        BY <3>1, FS_EmptySet DEF Unsettled
    <2> QED
      BY <1>0, <1>1, <1>2, <2>1 DEF AbortShape
  <1>x. stage' # "exited"
    BY <1>0, <1>1, <1>2, <1>3
  <1>d. RecordsDurable' /\ CleansUp'
    BY <1>b, <1>f, <1>e, <1>c, <1>x, DurableWhileOpen
  <1> QED
    BY <1>t, <1>b, <1>f, <1>e, <1>c, <1>s, <1>a, <1>d DEF EvaluationInv

(* The ceiling stops a run: not where the preflight has covered it.        *)
LEMMA CeilingStopsStep ==
  ASSUME EvaluationInv, CeilingStops
  PROVE  EvaluationInv'
  <1>0. /\ BatchTypeOK /\ FileShape /\ EndShape /\ ChildShape /\ SpendShape
        /\ AbortShape /\ OpenReceiptIsCall
    BY DEF EvaluationInv
  <1>1. /\ stage = "investigate" /\ stage' = "returned" /\ call = 0
        /\ report' = Failed("COST_CEILING_EXCEEDED")
    BY DEF CeilingStops, Returns
  <1>2. UNCHANGED <<transport, run, lab, record, finalized, file, summary,
                    failure, first, unreset, exit, other>>
    BY Zenon DEF CeilingStops, Returns, disk, ends
  <1>p. PICK n \in 0..(RequestsOf(run) - 1), over \in 0..MaxExcess :
           /\ spent + n * CallPrice + over + CallPrice + Buffer > Ceiling
           /\ Ask(n, over, FALSE)
    BY DEF CeilingStops
  <1>q. n \in 0..RequestsOf(run) /\ n < RequestsOf(run)
    BY TransportConstants, EvaluationConstants DEF RequestsOf, CallsPerRun
  <1>r. /\ spent' \in Nat /\ excess' \in Nat
        /\ CallPrice <= PreflightPrice /\ other = 0 /\ excess' = 0 =>
              spent + n * CallPrice + over + CallPrice + Buffer <= Ceiling
    BY <1>0, <1>1, <1>p, <1>q, AskSpends
  <1>3. /\ report' \in Conclusion
        /\ settled' \in BOOLEAN /\ spent' \in Nat /\ excess' \in Nat
    <2>1. settled' \in BOOLEAN
      BY <1>p, Zenon DEF Ask
    <2>2. report' \in Conclusion
      BY <1>1
      DEF Failed, Conclusion, Disposition, RootCauseCode, RetrievalMode,
          ReasonCode, AbortReason
    <2> QED
      BY <1>r, <2>1, <2>2
  <1>t. TransportTypeOK' /\ OpenReceiptIsCall'
    BY <1>0, <1>2, TransportStays DEF BatchTypeOK
  <1>b. BatchTypeOK'
    BY <1>0, <1>t, <1>1, <1>2, <1>3 DEF BatchTypeOK
  <1>f. FileShape'
    BY <1>0, <1>1, <1>2, <1>3 DEF BatchTypeOK, FileShape
  <1>e. EndShape'
    BY <1>0, <1>1, <1>2, <1>3 DEF EndShape, Status, ReasonCode, AbortReason
  <1>c. ChildShape'
    BY <1>0, <1>1, <1>2, <1>3 DEF ChildShape, transport
  <1>s. SpendShape'
    <2>1. ~(CallPrice <= PreflightPrice /\ other = 0 /\ excess' = 0)
      <3>1. PICK total \in Nat :
               total = spent + n * CallPrice + over + CallPrice + Buffer
        <4>1. /\ n * CallPrice \in Nat /\ CallPrice \in Nat
          BY <1>0, <1>q, WorstCaseSplits, RequestsFit DEF BatchTypeOK
        <4>2. spent \in Nat /\ over \in Nat /\ Buffer \in Nat
          BY <1>0, EvaluationConstants DEF BatchTypeOK
        <4> QED
          BY <4>1, <4>2
      <3>2. Ceiling \in Nat
        BY EvaluationConstants
      <3> QED
        BY <1>p, <1>r, <3>1, <3>2
    <2> QED
      BY <1>2, <2>1 DEF SpendShape, OwnReservationsOnly
  <1>a. AbortShape'
    <2>1. Unsettled' = 0
      <3>1. {c \in Call : receipt'[c] = "RESERVED"} = {}
        BY <1>0, <1>1, <1>2 DEF OpenReceiptIsCall, Call, transport
      <3> QED
        BY <3>1, FS_EmptySet DEF Unsettled
    <2> QED
      BY <1>0, <1>1, <1>2, <2>1 DEF AbortShape
  <1>x. stage' # "exited"
    BY <1>0, <1>1, <1>2, <1>3
  <1>d. RecordsDurable' /\ CleansUp'
    BY <1>b, <1>f, <1>e, <1>c, <1>x, DurableWhileOpen
  <1> QED
    BY <1>t, <1>b, <1>f, <1>e, <1>c, <1>s, <1>a, <1>d DEF EvaluationInv

(* An exception of a check ends the investigation.                         *)
LEMMA CheckRaisedStep ==
  ASSUME EvaluationInv, CheckRaised
  PROVE  EvaluationInv'
  <1>0. /\ BatchTypeOK /\ FileShape /\ EndShape /\ ChildShape /\ SpendShape
        /\ AbortShape /\ OpenReceiptIsCall
    BY DEF EvaluationInv
  <1>1. /\ stage = "investigate" /\ stage' = "returned"
        /\ report' = Failed("INTERNAL_ERROR")
    BY DEF CheckRaised, Returns
  <1>2. UNCHANGED <<transport, run, lab, record, finalized, file, summary,
                    failure, first, unreset, exit, other>>
    BY Zenon DEF CheckRaised, Returns, disk, ends
  <1>p. PICK n \in 1..RequestsOf(run), over \in 0..MaxExcess :
           Ask(n, over, FALSE)
    BY DEF CheckRaised
  <1>r. /\ spent' \in Nat /\ excess' \in Nat
        /\ CallPrice <= PreflightPrice /\ other = 0 /\ excess' = 0 =>
              spent' + (Runs - run) * RunEstimate + Buffer <= Ceiling
    <2>1. n \in 0..RequestsOf(run)
      OBVIOUS
    <2> QED
      BY <1>0, <1>1, <1>p, <2>1, AskSpends
  <1>3. /\ report' \in Conclusion /\ report'.reason = "INTERNAL_ERROR"
        /\ settled' \in BOOLEAN /\ spent' \in Nat /\ excess' \in Nat
    <2>1. settled' \in BOOLEAN
      BY <1>p, Zenon DEF Ask
    <2>2. report' \in Conclusion /\ report'.reason = "INTERNAL_ERROR"
      BY <1>1
      DEF Failed, Conclusion, Disposition, RootCauseCode, RetrievalMode,
          ReasonCode, AbortReason
    <2> QED
      BY <1>r, <2>1, <2>2
  <1>t. TransportTypeOK' /\ OpenReceiptIsCall'
    BY <1>0, <1>2, TransportStays DEF BatchTypeOK
  <1>b. BatchTypeOK'
    BY <1>0, <1>t, <1>1, <1>2, <1>3 DEF BatchTypeOK
  <1>f. FileShape'
    BY <1>0, <1>1, <1>2, <1>3 DEF BatchTypeOK, FileShape
  <1>e. EndShape'
    BY <1>0, <1>1, <1>2, <1>3 DEF EndShape, Status, ReasonCode, AbortReason
  <1>c. ChildShape'
    BY <1>0, <1>1, <1>2, <1>3 DEF ChildShape, transport
  <1>s. SpendShape'
    BY <1>1, <1>2, <1>3, <1>r DEF SpendShape, OwnReservationsOnly
  <1>a. AbortShape'
    BY <1>0, <1>1, <1>2, <1>3 DEF AbortShape, AbortReason
  <1>x. stage' # "exited"
    BY <1>0, <1>1, <1>2, <1>3
  <1>d. RecordsDurable' /\ CleansUp'
    BY <1>b, <1>f, <1>e, <1>c, <1>x, DurableWhileOpen
  <1> QED
    BY <1>t, <1>b, <1>f, <1>e, <1>c, <1>s, <1>a, <1>d DEF EvaluationInv

(* Open receipts are counted by a number.                                  *)
LEMMA UnsettledIsNat == Unsettled \in Nat
  <1>1. IsFiniteSet(Call)
    BY FS_Interval, TransportConstants DEF Call
  <1>2. IsFiniteSet({c \in Call : receipt[c] = "RESERVED"})
    BY <1>1, FS_Subset
  <1> QED
    BY <1>2, FS_CardinalityType DEF Unsettled

(* The investigation is on disk.                                           *)
LEMMA FinalizeStep ==
  ASSUME EvaluationInv, Finalize
  PROVE  EvaluationInv'
  <1>0. /\ BatchTypeOK /\ FileShape /\ EndShape /\ ChildShape /\ SpendShape
        /\ AbortShape /\ OpenReceiptIsCall
    BY DEF EvaluationInv
  <1>1. /\ stage = "returned" /\ stage' = "finalized"
        /\ finalized' = finalized \cup {run}
    BY DEF Finalize
  <1>2. UNCHANGED <<transport, run, lab, report, settled, record, file, summary,
                    failure, first, unreset, exit, spent, excess, other>>
    BY Zenon DEF Finalize, ends, money
  <1>3. Unsettled' = Unsettled
    BY <1>2, Zenon DEF Unsettled, transport
  <1>4. finalized' = 1..run
    BY <1>0, <1>1 DEF BatchTypeOK, FileShape
  <1>t. TransportTypeOK' /\ OpenReceiptIsCall'
    BY <1>0, <1>2, TransportStays DEF BatchTypeOK
  <1>b. BatchTypeOK'
    BY <1>0, <1>t, <1>1, <1>2, <1>3, <1>4 DEF BatchTypeOK
  <1>f. FileShape'
    <2>1. Len(file) = run - 1 /\ run = Len(file) + 1
      BY <1>0, <1>1 DEF BatchTypeOK, FileShape
    <2>2. /\ UNCHANGED <<file, failure>> /\ failure = None
          /\ \A k \in DOMAIN file : file[k].run = k
      BY <1>0, <1>1, <1>2 DEF FileShape, EndShape
    <2> QED
      BY <1>1, <1>2, <1>4, <2>1, <2>2 DEF FileShape
  <1>e. EndShape'
    BY <1>0, <1>1, <1>2, <1>3, <1>4 DEF EndShape
  <1>c. ChildShape'
    BY <1>0, <1>1, <1>2, <1>3, <1>4 DEF ChildShape, transport
  <1>s. SpendShape'
    BY <1>0, <1>1, <1>2, <1>3, <1>4 DEF BatchTypeOK, SpendShape, OwnReservationsOnly
  <1>a. AbortShape'
    BY <1>0, <1>1, <1>2, <1>3, <1>4 DEF AbortShape
  <1>x. stage' # "exited"
    BY <1>0, <1>1, <1>2, <1>3, <1>4
  <1>d. RecordsDurable' /\ CleansUp'
    BY <1>b, <1>f, <1>e, <1>c, <1>x, DurableWhileOpen
  <1> QED
    BY <1>t, <1>b, <1>f, <1>e, <1>c, <1>s, <1>a, <1>d DEF EvaluationInv

(* Finalizing or scoring raises.                                           *)
LEMMA RunRaisesStep ==
  ASSUME EvaluationInv, RunRaises
  PROVE  EvaluationInv'
  <1>0. /\ BatchTypeOK /\ FileShape /\ EndShape /\ ChildShape /\ SpendShape
        /\ AbortShape /\ OpenReceiptIsCall
    BY DEF EvaluationInv
  <1>1. /\ stage \in {"returned", "finalized"} /\ stage' = "reset"
        /\ failure' = "RUN_FAILED" /\ first' = "RUN_FAILED" /\ Release
    BY <1>0, FirstFailure DEF RunRaises
  <1>2. UNCHANGED <<run, lab, report, settled, record, finalized, file, summary,
                    unreset, exit, spent, excess, other>>
    BY Zenon DEF RunRaises, Fails, disk, money
  <1>3. None # "RUN_FAILED"
    BY NoneApart
  <1>t. TransportTypeOK' /\ OpenReceiptIsCall'
    BY <1>1, ReleaseSteps
  <1>b. BatchTypeOK'
    BY <1>0, <1>t, <1>1, <1>2, <1>3 DEF BatchTypeOK
  <1>f. FileShape'
    BY <1>0, <1>1, <1>2, <1>3 DEF BatchTypeOK, FileShape
  <1>e. EndShape'
    BY <1>0, <1>1, <1>2, <1>3 DEF EndShape, Status, ReasonCode, AbortReason
  <1>c. ChildShape'
    BY <1>0, <1>1, <1>2, <1>3 DEF ChildShape, transport
  <1>s. SpendShape'
    BY <1>0, <1>1, <1>2, <1>3 DEF BatchTypeOK, SpendShape, OwnReservationsOnly
  <1>a. AbortShape'
    BY <1>0, <1>1, <1>2, <1>3 DEF AbortShape
  <1>x. stage' # "exited"
    BY <1>0, <1>1, <1>2, <1>3
  <1>d. RecordsDurable' /\ CleansUp'
    BY <1>b, <1>f, <1>e, <1>c, <1>x, DurableWhileOpen
  <1> QED
    BY <1>t, <1>b, <1>f, <1>e, <1>c, <1>s, <1>a, <1>d DEF EvaluationInv

(* A run is scored, and its child closed.                                  *)
LEMMA ScoreStep ==
  ASSUME EvaluationInv, Score
  PROVE  EvaluationInv'
  <1>0. /\ BatchTypeOK /\ FileShape /\ EndShape /\ ChildShape /\ SpendShape
        /\ AbortShape /\ OpenReceiptIsCall
    BY DEF EvaluationInv
  <1>1. /\ stage = "finalized" /\ stage' = "scored" /\ report' = None
        /\ record' = ScoreRun(run, report) /\ Release
    BY DEF Score
  <1>2. UNCHANGED <<run, lab, settled, finalized, file, summary,
                    failure, first, unreset, exit, spent, excess, other>>
    BY Zenon DEF Score, disk, ends, money
  <1>3. /\ record' \in Record /\ record'.run = run
        /\ record'.reason = report.reason /\ record'.unsettled = Unsettled
    <2>1. /\ run \in 1..Runs /\ report \in Conclusion /\ settled \in BOOLEAN
      BY <1>0, <1>1 DEF BatchTypeOK
    <2>2. ArmOf(run) \in ToSet(Arm)
      <3>1. 2 - (run % 2) \in 1..2
        BY <2>1, WorstCaseSplits
      <3>2. DOMAIN Arm = 1..2
        BY DEF Arm
      <3> QED
        BY <3>1, <3>2 DEF ArmOf, ToSet
    <2>3. DiagnosisCorrect(run, report) \in BOOLEAN
      BY Zenon DEF DiagnosisCorrect
    <2>4. Sufficient(run, report) \in {"n/a", "yes", "no"}
      BY DEF Sufficient
    <2>5. PICK a \in ToSet(Arm), d \in BOOLEAN, s \in {"n/a", "yes", "no"},
               u \in Nat, c \in BOOLEAN :
             /\ a = ArmOf(run) /\ d = DiagnosisCorrect(run, report)
             /\ s = Sufficient(run, report) /\ u = Unsettled /\ c = settled
      BY <2>1, <2>2, <2>3, <2>4, UnsettledIsNat, Zenon
    <2>6. PICK e \in RetrievalMode, f \in ReasonCode \cup {None} :
             e = report.retrieval /\ f = report.reason
      BY <2>1 DEF Conclusion
    <2>7. record' = [run |-> run, arm |-> a, retrieval |-> e, reason |-> f,
                     diagnosed |-> d, sufficient |-> s, unsettled |-> u,
                     costKnown |-> c]
      BY <1>1, <2>5, <2>6, Zenon DEF ScoreRun
    <2>8. record' \in Record
      BY <2>1, <2>7, Zenon DEF Record
    <2>9. record'.run = run /\ record'.reason = f /\ record'.unsettled = u
      BY <2>7
    <2> QED
      BY <2>5, <2>6, <2>8, <2>9
  <1>t. TransportTypeOK' /\ OpenReceiptIsCall'
    BY <1>1, ReleaseSteps
  <1>b. BatchTypeOK'
    BY <1>0, <1>t, <1>1, <1>2, <1>3 DEF BatchTypeOK
  <1>f. FileShape'
    BY <1>0, <1>1, <1>2, <1>3 DEF BatchTypeOK, FileShape
  <1>e. EndShape'
    BY <1>0, <1>1, <1>2, <1>3 DEF EndShape, Status, ReasonCode, AbortReason
  <1>c. ChildShape'
    BY <1>1, ReleaseSteps DEF ChildShape
  <1>s. SpendShape'
    BY <1>0, <1>1, <1>2, <1>3 DEF BatchTypeOK, SpendShape, OwnReservationsOnly
  <1>a. AbortShape'
    BY <1>0, <1>1, <1>2, <1>3 DEF AbortShape
  <1>x. stage' # "exited"
    BY <1>0, <1>1, <1>2, <1>3
  <1>d. RecordsDurable' /\ CleansUp'
    BY <1>b, <1>f, <1>e, <1>c, <1>x, DurableWhileOpen
  <1> QED
    BY <1>t, <1>b, <1>f, <1>e, <1>c, <1>s, <1>a, <1>d DEF EvaluationInv

(* A record is written, and an infrastructure failure ends the batch.      *)
LEMMA WriteRecordStep ==
  ASSUME EvaluationInv, WriteRecord
  PROVE  EvaluationInv'
  <1>0. /\ BatchTypeOK /\ FileShape /\ EndShape /\ ChildShape /\ SpendShape
        /\ AbortShape /\ OpenReceiptIsCall
    BY DEF EvaluationInv
  <1>1. /\ stage = "scored" /\ file' = Append(file, record)
        /\ \/ /\ record.reason \in AbortReason /\ Fails(record.reason)
              /\ stage' = "reset" /\ run' = run
           \/ /\ record.reason \notin AbortReason
              /\ stage' = "build" /\ run % 2 = 1 /\ run' = run + 1
              /\ UNCHANGED <<failure, first, unreset, exit>>
           \/ /\ record.reason \notin AbortReason
              /\ stage' = "reset" /\ run % 2 # 1 /\ run' = run
              /\ UNCHANGED <<failure, first, unreset, exit>>
    BY Zenon DEF WriteRecord, ends
  <1>2. UNCHANGED <<transport, lab, report, settled, finalized, summary, spent, excess,
                    other>>
    BY Zenon DEF WriteRecord, money
  <1>3. /\ failure = None /\ first = None /\ proc = "none" /\ call = 0
        /\ Len(file) = run - 1 /\ finalized = 1..run
        /\ record \in Record /\ record.run = run /\ file \in Seq(Record)
        /\ run \in 1..Runs
    BY <1>0, <1>1 DEF EndShape, ChildShape, FileShape, BatchTypeOK
  <1>4. /\ file' \in Seq(Record) /\ Len(file') = run
        /\ \A k \in DOMAIN file : k \in DOMAIN file' /\ file'[k] = file[k]
        /\ \A k \in DOMAIN file' :
              k \in DOMAIN file \/ (k = run /\ file'[k] = record)
    BY <1>1, <1>3
  <1>5. UNCHANGED <<unreset, exit>>
    BY <1>1 DEF Fails
  <1>6. record.reason \in AbortReason =>
          /\ failure' = record.reason /\ first' = record.reason
          /\ failure' # None /\ failure' # "OK"
    BY <1>0, <1>1, FirstFailure, NoneApart
  <1>7. run' \in 1..Runs
    <2>1. run \in Nat /\ Runs = 2 * Incidents /\ Incidents \in Nat
          /\ run >= 1 /\ run <= Runs
      BY <1>3, EvaluationConstants DEF Runs
    <2> QED
      BY <1>1, <2>1
  <1>t. TransportTypeOK' /\ OpenReceiptIsCall'
    BY <1>0, <1>2, TransportStays DEF BatchTypeOK
  <1>b. BatchTypeOK'
    <2>1. stage' \in {"build", "reset"}
      BY <1>1
    <2> QED
      BY <1>0, <1>t, <1>2, <1>4, <1>7, <2>1 DEF BatchTypeOK
  <1>f. FileShape'
    <2>1. \A k \in DOMAIN file' : file'[k].run = k
      BY <1>0, <1>3, <1>4 DEF FileShape
    <2>2. finalized' = 1..Len(file')
      BY <1>2, <1>3, <1>4
    <2>3. \/ stage' = "build" /\ run' = run + 1
          \/ stage' = "reset" /\ run' = run
      BY <1>1
    <2>4. run \in Nat
      BY <1>3, WorstCaseSplits
    <2> QED
      BY <1>4, <2>1, <2>2, <2>3, <2>4 DEF FileShape
  <1>e. EndShape'
    <2>1. stage' \in {"build", "reset"} /\ (stage' = "build" => failure' = None)
      BY <1>1, <1>3
    <2>2. /\ failure' = first'
          /\ failure' \in (Status \cup {None}) \ {"OK"}
      BY <1>0, <1>1, <1>3, <1>6 DEF EndShape, Status, ReasonCode
    <2> QED
      BY <1>0, <1>1, <1>2, <1>5, <2>1, <2>2 DEF EndShape
  <1>c. ChildShape'
    BY <1>2, <1>3 DEF ChildShape, transport
  <1>s. SpendShape'
    <2>1. PICK w : w = (Runs - run) * RunEstimate
      OBVIOUS
    <2>2. stage' = "build" => (Runs - run' + 1) * RunEstimate = w
      <3>1. run' = run + 1 => Runs - run' + 1 = Runs - run
        BY <1>3, WorstCaseSplits
      <3> QED
        BY <1>1, <2>1, <3>1
    <2>3. stage' = "reset" => (Runs - run') * RunEstimate = w
      BY <1>1, <2>1
    <2>4. stage' \in {"build", "reset"}
      BY <1>1
    <2> QED
      BY <1>0, <1>1, <1>2, <2>1, <2>2, <2>3, <2>4 DEF SpendShape, OwnReservationsOnly
  <1>a. AbortShape'
    <2>1. stage' \in {"build", "reset"}
      BY <1>1
    <2>2. ASSUME NEW k \in DOMAIN file',
                 file'[k].reason \in AbortReason \/ file'[k].unsettled > 0
          PROVE  failure' # None
      <3>1. CASE k \in DOMAIN file
        BY <1>0, <1>3, <1>4, <2>2, <3>1 DEF AbortShape
      <3>2. CASE k = run /\ file'[k] = record
        BY <1>0, <1>1, <1>6, <2>2, <3>2 DEF AbortShape
      <3> QED
        BY <1>4, <3>1, <3>2
    <2> QED
      BY <2>1, <2>2 DEF AbortShape
  <1>x. stage' # "exited"
    BY <1>1
  <1>d. RecordsDurable' /\ CleansUp'
    BY <1>b, <1>f, <1>e, <1>c, <1>x, DurableWhileOpen
  <1> QED
    BY <1>t, <1>b, <1>f, <1>e, <1>c, <1>s, <1>a, <1>d DEF EvaluationInv

(* The write fails: the file is as it was.                                 *)
LEMMA WriteFailsStep ==
  ASSUME EvaluationInv, WriteFails
  PROVE  EvaluationInv'
  <1>0. /\ BatchTypeOK /\ FileShape /\ EndShape /\ ChildShape /\ SpendShape
        /\ AbortShape /\ OpenReceiptIsCall
    BY DEF EvaluationInv
  <1>1. /\ stage = "scored" /\ stage' = "reset"
        /\ failure' = "WRITE_FAILED" /\ first' = "WRITE_FAILED"
    BY <1>0, FirstFailure DEF WriteFails
  <1>2. UNCHANGED <<transport, run, lab, report, settled, finalized, file,
                    summary, unreset, exit, spent, excess, other>>
    BY Zenon DEF WriteFails, Fails, disk, money
  <1>3. None # "WRITE_FAILED"
    BY NoneApart
  <1>t. TransportTypeOK' /\ OpenReceiptIsCall'
    BY <1>0, <1>2, TransportStays DEF BatchTypeOK
  <1>b. BatchTypeOK'
    BY <1>0, <1>t, <1>1, <1>2, <1>3 DEF BatchTypeOK
  <1>f. FileShape'
    BY <1>0, <1>1, <1>2, <1>3 DEF BatchTypeOK, FileShape
  <1>e. EndShape'
    BY <1>0, <1>1, <1>2, <1>3 DEF EndShape, Status, ReasonCode, AbortReason
  <1>c. ChildShape'
    BY <1>0, <1>1, <1>2, <1>3 DEF ChildShape, transport
  <1>s. SpendShape'
    BY <1>0, <1>1, <1>2, <1>3 DEF BatchTypeOK, SpendShape, OwnReservationsOnly
  <1>a. AbortShape'
    BY <1>0, <1>1, <1>2, <1>3 DEF AbortShape
  <1>x. stage' # "exited"
    BY <1>0, <1>1, <1>2, <1>3
  <1>d. RecordsDurable' /\ CleansUp'
    BY <1>b, <1>f, <1>e, <1>c, <1>x, DurableWhileOpen
  <1> QED
    BY <1>t, <1>b, <1>f, <1>e, <1>c, <1>s, <1>a, <1>d DEF EvaluationInv

(* The scenario is reset.                                                  *)
LEMMA ResetStep ==
  ASSUME EvaluationInv, Reset
  PROVE  EvaluationInv'
  <1>0. /\ BatchTypeOK /\ FileShape /\ EndShape /\ ChildShape /\ SpendShape
        /\ AbortShape /\ OpenReceiptIsCall
    BY DEF EvaluationInv
  <1>1. /\ stage = "reset" /\ lab' = 0
        /\ \/ /\ failure = None /\ run < Runs
              /\ stage' = "scenario" /\ run' = run + 1
           \/ /\ ~(failure = None /\ run < Runs)
              /\ stage' = "out" /\ run' = run
    BY Zenon DEF Reset
  <1>2. UNCHANGED <<transport, report, settled, record, finalized, file,
                    summary, failure, first, unreset, exit, spent, excess, other>>
    BY Zenon DEF Reset, disk, ends, money
  <1>3. /\ run \in Nat /\ Runs \in Nat /\ run >= 1 /\ run <= Runs
        /\ run' \in 1..Runs
    BY <1>0, <1>1, WorstCaseSplits DEF BatchTypeOK
  <1>t. TransportTypeOK' /\ OpenReceiptIsCall'
    BY <1>0, <1>2, TransportStays DEF BatchTypeOK
  <1>b. BatchTypeOK'
    BY <1>0, <1>t, <1>1, <1>2, <1>3 DEF BatchTypeOK
  <1>f. FileShape'
    <2>1. /\ \A k \in DOMAIN file' : file'[k].run = k
          /\ finalized' = 1..Len(file') \/ finalized' = 1..(Len(file') + 1)
          /\ failure' # None /\ finalized' # 1..Len(file') =>
                failure' \in {"RUN_FAILED", "WRITE_FAILED"}
      BY <1>0, <1>2 DEF FileShape
    <2>2. failure = None => Len(file) = run /\ finalized = 1..run
      BY <1>0, <1>1 DEF FileShape
    <2>3. stage' = "scenario" => Len(file') = run' - 1 /\ finalized' = 1..(run' - 1)
      BY <1>1, <1>2, <1>3, <2>2
    <2>4. stage' = "out" /\ failure' = None =>
             Len(file') = Runs /\ finalized' = 1..Runs
      BY <1>1, <1>2, <1>3, <2>2
    <2>5. stage' \in {"scenario", "out"}
      BY <1>1
    <2> QED
      BY <2>1, <2>3, <2>4, <2>5 DEF FileShape
  <1>e. EndShape'
    BY <1>0, <1>1, <1>2, <1>3 DEF EndShape, Status, ReasonCode, AbortReason
  <1>c. ChildShape'
    BY <1>0, <1>1, <1>2, <1>3 DEF ChildShape, transport
  <1>s. SpendShape'
    <2>1. stage' = "scenario" =>
             (Runs - run' + 1) * RunEstimate = (Runs - run) * RunEstimate
      <3>1. run' = run + 1 => Runs - run' + 1 = Runs - run
        BY <1>3
      <3> QED
        BY <1>1, <3>1
    <2>2. stage' \in {"scenario", "out"} /\ (stage' = "scenario" => failure = None)
      BY <1>1
    <2> QED
      BY <1>0, <1>1, <1>2, <2>1, <2>2 DEF SpendShape, OwnReservationsOnly
  <1>a. AbortShape'
    BY <1>0, <1>1, <1>2, <1>3 DEF AbortShape
  <1>x. stage' # "exited"
    BY <1>1
  <1>d. RecordsDurable' /\ CleansUp'
    BY <1>b, <1>f, <1>e, <1>c, <1>x, DurableWhileOpen
  <1> QED
    BY <1>t, <1>b, <1>f, <1>e, <1>c, <1>s, <1>a, <1>d DEF EvaluationInv

(* The reset fails; an earlier failure is kept.                            *)
LEMMA ResetFailsStep ==
  ASSUME EvaluationInv, ResetFails
  PROVE  EvaluationInv'
  <1>0. /\ BatchTypeOK /\ FileShape /\ EndShape /\ ChildShape /\ SpendShape
        /\ AbortShape /\ OpenReceiptIsCall
    BY DEF EvaluationInv
  <1>1. /\ stage = "reset" /\ stage' = "out" /\ unreset' = TRUE
        /\ failure' = (IF failure = None THEN "RESET_FAILED" ELSE failure)
        /\ first' = (IF first = None THEN "RESET_FAILED" ELSE first)
    BY Zenon DEF ResetFails
  <1>2. UNCHANGED <<transport, run, lab, report, settled, record, finalized,
                    file, summary, exit, spent, excess, other>>
    BY Zenon DEF ResetFails, disk, money
  <1>3. None # "RESET_FAILED" /\ failure' # None
    BY <1>1, NoneApart
  <1>t. TransportTypeOK' /\ OpenReceiptIsCall'
    BY <1>0, <1>2, TransportStays DEF BatchTypeOK
  <1>b. BatchTypeOK'
    BY <1>0, <1>t, <1>1, <1>2, <1>3 DEF BatchTypeOK
  <1>f. FileShape'
    BY <1>0, <1>1, <1>2, <1>3 DEF BatchTypeOK, FileShape
  <1>e. EndShape'
    <2>1. /\ failure' = first'
          /\ failure' \in (Status \cup {None}) \ {"OK"}
      BY <1>0, <1>1 DEF EndShape, Status
    <2> QED
      BY <1>0, <1>1, <1>2, <2>1 DEF EndShape
  <1>c. ChildShape'
    BY <1>0, <1>1, <1>2, <1>3 DEF ChildShape, transport
  <1>s. SpendShape'
    BY <1>0, <1>1, <1>2, <1>3 DEF BatchTypeOK, SpendShape, OwnReservationsOnly
  <1>a. AbortShape'
    BY <1>0, <1>1, <1>2, <1>3 DEF AbortShape
  <1>x. stage' # "exited"
    BY <1>0, <1>1, <1>2, <1>3
  <1>d. RecordsDurable' /\ CleansUp'
    BY <1>b, <1>f, <1>e, <1>c, <1>x, DurableWhileOpen
  <1> QED
    BY <1>t, <1>b, <1>f, <1>e, <1>c, <1>s, <1>a, <1>d DEF EvaluationInv

(* Another process reserves.                                               *)
LEMMA OtherSpendsStep ==
  ASSUME EvaluationInv, OtherSpends
  PROVE  EvaluationInv'
  <1>0. /\ BatchTypeOK /\ FileShape /\ EndShape /\ ChildShape /\ SpendShape
        /\ AbortShape /\ OpenReceiptIsCall
    BY DEF EvaluationInv
  <1>1. /\ other' = OtherRequests /\ spent' = spent + OtherRequests * CallPrice
        /\ OtherRequests > 0 /\ stage \in {"scenario", "build"}
    BY DEF OtherSpends
  <1>2. UNCHANGED <<transport, stage, run, lab, report, settled, record,
                    finalized, file, summary, failure, first, unreset, exit,
                    excess>>
    BY Zenon DEF OtherSpends, disk, ends
  <1>3. spent' \in Nat /\ other' \in Nat /\ other' # 0
    <2>1. ASSUME NEW a \in Nat, NEW b \in Nat, NEW c \in Nat
          PROVE  a + b * c \in Nat
      OBVIOUS
    <2>2. OtherRequests \in Nat /\ CallPrice \in Nat /\ spent \in Nat
      BY <1>0, EvaluationConstants DEF BatchTypeOK
    <2> QED
      BY <1>1, <2>1, <2>2
  <1>t. TransportTypeOK' /\ OpenReceiptIsCall'
    BY <1>0, <1>2, TransportStays DEF BatchTypeOK
  <1>b. BatchTypeOK'
    BY <1>0, <1>t, <1>1, <1>2, <1>3 DEF BatchTypeOK
  <1>f. FileShape'
    BY <1>0, <1>1, <1>2, <1>3 DEF BatchTypeOK, FileShape
  <1>e. EndShape'
    BY <1>0, <1>1, <1>2, <1>3 DEF EndShape, Status, ReasonCode, AbortReason
  <1>c. ChildShape'
    BY <1>0, <1>1, <1>2, <1>3 DEF ChildShape, transport
  <1>s. SpendShape'
    BY <1>0, <1>1, <1>2, <1>3 DEF SpendShape, OwnReservationsOnly
  <1>a. AbortShape'
    BY <1>0, <1>1, <1>2, <1>3 DEF AbortShape
  <1>x. stage' # "exited"
    BY <1>0, <1>1, <1>2, <1>3
  <1>d. RecordsDurable' /\ CleansUp'
    BY <1>b, <1>f, <1>e, <1>c, <1>x, DurableWhileOpen
  <1> QED
    BY <1>t, <1>b, <1>f, <1>e, <1>c, <1>s, <1>a, <1>d DEF EvaluationInv

-----------------------------------------------------------------------------
(* main.                                                                   *)

(* A summary of records that are on file is not the absence of one.        *)
LEMMA SummaryIsPresent ==
  ASSUME BatchTypeOK
  PROVE  SummarizePaired(ToSet(file)) # None
  <1> DEFINE recs == ToSet(file)
             keys == {GroupKey(r) : r \in recs}
  <1>1. file \in Seq(Record) /\ Len(file) \in Nat /\ DOMAIN file = 1..Len(file)
    BY DEF BatchTypeOK
  <1>2. recs \subseteq Record
    BY <1>1 DEF ToSet
  <1>3. IsFiniteSet(recs)
    <2>1. file \in Surjection(DOMAIN file, recs)
      <3>1. file \in [DOMAIN file -> recs]
        BY <1>1 DEF ToSet
      <3>2. \A t \in recs : \E s \in DOMAIN file : file[s] = t
        BY DEF ToSet
      <3> QED
        BY <3>1, <3>2 DEF Surjection
    <2>2. IsFiniteSet(DOMAIN file)
      BY <1>1, FS_Interval
    <2> QED
      BY <2>1, <2>2, FS_Surjection
  <1>4. keys \in SUBSET (ToSet(Arm) \X RetrievalMode)
    BY <1>2 DEF GroupKey, Record
  <1> HIDE DEF recs
  <1>5. ASSUME NEW some \in SUBSET recs
        PROVE  SummaryOf(some) \in Figures
    <2>1. \A part \in SUBSET some : Cardinality(part) \in Nat
      BY <1>3, FS_Subset, FS_CardinalityType
    <2>2. PICK a \in Nat, b \in Nat, c \in Nat, d \in Nat, e \in Nat, f \in Nat :
             SummaryOf(some) = [total |-> a, correct |-> b, sufficient |-> c,
                                grounded |-> d, applicable |-> e,
                                costKnown |-> f]
      <3>1. /\ some \in SUBSET some
            /\ {r \in some : r.diagnosed} \in SUBSET some
            /\ {r \in some : r.sufficient = "yes"} \in SUBSET some
            /\ {r \in some : r.diagnosed /\ r.sufficient = "yes"} \in SUBSET some
            /\ {r \in some : IncidentOf(r.run) \in Predicated} \in SUBSET some
            /\ {r \in some : r.costKnown} \in SUBSET some
        OBVIOUS
      <3> QED
        BY <2>1, <3>1, Zenon DEF SummaryOf
    <2> QED
      BY <2>2 DEF Figures
  <1>6. SummarizePaired(recs) =
           [k \in keys |-> SummaryOf({r \in recs : GroupKey(r) = k})]
    BY Zenon DEF SummarizePaired
  <1> HIDE DEF keys
  <1>7. \A k \in keys : SummaryOf({r \in recs : GroupKey(r) = k}) \in Figures
    BY <1>5
  <1>8. SummarizePaired(recs) \in [keys -> Figures]
    BY <1>6, <1>7
  <1>9. None \notin [keys -> Figures]
    BY <1>4, AbsentSummary
  <1>10. SummarizePaired(recs) # None
    BY <1>8, <1>9
  <1> QED
    BY <1>10 DEF recs

(* The process ends, however.                                              *)
LEMMA ExitStep ==
  ASSUME EvaluationInv, NEW status, Exits(status), stage # "exited",
         status \in Status,
         \/ status = "killed"
         \/ /\ stage = "out" /\ failure = None
            /\ status = "OK" /\ summary' # None
         \/ /\ stage = "out" /\ failure = None
            /\ status = "SUMMARY_WRITE_FAILED" /\ summary' = summary
         \/ /\ stage = "out" /\ failure # None
            /\ status = failure /\ summary' = summary
  PROVE  EvaluationInv'
  <1>0. /\ BatchTypeOK /\ FileShape /\ EndShape /\ SpendShape /\ AbortShape
        /\ RecordsDurable
    BY DEF EvaluationInv
  <1>1. exit' = status /\ stage' = "exited" /\ Release /\ status # None
    BY NoneApart DEF Exits
  <1>2. UNCHANGED <<run, lab, report, settled, record, finalized, file, failure,
                    first, unreset, spent, excess, other>>
    BY Zenon DEF Exits, money
  <1>3. TransportTypeOK' /\ OpenReceiptIsCall' /\ proc' = "none" /\ call' = 0
    BY <1>1, ReleaseSteps
  <1>4. exit = None /\ summary = None
    BY <1>0 DEF EndShape
  <1>b. BatchTypeOK'
    BY <1>0, <1>1, <1>2, <1>3 DEF BatchTypeOK
  <1>f. FileShape'
    BY <1>0, <1>1, <1>2 DEF FileShape
  <1>e. EndShape'
    BY <1>0, <1>1, <1>2 DEF EndShape
  <1>c. ChildShape'
    BY <1>3 DEF ChildShape
  <1>s. SpendShape'
    BY <1>0, <1>1, <1>2 DEF SpendShape, OwnReservationsOnly
  <1>a. AbortShape'
    BY <1>0, <1>1, <1>2 DEF AbortShape
  <1>d. RecordsDurable'
    <2>1. DOMAIN file = 1..Len(file)
      BY <1>0 DEF BatchTypeOK
    <2>2. CASE status = "killed"
      BY <1>0, <1>1, <1>2, <2>2 DEF RecordsDurable
    <2>3. CASE stage = "out" /\ failure = None
      <3>1. finalized = DOMAIN file
        BY <1>0, <2>1, <2>3 DEF FileShape
      <3> QED
        BY <1>0, <1>2, <3>1 DEF RecordsDurable
    <2>4. CASE stage = "out" /\ failure # None /\ status = failure
      <3>1. finalized # DOMAIN file => status \in {"RUN_FAILED", "WRITE_FAILED"}
        BY <1>0, <2>1, <2>4 DEF FileShape
      <3> QED
        BY <1>0, <1>1, <1>2, <3>1 DEF RecordsDurable
    <2> QED
      BY <2>2, <2>3, <2>4
  <1>u. CleansUp'
    <2>1. CASE status = "killed"
      BY <1>1, <2>1 DEF CleansUp
    <2>2. CASE stage = "out"
      <3>1. lab' = 0 \/ unreset'
        BY <1>0, <1>2, <2>2 DEF EndShape
      <3>2. failure = first /\ failure # "OK"
        BY <1>0 DEF EndShape
      <3>3. failure = None => Len(file) = Runs
        BY <1>0, <2>2 DEF FileShape
      <3> QED
        BY <1>1, <1>2, <1>4, <3>1, <3>2, <3>3 DEF CleansUp
    <2> QED
      BY <2>1, <2>2
  <1> QED
    BY <1>3, <1>b, <1>f, <1>e, <1>c, <1>s, <1>a, <1>d, <1>u DEF EvaluationInv

(* main's three ends.                                                      *)
LEMMA MainSteps ==
  ASSUME EvaluationInv, MainSucceeds \/ MainFails \/ Kill
  PROVE  EvaluationInv'
  <1>0. BatchTypeOK /\ EndShape
    BY DEF EvaluationInv
  <1>1. CASE MainSucceeds
    <2>1. /\ Exits("OK") /\ stage = "out" /\ failure = None
          /\ summary' = SummarizePaired(ToSet(file))
      BY <1>1 DEF MainSucceeds
    <2>2. summary' # None /\ "OK" \in Status
      BY <1>0, <2>1, SummaryIsPresent DEF Status
    <2> QED
      BY <2>1, <2>2, ExitStep
  <1>2. CASE MainFails
    <2>1. stage = "out" /\ summary' = summary
      BY <1>2 DEF MainFails
    <2>2. CASE failure = None
      <3>1. Exits("SUMMARY_WRITE_FAILED") /\ "SUMMARY_WRITE_FAILED" \in Status
        BY <1>2, <2>2 DEF MainFails, Status
      <3> QED
        BY <2>1, <2>2, <3>1, ExitStep
    <2>3. CASE failure # None
      <3>1. Exits(failure) /\ failure \in Status
        BY <1>0, <1>2, <2>3 DEF MainFails, EndShape
      <3> QED
        BY <2>1, <2>3, <3>1, ExitStep
    <2> QED
      BY <2>2, <2>3
  <1>3. CASE Kill
    <2>1. Exits("killed") /\ stage # "exited" /\ "killed" \in Status
      BY <1>3 DEF Kill, Status
    <2> QED
      BY <2>1, ExitStep
  <1> QED
    BY <1>1, <1>2, <1>3

-----------------------------------------------------------------------------
(* The theorems.                                                           *)

(* The batch before its preflight.                                         *)
LEMMA InitInv == Init => EvaluationInv
  <1> SUFFICES ASSUME Init PROVE EvaluationInv
    OBVIOUS
  <1>1. TransportTypeOK /\ OpenReceiptIsCall /\ proc = "none" /\ call = 0
    BY TransportInitInv DEF Init, TransportInit
  <1>2. /\ stage = "preflight" /\ run = 1 /\ lab = 0 /\ report = None
        /\ settled = TRUE /\ finalized = {} /\ file = <<>> /\ summary = None
        /\ failure = None /\ first = None /\ exit = None
        /\ spent \in Nat /\ excess = 0 /\ other = 0
    BY EvaluationConstants DEF Init
  <1>3. settled \in BOOLEAN
    BY <1>2
  <1>4. BatchTypeOK
    <2>1. run \in 1..Runs
      BY <1>2, WorstCaseSplits
    <2>2. file \in Seq(Record)
      BY <1>2
    <2> QED
      BY <1>1, <1>2, <1>3, <2>1, <2>2 DEF BatchTypeOK
  <1>5. FileShape
    BY <1>2 DEF FileShape
  <1>6. EndShape /\ ChildShape /\ SpendShape /\ AbortShape
    <2>1. EndShape /\ ChildShape
      BY <1>1, <1>2, NoneApart DEF EndShape, ChildShape
    <2>2. SpendShape
      BY <1>2 DEF SpendShape, OwnReservationsOnly
    <2>3. AbortShape
      BY <1>2 DEF AbortShape
    <2> QED
      BY <2>1, <2>2, <2>3
  <1>7. RecordsDurable /\ CleansUp
    <2>1. RecordsDurable
      BY <1>2 DEF RecordsDurable
    <2>2. CleansUp
      BY <1>2 DEF CleansUp
    <2> QED
      BY <2>1, <2>2
  <1> QED
    BY <1>1, <1>4, <1>5, <1>6, <1>7 DEF EvaluationInv

(* A step in which nothing happens.                                        *)
LEMMA StutterStep ==
  ASSUME EvaluationInv, UNCHANGED vars
  PROVE  EvaluationInv'
  <1>0. /\ BatchTypeOK /\ OpenReceiptIsCall /\ FileShape /\ EndShape
        /\ ChildShape /\ SpendShape /\ AbortShape /\ RecordsDurable /\ CleansUp
    BY DEF EvaluationInv
  <1>1. UNCHANGED transport /\ UNCHANGED loop
    BY DEF vars
  <1>2. TransportTypeOK' /\ OpenReceiptIsCall'
    BY <1>0, <1>1, TransportStays DEF BatchTypeOK
  <1>3. BatchTypeOK'
    BY <1>0, <1>1, <1>2 DEF BatchTypeOK, loop
  <1>4. FileShape'
    BY <1>0, <1>1 DEF FileShape, loop
  <1>5. EndShape'
    BY <1>0, <1>1 DEF EndShape, loop
  <1>6. ChildShape'
    BY <1>0, <1>1 DEF ChildShape, loop, transport
  <1>7. SpendShape'
    BY <1>0, <1>1 DEF SpendShape, OwnReservationsOnly, loop
  <1>8. AbortShape'
    <2>1. Unsettled' = Unsettled
      BY <1>1, Zenon DEF Unsettled, transport
    <2> QED
      BY <1>0, <1>1, <2>1 DEF AbortShape, loop
  <1>9. RecordsDurable'
    BY <1>0, <1>1 DEF RecordsDurable, loop
  <1>10. CleansUp'
    BY <1>0, <1>1 DEF CleansUp, loop, transport
  <1> QED
    BY <1>2, <1>3, <1>4, <1>5, <1>6, <1>7, <1>8, <1>9, <1>10 DEF EvaluationInv

(* Every step of a batch keeps the invariant.                              *)
LEMMA NextInv ==
  ASSUME EvaluationInv, [Next]_vars
  PROVE  EvaluationInv'
  <1>1. CASE UNCHANGED vars
    BY <1>1, StutterStep
  <1>2. CASE DispatchTool
          \/ (TransportStep /\ stage \in {"handshake", "investigate"}
                /\ UNCHANGED loop)
    <2>1. UNCHANGED loop /\ stage \in {"handshake", "investigate"}
      BY <1>2 DEF DispatchTool
    <2>2. TransportStep \/ \E c \in Call : Forward(c)
      BY <1>2 DEF DispatchTool
    <2>3. TransportTypeOK' /\ OpenReceiptIsCall'
      BY <2>2, TransportSteps DEF EvaluationInv, BatchTypeOK
    <2> QED
      BY <2>1, <2>3, RunSteps
  <1>3. CASE Preflight \/ StartScenario \/ ScenarioFails \/ ReadFails \/ Build \/ Built
               \/ BuildFails \/ StartFails
    BY <1>3, PreflightStep, StartScenarioStep, ScenarioFailsStep,
        ReadFailsStep, BuildStep,
       BuiltStep, BuildFailsStep, StartFailsStep
  <1>4. CASE (\E r \in Report : Conclude(r)) \/ CeilingStops \/ CheckRaised
               \/ Finalize \/ RunRaises \/ Score
    BY <1>4, ConcludeStep, CeilingStopsStep, CheckRaisedStep, FinalizeStep,
       RunRaisesStep, ScoreStep
  <1>5. CASE WriteRecord \/ WriteFails \/ Reset \/ ResetFails \/ OtherSpends
    BY <1>5, WriteRecordStep, WriteFailsStep, ResetStep, ResetFailsStep,
       OtherSpendsStep
  <1>6. CASE MainSucceeds \/ MainFails \/ Kill
    BY <1>6, MainSteps
  <1> QED
    BY <1>1, <1>2, <1>3, <1>4, <1>5, <1>6 DEF Next

(* The invariant of run_evaluation and main: how far the batch is decides  *)
(* what is on disk, which failure is reported, who is up and what may      *)
(* still be spent.                                                         *)
THEOREM EvaluationInvariant == Spec => []EvaluationInv
  <1>1. Init => EvaluationInv
    BY InitInv
  <1>2. EvaluationInv /\ [Next]_vars => EvaluationInv'
    BY NextInv
  <1> QED
    BY <1>1, <1>2, PTL DEF Spec

(* No paid-for result is lost: write_jsonl runs after every scored run and *)
(* before an abort is raised, so records.jsonl is the corpus in order, and *)
(* only a kill or that run's own failure can leave a finalized run out.    *)
THEOREM PaidRunsAreDurable == Spec => []RecordsDurable
  <1>1. EvaluationInv => RecordsDurable
    BY DEF EvaluationInv
  <1> QED
    BY <1>1, EvaluationInvariant, PTL

(* The nested finally blocks clean up: no child outlives its run, the lab  *)
(* is reset or its failure known, main reports the first failure, and      *)
(* summary.json exists only for the whole corpus.                          *)
THEOREM BatchCleansUp == Spec => []CleansUp
  <1>1. EvaluationInv => CleansUp
    BY DEF EvaluationInv
  <1> QED
    BY <1>1, EvaluationInvariant, PTL

(* Where its price is the right one, _check_preflight_cost is enough: with *)
(* a model no dearer than Sonnet 5, no other process on the ledger and no  *)
(* bill above its reservation, no run of the batch meets the ceiling.      *)
THEOREM PreflightIsEnough == Spec => []PreflightSuffices
  <1>1. EvaluationInv => PreflightSuffices
    <2> SUFFICES ASSUME EvaluationInv, CallPrice <= PreflightPrice,
                        OwnReservationsOnly
                 PROVE  PreflightSuffices
      BY DEF PreflightSuffices
    <2>1. SpendShape /\ run \in 1..Runs /\ spent \in Nat /\ Buffer \in Nat
          /\ Ceiling \in Nat
      BY EvaluationConstants DEF EvaluationInv, BatchTypeOK
    <2>2. PICK n \in Nat : n = Runs - run
      BY <2>1, WorstCaseSplits
    <2>3. PICK k \in Nat, w \in Nat, more \in Nat :
             k = RunEstimate /\ w = n * RunEstimate
             /\ more = (n + 1) * RunEstimate /\ more = w + k
      BY WorstCaseSplits
    <2>4. (Runs - run + 1) * RunEstimate = more
      <3>1. Runs - run + 1 = n + 1
        BY <2>1, <2>2, WorstCaseSplits
      <3> QED
        BY <2>3, <3>1
    <2>5. stage = "investigate" => spent + more + Buffer <= Ceiling
      BY <2>1, <2>4 DEF SpendShape
    <2>6. PICK cost \in Nat : cost = RequestsOf(run) * CallPrice /\ cost <= k
      <3>1. RequestsOf(run) \in 0..RequestsOf(run)
        BY TransportConstants, EvaluationConstants DEF RequestsOf, CallsPerRun
      <3>2. run \in Nat
        BY <2>1, WorstCaseSplits
      <3> QED
        BY <2>3, <3>1, <3>2, RequestsFit
    <2>7. stage = "investigate" =>
             spent + RequestsOf(run) * CallPrice + Buffer <= Ceiling
      BY <2>1, <2>3, <2>5, <2>6
    <2>8. report # None => report.reason # "COST_CEILING_EXCEEDED"
      BY <2>1 DEF SpendShape
    <2> QED
      BY <2>7, <2>8 DEF PreflightSuffices
  <1> QED
    BY <1>1, EvaluationInvariant, PTL

(* After an infrastructure failure is on record, or a receipt was left     *)
(* unsettled, the batch pays for nothing more: the abort raised after the  *)
(* write leaves the loop.                                                  *)
THEOREM AbortStopsSpending == Spec => NoSpendAfterAbort
  <1> DEFINE Aborted == \E k \in DOMAIN file : \/ file[k].reason \in AbortReason
                                               \/ file[k].unsettled > 0
  <1>1. EvaluationInv /\ [Next]_vars => [Aborted => spent' = spent]_vars
    <2> SUFFICES ASSUME EvaluationInv, Next, Aborted PROVE spent' = spent
      OBVIOUS
    <2>1. stage \in {"reset", "out", "exited"}
      BY DEF EvaluationInv, AbortShape, EndShape
    <2>2. CASE Reset \/ ResetFails
      BY <2>2 DEF Reset, ResetFails, money
    <2>3. CASE MainSucceeds \/ MainFails \/ Kill
      BY <2>3 DEF MainSucceeds, MainFails, Kill, Exits, money
    <2>4. \/ Reset \/ ResetFails
          \/ MainSucceeds \/ MainFails \/ Kill
      BY <2>1
      DEF Next, Preflight, StartScenario, ScenarioFails, ReadFails, Build, Built,
          BuildFails, StartFails, DispatchTool, Conclude, CeilingStops,
          CheckRaised, Finalize, RunRaises, Score, WriteRecord, WriteFails,
          OtherSpends
    <2> QED
      BY <2>2, <2>3, <2>4
  <1> QED
    BY <1>1, EvaluationInvariant, PTL DEF Spec, NoSpendAfterAbort
-----------------------------------------------------------------------------
(* Receipts.  First, what sequences of messages and lines are about.       *)

(* One more line.                                                          *)
LEMMA AboutAppend ==
  ASSUME NEW S, NEW s \in Seq(S), NEW e \in S
  PROVE  /\ About(Append(s, e)) = About(s) \cup ({e.about} \ {0})
         /\ Once(s) /\ e.about \notin About(s) => Once(Append(s, e))
         /\ \A i \in DOMAIN Append(s, e) :
               Append(s, e)[i] = e
                 \/ (i \in DOMAIN s /\ Append(s, e)[i] = s[i])
  <1>1. PICK t : t = Append(s, e)
    OBVIOUS
  <1>2. /\ t \in Seq(S) /\ Len(t) = Len(s) + 1 /\ Len(s) \in Nat
        /\ DOMAIN s = 1..Len(s) /\ DOMAIN t = 1..Len(t)
        /\ t[Len(t)] = e
        /\ \A i \in DOMAIN s : t[i] = s[i]
    BY <1>1
  <1>3. \A i \in DOMAIN t :
           (i = Len(t) /\ t[i] = e) \/ (i \in DOMAIN s /\ t[i] = s[i])
    BY <1>2
  <1>4. \A i \in DOMAIN s : i \in DOMAIN t
    BY <1>2
  <1>5. About(t) = About(s) \cup ({e.about} \ {0})
    <2>1. Len(t) \in DOMAIN t
      BY <1>2
    <2>2. ASSUME NEW x \in About(t)
          PROVE  x \in About(s) \cup ({e.about} \ {0})
      BY <1>3 DEF About
    <2>3. ASSUME NEW x \in About(s) \cup ({e.about} \ {0})
          PROVE  x \in About(t)
      <3>1. CASE x \in About(s)
        BY <1>2, <1>4, <3>1 DEF About
      <3>2. CASE x = e.about /\ x # 0
        BY <1>2, <2>1, <3>2 DEF About
      <3> QED
        BY <2>3, <3>1, <3>2
    <2> QED
      BY <2>2, <2>3
  <1>6. ASSUME Once(s), e.about \notin About(s) PROVE Once(t)
    <2> SUFFICES ASSUME NEW i \in DOMAIN t, NEW j \in DOMAIN t,
                        t[i].about = t[j].about, t[i].about # 0
                 PROVE  i = j
      BY DEF Once
    <2>1. \A k \in DOMAIN s : s[k].about # e.about \/ e.about = 0
      BY <1>6 DEF About
    <2> QED
      BY <1>3, <1>6, <2>1 DEF Once
  <1> QED
    BY <1>1, <1>3, <1>5, <1>6

(* One line fewer.                                                         *)
LEMMA AboutTail ==
  ASSUME NEW S, NEW s \in Seq(S), s # <<>>
  PROVE  /\ About(Tail(s)) \subseteq About(s)
         /\ Head(s).about = 0 \/ Head(s).about \in About(s)
         /\ Once(s) => Once(Tail(s)) /\ Head(s).about \notin About(Tail(s))
         /\ \A i \in DOMAIN Tail(s) : \E j \in DOMAIN s : Tail(s)[i] = s[j]
         /\ \E j \in DOMAIN s : Head(s) = s[j]
  <1>1. PICK t : t = Tail(s)
    OBVIOUS
  <1>2. /\ t \in Seq(S) /\ Len(t) = Len(s) - 1 /\ Len(s) \in Nat /\ Len(s) > 0
        /\ DOMAIN s = 1..Len(s) /\ DOMAIN t = 1..Len(t)
        /\ Head(s) = s[1]
        /\ \A i \in DOMAIN t : t[i] = s[i + 1]
    BY <1>1
  <1>3. \A i \in DOMAIN t : i + 1 \in DOMAIN s /\ i + 1 # 1 /\ i \in Int
    BY <1>2
  <1>4. 1 \in DOMAIN s
    BY <1>2
  <1>5. About(t) \subseteq About(s)
    BY <1>2, <1>3 DEF About
  <1>6. Head(s).about = 0 \/ Head(s).about \in About(s)
    BY <1>2, <1>4 DEF About
  <1>7. ASSUME Once(s) PROVE Once(t) /\ Head(s).about \notin About(t)
    <2>1. Head(s).about \notin About(t)
      BY <1>2, <1>3, <1>4, <1>7 DEF About, Once
    <2>2. ASSUME NEW i \in DOMAIN t, NEW j \in DOMAIN t,
                 t[i].about = t[j].about, t[i].about # 0
          PROVE  i = j
      <3>1. i + 1 = j + 1
        BY <1>2, <1>3, <1>7, <2>2 DEF Once
      <3> QED
        BY <1>3, <3>1
    <2> QED
      BY <2>1, <2>2 DEF Once
  <1> QED
    BY <1>1, <1>2, <1>3, <1>4, <1>5, <1>6, <1>7

(* The last lines.                                                         *)
LEMMA AboutSuffix ==
  ASSUME NEW S, NEW s \in Seq(S), NEW t \in Suffixes(s)
  PROVE  /\ About(t) \subseteq About(s)
         /\ Once(s) => Once(t)
         /\ \A i \in DOMAIN t : \E j \in DOMAIN s : t[i] = s[j]
  <1>1. CASE t = <<>>
    BY <1>1 DEF About, Once
  <1>2. ASSUME NEW l \in 1..Len(s), t = SubSeq(s, l, Len(s))
        PROVE  /\ About(t) \subseteq About(s)
               /\ Once(s) => Once(t)
               /\ \A i \in DOMAIN t : \E j \in DOMAIN s : t[i] = s[j]
    <2>1. /\ Len(s) \in Nat /\ l \in Nat /\ l >= 1 /\ l <= Len(s)
          /\ DOMAIN s = 1..Len(s)
      OBVIOUS
    <2>2. /\ DOMAIN t = 1..(Len(s) - l + 1)
          /\ \A i \in DOMAIN t : t[i] = s[l + i - 1]
      BY <1>2, <2>1
    <2>3. \A i \in DOMAIN t : i \in Int /\ l + i - 1 \in DOMAIN s
      BY <2>1, <2>2
    <2>4. About(t) \subseteq About(s)
      BY <2>2, <2>3 DEF About
    <2>5. ASSUME Once(s), NEW i \in DOMAIN t, NEW j \in DOMAIN t,
                 t[i].about = t[j].about, t[i].about # 0
          PROVE  i = j
      <3>1. l + i - 1 = l + j - 1
        BY <2>2, <2>3, <2>5 DEF Once
      <3> QED
        BY <2>1, <2>3, <3>1
    <2> QED
      BY <2>2, <2>3, <2>4, <2>5 DEF Once
  <1> QED
    BY <1>1, <1>2 DEF Suffixes

(* Two sequences of lines.                                                 *)
LEMMA AboutConcat ==
  ASSUME NEW S, NEW s \in Seq(S), NEW t \in Seq(S)
  PROVE  /\ About(s \o t) = About(s) \cup About(t)
         /\ Once(s) /\ Once(t) /\ About(s) \cap About(t) = {} => Once(s \o t)
         /\ \A i \in DOMAIN (s \o t) :
               \/ \E j \in DOMAIN s : (s \o t)[i] = s[j]
               \/ \E j \in DOMAIN t : (s \o t)[i] = t[j]
  <1>1. PICK u : u = s \o t
    OBVIOUS
  <1>2. /\ u \in Seq(S) /\ Len(u) = Len(s) + Len(t)
        /\ Len(s) \in Nat /\ Len(t) \in Nat
        /\ DOMAIN s = 1..Len(s) /\ DOMAIN t = 1..Len(t) /\ DOMAIN u = 1..Len(u)
        /\ \A i \in 1..Len(u) :
              u[i] = IF i <= Len(s) THEN s[i] ELSE t[i - Len(s)]
    BY <1>1
  <1>3. \A i \in DOMAIN u :
           /\ i \in Int
           /\ \/ i \in DOMAIN s /\ u[i] = s[i]
              \/ /\ i - Len(s) \in DOMAIN t /\ u[i] = t[i - Len(s)]
    BY <1>2
  <1>4. ASSUME NEW i \in DOMAIN s PROVE i \in DOMAIN u /\ u[i] = s[i]
    BY <1>2
  <1>5. ASSUME NEW i \in DOMAIN t
        PROVE  i + Len(s) \in DOMAIN u /\ u[i + Len(s)] = t[i]
    BY <1>2
  <1>6. About(u) = About(s) \cup About(t)
    <2>1. About(u) \subseteq About(s) \cup About(t)
      BY <1>3 DEF About
    <2>2. About(s) \subseteq About(u)
      BY <1>4 DEF About
    <2>3. About(t) \subseteq About(u)
      BY <1>5 DEF About
    <2> QED
      BY <2>1, <2>2, <2>3
  <1>7. ASSUME Once(s), Once(t), About(s) \cap About(t) = {} PROVE Once(u)
    <2> SUFFICES ASSUME NEW i \in DOMAIN u, NEW j \in DOMAIN u,
                        u[i].about = u[j].about, u[i].about # 0
                 PROVE  i = j
      BY DEF Once
    <2>1. \A k \in DOMAIN s : s[k].about # 0 => s[k].about \in About(s)
      BY DEF About
    <2>2. \A k \in DOMAIN t : t[k].about # 0 => t[k].about \in About(t)
      BY DEF About
    <2>3. CASE i \in DOMAIN s /\ u[i] = s[i]
      <3>1. CASE j \in DOMAIN s /\ u[j] = s[j]
        BY <1>7, <2>3, <3>1 DEF Once
      <3>2. CASE j - Len(s) \in DOMAIN t /\ u[j] = t[j - Len(s)]
        BY <1>7, <2>1, <2>2, <2>3, <3>2
      <3> QED
        BY <1>3, <3>1, <3>2
    <2>4. CASE i - Len(s) \in DOMAIN t /\ u[i] = t[i - Len(s)]
      <3>1. CASE j \in DOMAIN s /\ u[j] = s[j]
        BY <1>7, <2>1, <2>2, <2>4, <3>1
      <3>2. CASE j - Len(s) \in DOMAIN t /\ u[j] = t[j - Len(s)]
        <4>1. i - Len(s) = j - Len(s)
          BY <1>7, <2>4, <3>2 DEF Once
        <4> QED
          BY <1>2, <1>3, <4>1
      <3> QED
        BY <1>3, <3>1, <3>2
    <2> QED
      BY <1>3, <2>3, <2>4
  <1> QED
    BY <1>1, <1>3, <1>6, <1>7

-----------------------------------------------------------------------------
(* The checks and their places.                                            *)

(* A check that was not sent is nowhere.                                   *)
LEMMA NotSentNowhere ==
  ASSUME ReceiptInv, NEW c \in Call, sentAs[c] = 0
  PROVE  /\ c \notin About(stdin) /\ c \notin About(stdout)
         /\ c \notin About(queue) /\ c \notin About(late) /\ c \notin Used
         /\ ran[c] = 0 /\ answeredBy[c] = 0
  <1>0. ChecksInv /\ LinesShape
    BY DEF ReceiptInv
  <1>1. ran[c] = 0 /\ answeredBy[c] = 0
    BY <1>0 DEF ChecksInv, CheckShape
  <1>2. c \notin About(stdin)
    BY <1>0 DEF LinesShape, TrueMessage, About
  <1>3. c \notin About(stdout) /\ c \notin About(queue) /\ c \notin About(late)
    BY <1>0 DEF LinesShape, TrueLine, About
  <1>4. c \notin Used
    <2> SUFFICES ASSUME NEW d \in Call, answeredBy[d] = c PROVE FALSE
      BY DEF Used
    <2>1. c # 0 /\ c # d
      BY <1>1 DEF Call
    <2>2. sentAs[d] = 0
      BY <1>0, <2>1 DEF ChecksInv, OwnAnswer
    <2> QED
      BY <1>0, <2>1, <2>2 DEF ChecksInv, CheckShape
  <1> QED
    BY <1>1, <1>2, <1>3, <1>4

(* Lines move, and nothing happens to the checks.                          *)
LEMMA ChecksStay ==
  ASSUME ChecksInv,
         UNCHANGED <<session, ledger, waiting, call, receipt, answeredBy,
                     sentAs, ran>>
  PROVE  ChecksInv' /\ Used' = Used
  <1>1. Used' = Used
    BY DEF Used
  <1>2. \A c \in Call : CheckShape(c)'
    BY DEF ChecksInv, CheckShape
  <1>3. CallShape'
    BY DEF ChecksInv, CallShape
  <1>4. AnsweredOnce' /\ OwnAnswer'
    BY DEF ChecksInv, AnsweredOnce, OwnAnswer
  <1> QED
    BY <1>1, <1>2, <1>3, <1>4 DEF ChecksInv

(* A check that was sent runs, and nothing else happens to the checks.     *)
LEMMA CheckRuns ==
  ASSUME ChecksInv,
         UNCHANGED <<session, ledger, waiting, call, receipt, answeredBy,
                     sentAs>>,
         NEW d \in Call, ran[d] = 0, sentAs[d] # 0,
         ran' = [ran EXCEPT ![d] = @ + 1]
  PROVE  ChecksInv' /\ Used' = Used
  <1>1. Used' = Used
    BY DEF Used
  <1>2. \A c \in Call : ran'[c] = IF c = d THEN 1 ELSE ran[c]
    BY DEF ChecksInv
  <1>3. \A c \in Call : CheckShape(c)'
    BY <1>2 DEF ChecksInv, CheckShape
  <1>4. CallShape'
    BY DEF ChecksInv, CallShape
  <1>5. AnsweredOnce' /\ OwnAnswer'
    BY DEF ChecksInv, AnsweredOnce, OwnAnswer
  <1>6. ran' \in [Call -> {0, 1}]
    BY <1>2 DEF ChecksInv
  <1> QED
    BY <1>1, <1>3, <1>4, <1>5, <1>6 DEF ChecksInv

(* The child dies, or prints: what it adds is about no check.              *)
LEMMA NoiseReceipts ==
  ASSUME TransportTypeOK, ReceiptInv, ChildDies \/ ChildPrints
  PROVE  ReceiptInv'
  <1>0. ChecksInv /\ InOnePlace /\ LinesShape
    BY DEF ReceiptInv
  <1>1. UNCHANGED <<session, queue, late, ledger, waiting, call, receipt,
                    answeredBy, sentAs>>
    BY DEF ChildDies, ChildPrints, child, receipts
  <1>2. ChecksInv' /\ Used' = Used
    <2>1. CASE ran' = ran
      BY <1>0, <1>1, <2>1, ChecksStay
    <2>2. CASE ran' # ran
      <3>1. /\ stdin # <<>> /\ Head(stdin).method = "tools/call"
            /\ ran' = [ran EXCEPT ![Head(stdin).about] = @ + 1]
        BY <2>2 DEF ChildDies, ChildPrints, child
      <3>2. PICK m \in Message : m = Head(stdin)
        BY <3>1 DEF TransportTypeOK
      <3>3. TrueMessage(m)
        BY <1>0, <3>1, <3>2 DEF TransportTypeOK, LinesShape
      <3>4. m.about \in Call /\ ran[m.about] = 0 /\ sentAs[m.about] # 0
        BY <3>1, <3>2, <3>3, TransportConstants DEF TrueMessage, Message, Call
      <3> QED
        BY <1>0, <1>1, <3>1, <3>2, <3>4, CheckRuns
    <2> QED
      BY <2>1, <2>2
  <1>3. (stdin' = stdin /\ ran' = ran) \/ stdin' = <<>>
    BY DEF ChildDies, ChildPrints, child
  <1>4. PICK g \in Line, e \in Line :
           g = Garbage /\ e = EOF /\ g.about = 0 /\ e.about = 0
    BY LineTypes DEF Garbage, EOF, Answer
  <1>5. stdout \in Seq(Line)
    BY DEF TransportTypeOK
  <1>6. /\ About(stdout') = About(stdout) /\ Once(stdout')
        /\ \A i \in DOMAIN stdout' : TrueLine(stdout'[i])
    <2>1. ASSUME NEW s \in Seq(Line), NEW l \in Line, l.about = 0, Once(s),
                 \A i \in DOMAIN s : TrueLine(s[i])
          PROVE  /\ Append(s, l) \in Seq(Line)
                 /\ About(Append(s, l)) = About(s) /\ Once(Append(s, l))
                 /\ \A i \in DOMAIN Append(s, l) : TrueLine(Append(s, l)[i])
      <3>1. 0 \notin About(s)
        BY DEF About
      <3>2. TrueLine(l)
        BY <2>1 DEF TrueLine
      <3>3. About(Append(s, l)) = About(s)
        <4>1. About(Append(s, l)) = About(s) \cup ({l.about} \ {0})
          BY ONLY AboutAppend, s \in Seq(Line), l \in Line
        <4> QED
          BY <2>1, <4>1, Zenon
      <3>4. Once(Append(s, l))
        BY <2>1, <3>1, AboutAppend
      <3>5. \A i \in DOMAIN Append(s, l) : TrueLine(Append(s, l)[i])
        BY <2>1, <3>2, AboutAppend
      <3> QED
        BY <3>3, <3>4, <3>5
    <2>2. Once(stdout) /\ \A i \in DOMAIN stdout : TrueLine(stdout[i])
      BY <1>0 DEF InOnePlace, LinesShape
    <2>3. \/ stdout' = Append(stdout, g)
          \/ stdout' = Append(stdout, e)
          \/ stdout' = Append(Append(stdout, g), e)
      <3>1. CASE ChildPrints
        BY <1>4, <3>1 DEF ChildPrints
      <3>2. CASE ChildDies
        <4>1. PICK cut \in {<<>>, <<g>>} : stdout' = stdout \o cut \o <<e>>
          BY <1>4, <3>2, Zenon DEF ChildDies
        <4>2. ASSUME NEW s \in Seq(Line), NEW l \in Line
              PROVE  s \o <<l>> = Append(s, l) /\ s \o <<>> = s
          OBVIOUS
        <4>3. CASE cut = <<>>
          BY <1>5, <4>1, <4>2, <4>3, Zenon
        <4>4. CASE cut = <<g>>
          <5>1. stdout \o <<g>> = Append(stdout, g)
            BY <1>5, <4>2, Zenon
          <5>2. Append(stdout, g) \in Seq(Line)
            BY <1>5
          <5> QED
            BY <4>1, <4>2, <4>4, <5>1, <5>2, Zenon
        <4> QED
          BY <4>1, <4>3, <4>4
      <3> QED
        BY <3>1, <3>2
    <2>4. CASE stdout' = Append(stdout, g)
      BY <1>4, <1>5, <2>1, <2>2, <2>4, Zenon
    <2>5. CASE stdout' = Append(stdout, e)
      BY <1>4, <1>5, <2>1, <2>2, <2>5, Zenon
    <2>6. CASE stdout' = Append(Append(stdout, g), e)
      <3>1. PICK s \in Seq(Line) :
               /\ s = Append(stdout, g) /\ About(s) = About(stdout) /\ Once(s)
               /\ \A i \in DOMAIN s : TrueLine(s[i])
        BY <1>4, <1>5, <2>1, <2>2, Zenon
      <3> QED
        BY <1>4, <2>1, <2>6, <3>1, Zenon
    <2> QED
      BY <2>3, <2>4, <2>5, <2>6
  <1>7. About(stdin') \subseteq About(stdin) /\ Once(stdin')
    BY <1>0, <1>3 DEF About, Once, InOnePlace
  <1>8. InOnePlace'
    BY <1>0, <1>1, <1>2, <1>6, <1>7, Zenon DEF InOnePlace
  <1>9. LinesShape'
    <2>1. (\A i \in DOMAIN stdin : TrueMessage(stdin[i]))'
      BY <1>0, <1>1, <1>3 DEF LinesShape, TrueMessage
    <2>2. (/\ \A i \in DOMAIN stdout : TrueLine(stdout[i])
           /\ \A i \in DOMAIN queue : TrueLine(queue[i])
           /\ \A i \in DOMAIN late : TrueLine(late[i]))'
      BY <1>0, <1>1, <1>6 DEF LinesShape, TrueLine
    <2> QED
      BY <2>1, <2>2 DEF LinesShape
  <1> QED
    BY <1>2, <1>8, <1>9 DEF ReceiptInv

(* What becomes of a sequence when one line leaves it, and when a line     *)
(* that is about a check it has not is added.                              *)
LEMMA LineLeaves ==
  ASSUME NEW s \in Seq(Line), s # <<>>, Once(s),
         \A i \in DOMAIN s : TrueLine(s[i])
  PROVE  /\ Head(s) \in Line /\ TrueLine(Head(s))
         /\ Head(s).about = 0 \/ Head(s).about \in About(s)
         /\ Once(Tail(s)) /\ About(Tail(s)) \subseteq About(s)
         /\ Head(s).about \notin About(Tail(s))
         /\ \A i \in DOMAIN Tail(s) : TrueLine(Tail(s)[i])
  <1>1. Head(s) \in Line
    OBVIOUS
  <1> QED
    BY <1>1, AboutTail

LEMMA LineArrives ==
  ASSUME NEW s \in Seq(Line), NEW l \in Line, TrueLine(l), Once(s),
         l.about \notin About(s), \A i \in DOMAIN s : TrueLine(s[i])
  PROVE  /\ Once(Append(s, l))
         /\ About(Append(s, l)) = About(s) \cup ({l.about} \ {0})
         /\ \A i \in DOMAIN Append(s, l) : TrueLine(Append(s, l)[i])
  <1>1. /\ About(Append(s, l)) = About(s) \cup ({l.about} \ {0})
        /\ Once(Append(s, l))
    BY ONLY AboutAppend, s \in Seq(Line), l \in Line, Once(s),
            l.about \notin About(s)
  <1>2. \A i \in DOMAIN Append(s, l) : TrueLine(Append(s, l)[i])
    BY AboutAppend
  <1> QED
    BY <1>1, <1>2

(* No line is about check 0.                                               *)
LEMMA AboutNotZero == \A s : 0 \notin About(s)
  BY DEF About

(* A reader hands over a line.                                             *)
LEMMA DrainReceipts ==
  ASSUME TransportTypeOK, ReceiptInv, Drain \/ DrainLate
  PROVE  ReceiptInv'
  <1>0. ChecksInv /\ InOnePlace /\ LinesShape
    BY DEF ReceiptInv
  <1>1. UNCHANGED <<session, stdin, ledger, waiting, call, receipt, answeredBy,
                    sentAs, ran>>
    BY DEF Drain, DrainLate, child, receipts
  <1>2. ChecksInv' /\ Used' = Used
    BY <1>0, <1>1, ChecksStay
  <1>3. PICK from \in Seq(Line), l \in Line :
           /\ from # <<>> /\ l = Head(from) /\ queue' = Append(queue, l)
           /\ \/ from = stdout /\ stdout' = Tail(from) /\ late' = late
              \/ from = late /\ late' = Tail(from) /\ stdout' = stdout
    <2>1. CASE Drain
      <3>1. stdout \in Seq(Line) /\ stdout # <<>> /\ Head(stdout) \in Line
        BY <2>1 DEF Drain, TransportTypeOK
      <3> QED
        BY <2>1, <3>1, Zenon DEF Drain
    <2>2. CASE DrainLate
      <3>1. late \in Seq(Line) /\ late # <<>> /\ Head(late) \in Line
        BY <2>2 DEF DrainLate, TransportTypeOK
      <3> QED
        BY <2>2, <3>1, Zenon DEF DrainLate
    <2> QED
      BY <2>1, <2>2
  <1>4. /\ queue \in Seq(Line) /\ Once(queue) /\ Once(from)
        /\ About(from) \cap About(queue) = {}
        /\ \A i \in DOMAIN queue : TrueLine(queue[i])
        /\ \A i \in DOMAIN from : TrueLine(from[i])
    <2>1. queue \in Seq(Line)
      BY DEF TransportTypeOK
    <2>2. CASE from = stdout
      BY <1>0, <2>1, <2>2, Zenon DEF InOnePlace, LinesShape
    <2>3. CASE from = late
      BY <1>0, <2>1, <2>3, Zenon DEF InOnePlace, LinesShape
    <2> QED
      BY <1>3, <2>2, <2>3
  <1>5. PICK rest \in Seq(Line) :
           /\ rest = Tail(from) /\ TrueLine(l)
           /\ l.about = 0 \/ l.about \in About(from)
           /\ Once(rest) /\ About(rest) \subseteq About(from)
           /\ l.about \notin About(rest)
           /\ \A i \in DOMAIN rest : TrueLine(rest[i])
    <2>1. Tail(from) \in Seq(Line)
      BY <1>3
    <2> QED
      BY <1>3, <1>4, <2>1, LineLeaves, Zenon
  <1>6. /\ Once(queue') /\ About(queue') = About(queue) \cup ({l.about} \ {0})
        /\ \A i \in DOMAIN queue' : TrueLine(queue'[i])
    <2>1. l.about \notin About(queue)
      BY <1>4, <1>5, AboutNotZero, Zenon
    <2> QED
      BY <1>3, <1>4, <1>5, <2>1, LineArrives, Zenon
  <1>7. InOnePlace'
    <2>1. CASE from = stdout /\ stdout' = rest /\ late' = late
      BY <1>0, <1>1, <1>2, <1>5, <1>6, <2>1 DEF InOnePlace
    <2>2. CASE from = late /\ late' = rest /\ stdout' = stdout
      BY <1>0, <1>1, <1>2, <1>5, <1>6, <2>2 DEF InOnePlace
    <2> QED
      BY <1>3, <1>5, <2>1, <2>2
  <1>8. LinesShape'
    <2>1. (\A i \in DOMAIN stdin : TrueMessage(stdin[i]))'
      BY <1>0, <1>1 DEF LinesShape, TrueMessage
    <2>2. /\ \A i \in DOMAIN stdout' : TrueLine(stdout'[i])
          /\ \A i \in DOMAIN late' : TrueLine(late'[i])
      BY <1>0, <1>3, <1>5 DEF LinesShape
    <2>3. (/\ \A i \in DOMAIN stdout : TrueLine(stdout[i])
           /\ \A i \in DOMAIN queue : TrueLine(queue[i])
           /\ \A i \in DOMAIN late : TrueLine(late[i]))'
      BY <1>1, <1>6, <2>2 DEF TrueLine
    <2> QED
      BY <2>1, <2>3 DEF LinesShape
  <1> QED
    BY <1>2, <1>7, <1>8 DEF ReceiptInv

(* The child's ledger admits what the parent has reserved: a check that    *)
(* has not run is not in it, and it holds fewer checks than there are.     *)
LEMMA ChildAdmits ==
  ASSUME ChecksInv, NEW c \in Call, ran[c] = 0
  PROVE  Admits(c)
  <1>1. c \notin ledger /\ ledger \subseteq Call
    BY DEF ChecksInv, CheckShape
  <1>2. IsFiniteSet(Call) /\ Cardinality(Call) = ExecutedTools
    <2>1. PICK n \in Nat : n = ExecutedTools /\ n >= 1
      BY TransportConstants
    <2>2. IsFiniteSet(1..n) /\ Cardinality(1..n) = n
      BY FS_Interval
    <2> QED
      BY <2>1, <2>2 DEF Call
  <1>3. /\ IsFiniteSet(Call \ {c})
        /\ Cardinality(Call \ {c}) = ExecutedTools - 1
    BY <1>2, FS_RemoveElement
  <1>4. ledger \subseteq Call \ {c}
    BY <1>1
  <1>5. Cardinality(ledger) <= Cardinality(Call \ {c}) /\ IsFiniteSet(ledger)
    BY <1>3, <1>4, FS_Subset
  <1>6. Cardinality(ledger) \in Nat
    BY <1>5, FS_CardinalityType
  <1> QED
    BY <1>1, <1>3, <1>5, <1>6, TransportConstants DEF Admits

(* The child takes a message: a check moves from one pipe to the other and *)
(* has run once.                                                           *)
LEMMA HandleReceipts ==
  ASSUME TransportTypeOK, ReceiptInv, Handle
  PROVE  ReceiptInv'
  <1>0. ChecksInv /\ InOnePlace /\ LinesShape
    BY DEF ReceiptInv
  <1>1. /\ stdin # <<>> /\ stdin' = Tail(stdin)
        /\ UNCHANGED <<session, queue, late, waiting, call, receipt,
                       answeredBy, sentAs>>
    BY DEF Handle, receipts
  <1>2. stdin \in Seq(Message) /\ stdout \in Seq(Line)
    BY DEF TransportTypeOK
  <1>3. PICK m \in Message : m = Head(stdin)
    BY <1>1, <1>2
  <1>4. /\ m.about = 0 \/ m.about \in About(stdin)
        /\ Once(stdin') /\ About(stdin') \subseteq About(stdin)
        /\ m.about \notin About(stdin')
        /\ \A i \in DOMAIN stdin' : \E j \in DOMAIN stdin : stdin'[i] = stdin[j]
        /\ \E j \in DOMAIN stdin : m = stdin[j]
    <2>1. Once(stdin)
      BY <1>0 DEF InOnePlace
    <2> QED
      BY <1>1, <1>2, <1>3, <2>1, AboutTail
  <1>5. TrueMessage(m) /\ \A i \in DOMAIN stdin' : TrueMessage(stdin'[i])
    BY <1>0, <1>4 DEF LinesShape
  <1>6. /\ Once(stdout) /\ \A i \in DOMAIN stdout : TrueLine(stdout[i])
        /\ m.about \notin About(stdout)
    BY <1>0, <1>4, AboutNotZero DEF InOnePlace, LinesShape
  <1>7. Used' = Used
    BY <1>1 DEF Used
  <1>8. CASE m.about # 0 /\ server = "READY"
    <2>1. m.about \in Call /\ ran[m.about] = 0 /\ m.method = "tools/call"
          /\ m.id = sentAs[m.about] /\ m.id # 0
      BY <1>5, <1>8, TransportConstants DEF TrueMessage, Message, Call
    <2>2. PICK res \in {"EXECUTED", "UNAVAILABLE"} :
             /\ ledger' = ledger \cup {m.about}
             /\ ran' = [ran EXCEPT ![m.about] = @ + 1]
             /\ Reply(m, res)
      <3>1. Admits(m.about)
        BY <1>0, <2>1, ChildAdmits
      <3> QED
        BY <1>3, <1>8, <2>1, <3>1 DEF Handle
    <2>3. PICK l \in Line : /\ l = Answer(m.id, m.about, res)
                            /\ l.id = m.id /\ l.about = m.about
                            /\ l.result = res
      BY LineTypes DEF Answer
    <2>4. stdout' = Append(stdout, l)
      BY <2>2, <2>3, Zenon DEF Reply
    <2>5. TrueLine(l)
      BY <2>1, <2>3 DEF TrueLine
    <2>6. /\ Once(stdout')
          /\ About(stdout') = About(stdout) \cup ({l.about} \ {0})
          /\ \A i \in DOMAIN stdout' : TrueLine(stdout'[i])
      BY <1>2, <1>6, <2>3, <2>4, <2>5, LineArrives, Zenon
    <2>7. InOnePlace'
      BY <1>0, <1>1, <1>4, <1>7, <2>3, <2>6 DEF InOnePlace
    <2>8. \A c \in Call : ran'[c] = IF c = m.about THEN 1 ELSE ran[c]
      BY <1>0, <2>1, <2>2 DEF ChecksInv
    <2>9. LinesShape'
      <3>1. (\A i \in DOMAIN stdin : TrueMessage(stdin[i]))'
        <4> SUFFICES ASSUME NEW i \in DOMAIN stdin' PROVE TrueMessage(stdin[i])'
          OBVIOUS
        <4>1. PICK n \in Message : n = stdin'[i]
          BY <1>2, <1>4
        <4>2. n.about = 0 \/ (n.about # m.about /\ n.about \in Call)
          BY <1>4, <4>1 DEF About, Message, Call
        <4> QED
          BY <1>1, <1>5, <2>8, <4>1, <4>2 DEF TrueMessage
      <3>2. (/\ \A i \in DOMAIN stdout : TrueLine(stdout[i])
             /\ \A i \in DOMAIN queue : TrueLine(queue[i])
             /\ \A i \in DOMAIN late : TrueLine(late[i]))'
        BY <1>0, <1>1, <2>6 DEF LinesShape, TrueLine
      <3> QED
        BY <3>1, <3>2 DEF LinesShape
    <2>10. ChecksInv'
      <3>1. \A c \in Call : CheckShape(c)'
        BY <1>0, <1>1, <2>1, <2>2, <2>8 DEF ChecksInv, CheckShape
      <3>2. CallShape' /\ AnsweredOnce' /\ OwnAnswer'
        BY <1>0, <1>1 DEF ChecksInv, CallShape, AnsweredOnce, OwnAnswer
      <3>3. ran' \in [Call -> {0, 1}] /\ ledger' \subseteq Call
        BY <1>0, <2>1, <2>2 DEF ChecksInv
      <3> QED
        BY <1>0, <1>1, <3>1, <3>2, <3>3 DEF ChecksInv
    <2> QED
      BY <2>7, <2>9, <2>10 DEF ReceiptInv
  <1>9. CASE m.about = 0 \/ server # "READY"
    <2>1. /\ UNCHANGED <<ledger, ran>>
          /\ \/ stdout' = stdout
             \/ m.about = 0 /\ stdout' = Append(stdout, Answer(m.id, m.about, "ok"))
      <3>1. m.method = "tools/call" => m.about # 0
        BY <1>5 DEF TrueMessage
      <3>2. m.method # "tools/call" => m.about = 0
        BY <1>5 DEF TrueMessage
      <3>3. CASE m.method = "initialize" /\ server = "NEW"
        BY <1>3, <3>2, <3>3 DEF Handle, Reply
      <3>4. CASE m.method = "notifications/initialized"
        BY <1>3, <3>4 DEF Handle
      <3>5. CASE m.method = "tools/list" /\ server = "READY"
        BY <1>3, <3>2, <3>5 DEF Handle, Reply
      <3>6. CASE /\ ~(m.method = "initialize" /\ server = "NEW")
                 /\ ~(m.method = "notifications/initialized")
                 /\ ~(m.method = "tools/list" /\ server = "READY")
        BY <1>3, <1>9, <3>1, <3>6 DEF Handle
      <3> QED
        BY <3>3, <3>4, <3>5, <3>6
    <2>2. ChecksInv'
      BY <1>0, <1>1, <2>1, ChecksStay
    <2>3. /\ Once(stdout') /\ About(stdout') = About(stdout)
          /\ \A i \in DOMAIN stdout' : TrueLine(stdout'[i])
      <3>1. CASE stdout' = stdout
        BY <1>6, <3>1
      <3>2. CASE m.about = 0 /\ stdout' = Append(stdout, Answer(m.id, m.about, "ok"))
        <4>1. PICK l \in Line : l = Answer(m.id, m.about, "ok") /\ l.about = 0
          BY <3>2, LineTypes DEF Answer
        <4>2. TrueLine(l)
          BY <4>1 DEF TrueLine
        <4>3. /\ Once(stdout')
              /\ About(stdout') = About(stdout) \cup ({l.about} \ {0})
              /\ \A i \in DOMAIN stdout' : TrueLine(stdout'[i])
          BY <1>2, <1>6, <3>2, <4>1, <4>2, LineArrives, Zenon
        <4> QED
          BY <4>1, <4>3, Zenon
      <3> QED
        BY <2>1, <3>1, <3>2
    <2>4. InOnePlace'
      BY <1>0, <1>1, <1>4, <1>7, <2>3 DEF InOnePlace
    <2>5. LinesShape'
      <3>1. (\A i \in DOMAIN stdin : TrueMessage(stdin[i]))'
        BY <1>1, <1>5, <2>1 DEF TrueMessage
      <3>2. (/\ \A i \in DOMAIN stdout : TrueLine(stdout[i])
             /\ \A i \in DOMAIN queue : TrueLine(queue[i])
             /\ \A i \in DOMAIN late : TrueLine(late[i]))'
        BY <1>0, <1>1, <2>3 DEF LinesShape, TrueLine
      <3> QED
        BY <3>1, <3>2 DEF LinesShape
    <2> QED
      BY <2>2, <2>4, <2>5 DEF ReceiptInv
  <1> QED
    BY <1>8, <1>9

(* The parent reads a line, or none, and nothing else moves.               *)
LEMMA QueueRead ==
  ASSUME TransportTypeOK, InOnePlace, LinesShape,
         queue' = queue \/ (queue # <<>> /\ queue' = Tail(queue))
  PROVE  /\ Once(queue') /\ About(queue') \subseteq About(queue)
         /\ \A i \in DOMAIN queue' : TrueLine(queue'[i])
  <1>1. /\ queue \in Seq(Line) /\ Once(queue)
        /\ \A i \in DOMAIN queue : TrueLine(queue[i])
    BY DEF TransportTypeOK, InOnePlace, LinesShape
  <1>2. CASE queue' = queue
    BY <1>1, <1>2
  <1>3. CASE queue # <<>> /\ queue' = Tail(queue)
    BY <1>1, <1>3, LineLeaves, Zenon
  <1> QED
    BY <1>2, <1>3

LEMMA PlacesAfterRead ==
  ASSUME TransportTypeOK, InOnePlace, LinesShape,
         queue' = queue \/ (queue # <<>> /\ queue' = Tail(queue)),
         UNCHANGED <<stdin, stdout, late, answeredBy, sentAs, ran>>
  PROVE  InOnePlace' /\ LinesShape'
  <1>1. /\ Once(queue') /\ About(queue') \subseteq About(queue)
        /\ \A i \in DOMAIN queue' : TrueLine(queue'[i])
    BY QueueRead
  <1>2. Used' = Used
    BY DEF Used
  <1>3. InOnePlace'
    BY <1>1, <1>2 DEF InOnePlace
  <1>4. (\A i \in DOMAIN stdin : TrueMessage(stdin[i]))'
    BY DEF LinesShape, TrueMessage
  <1>5. (/\ \A i \in DOMAIN stdout : TrueLine(stdout[i])
         /\ \A i \in DOMAIN queue : TrueLine(queue[i])
         /\ \A i \in DOMAIN late : TrueLine(late[i]))'
    BY <1>1 DEF LinesShape, TrueLine
  <1> QED
    BY <1>3, <1>4, <1>5 DEF LinesShape

(* A call is given up without an answer.  It is unavailable only if it was *)
(* not sent.                                                               *)
LEMMA SettledUnanswered ==
  ASSUME TransportTypeOK, ChecksInv, call # 0, NEW out, Settle(out, 0),
         out \in {"UNAVAILABLE", "ERROR", "TIMEOUT"},
         out = "UNAVAILABLE" => sentAs[call] = 0,
         UNCHANGED <<ledger, ran>>, waiting' = None
  PROVE  ChecksInv' /\ UNCHANGED <<answeredBy, sentAs>>
  <1>1. call \in Call
    BY TransportConstants DEF TransportTypeOK, Call
  <1>2. /\ receipt' = [receipt EXCEPT ![call] = out]
        /\ answeredBy' = [answeredBy EXCEPT ![call] = 0]
        /\ call' = 0 /\ sentAs' = sentAs
    BY DEF Settle
  <1>3. /\ answeredBy[call] = 0 /\ answeredBy \in [Call -> 0..ExecutedTools]
        /\ DOMAIN receipt = Call
    BY DEF ChecksInv, CallShape, TransportTypeOK
  <1>4. answeredBy' = answeredBy
    BY <1>2, <1>3
  <1>5. /\ \A c \in Call : receipt'[c] = IF c = call THEN out ELSE receipt[c]
        /\ out # None /\ out # "NOT_EXECUTED"
    BY <1>1, <1>2, <1>3, TransportConstants DEF ToolOutcome
  <1>6. receipt[call] # None
    BY TransportConstants DEF ChecksInv, CallShape
  <1>7. \A c \in Call : CheckShape(c)'
    BY <1>2, <1>4, <1>5, <1>6 DEF ChecksInv, CheckShape
  <1>8. CallShape'
    <2>1. /\ waiting' # "tools/call"
          /\ waiting' \notin {"initialize", "tools/list"}
      BY TransportConstants DEF RequestMethod
    <2>2. \A b, c \in Call : b < c /\ receipt'[c] # None => receipt'[b] # None
      BY <1>5, <1>6 DEF ChecksInv, CallShape
    <2> QED
      BY <1>2, <2>1, <2>2 DEF CallShape
  <1>9. AnsweredOnce' /\ OwnAnswer'
    BY <1>2, <1>4 DEF ChecksInv, AnsweredOnce, OwnAnswer
  <1> QED
    BY <1>2, <1>4, <1>7, <1>8, <1>9 DEF ChecksInv

(* The parent stops waiting without settling anything.                     *)
LEMMA StopsWaiting ==
  ASSUME ChecksInv, UNCHANGED <<call, receipts, ledger, ran>>, waiting' = None
  PROVE  ChecksInv' /\ UNCHANGED <<answeredBy, sentAs>>
  <1>1. UNCHANGED <<receipt, answeredBy, sentAs>>
    BY DEF receipts
  <1>2. /\ waiting' # "tools/call"
        /\ waiting' \notin {"initialize", "tools/list"}
    BY TransportConstants DEF RequestMethod
  <1>3. \A c \in Call : CheckShape(c)'
    BY <1>1 DEF ChecksInv, CheckShape
  <1>4. CallShape'
    BY <1>1, <1>2 DEF ChecksInv, CallShape
  <1>5. AnsweredOnce' /\ OwnAnswer'
    BY <1>1 DEF ChecksInv, AnsweredOnce, OwnAnswer
  <1> QED
    BY <1>1, <1>3, <1>4, <1>5 DEF ChecksInv

(* The handshake fails before the call was sent.                           *)
LEMMA HandshakeReceipts ==
  ASSUME TransportTypeOK, ChecksInv, HandshakeFails,
         waiting \in {"initialize", "tools/list"},
         UNCHANGED <<ledger, ran>>, waiting' = None
  PROVE  ChecksInv' /\ UNCHANGED <<answeredBy, sentAs>>
  <1>1. CASE call = 0
    <2>1. UNCHANGED <<call, receipts>>
      BY <1>1 DEF HandshakeFails
    <2> QED
      BY <2>1, StopsWaiting
  <1>2. CASE call # 0
    <2>1. Settle("UNAVAILABLE", 0)
      BY <1>2 DEF HandshakeFails
    <2>2. sentAs[call] = 0
      BY <1>2 DEF ChecksInv, CallShape
    <2> QED
      BY <1>2, <2>1, <2>2, SettledUnanswered
  <1> QED
    BY <1>1, <1>2

(* The end of the output, or no answer in time.                            *)
LEMMA GivenUpReceipts ==
  ASSUME TransportTypeOK, ReceiptInv, ReadEof \/ ReadTimesOut
  PROVE  ReceiptInv'
  <1>0. ChecksInv /\ InOnePlace /\ LinesShape
    BY DEF ReceiptInv
  <1>1. /\ waiting # None /\ waiting' = None
        /\ UNCHANGED <<stdin, stdout, late, ledger, ran>>
        /\ queue' = queue \/ (queue # <<>> /\ queue' = Tail(queue))
    BY Zenon DEF ReadEof, ReadTimesOut, child
  <1>2. ChecksInv' /\ UNCHANGED <<answeredBy, sentAs>>
    <2>1. CASE waiting = "tools/call"
      <3>1. Raise \/ Settle("TIMEOUT", 0)
        BY <2>1 DEF ReadEof, ReadTimesOut
      <3>2. CASE Raise
        BY <1>0, <1>1, <3>2, StopsWaiting DEF Raise
      <3>3. CASE Settle("TIMEOUT", 0)
        <4>1. call # 0
          BY <1>0, <2>1 DEF ChecksInv, CallShape
        <4> QED
          BY <1>0, <1>1, <3>3, <4>1, SettledUnanswered
      <3> QED
        BY <3>1, <3>2, <3>3
    <2>2. CASE waiting # "tools/call"
      <3>1. waiting \in {"initialize", "tools/list"}
        BY <1>1, <2>2 DEF TransportTypeOK, RequestMethod
      <3>2. HandshakeFails
        BY <2>2 DEF ReadEof, ReadTimesOut
      <3> QED
        BY <1>0, <1>1, <3>1, <3>2, HandshakeReceipts
    <2> QED
      BY <2>1, <2>2
  <1>3. InOnePlace' /\ LinesShape'
    BY <1>0, <1>1, <1>2, PlacesAfterRead
  <1> QED
    BY <1>2, <1>3 DEF ReceiptInv

(* The answer to initialize.                                               *)
LEMMA InitializeReceipts ==
  ASSUME TransportTypeOK, ReceiptInv, AcceptInitialize
  PROVE  ReceiptInv'
  <1>0. ChecksInv /\ InOnePlace /\ LinesShape
    BY DEF ReceiptInv
  <1>1. /\ waiting = "initialize"
        /\ UNCHANGED <<stdout, late, ledger, ran>>
        /\ queue # <<>> /\ queue' = Tail(queue)
    BY Zenon DEF AcceptInitialize
  <1>2. \/ waiting' = None /\ HandshakeFails /\ stdin' = stdin
        \/ /\ waiting' = "tools/list" /\ UNCHANGED <<call, receipts>>
           /\ stdin' = stdin \o <<Request("notifications/initialized", 0, 0),
                                  Request("tools/list", 2, 0)>>
    BY Zenon DEF AcceptInitialize
  <1>3. CASE waiting' = None /\ HandshakeFails /\ stdin' = stdin
    <2>1. ChecksInv' /\ UNCHANGED <<answeredBy, sentAs>>
      BY <1>0, <1>1, <1>3, HandshakeReceipts
    <2>2. InOnePlace' /\ LinesShape'
      BY <1>0, <1>1, <1>3, <2>1, PlacesAfterRead
    <2> QED
      BY <2>1, <2>2 DEF ReceiptInv
  <1>4. CASE /\ waiting' = "tools/list" /\ UNCHANGED <<call, receipts>>
             /\ stdin' = stdin \o <<Request("notifications/initialized", 0, 0),
                                    Request("tools/list", 2, 0)>>
    <2>1. UNCHANGED <<call, receipt, answeredBy, sentAs>>
      BY <1>4 DEF receipts
    <2>2. ChecksInv'
      <3>1. \A c \in Call : CheckShape(c)'
        BY <1>0, <1>1, <2>1 DEF ChecksInv, CheckShape
      <3>2. CallShape'
        BY <1>0, <1>1, <1>4, <2>1 DEF ChecksInv, CallShape
      <3>3. AnsweredOnce' /\ OwnAnswer'
        BY <1>0, <2>1 DEF ChecksInv, AnsweredOnce, OwnAnswer
      <3> QED
        BY <1>0, <1>1, <2>1, <3>1, <3>2, <3>3 DEF ChecksInv
    <2>3. PICK a \in Message, b \in Message :
             /\ a = Request("notifications/initialized", 0, 0)
             /\ b = Request("tools/list", 2, 0)
             /\ a.about = 0 /\ b.about = 0
             /\ a.method # "tools/call" /\ b.method # "tools/call"
      <3>1. /\ Request("notifications/initialized", 0, 0) \in Message
            /\ Request("tools/list", 2, 0) \in Message
        BY LineTypes, TransportConstants DEF RequestMethod
      <3>2. /\ Request("notifications/initialized", 0, 0).about = 0
            /\ Request("tools/list", 2, 0).about = 0
            /\ Request("notifications/initialized", 0, 0).method # "tools/call"
            /\ Request("tools/list", 2, 0).method # "tools/call"
        BY DEF Request
      <3> QED
        BY <3>1, <3>2, Zenon
    <2>4. /\ stdin \in Seq(Message) /\ Once(stdin)
          /\ \A i \in DOMAIN stdin : TrueMessage(stdin[i])
      BY <1>0 DEF TransportTypeOK, InOnePlace, LinesShape
    <2>5. PICK s \in Seq(Message) : s = Append(stdin, a)
      <3>1. Append(stdin, a) \in Seq(Message)
        BY <2>4
      <3> QED
        BY <3>1, Zenon
    <2>6. stdin' = Append(s, b)
      <3>1. ASSUME NEW q \in Seq(Message)
            PROVE  q \o <<a, b>> = Append(Append(q, a), b)
        OBVIOUS
      <3> QED
        BY <1>4, <2>3, <2>4, <2>5, <3>1, Zenon
    <2>7. About(s) = About(stdin) \cup ({a.about} \ {0})
          /\ Once(s)
          /\ \A i \in DOMAIN s : s[i] = a \/ (i \in DOMAIN stdin /\ s[i] = stdin[i])
      <3>1. a.about \notin About(stdin)
        BY <2>3, AboutNotZero
      <3> QED
        BY ONLY <2>4, <2>5, <3>1, a \in Message, AboutAppend
    <2>8. About(stdin') = About(s) \cup ({b.about} \ {0})
          /\ Once(stdin')
          /\ \A i \in DOMAIN stdin' :
                stdin'[i] = b \/ (i \in DOMAIN s /\ stdin'[i] = s[i])
      BY <2>3, <2>6, <2>7, AboutAppend, AboutNotZero
    <2>9. About(stdin') = About(stdin)
      BY <2>3, <2>7, <2>8, Zenon
    <2>10. /\ Once(queue') /\ About(queue') \subseteq About(queue)
           /\ \A i \in DOMAIN queue' : TrueLine(queue'[i])
      BY <1>0, <1>1, QueueRead
    <2>11. Used' = Used
      BY <2>1 DEF Used
    <2>12. InOnePlace'
      BY <1>0, <1>1, <2>8, <2>9, <2>10, <2>11 DEF InOnePlace
    <2>13. LinesShape'
      <3>1. (\A i \in DOMAIN stdin : TrueMessage(stdin[i]))'
        BY <1>1, <2>1, <2>3, <2>4, <2>7, <2>8 DEF TrueMessage
      <3>2. (/\ \A i \in DOMAIN stdout : TrueLine(stdout[i])
             /\ \A i \in DOMAIN queue : TrueLine(queue[i])
             /\ \A i \in DOMAIN late : TrueLine(late[i]))'
        BY <1>0, <1>1, <2>1, <2>10 DEF LinesShape, TrueLine
      <3> QED
        BY <3>1, <3>2 DEF LinesShape
    <2> QED
      BY <2>2, <2>12, <2>13 DEF ReceiptInv
  <1> QED
    BY <1>2, <1>3, <1>4

(* A check that was not sent is the call under way, and n is the number it *)
(* is sent under, 0 if it has to wait for a handshake.                     *)
LEMMA CheckUnderWay ==
  ASSUME TransportTypeOK, ReceiptInv, NEW c \in Call, sentAs[c] = 0,
         NEW n \in Nat, sentAs' = [sentAs EXCEPT ![c] = n],
         UNCHANGED <<answeredBy, ran>>, ledger' \subseteq ledger,
         call' = c, receipt'[c] = "RESERVED",
         \A d \in Call : d # c => receipt'[d] = receipt[d],
         \A b \in 1..(c - 1) : receipt[b] # None,
         \A d \in Call : d > c => receipt[d] = None,
         waiting' = "tools/call" => session'.id = n,
         waiting' \in {"initialize", "tools/list"} => n = 0
  PROVE  /\ ChecksInv' /\ Used' = Used
         /\ sentAs'[c] = n /\ \A d \in Call : d # c => sentAs'[d] = sentAs[d]
  <1>0. /\ sentAs \in [Call -> Nat] /\ ledger \subseteq Call
        /\ \A d \in Call : CheckShape(d)
        /\ CallShape /\ AnsweredOnce /\ OwnAnswer
    BY DEF ReceiptInv, ChecksInv
  <1>1. /\ sentAs' \in [Call -> Nat] /\ sentAs'[c] = n
        /\ \A d \in Call : d # c => sentAs'[d] = sentAs[d]
    BY <1>0
  <1>2. c \notin Used /\ answeredBy[c] = 0 /\ ran[c] = 0
    BY NotSentNowhere
  <1>3. "RESERVED" # None
    BY TransportConstants
  <1>4. \A d \in Call : CheckShape(d)'
    BY <1>0, <1>1, <1>2, <1>3 DEF CheckShape
  <1>5. CallShape'
    <2>1. ASSUME NEW b \in Call, NEW d \in Call, b < d, receipt'[d] # None
          PROVE  receipt'[b] # None
      <3>1. CASE d = c
        BY <2>1, <3>1 DEF Call
      <3>2. CASE d # c
        <4>1. receipt[b] # None
          BY <1>0, <2>1, <3>2 DEF CallShape
        <4> QED
          BY <1>3, <4>1
      <3> QED
        BY <3>1, <3>2
    <2>2. \A d \in Call : d > c => receipt'[d] = None
      BY DEF Call
    <2>3. call' = c /\ c # 0
      BY DEF Call
    <2>4. answeredBy'[c] = 0 /\ sentAs'[c] = n
      BY <1>1, <1>2
    <2> QED
      BY <2>1, <2>2, <2>3, <2>4 DEF CallShape
  <1>6. Used' = Used /\ AnsweredOnce'
    BY <1>0 DEF Used, AnsweredOnce
  <1>7. OwnAnswer'
    <2> SUFFICES ASSUME NEW d \in Call, answeredBy[d] \notin {0, d}
                 PROVE  /\ answeredBy[d] < d
                        /\ sentAs'[answeredBy[d]] = sentAs'[d]
                        /\ answeredBy[answeredBy[d]] # answeredBy[d]
      BY DEF OwnAnswer
    <2>1. /\ answeredBy[d] < d /\ sentAs[answeredBy[d]] = sentAs[d]
          /\ answeredBy[answeredBy[d]] # answeredBy[d]
      BY <1>0 DEF OwnAnswer
    <2>2. answeredBy[d] \in Call /\ answeredBy[d] # c /\ d # c
      <3>1. answeredBy[d] \in 0..ExecutedTools
        BY DEF ReceiptInv, ChecksInv
      <3>2. answeredBy[d] \in Used
        BY DEF Used
      <3> QED
        BY <1>2, <3>1, <3>2, TransportConstants DEF Call
    <2> QED
      BY <1>1, <2>1, <2>2
  <1>8. /\ answeredBy' \in [Call -> 0..ExecutedTools] /\ ran' \in [Call -> {0, 1}]
        /\ ledger' \subseteq Call
    BY <1>0 DEF ReceiptInv, ChecksInv
  <1> QED
    BY <1>1, <1>4, <1>5, <1>6, <1>7, <1>8 DEF ChecksInv

(* Its request is written to the pipe, or the pipe breaks.                 *)
LEMMA SentPlaces ==
  ASSUME TransportTypeOK, ReceiptInv, NEW c \in Call, sentAs[c] = 0,
         NEW n \in Nat, n # 0, Used' = Used, sentAs'[c] = n,
         \A d \in Call : d # c => sentAs'[d] = sentAs[d],
         UNCHANGED <<ran, late>>,
         stdin' = stdin \/ stdin' = Append(stdin, Request("tools/call", n, c)),
         stdout' = stdout \/ stdout' = Append(stdout, EOF),
         queue' = queue \/ (queue # <<>> /\ queue' = Tail(queue))
  PROVE  InOnePlace' /\ LinesShape'
  <1>0. InOnePlace /\ LinesShape
    BY DEF ReceiptInv
  <1>1. /\ c \notin About(stdin) /\ c \notin About(stdout)
        /\ c \notin About(queue) /\ c \notin About(late) /\ c \notin Used
        /\ ran[c] = 0
    BY NotSentNowhere
  <1>2. /\ Once(queue') /\ About(queue') \subseteq About(queue)
        /\ \A i \in DOMAIN queue' : TrueLine(queue'[i])
    BY <1>0, QueueRead
  <1>3. /\ stdout \in Seq(Line) /\ late \in Seq(Line) /\ queue \in Seq(Line)
        /\ stdin \in Seq(Message)
    BY DEF TransportTypeOK
  <1>4. /\ Once(stdout') /\ About(stdout') = About(stdout)
        /\ \A i \in DOMAIN stdout' : TrueLine(stdout'[i])
        /\ stdout' \in Seq(Line)
    <2>1. Once(stdout) /\ \A i \in DOMAIN stdout : TrueLine(stdout[i])
      BY <1>0 DEF InOnePlace, LinesShape
    <2>2. CASE stdout' = stdout
      BY <1>3, <2>1, <2>2
    <2>3. CASE stdout' = Append(stdout, EOF)
      <3>1. PICK e \in Line : e = EOF /\ e.about = 0
        BY LineTypes DEF EOF, Answer
      <3>2. TrueLine(e) /\ e.about \notin About(stdout)
        BY <3>1, AboutNotZero DEF TrueLine
      <3>3. Append(stdout, e) \in Seq(Line)
        BY <1>3
      <3>4. /\ Once(stdout')
            /\ About(stdout') = About(stdout) \cup ({e.about} \ {0})
            /\ \A i \in DOMAIN stdout' : TrueLine(stdout'[i])
        BY <1>3, <2>1, <2>3, <3>1, <3>2, LineArrives, Zenon
      <3> QED
        BY <2>3, <3>1, <3>3, <3>4, Zenon
    <2> QED
      BY <2>2, <2>3
  <1>5. /\ Once(stdin')
        /\ About(stdin') = About(stdin) \/ About(stdin') = About(stdin) \cup {c}
        /\ (\A i \in DOMAIN stdin : TrueMessage(stdin[i]))'
    <2>1. Once(stdin) /\ \A i \in DOMAIN stdin : TrueMessage(stdin[i])
      BY <1>0 DEF InOnePlace, LinesShape
    <2>2. ASSUME NEW i \in DOMAIN stdin
          PROVE  /\ stdin[i].about \in 0..ExecutedTools
                 /\ stdin[i].about # c
      <3>1. stdin[i] \in Message
        BY <1>3
      <3>2. stdin[i].about \in 0..ExecutedTools
        BY <3>1 DEF Message
      <3>3. c # 0
        BY DEF Call
      <3> QED
        BY <1>1, <3>2, <3>3 DEF About
    <2>3. CASE stdin' = stdin
      BY <2>1, <2>2, <2>3 DEF TrueMessage, Call
    <2>4. CASE stdin' = Append(stdin, Request("tools/call", n, c))
      <3>1. PICK m \in Message :
               /\ m = Request("tools/call", n, c) /\ m.about = c /\ m.id = n
               /\ m.method = "tools/call"
        <4>1. Request("tools/call", n, c) \in Message
          BY LineTypes DEF RequestMethod, Call
        <4>2. /\ Request("tools/call", n, c).about = c
              /\ Request("tools/call", n, c).id = n
              /\ Request("tools/call", n, c).method = "tools/call"
          BY DEF Request
        <4> QED
          BY <4>1, <4>2, Zenon
      <3>2. /\ About(Append(stdin, m)) = About(stdin) \cup ({m.about} \ {0})
            /\ Once(Append(stdin, m))
            /\ \A i \in DOMAIN Append(stdin, m) :
                  Append(stdin, m)[i] = m
                    \/ (i \in DOMAIN stdin /\ Append(stdin, m)[i] = stdin[i])
        <4>1. m.about \notin About(stdin) /\ Once(stdin)
          BY <1>1, <2>1, <3>1
        <4> QED
          BY ONLY <1>3, <4>1, m \in Message, AboutAppend
      <3>3. About(stdin') = About(stdin) \cup {c}
        <4>1. c # 0
          BY DEF Call
        <4> QED
          BY <2>4, <3>1, <3>2, <4>1
      <3>4. \A i \in DOMAIN stdin' :
               stdin'[i] = m \/ (i \in DOMAIN stdin /\ stdin'[i] = stdin[i])
        BY <2>4, <3>1, <3>2, Zenon
      <3>5. c # 0 /\ m.about = c
        BY <3>1 DEF Call
      <3>6. (\A i \in DOMAIN stdin : TrueMessage(stdin[i]))'
        BY <1>1, <2>1, <2>2, <3>1, <3>4, <3>5 DEF TrueMessage, Call
      <3>7. Once(stdin')
        BY <2>4, <3>1, <3>2, Zenon
      <3> QED
        BY <3>3, <3>6, <3>7
    <2> QED
      BY <2>3, <2>4
  <1>6. InOnePlace'
    <2>1. c \notin About(stdout') /\ c \notin About(queue') /\ c \notin Used'
          /\ c \notin About(late') /\ About(late') = About(late)
      BY <1>1, <1>2, <1>4
    <2> QED
      BY <1>0, <1>2, <1>4, <1>5, <2>1 DEF InOnePlace
  <1>7. (/\ \A i \in DOMAIN stdout : TrueLine(stdout[i])
         /\ \A i \in DOMAIN queue : TrueLine(queue[i])
         /\ \A i \in DOMAIN late : TrueLine(late[i]))'
    <2>1. ASSUME NEW s \in Seq(Line), c \notin About(s),
                 NEW i \in DOMAIN s
          PROVE  s[i].about = 0 \/ (s[i].about \in Call /\ s[i].about # c)
      <3>1. s[i] \in Line
        OBVIOUS
      <3>2. s[i].about \in 0..ExecutedTools
        BY <3>1 DEF Line
      <3>3. s[i].about = 0 \/ s[i].about \in Call
        BY <3>2, TransportConstants DEF Call
      <3>4. c # 0
        BY DEF Call
      <3> QED
        BY <2>1, <3>3, <3>4 DEF About
    <2>2. queue' \in Seq(Line)
      <3>1. ASSUME NEW q \in Seq(Line), q # <<>> PROVE Tail(q) \in Seq(Line)
        BY <3>1
      <3> QED
        BY <1>3, <3>1, Zenon
    <2>3. c \notin About(queue') /\ c \notin About(stdout') /\ c \notin About(late')
      BY <1>1, <1>2, <1>4
    <2>4. \A i \in DOMAIN late' : TrueLine(late'[i])
      BY <1>0 DEF LinesShape
    <2>5. /\ \A i \in DOMAIN stdout' : stdout'[i].about = 0 \/
                (stdout'[i].about \in Call /\ stdout'[i].about # c)
          /\ \A i \in DOMAIN queue' : queue'[i].about = 0 \/
                (queue'[i].about \in Call /\ queue'[i].about # c)
          /\ \A i \in DOMAIN late' : late'[i].about = 0 \/
                (late'[i].about \in Call /\ late'[i].about # c)
      BY <1>3, <1>4, <2>1, <2>2, <2>3
    <2> QED
      BY <1>2, <1>4, <2>4, <2>5 DEF TrueLine
  <1> QED
    BY <1>5, <1>6, <1>7 DEF LinesShape

(* The answer to tools/list: a call that waited for it is sent.            *)
LEMMA ToolsReceipts ==
  ASSUME TransportTypeOK, ReceiptInv, AcceptTools
  PROVE  ReceiptInv'
  <1>0. ChecksInv /\ InOnePlace /\ LinesShape
    BY DEF ReceiptInv
  <1>1. /\ waiting = "tools/list"
        /\ UNCHANGED <<stdout, late, ledger, ran>>
        /\ queue # <<>> /\ queue' = Tail(queue)
    BY Zenon DEF AcceptTools
  <1>2. \/ waiting' = None /\ HandshakeFails /\ stdin' = stdin
        \/ waiting' = None /\ UNCHANGED <<stdin, call, receipts>>
        \/ /\ call # 0
           /\ session' = [session EXCEPT !.id = 3, !.pending = "tools/call",
                                         !.verified = TRUE]
           /\ sentAs' = [sentAs EXCEPT ![call] = 3]
           /\ UNCHANGED <<call, receipt, answeredBy>>
           /\ \/ /\ stdin' = Append(stdin, Request("tools/call", 3, call))
                 /\ waiting' = "tools/call"
              \/ waiting' = None /\ stdin' = stdin
    BY Zenon DEF AcceptTools
  <1>3. CASE waiting' = None /\ HandshakeFails /\ stdin' = stdin
    <2>1. ChecksInv' /\ UNCHANGED <<answeredBy, sentAs>>
      BY <1>0, <1>1, <1>3, HandshakeReceipts
    <2>2. InOnePlace' /\ LinesShape'
      BY <1>0, <1>1, <1>3, <2>1, PlacesAfterRead
    <2> QED
      BY <2>1, <2>2 DEF ReceiptInv
  <1>4. CASE waiting' = None /\ UNCHANGED <<stdin, call, receipts>>
    <2>1. ChecksInv' /\ UNCHANGED <<answeredBy, sentAs>>
      BY <1>0, <1>1, <1>4, StopsWaiting
    <2>2. InOnePlace' /\ LinesShape'
      BY <1>0, <1>1, <1>4, <2>1, PlacesAfterRead
    <2> QED
      BY <2>1, <2>2 DEF ReceiptInv
  <1>5. CASE /\ call # 0
             /\ session' = [session EXCEPT !.id = 3, !.pending = "tools/call",
                                           !.verified = TRUE]
             /\ sentAs' = [sentAs EXCEPT ![call] = 3]
             /\ UNCHANGED <<call, receipt, answeredBy>>
             /\ \/ /\ stdin' = Append(stdin, Request("tools/call", 3, call))
                   /\ waiting' = "tools/call"
                \/ waiting' = None /\ stdin' = stdin
    <2>1. PICK c \in Call : c = call
      BY <1>5, TransportConstants DEF TransportTypeOK, Call
    <2>2. /\ sentAs[c] = 0 /\ receipt[c] = "RESERVED"
          /\ \A d \in Call : d > c => receipt[d] = None
      BY <1>0, <1>1, <1>5, <2>1 DEF ChecksInv, CallShape
    <2>3. \A b \in 1..(c - 1) : receipt[b] # None
      <3>1. receipt[c] # None
        BY <2>2, TransportConstants
      <3> QED
        BY <1>0, <3>1, TransportConstants DEF ChecksInv, CallShape, Call
    <2>4. PICK n \in Nat : n = 3 /\ n # 0
      OBVIOUS
    <2>5. /\ waiting' \notin {"initialize", "tools/list"}
          /\ session'.id = n
      <3>1. None \notin {"initialize", "tools/list"}
        BY TransportConstants DEF RequestMethod
      <3>2. session \in Session
        BY <1>1, TransportConstants DEF TransportTypeOK, RequestMethod
      <3>3. session'.id = n
        BY <1>5, <2>4, <3>2 DEF Session
      <3> QED
        BY <1>5, <3>1, <3>3
    <2>6. /\ sentAs' = [sentAs EXCEPT ![c] = n] /\ call' = c
          /\ receipt' = receipt
          /\ UNCHANGED <<answeredBy, ran, late>> /\ ledger' \subseteq ledger
          /\ stdout' = stdout
          /\ stdin' = stdin \/ stdin' = Append(stdin, Request("tools/call", n, c))
      BY <1>1, <1>5, <2>1, <2>4
    <2>7. /\ ChecksInv' /\ Used' = Used
          /\ sentAs'[c] = n /\ \A d \in Call : d # c => sentAs'[d] = sentAs[d]
      BY <2>2, <2>3, <2>5, <2>6, CheckUnderWay
    <2>8. InOnePlace' /\ LinesShape'
      BY <1>1, <2>2, <2>4, <2>6, <2>7, SentPlaces
    <2> QED
      BY <2>7, <2>8 DEF ReceiptInv
  <1> QED
    BY <1>2, <1>3, <1>4, <1>5

(* The answer to a call: that of the call itself, or one that an earlier   *)
(* call was given up without, under the same number.                       *)
LEMMA CallReceipts ==
  ASSUME TransportTypeOK, ReceiptInv, AcceptCall
  PROVE  ReceiptInv'
  <1>0. ChecksInv /\ InOnePlace /\ LinesShape
    BY DEF ReceiptInv
  <1>1. /\ waiting = "tools/call" /\ waiting' = None
        /\ UNCHANGED <<stdin, stdout, late, ledger, ran>>
        /\ queue # <<>> /\ queue' = Tail(queue)
    BY Zenon DEF AcceptCall
  <1>2. PICK m \in Line : m = Head(queue)
    BY <1>1 DEF TransportTypeOK
  <1>3. \/ Settle("ERROR", 0)
        \/ m.about # 0 /\ m.id = session.id /\ Settle(m.result, m.about)
    BY <1>2, Zenon DEF AcceptCall, IdMatches
  <1>4. call # 0 /\ sentAs[call] = session.id
    BY <1>0, <1>1 DEF ChecksInv, CallShape
  <1>5. CASE Settle("ERROR", 0)
    <2>1. ChecksInv' /\ UNCHANGED <<answeredBy, sentAs>>
      BY <1>0, <1>1, <1>4, <1>5, SettledUnanswered
    <2>2. InOnePlace' /\ LinesShape'
      BY <1>0, <1>1, <2>1, PlacesAfterRead
    <2> QED
      BY <2>1, <2>2 DEF ReceiptInv
  <1>6. CASE m.about # 0 /\ m.id = session.id /\ Settle(m.result, m.about)
    <2>1. PICK c \in Call : c = call
      BY <1>4, TransportConstants DEF TransportTypeOK, Call
    <2>2. PICK a \in Call : a = m.about
      BY <1>6, TransportConstants DEF Line, Call
    <2>3. PICK rest : /\ rest = Tail(queue) /\ TrueLine(m)
                      /\ a \in About(queue) /\ a \notin About(rest)
                      /\ Once(rest) /\ About(rest) \subseteq About(queue)
                      /\ \A i \in DOMAIN rest : TrueLine(rest[i])
      <3>1. /\ queue \in Seq(Line) /\ Once(queue)
            /\ \A i \in DOMAIN queue : TrueLine(queue[i])
        BY <1>0 DEF TransportTypeOK, InOnePlace, LinesShape
      <3> QED
        BY <1>1, <1>2, <1>6, <2>2, <3>1, LineLeaves, Zenon
    <2>4. /\ sentAs[a] = sentAs[c] /\ sentAs[c] # 0
          /\ m.result \in {"EXECUTED", "UNAVAILABLE"}
      BY <1>4, <1>6, <2>1, <2>2, <2>3 DEF TrueLine
    <2>5. a \notin Used
      BY <1>0, <2>3 DEF InOnePlace
    <2>6. PICK out \in {"EXECUTED", "UNAVAILABLE"} : out = m.result
      BY <2>4
    <2>7. /\ receipt' = [receipt EXCEPT ![c] = out]
          /\ answeredBy' = [answeredBy EXCEPT ![c] = a]
          /\ call' = 0 /\ sentAs' = sentAs
      BY <1>6, <2>1, <2>2, <2>6, Zenon DEF Settle
    <2>8. /\ answeredBy \in [Call -> 0..ExecutedTools] /\ answeredBy[c] = 0
          /\ a \in 0..ExecutedTools
      BY <1>0, <1>4, <2>1 DEF ChecksInv, CallShape, Call
    <2>9. /\ answeredBy' \in [Call -> 0..ExecutedTools]
          /\ answeredBy'[c] = a
          /\ \A d \in Call : d # c => answeredBy'[d] = answeredBy[d]
      BY <2>7, <2>8
    <2>10. /\ receipt'[c] = out
           /\ \A d \in Call : d # c => receipt'[d] = receipt[d]
           /\ out # None /\ out # "NOT_EXECUTED" /\ receipt[c] # None
      <3>1. receipt[c] # None
        BY <1>0, <1>4, <2>1, TransportConstants DEF ChecksInv, CallShape
      <3>2. out # None
        BY TransportConstants DEF ToolOutcome
      <3> QED
        BY <2>7, <3>1, <3>2 DEF TransportTypeOK
    <2>11. Used' = Used \cup {a}
      <3>1. a # 0
        BY DEF Call
      <3>2. ASSUME NEW x \in Used' PROVE x \in Used \cup {a}
        BY <2>9, <3>2 DEF Used
      <3>3. ASSUME NEW x \in Used \cup {a} PROVE x \in Used'
        <4>1. CASE x = a
          BY <2>9, <3>1, <4>1 DEF Used
        <4>2. CASE x \in Used
          <5>1. PICK d \in Call : x = answeredBy[d] /\ x # 0
            BY <4>2 DEF Used
          <5>2. d # c
            BY <2>8, <5>1
          <5> QED
            BY <2>9, <5>1, <5>2 DEF Used
        <4> QED
          BY <3>3, <4>1, <4>2
      <3> QED
        BY <3>2, <3>3
    <2>12. InOnePlace'
      BY <1>0, <1>1, <2>3, <2>11 DEF InOnePlace
    <2>13. LinesShape'
      <3>1. (\A i \in DOMAIN stdin : TrueMessage(stdin[i]))'
        BY <1>0, <1>1, <2>7 DEF LinesShape, TrueMessage
      <3>2. (/\ \A i \in DOMAIN stdout : TrueLine(stdout[i])
             /\ \A i \in DOMAIN queue : TrueLine(queue[i])
             /\ \A i \in DOMAIN late : TrueLine(late[i]))'
        BY <1>0, <1>1, <2>3, <2>7 DEF LinesShape, TrueLine
      <3> QED
        BY <3>1, <3>2 DEF LinesShape
    <2>14. \A d \in Call : CheckShape(d)'
      <3>1. a # 0
        BY DEF Call
      <3> QED
        BY <1>0, <1>1, <2>4, <2>7, <2>9, <2>10, <3>1 DEF ChecksInv, CheckShape
    <2>15. CallShape'
      <3>1. /\ waiting' # "tools/call"
            /\ waiting' \notin {"initialize", "tools/list"}
        BY <1>1, TransportConstants DEF RequestMethod
      <3>2. \A b, d \in Call : b < d /\ receipt'[d] # None => receipt'[b] # None
        BY <1>0, <2>10 DEF ChecksInv, CallShape
      <3> QED
        BY <2>7, <3>1, <3>2 DEF CallShape
    <2>16. AnsweredOnce'
      <3>1. \A d \in Call : answeredBy[d] # a
        BY <2>5 DEF Used, Call
      <3> QED
        BY <1>0, <2>9, <3>1 DEF ChecksInv, AnsweredOnce
    <2>17. OwnAnswer'
      <3> SUFFICES ASSUME NEW d \in Call, answeredBy'[d] \notin {0, d}
                   PROVE  /\ answeredBy'[d] < d
                          /\ sentAs'[answeredBy'[d]] = sentAs'[d]
                          /\ answeredBy'[answeredBy'[d]] # answeredBy'[d]
        BY DEF OwnAnswer
      <3>1. CASE d = c
        <4>1. a # c /\ receipt[a] # None
          <5>1. a # c
            BY <2>9, <3>1
          <5> QED
            BY <1>0, <2>4, <5>1 DEF ChecksInv, CheckShape
        <4>2. a < c
          <5>1. ~(a > c)
            BY <1>0, <1>4, <2>1, <4>1 DEF ChecksInv, CallShape
          <5> QED
            BY <4>1, <5>1 DEF Call
        <4>3. answeredBy'[a] # a
          <5>1. answeredBy[a] # a
            BY <2>5 DEF Used, Call
          <5> QED
            BY <2>9, <4>1, <5>1
        <4> QED
          BY <2>4, <2>7, <2>9, <3>1, <4>2, <4>3
      <3>2. CASE d # c
        <4>1. PICK b \in Call : b = answeredBy[d] /\ b = answeredBy'[d] /\ b # d
          <5>1. answeredBy'[d] = answeredBy[d]
            BY <2>9, <3>2
          <5> QED
            BY <2>8, <5>1, TransportConstants DEF Call
        <4>2. b < d /\ sentAs[b] = sentAs[d] /\ answeredBy[b] # b
          <5>1. answeredBy[d] \notin {0, d}
            BY <4>1 DEF Call
          <5> QED
            BY <1>0, <4>1, <5>1 DEF ChecksInv, OwnAnswer
        <4>3. answeredBy'[b] # b
          <5>1. CASE b = c
            <6>1. b \in Used
              BY <4>1 DEF Used, Call
            <6> QED
              BY <2>5, <2>9, <5>1, <6>1
          <5>2. CASE b # c
            BY <2>9, <4>2, <5>2
          <5> QED
            BY <5>1, <5>2
        <4> QED
          BY <2>7, <4>1, <4>2, <4>3
      <3> QED
        BY <3>1, <3>2
    <2>18. ChecksInv'
      BY <1>0, <1>1, <2>7, <2>9, <2>14, <2>15, <2>16, <2>17 DEF ChecksInv
    <2> QED
      BY <2>12, <2>13, <2>18 DEF ReceiptInv
  <1> QED
    BY <1>3, <1>5, <1>6

(* A new child: its pipes are empty but for the first request, and a late  *)
(* reader has lines that the old child's pipe or an earlier reader had.    *)
LEMMA StartedPlaces ==
  ASSUME TransportTypeOK, InOnePlace, LinesShape, NEW rest \in Seq(Line),
         Started(rest), Once(rest),
         About(rest) \subseteq About(late) \cup About(stdout),
         \A i \in DOMAIN rest : TrueLine(rest[i]),
         UNCHANGED <<answeredBy, sentAs, ran>>
  PROVE  InOnePlace' /\ LinesShape'
  <1>1. PICK m : /\ stdin' = <<m>> /\ m.about = 0 /\ m.method # "tools/call"
                 /\ stdout' = <<>> /\ queue' = <<>> /\ late' = rest
    BY DEF Started, Request
  <1>2. /\ DOMAIN stdin' = {1} /\ stdin'[1] = m
        /\ DOMAIN stdout' = {} /\ DOMAIN queue' = {}
    BY <1>1
  <1>3. About(stdin') = {} /\ About(stdout') = {} /\ About(queue') = {}
    BY <1>1, <1>2 DEF About
  <1>4. Once(stdin') /\ Once(stdout') /\ Once(queue') /\ Once(late')
    BY <1>1, <1>2 DEF Once
  <1>5. Used' = Used
    BY DEF Used
  <1>6. InOnePlace'
    BY <1>1, <1>3, <1>4, <1>5 DEF InOnePlace
  <1>7. LinesShape'
    BY <1>1, <1>2 DEF LinesShape, TrueMessage, TrueLine
  <1> QED
    BY <1>6, <1>7

(* What a late reader has when a child is closed and another one started.  *)
LEMMA LateLines ==
  ASSUME TransportTypeOK, InOnePlace, LinesShape, NEW old \in Suffixes(late)
  PROVE  /\ old \in Seq(Line) /\ Once(old)
         /\ About(old) \subseteq About(late)
         /\ \A i \in DOMAIN old : TrueLine(old[i])
         /\ \A more \in Suffixes(Unread) :
              /\ old \o more \in Seq(Line) /\ Once(old \o more)
              /\ About(old \o more) \subseteq About(late) \cup About(stdout)
              /\ \A i \in DOMAIN (old \o more) : TrueLine((old \o more)[i])
  <1>1. /\ late \in Seq(Line) /\ stdout \in Seq(Line)
        /\ Once(late) /\ Once(stdout) /\ About(stdout) \cap About(late) = {}
        /\ \A i \in DOMAIN late : TrueLine(late[i])
        /\ \A i \in DOMAIN stdout : TrueLine(stdout[i])
    BY DEF TransportTypeOK, InOnePlace, LinesShape
  <1>2. /\ old \in Seq(Line) /\ Once(old) /\ About(old) \subseteq About(late)
        /\ \A i \in DOMAIN old : TrueLine(old[i])
    <2>1. old \in Seq(Line)
      BY <1>1, SuffixesAreSeqs
    <2> QED
      BY <1>1, <2>1, AboutSuffix
  <1>3. PICK unread \in Seq(Line) :
           /\ unread = Unread /\ Once(unread) /\ About(unread) = About(stdout)
           /\ \A i \in DOMAIN unread : TrueLine(unread[i])
    <2>1. CASE Unread = stdout
      BY <1>1, <2>1
    <2>2. CASE Unread = Append(stdout, EOF)
      <3>1. PICK e \in Line : e = EOF /\ e.about = 0
        BY LineTypes DEF EOF, Answer
      <3>2. TrueLine(e) /\ e.about \notin About(stdout)
        BY <3>1, AboutNotZero DEF TrueLine
      <3>3. Append(stdout, e) \in Seq(Line)
        BY <1>1
      <3>4. /\ Once(Append(stdout, e))
            /\ About(Append(stdout, e)) = About(stdout) \cup ({e.about} \ {0})
            /\ \A i \in DOMAIN Append(stdout, e) : TrueLine(Append(stdout, e)[i])
        BY <1>1, <3>2, LineArrives, Zenon
      <3>5. About(Append(stdout, e)) = About(stdout)
        BY <3>1, <3>4, Zenon
      <3> QED
        BY <2>2, <3>1, <3>3, <3>4, <3>5, Zenon
    <2> QED
      BY <2>1, <2>2 DEF Unread
  <1>4. ASSUME NEW more \in Suffixes(Unread)
        PROVE  /\ old \o more \in Seq(Line) /\ Once(old \o more)
               /\ About(old \o more) \subseteq About(late) \cup About(stdout)
               /\ \A i \in DOMAIN (old \o more) : TrueLine((old \o more)[i])
    <2>1. /\ more \in Seq(Line) /\ Once(more)
          /\ About(more) \subseteq About(stdout)
          /\ \A i \in DOMAIN more : TrueLine(more[i])
      <3>1. more \in Seq(Line)
        BY <1>3, SuffixesAreSeqs
      <3>2. /\ About(more) \subseteq About(unread)
            /\ Once(more)
            /\ \A i \in DOMAIN more : \E j \in DOMAIN unread : more[i] = unread[j]
        BY <1>3, AboutSuffix
      <3> QED
        BY <1>3, <3>1, <3>2
    <2>2. About(old) \cap About(more) = {}
      BY <1>1, <1>2, <2>1
    <2>3. PICK u : u = old \o more
      OBVIOUS
    <2>4. u \in Seq(Line)
      BY ONLY <1>2, <2>1, <2>3, ConcatProperties
    <2>5. /\ About(u) = About(old) \cup About(more)
          /\ Once(u)
          /\ \A i \in DOMAIN u :
                \/ \E j \in DOMAIN old : u[i] = old[j]
                \/ \E j \in DOMAIN more : u[i] = more[j]
      BY ONLY <1>2, <2>1, <2>2, <2>3, AboutConcat
    <2>6. \A i \in DOMAIN u : TrueLine(u[i])
      BY <1>2, <2>1, <2>5
    <2>7. About(u) \subseteq About(late) \cup About(stdout)
      BY <1>2, <2>1, <2>5
    <2> QED
      BY <2>3, <2>4, <2>5, <2>6, <2>7, Zenon
  <1> QED
    BY <1>2, <1>4

(* The next check is forwarded.                                            *)
LEMMA ForwardReceipts ==
  ASSUME TransportTypeOK, ReceiptInv, NEW c \in Call, Forward(c)
  PROVE  ReceiptInv'
  <1>0. ChecksInv /\ InOnePlace /\ LinesShape
    BY DEF ReceiptInv
  <1>1. /\ call = 0 /\ waiting = None /\ proc # "none" /\ receipt[c] = None
        /\ \A b \in 1..(c - 1) : receipt[b] # None
        /\ session \in Session /\ session.id \in Nat
    BY DEF Forward, TransportTypeOK, Session
  <1>2. sentAs[c] = 0
    BY <1>0, <1>1 DEF ChecksInv, CheckShape
  <1>3. \A d \in Call : d > c => receipt[d] = None
    BY <1>0, <1>1 DEF ChecksInv, CallShape, Call
  <1>4. ASSUME receipt' = [receipt EXCEPT ![c] = "RESERVED"]
        PROVE  /\ receipt'[c] = "RESERVED"
               /\ \A d \in Call : d # c => receipt'[d] = receipt[d]
    BY <1>4 DEF TransportTypeOK
  <1>5. None \notin {"initialize", "tools/list", "tools/call"}
    BY TransportConstants DEF RequestMethod
  <1>6. PICK n \in Nat : n = session.id + 1 /\ n # 0
    BY <1>1
  <1>7. CASE CallHealthy(c) \/ CallBreaks(c)
    <2>1. /\ sentAs' = [sentAs EXCEPT ![c] = n] /\ call' = c
          /\ receipt' = [receipt EXCEPT ![c] = "RESERVED"]
          /\ UNCHANGED <<answeredBy, ran, late, ledger>> /\ queue' = queue
      BY <1>6, <1>7, Zenon DEF CallHealthy, CallBreaks, Send
    <2>2. /\ stdin' = stdin \/ stdin' = Append(stdin, Request("tools/call", n, c))
          /\ stdout' = stdout \/ stdout' = Append(stdout, EOF)
      BY <1>6, <1>7, Zenon DEF CallHealthy, CallBreaks, Send
    <2>3. session' = [session EXCEPT !.id = n, !.pending = "tools/call"]
      BY <1>6, <1>7 DEF CallHealthy, CallBreaks, Send
    <2>4. session'.id = n
      BY <1>1, <2>3 DEF Session
    <2>5. waiting' \notin {"initialize", "tools/list"}
      BY <1>1, <1>5, <1>7 DEF CallHealthy, CallBreaks, Send
    <2>6. /\ ChecksInv' /\ Used' = Used
          /\ sentAs'[c] = n /\ \A d \in Call : d # c => sentAs'[d] = sentAs[d]
      BY <1>1, <1>2, <1>3, <1>4, <2>1, <2>4, <2>5, CheckUnderWay
    <2>7. InOnePlace' /\ LinesShape'
      BY <1>2, <1>6, <2>1, <2>2, <2>6, SentPlaces
    <2> QED
      BY <2>6, <2>7 DEF ReceiptInv
  <1>8. CASE CallRefused(c)
    <2>1. /\ receipt' = [receipt EXCEPT ![c] = "ERROR"]
          /\ UNCHANGED <<session, queue, stdin, stdout, late, ledger, waiting,
                         call, answeredBy, sentAs, ran>>
      BY <1>8 DEF CallRefused
    <2>2. /\ receipt'[c] = "ERROR" /\ "ERROR" # None
          /\ \A d \in Call : d # c => receipt'[d] = receipt[d]
      BY <2>1, TransportConstants DEF TransportTypeOK, ToolOutcome
    <2>3. \A d \in Call : CheckShape(d)'
      BY <1>0, <2>1, <2>2 DEF ChecksInv, CheckShape
    <2>4. CallShape'
      <3>1. ASSUME NEW b \in Call, NEW d \in Call, b < d, receipt'[d] # None
            PROVE  receipt'[b] # None
        <4>1. CASE d = c
          BY <1>1, <2>2, <3>1, <4>1 DEF Call
        <4>2. CASE d # c
          <5>1. receipt[b] # None
            BY <1>0, <2>2, <3>1, <4>2 DEF ChecksInv, CallShape
          <5> QED
            BY <2>2, <5>1
        <4> QED
          BY <4>1, <4>2
      <3>2. call' = 0 /\ waiting' \notin {"initialize", "tools/list", "tools/call"}
        BY <1>1, <1>5, <2>1
      <3> QED
        BY <3>1, <3>2 DEF CallShape
    <2>5. AnsweredOnce' /\ OwnAnswer'
      BY <1>0, <2>1 DEF ChecksInv, AnsweredOnce, OwnAnswer
    <2>6. ChecksInv'
      BY <1>0, <2>1, <2>3, <2>4, <2>5 DEF ChecksInv
    <2>7. InOnePlace' /\ LinesShape'
      BY <1>0, <2>1, PlacesAfterRead
    <2> QED
      BY <2>6, <2>7 DEF ReceiptInv
  <1>9. CASE RespawnAndCall(c)
    <2>1. /\ call' = c /\ receipt' = [receipt EXCEPT ![c] = "RESERVED"]
          /\ UNCHANGED <<answeredBy, sentAs, ran>>
      BY <1>9 DEF RespawnAndCall
    <2>2. PICK old \in Suffixes(late) :
             \/ Started(old)
             \/ \E more \in Suffixes(Unread) : Started(old \o more)
      BY <1>9, Zenon DEF RespawnAndCall
    <2>3. PICK rest \in Seq(Line) :
             /\ Started(rest) /\ Once(rest)
             /\ About(rest) \subseteq About(late) \cup About(stdout)
             /\ \A i \in DOMAIN rest : TrueLine(rest[i])
      <3>1. CASE Started(old)
        <4>1. /\ old \in Seq(Line) /\ Once(old)
              /\ About(old) \subseteq About(late) \cup About(stdout)
              /\ \A i \in DOMAIN old : TrueLine(old[i])
          BY <1>0, LateLines
        <4> QED
          BY <3>1, <4>1
      <3>2. ASSUME NEW more \in Suffixes(Unread), Started(old \o more)
            PROVE  \E rest \in Seq(Line) :
                     /\ Started(rest) /\ Once(rest)
                     /\ About(rest) \subseteq About(late) \cup About(stdout)
                     /\ \A i \in DOMAIN rest : TrueLine(rest[i])
        BY <1>0, <3>2, LateLines, Zenon
      <3> QED
        BY <2>2, <3>1, <3>2
    <2>4. InOnePlace' /\ LinesShape'
      BY <1>0, <2>1, <2>3, StartedPlaces
    <2>5. waiting' = "initialize" /\ ledger' = {}
      BY <2>3 DEF Started
    <2>6. sentAs' = [sentAs EXCEPT ![c] = 0]
      BY <1>0, <1>2, <2>1 DEF ChecksInv
    <2>7. ChecksInv'
      <3>1. ledger' \subseteq ledger /\ 0 \in Nat
        BY <2>5
      <3>2. receipt'[c] = "RESERVED"
            /\ \A d \in Call : d # c => receipt'[d] = receipt[d]
        BY <1>4, <2>1
      <3> QED
        BY <1>1, <1>2, <1>3, <2>1, <2>5, <2>6, <3>1, <3>2, CheckUnderWay
    <2> QED
      BY <2>4, <2>7 DEF ReceiptInv
  <1> QED
    BY <1>7, <1>8, <1>9 DEF Forward

(* The beginning of a run.                                                 *)
LEMMA StartReceipts ==
  ASSUME TransportTypeOK, ReceiptInv, StartChild, call = 0
  PROVE  ReceiptInv'
  <1>0. ChecksInv /\ InOnePlace /\ LinesShape
    BY DEF ReceiptInv
  <1>1. /\ Started(<<>>)
        /\ UNCHANGED <<call, receipt, answeredBy, sentAs, ran>>
    BY DEF StartChild, receipts
  <1>2. /\ <<>> \in Seq(Line) /\ Once(<<>>) /\ About(<<>>) = {}
        /\ \A i \in DOMAIN <<>> : TrueLine(<<>>[i])
    BY DEF Once, About
  <1>3. InOnePlace' /\ LinesShape'
    <2>1. About(<<>>) \subseteq About(late) \cup About(stdout)
      BY <1>2, Zenon
    <2> QED
      BY <1>0, <1>1, <1>2, <2>1, StartedPlaces, Zenon
  <1>4. ledger' = {} /\ waiting' = "initialize"
    BY <1>1 DEF Started
  <1>5. \A c \in Call : CheckShape(c)'
    BY <1>0, <1>1, <1>4 DEF ChecksInv, CheckShape
  <1>6. CallShape' /\ AnsweredOnce' /\ OwnAnswer'
    BY <1>0, <1>1, <1>4 DEF ChecksInv, CallShape, AnsweredOnce, OwnAnswer
  <1> QED
    BY <1>0, <1>1, <1>3, <1>4, <1>5, <1>6 DEF ReceiptInv, ChecksInv

(* No run is under way: nobody has asked anything.                         *)
LEMMA NoCallsReceipts ==
  (/\ queue = <<>> /\ stdin = <<>> /\ stdout = <<>> /\ late = <<>>
   /\ ledger = {} /\ waiting = None /\ call = 0 /\ NoReceipts)
  => ReceiptInv
  <1> SUFFICES ASSUME queue = <<>>, stdin = <<>>, stdout = <<>>, late = <<>>,
                      ledger = {}, waiting = None, call = 0, NoReceipts
               PROVE  ReceiptInv
    OBVIOUS
  <1>1. /\ receipt = [c \in Call |-> None] /\ answeredBy = [c \in Call |-> 0]
        /\ sentAs = [c \in Call |-> 0] /\ ran = [c \in Call |-> 0]
    BY DEF NoReceipts
  <1>2. None \notin {"initialize", "tools/list", "tools/call", "NOT_EXECUTED",
                     "UNAVAILABLE"}
    BY TransportConstants DEF RequestMethod, ToolOutcome
  <1>3. ChecksInv
    <2>1. /\ answeredBy \in [Call -> 0..ExecutedTools]
          /\ sentAs \in [Call -> Nat] /\ ran \in [Call -> {0, 1}]
      BY <1>1, TransportConstants
    <2>2. \A c \in Call : CheckShape(c)
      BY <1>1, <1>2 DEF CheckShape
    <2>3. CallShape
      BY <1>1, <1>2 DEF CallShape
    <2>4. AnsweredOnce /\ OwnAnswer
      BY <1>1 DEF AnsweredOnce, OwnAnswer
    <2> QED
      BY <2>1, <2>2, <2>3, <2>4 DEF ChecksInv
  <1>4. InOnePlace
    BY DEF InOnePlace, Once, About
  <1>5. LinesShape
    BY DEF LinesShape
  <1> QED
    BY <1>3, <1>4, <1>5 DEF ReceiptInv

(* A child that nobody is waiting for is closed before its run has begun.  *)
LEMMA ClosedReceipts ==
  ASSUME ReceiptInv, Closed, call = 0, UNCHANGED <<call, receipts, ran>>
  PROVE  ReceiptInv'
  <1>1. /\ queue' = <<>> /\ stdin' = <<>> /\ stdout' = <<>> /\ late' = <<>>
        /\ ledger' = {} /\ waiting' = None
    BY DEF Closed
  <1>2. UNCHANGED <<receipt, answeredBy, sentAs>>
    BY DEF receipts
  <1>3. None \notin {"initialize", "tools/list", "tools/call"}
    BY TransportConstants DEF RequestMethod
  <1>4. ChecksInv'
    <2>1. \A c \in Call : CheckShape(c)'
      BY <1>1, <1>2 DEF ReceiptInv, ChecksInv, CheckShape
    <2>2. CallShape'
      BY <1>1, <1>2, <1>3 DEF ReceiptInv, ChecksInv, CallShape
    <2>3. AnsweredOnce' /\ OwnAnswer'
      BY <1>2 DEF ReceiptInv, ChecksInv, AnsweredOnce, OwnAnswer
    <2> QED
      BY <1>1, <1>2, <2>1, <2>2, <2>3 DEF ReceiptInv, ChecksInv
  <1>5. InOnePlace'
    BY <1>1 DEF InOnePlace, Once, About
  <1>6. LinesShape'
    BY <1>1 DEF LinesShape
  <1> QED
    BY <1>4, <1>5, <1>6 DEF ReceiptInv

(* A run ends with its receipts.                                           *)
LEMMA ReleaseReceipts ==
  ASSUME Release
  PROVE  ReceiptInv'
  <1>1. (/\ queue = <<>> /\ stdin = <<>> /\ stdout = <<>> /\ late = <<>>
         /\ ledger = {} /\ waiting = None /\ call = 0 /\ NoReceipts)'
    BY DEF Release, Closed, NoReceipts
  <1> QED
    BY <1>1, NoCallsReceipts, PTL

(* Nothing of the transport moves.                                         *)
LEMMA ReceiptsStay ==
  ASSUME ReceiptInv, UNCHANGED transport
  PROVE  ReceiptInv'
  <1>1. ChecksInv' /\ Used' = Used
    BY ChecksStay DEF ReceiptInv, transport
  <1>2. InOnePlace'
    BY <1>1 DEF ReceiptInv, InOnePlace, transport
  <1>3. LinesShape'
    BY DEF ReceiptInv, LinesShape, TrueLine, TrueMessage, transport
  <1> QED
    BY <1>1, <1>2, <1>3 DEF ReceiptInv

(* Every step of a batch keeps what is known of the receipts.              *)
LEMMA NextReceipts ==
  ASSUME EvaluationInv, ReceiptInv, [Next]_vars
  PROVE  ReceiptInv'
  <1>0. TransportTypeOK /\ ChildShape
    BY DEF EvaluationInv, BatchTypeOK
  <1>1. CASE UNCHANGED transport
    BY <1>1, ReceiptsStay
  <1>2. CASE TransportStep
    BY <1>0, <1>2, HandleReceipts, NoiseReceipts, DrainReceipts,
       InitializeReceipts, ToolsReceipts, CallReceipts, GivenUpReceipts
    DEF TransportStep
  <1>3. CASE DispatchTool
    BY <1>0, <1>3, ForwardReceipts DEF DispatchTool
  <1>4. CASE Build
    BY <1>0, <1>4, StartReceipts DEF Build, ChildShape
  <1>5. CASE BuildFails
    BY <1>5, ClosedReceipts DEF BuildFails, ChildReady
  <1>6. CASE Release
    BY <1>6, ReleaseReceipts
  <1>7. CASE UNCHANGED vars \/ Preflight \/ StartScenario \/ ScenarioFails \/ ReadFails
               \/ Built \/ StartFails
    BY <1>1, <1>7
    DEF vars, Preflight, StartScenario, ScenarioFails, ReadFails, Built, StartFails
  <1>8. CASE (\E r \in Report : Conclude(r)) \/ CeilingStops \/ CheckRaised
               \/ Finalize \/ RunRaises \/ Score
    BY <1>1, <1>6, <1>8, Zenon
    DEF Conclude, CeilingStops, CheckRaised, Returns, Finalize, RunRaises, Score
  <1>9. CASE WriteRecord \/ WriteFails \/ Reset \/ ResetFails \/ OtherSpends
    BY <1>1, <1>9 DEF WriteRecord, WriteFails, Reset, ResetFails, OtherSpends
  <1>10. CASE MainSucceeds \/ MainFails \/ Kill
    BY <1>6, <1>10 DEF MainSucceeds, MainFails, Kill, Exits
  <1> QED
    BY <1>2, <1>3, <1>4, <1>5, <1>7, <1>8, <1>9, <1>10 DEF Next

(* What the transport leaves in the receipts can be believed, however      *)
(* often the child dies, prints, is late or is respawned: a receipt has    *)
(* its own check's observation, or that of an earlier check of the same    *)
(* number that was given up without it; the child's ledger refuses nothing *)
(* the parent has reserved, no check runs twice, and one that the          *)
(* transport calls unavailable has not run.                                *)
THEOREM ReceiptsCanBeBelieved == Spec => []ReceiptsTruthful
  <1>1. Init => ReceiptInv
    BY NoCallsReceipts DEF Init, TransportInit
  <1>2. EvaluationInv /\ ReceiptInv /\ [Next]_vars => ReceiptInv'
    BY NextReceipts
  <1>3. ReceiptInv => ReceiptsTruthful
    <2> SUFFICES ASSUME ReceiptInv PROVE ReceiptsTruthful
      OBVIOUS
    <2>1. OwnAnswer /\ ran \in [Call -> {0, 1}] /\ \A c \in Call : CheckShape(c)
      BY DEF ReceiptInv, ChecksInv
    <2>2. LedgersAgree
      BY <2>1 DEF LedgersAgree, CheckShape
    <2> QED
      BY <2>1, <2>2 DEF ReceiptsTruthful
  <1> QED
    BY <1>1, <1>2, <1>3, EvaluationInvariant, PTL DEF Spec


-----------------------------------------------------------------------------
(* The published figures.                                                  *)

(* Steps that write no report, record or summary.                          *)
LEMMA QuietScores ==
  ASSUME EvaluationInv, ScoreShape, UNCHANGED <<file, summary>>,
         \/ UNCHANGED <<stage, report, record>>
         \/ stage' \notin {"returned", "finalized", "scored"}
  PROVE  ScoreShape'
  BY DEF ScoreShape, HonestRecord

LEMMA QuietSteps ==
  ASSUME EvaluationInv, ScoreShape,
         \/ UNCHANGED vars
         \/ Preflight \/ StartScenario \/ ScenarioFails \/ ReadFails \/ Build \/ Built
         \/ BuildFails \/ StartFails \/ DispatchTool
         \/ TransportStep /\ UNCHANGED loop
         \/ RunRaises \/ WriteFails \/ Reset \/ ResetFails
         \/ MainFails \/ Kill \/ OtherSpends
  PROVE  ScoreShape'
  <1>1. CASE UNCHANGED vars \/ (TransportStep /\ UNCHANGED loop) \/ DispatchTool
    <2>1. UNCHANGED <<file, summary, stage, report, record>>
      BY <1>1, Zenon DEF vars, loop, DispatchTool
    <2> QED
      BY <2>1, QuietScores
  <1>2. CASE Preflight \/ StartScenario \/ ScenarioFails \/ ReadFails \/ Reset \/ ResetFails
    <2>1. UNCHANGED <<file, summary>>
      BY <1>2, Zenon DEF Preflight, StartScenario, ScenarioFails, ReadFails, Reset,
                         ResetFails, disk
    <2>2. stage' \notin {"returned", "finalized", "scored"}
      BY <1>2 DEF Preflight, StartScenario, ScenarioFails, ReadFails, Reset, ResetFails
    <2> QED
      BY <2>1, <2>2, QuietScores
  <1>3. CASE Build \/ Built \/ BuildFails \/ StartFails \/ RunRaises \/ WriteFails
    <2>1. UNCHANGED <<file, summary>>
      BY <1>3, Zenon DEF Build, Built, BuildFails, StartFails, RunRaises,
                         WriteFails, disk
    <2>2. stage' \notin {"returned", "finalized", "scored"}
      BY <1>3 DEF Build, Built, BuildFails, StartFails, RunRaises, WriteFails
    <2> QED
      BY <2>1, <2>2, QuietScores
  <1>4. CASE MainFails \/ Kill
    <2>1. UNCHANGED <<file, summary>> /\ stage' = "exited"
      BY <1>4, Zenon DEF MainFails, Kill, Exits
    <2> QED
      BY <2>1, QuietScores
  <1>5. CASE OtherSpends
    <2>1. UNCHANGED <<file, summary, stage, report, record>>
      BY <1>5, Zenon DEF OtherSpends, disk
    <2> QED
      BY <2>1, QuietScores
  <1> QED
    BY <1>1, <1>2, <1>3, <1>4, <1>5

(* The graph returns a report with a reason only where it failed safe.     *)
LEMMA ReturnScores ==
  ASSUME EvaluationInv, ScoreShape, NEW r, Returns(r),
         r.reason # None => r.disposition = "FAILED_SAFE"
  PROVE  ScoreShape'
  <1>1. report' = r /\ stage' = "returned"
    BY DEF Returns
  <1>2. UNCHANGED <<file, summary>>
    BY Zenon DEF Returns, disk
  <1> QED
    BY <1>1, <1>2 DEF ScoreShape, HonestRecord

LEMMA ReportSteps ==
  ASSUME EvaluationInv, ScoreShape,
         (\E r \in Report : Conclude(r)) \/ CeilingStops \/ CheckRaised
  PROVE  ScoreShape'
  <1>1. ASSUME NEW r \in Report, Conclude(r) PROVE ScoreShape'
    <2>1. Returns(r)
      BY <1>1 DEF Conclude
    <2>2. r.reason # None => r.disposition = "FAILED_SAFE"
      BY EvaluationConstants
    <2> QED
      BY <2>1, <2>2, ReturnScores
  <1>2. ASSUME NEW why, Returns(Failed(why)) PROVE ScoreShape'
    <2>1. Failed(why).disposition = "FAILED_SAFE"
      BY DEF Failed
    <2> QED
      BY <1>2, <2>1, ReturnScores
  <1>3. CASE CeilingStops
    BY <1>2, <1>3 DEF CeilingStops
  <1>4. CASE CheckRaised
    BY <1>2, <1>4 DEF CheckRaised
  <1> QED
    BY <1>1, <1>3, <1>4

(* A failed-safe report is no diagnosis; citations count where asked for.  *)
LEMMA ScoreScores ==
  ASSUME EvaluationInv, ScoreShape, Finalize \/ Score
  PROVE  ScoreShape'
  <1>1. CASE Finalize
    <2>1. /\ stage = "returned" /\ stage' = "finalized"
          /\ UNCHANGED <<report, file, summary>>
      BY <1>1, Zenon DEF Finalize
    <2> QED
      BY <2>1 DEF ScoreShape, HonestRecord
  <1>2. CASE Score
    <2>1. /\ stage = "finalized" /\ stage' = "scored"
          /\ record' = ScoreRun(run, report)
      BY <1>2 DEF Score
    <2>2. UNCHANGED <<file, summary>>
      BY <1>2, Zenon DEF Score, disk
    <2>3. /\ record'.run = run /\ record'.reason = report.reason
          /\ record'.diagnosed = DiagnosisCorrect(run, report)
          /\ record'.sufficient = Sufficient(run, report)
      BY <2>1 DEF ScoreRun
    <2>4. record'.diagnosed => record'.reason = None
      BY <2>1, <2>3 DEF ScoreShape, DiagnosisCorrect
    <2>5. record'.sufficient = "yes" => IncidentOf(record'.run) \in Predicated
      BY <2>3 DEF Sufficient
    <2>6. HonestRecord(record)'
      BY <2>4, <2>5 DEF HonestRecord
    <2>7. (\A n \in DOMAIN file : HonestRecord(file[n]))'
      BY <2>2 DEF ScoreShape, HonestRecord
    <2> QED
      BY <2>1, <2>2, <2>6, <2>7 DEF ScoreShape
  <1> QED
    BY <1>1, <1>2

LEMMA WriteScores ==
  ASSUME EvaluationInv, ScoreShape, WriteRecord
  PROVE  ScoreShape'
  <1>1. /\ stage = "scored" /\ file' = Append(file, record)
        /\ stage' \in {"reset", "build"} /\ summary' = summary
    BY DEF WriteRecord
  <1>2. file \in Seq(Record) /\ record \in Record /\ summary = None
    BY <1>1 DEF EvaluationInv, BatchTypeOK, EndShape
  <1>3. \A n \in DOMAIN file' : \/ n \in DOMAIN file /\ file'[n] = file[n]
                                \/ file'[n] = record
    BY <1>1, <1>2
  <1>4. \A n \in DOMAIN file' : HonestRecord(file'[n])
    BY <1>1, <1>3, Zenon DEF ScoreShape
  <1> QED
    BY <1>1, <1>2, <1>4 DEF ScoreShape, HonestRecord

LEMMA SummaryScores ==
  ASSUME EvaluationInv, ScoreShape, MainSucceeds
  PROVE  ScoreShape'
  <1>1. /\ stage = "out" /\ failure = None
        /\ summary' = SummarizePaired(ToSet(file))
        /\ file' = file /\ stage' = "exited"
    BY Zenon DEF MainSucceeds, Exits
  <1>2. Len(file) = Runs
    BY <1>1 DEF EvaluationInv, FileShape
  <1>3. summary' = SummarizePaired(ToSet(file))'
    BY <1>1 DEF SummarizePaired, SummaryOf, GroupKey, IncidentOf, ToSet
  <1>4. (\A n \in DOMAIN file : HonestRecord(file[n]))'
    BY <1>1 DEF ScoreShape, HonestRecord
  <1> QED
    BY <1>1, <1>2, <1>3, <1>4 DEF ScoreShape, Runs

LEMMA NextScores == EvaluationInv /\ ScoreShape /\ [Next]_vars => ScoreShape'
  <1> SUFFICES ASSUME EvaluationInv, ScoreShape, [Next]_vars PROVE ScoreShape'
    OBVIOUS
  <1> QED
    BY QuietSteps, ReportSteps, ScoreScores, WriteScores, SummaryScores DEF Next

(* Counting records is counting their runs: no record is twice on file.    *)
LEMMA RecordsAreRuns ==
  ASSUME EvaluationInv, NEW N \in SUBSET (DOMAIN file), NEW R,
         R = {file[n] : n \in N}
  PROVE  /\ IsFiniteSet(N) /\ IsFiniteSet(R)
         /\ Cardinality(R) = Cardinality(N) /\ Cardinality(N) \in Nat
  <1>1. /\ file \in Seq(Record) /\ Len(file) \in Nat
        /\ DOMAIN file = 1..Len(file)
        /\ \A n \in DOMAIN file : file[n].run = n
    BY DEF EvaluationInv, BatchTypeOK, FileShape
  <1>2. IsFiniteSet(N)
    <2>1. IsFiniteSet(1..Len(file))
      BY <1>1, FS_Interval
    <2>2. N \in SUBSET (1..Len(file))
      BY <1>1
    <2> QED
      BY <2>1, <2>2, FS_Subset
  <1> DEFINE f == [n \in N |-> file[n]]
  <1>3. f \in [N -> R] /\ \A a, b \in N : f[a] = f[b] => a = b
    BY <1>1
  <1>4. \A r \in R : \E n \in N : f[n] = r
    OBVIOUS
  <1> HIDE DEF f
  <1>5. f \in Bijection(N, R)
    BY <1>3, <1>4 DEF Bijection, Injection, Surjection, IsInjective
  <1>6. ExistsBijection(N, R)
    BY <1>5 DEF ExistsBijection
  <1> QED
    BY <1>2, <1>6, FS_Bijection, FS_CardinalityType

(* The figures of one group, from the honesty of its records.              *)
LEMMA GroupHonest ==
  ASSUME EvaluationInv, ScoreShape, NEW k,
         NEW M, M = {n \in DOMAIN file : file[n].arm = k[1]
                                        /\ file[n].retrieval = k[2]},
         NEW G, G = {file[n] : n \in M}
  PROVE  /\ SummaryOf(G).total = Cardinality(M)
         /\ SummaryOf(G).grounded <= SummaryOf(G).sufficient
         /\ SummaryOf(G).sufficient <= SummaryOf(G).applicable
         /\ SummaryOf(G).correct
              <= Cardinality({n \in M : file[n].reason = None})
  <1>1. M \in SUBSET (DOMAIN file)
    OBVIOUS
  <1>2. IsFiniteSet(G) /\ Cardinality(G) = Cardinality(M)
    BY <1>1, RecordsAreRuns
  <1>3. \A n \in M : HonestRecord(file[n])
    BY DEF ScoreShape
  <1>4. PICK right, enough, both, asked :
           /\ right = {r \in G : r.diagnosed}
           /\ enough = {r \in G : r.sufficient = "yes"}
           /\ both = {r \in G : r.diagnosed /\ r.sufficient = "yes"}
           /\ asked = {r \in G : IncidentOf(r.run) \in Predicated}
    OBVIOUS
  <1>5. /\ SummaryOf(G).total = Cardinality(G)
        /\ SummaryOf(G).correct = Cardinality(right)
        /\ SummaryOf(G).sufficient = Cardinality(enough)
        /\ SummaryOf(G).grounded = Cardinality(both)
        /\ SummaryOf(G).applicable = Cardinality(asked)
    BY <1>4 DEF SummaryOf
  <1>6. both \subseteq enough /\ enough \subseteq asked /\ asked \subseteq G
    BY <1>3, <1>4 DEF HonestRecord
  <1>7. IsFiniteSet(enough) /\ IsFiniteSet(asked)
    BY <1>2, <1>6, FS_Subset
  <1>8. /\ Cardinality(both) <= Cardinality(enough)
        /\ Cardinality(enough) <= Cardinality(asked)
    BY <1>6, <1>7, FS_Subset
  <1>9. Cardinality(right) <= Cardinality({n \in M : file[n].reason = None})
    <2>1. PICK N \in SUBSET (DOMAIN file), C \in SUBSET (DOMAIN file) :
             /\ N = {n \in M : file[n].diagnosed}
             /\ C = {n \in M : file[n].reason = None}
      BY <1>1
    <2>2. right = {file[n] : n \in N}
      BY <1>4, <2>1
    <2>3. N \subseteq C
      BY <1>3, <2>1 DEF HonestRecord
    <2>4. Cardinality(right) = Cardinality(N)
      BY <2>2, RecordsAreRuns
    <2>5. IsFiniteSet(C)
      BY RecordsAreRuns
    <2>6. Cardinality(N) <= Cardinality(C)
      BY <2>3, <2>5, FS_Subset
    <2> QED
      BY <2>1, <2>4, <2>6
  <1> QED
    BY <1>2, <1>5, <1>8, <1>9

(* The published figures are of the whole corpus, each record in one group,*)
(* and no failed run counts as a correct diagnosis.                        *)
THEOREM FiguresAreHonest == Spec => []SummaryHonest
  <1>1. Init => ScoreShape
    BY DEF Init, ScoreShape
  <1>2. EvaluationInv /\ ScoreShape => SummaryHonest
    <2> SUFFICES ASSUME EvaluationInv, ScoreShape, summary # None
                 PROVE  SummaryHonest
      BY DEF SummaryHonest
    <2>1. Len(file) = Runs /\ summary = SummarizePaired(ToSet(file))
      BY DEF ScoreShape
    <2>2. PICK recs : recs = ToSet(file) /\ recs = {file[n] : n \in DOMAIN file}
      BY DEF ToSet
    <2>3. /\ DOMAIN summary = {GroupKey(r) : r \in recs}
          /\ \A k \in DOMAIN summary :
                summary[k] = SummaryOf({r \in recs : GroupKey(r) = k})
      BY <2>1, <2>2 DEF SummarizePaired
    <2>4. \A n \in DOMAIN file :
             <<file[n].arm, file[n].retrieval>> \in DOMAIN summary
      BY <2>2, <2>3 DEF GroupKey
    <2>5. ASSUME NEW k \in DOMAIN summary,
                 NEW M, M = {n \in DOMAIN file : file[n].arm = k[1]
                                                 /\ file[n].retrieval = k[2]}
          PROVE  /\ summary[k].total = Cardinality(M)
                 /\ summary[k].grounded <= summary[k].sufficient
                 /\ summary[k].sufficient <= summary[k].applicable
                 /\ summary[k].correct
                      <= Cardinality({n \in M : file[n].reason = None})
      <3>1. PICK r \in recs : k = <<r.arm, r.retrieval>>
        BY <2>3, <2>5 DEF GroupKey
      <3>2. PICK G : G = {file[n] : n \in M}
        OBVIOUS
      <3>3. G = {s \in recs : GroupKey(s) = k}
        BY <2>2, <2>5, <3>1, <3>2 DEF GroupKey
      <3>4. summary[k] = SummaryOf(G)
        BY <2>3, <3>3, Zenon
      <3> QED
        BY <2>5, <3>2, <3>4, GroupHonest
    <2> QED
      BY <2>1, <2>4, <2>5 DEF SummaryHonest
  <1> QED
    BY <1>1, <1>2, NextScores, EvaluationInvariant, PTL DEF Spec
=============================================================================
