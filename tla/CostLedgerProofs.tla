-------------------------- MODULE CostLedgerProofs --------------------------
(***************************************************************************)
(* What the cost ledger guarantees for any number of processes, runs and   *)
(* requests and any prices: no request reaches the provider twice, a run   *)
(* reported as fully settled reports its real cost, and what is charged in *)
(* all stays within the limit but for the estimation errors of the         *)
(* processes sending and of the answers lost.                              *)
(***************************************************************************)
EXTENDS CostLedger, FiniteSetTheorems, WellFoundedInduction, TLAPS

(* An empty ledger satisfies the invariant.                                *)
LEMMA InitInv == Init => CostInv
  BY CostConstants DEF Init, CostInv, TypeOK, SendShape, NeverResent

(* A reservation is only inserted where there was no row.                 *)
LEMMA ReserveInv ==
  ASSUME CostInv, NEW p \in Process, NEW k \in Request, NEW usd \in Price,
         Reserve(p, k, usd)
  PROVE  CostInv'
  <1> USE CostConstants DEF CostInv, TypeOK, SendShape, ledgerVars, processVars,
                            providerVars, Reserve
  <1>1. TypeOK'
    OBVIOUS
  <1>2. SendShape'
    OBVIOUS
  <1>3. NeverResent'
    BY DEF NeverResent
  <1> QED
    BY <1>1, <1>2, <1>3

(* An answer is the first and only send of its request.                   *)
LEMMA AnswerInv ==
  ASSUME CostInv, NEW p \in Process, NEW bill \in Bill(p),
         Answer(p, bill)
  PROVE  CostInv'
  <1> USE CostConstants DEF CostInv, TypeOK, SendShape, ledgerVars, processVars,
                            providerVars, Answer, Charge, Bill
  <1>1. TypeOK'
    OBVIOUS
  <1>2. SendShape'
    OBVIOUS
  <1>3. NeverResent'
    BY DEF NeverResent
  <1> QED
    BY <1>1, <1>2, <1>3

(* A lost answer leaves the row RESERVED, which blocks a second send.     *)
LEMMA LoseAnswerInv ==
  ASSUME CostInv, NEW p \in Process, NEW bill \in Bill(p),
         LoseAnswer(p, bill)
  PROVE  CostInv'
  <1> USE CostConstants DEF CostInv, TypeOK, SendShape, ledgerVars, processVars,
                            providerVars, LoseAnswer, Charge, Bill
  <1>1. TypeOK'
    OBVIOUS
  <1>2. SendShape'
    OBVIOUS
  <1>3. NeverResent'
    BY DEF NeverResent
  <1> QED
    BY <1>1, <1>2, <1>3

(* Settlement records the charge of the one send.                         *)
LEMMA SettleInv ==
  ASSUME CostInv, NEW p \in Process,
         Settle(p)
  PROVE  CostInv'
  <1> USE CostConstants DEF CostInv, TypeOK, SendShape, ledgerVars, processVars,
                            providerVars, Settle
  <1>1. TypeOK'
    OBVIOUS
  <1>2. SendShape'
    OBVIOUS
  <1>3. NeverResent'
    BY DEF NeverResent
  <1> QED
    BY <1>1, <1>2, <1>3

(* A crash forgets the request; its row stays.                            *)
LEMMA CrashInv ==
  ASSUME CostInv, NEW p \in Process,
         Crash(p)
  PROVE  CostInv'
  <1> USE CostConstants DEF CostInv, TypeOK, SendShape, ledgerVars, processVars,
                            providerVars, Crash
  <1>1. TypeOK'
    OBVIOUS
  <1>2. SendShape'
    OBVIOUS
  <1>3. NeverResent'
    BY DEF NeverResent
  <1> QED
    BY <1>1, <1>2, <1>3

(* Every step keeps the invariant, one case per step of _send.             *)
LEMMA StepInv == CostInv /\ [Next]_vars => CostInv'
  <1> SUFFICES ASSUME CostInv, [Next]_vars PROVE CostInv'
    OBVIOUS
  <1>1. CASE UNCHANGED vars
    BY <1>1 DEF vars, CostInv, TypeOK, SendShape, NeverResent
  <1>2. ASSUME NEW p \in Process, NEW k \in Request, NEW usd \in Price,
               Reserve(p, k, usd)
        PROVE  CostInv'
    BY <1>2, ReserveInv
  <1>3. ASSUME NEW p \in Process, NEW bill \in Bill(p),
               Answer(p, bill) \/ LoseAnswer(p, bill)
        PROVE  CostInv'
    BY <1>3, AnswerInv, LoseAnswerInv
  <1>4. ASSUME NEW p \in Process, Settle(p) \/ Crash(p)
        PROVE  CostInv'
    BY <1>4, SettleInv, CrashInv
  <1> QED
    BY <1>1, <1>2, <1>3, <1>4 DEF Next

(* The inductive invariant holds in every reachable state.                 *)
THEOREM CostInvariant == Spec => []CostInv
  <1> QED
    BY InitInv, StepInv, PTL DEF Spec

(* No request key is ever sent to the provider twice.                      *)
THEOREM NoSecondSend == Spec => []NeverResent
  <1>1. CostInv => NeverResent
    BY DEF CostInv
  <1> QED
    BY <1>1, CostInvariant, PTL

(* A fully settled run reports what the provider charged for it.  Once all *)
(* rows of the run are SETTLED, the rows are exactly the requests that     *)
(* were sent and each holds its charge, so both sums add the same numbers. *)
THEOREM SettledRunsReportRealCost == Spec => []ReportedCostIsReal
  <1>1. CostInv => ReportedCostIsReal
    <2> SUFFICES ASSUME CostInv, NEW r \in Run, FullySettled(r)
                 PROVE  ActualTotal(r)
                          = SumFunctionOnSet([k \in SentFor(r) |-> billed[k]],
                                             SentFor(r))
      BY DEF ReportedCostIsReal
    <2>1. RowsOf(r) = SentFor(r)
      BY DEF CostInv, TypeOK, SendShape, FullySettled, RowsOf, SentFor
    <2>2. \A k \in RowsOf(r) : actual[k] = billed[k]
      BY DEF CostInv, SendShape, FullySettled, RowsOf
    <2>3. [k \in RowsOf(r) |-> actual[k]] = [k \in SentFor(r) |-> billed[k]]
      BY <2>1, <2>2
    <2> QED
      BY <2>1, <2>3 DEF ActualTotal
  <1> QED
    BY <1>1, CostInvariant, PTL

-----------------------------------------------------------------------------
(* Sums over a finite table.  A step of the fold takes one element out; h  *)
(* gives the sum of f over each set of D.                                  *)

Pick(s) == CHOOSE x \in s : TRUE

IsSum(h, f, D) ==
  h = [s \in D |-> IF s = {} THEN 0 ELSE f[Pick(s)] + h[s \ {Pick(s)}]]

(* A non-empty set of subsets of a finite set has a smallest one: the      *)
(* induction that the lemmas below rest on.                                *)
LEMMA SmallestSubset ==
  ASSUME NEW S, IsFiniteSet(S), NEW T, T \subseteq SUBSET S, T # {}
  PROVE  \E x \in T : \A y \in T : y \subseteq x => y = x
  <1>1. IsWellFoundedOn(StrictSubsetOrdering(S), SUBSET S)
    BY FS_StrictSubsetOrderingWellFounded, FS_FiniteSubsetsOfFinite
  <1>2. PICK x \in T : \A y \in T : ~(<<y, x>> \in StrictSubsetOrdering(S))
    BY <1>1, WFMin
  <1>3. ASSUME NEW y \in T, y \subseteq x, y # x PROVE FALSE
    <2>1. <<y, x>> \in (SUBSET S) \X (SUBSET S)
      OBVIOUS
    <2> QED
      BY <1>2, <1>3, <2>1 DEF StrictSubsetOrdering
  <1> QED
    BY <1>3

(* A set that is not empty has an element to take out.                     *)
LEMMA PickIn == ASSUME NEW s, s # {} PROVE Pick(s) \in s
  BY DEF Pick

(* The recursion has a solution: among the sets it is not solved on, with  *)
(* those left closed under taking out, a smallest one could be made        *)
(* smaller.                                                                *)
LEMMA SumExists ==
  ASSUME NEW S, IsFiniteSet(S), NEW f
  PROVE  \E h : IsSum(h, f, SUBSET S)
  <1> DEFINE T == {C \in SUBSET (SUBSET S) :
                     /\ \A s \in (SUBSET S) \ C : s # {} => s \ {Pick(s)} \notin C
                     /\ \E h : IsSum(h, f, (SUBSET S) \ C)}
  <1>1. IsFiniteSet(SUBSET S)
    BY FS_SUBSET
  <1>2. SUBSET S \in T
    <2>1. PICK h : h = [s \in {} |-> 0]
      OBVIOUS
    <2>2. IsSum(h, f, {})
      BY <2>1 DEF IsSum
    <2>3. (SUBSET S) \ (SUBSET S) = {}
      OBVIOUS
    <2> QED
      BY <2>2, <2>3, Zenon
  <1>3. PICK C \in T : \A D \in T : D \subseteq C => D = C
    <2> HIDE DEF T
    <2>1. T \subseteq SUBSET (SUBSET S)
      BY DEF T
    <2> QED
      BY <1>1, <1>2, <2>1, SmallestSubset
  <1>4. CASE C = {}
    <2>1. PICK h : IsSum(h, f, (SUBSET S) \ C)
      BY <1>3
    <2>2. (SUBSET S) \ C = SUBSET S
      BY <1>4
    <2> QED
      BY <2>1, <2>2
  <1>5. CASE C # {}
    <2>1. PICK t \in C : \A u \in C : u \subseteq t => u = t
      <3>1. C \subseteq SUBSET S
        BY <1>3
      <3> QED
        BY <1>5, <3>1, SmallestSubset
    <2>2. t # {} => t \ {Pick(t)} \notin C /\ t \ {Pick(t)} \in SUBSET S
          /\ t \ {Pick(t)} # t
      <3> SUFFICES ASSUME t # {} PROVE t \ {Pick(t)} \notin C /\ t \ {Pick(t)} \in SUBSET S
                                       /\ t \ {Pick(t)} # t
        OBVIOUS
      <3>1. Pick(t) \in t
        BY PickIn
      <3>2. t \ {Pick(t)} \subseteq t /\ t \ {Pick(t)} # t
        BY <3>1
      <3>3. t \subseteq S
        BY <1>3, <2>1
      <3> QED
        BY <2>1, <3>2, <3>3
    <2>3. PICK h : IsSum(h, f, (SUBSET S) \ C)
      BY <1>3
    <2> DEFINE D == C \ {t}
               A == (SUBSET S) \ C
               v == IF t = {} THEN 0 ELSE f[Pick(t)] + h[t \ {Pick(t)}]
               g == [s \in A \cup {t} |-> IF s = t THEN v ELSE h[s]]
    <2>4. (SUBSET S) \ D = A \cup {t} /\ t \notin A
      BY <1>3, <2>1
    <2>5. \A s \in A : s # {} => s \ {Pick(s)} \in A
      <3> SUFFICES ASSUME NEW s \in A, s # {} PROVE s \ {Pick(s)} \in A
        OBVIOUS
      <3>1. s \ {Pick(s)} \notin C
        BY <1>3
      <3>2. s \ {Pick(s)} \subseteq S
        OBVIOUS
      <3> QED
        BY <3>1, <3>2
    <2>6. IsSum(g, f, A \cup {t})
      <3>1. ASSUME NEW s \in A \cup {t}
            PROVE  g[s] = IF s = {} THEN 0 ELSE f[Pick(s)] + g[s \ {Pick(s)}]
        <4>1. CASE s = t
          <5>1. CASE t = {}
            BY <4>1, <5>1
          <5>2. CASE t # {}
            <6>1. t \ {Pick(t)} \in A /\ t \ {Pick(t)} # t
              BY <2>2, <5>2
            <6>2. g[t \ {Pick(t)}] = h[t \ {Pick(t)}]
              BY <6>1
            <6>3. g[t] = v
              OBVIOUS
            <6> QED
              BY <4>1, <5>2, <6>2, <6>3
          <5> QED
            BY <5>1, <5>2
        <4>2. CASE s # t
          <5>1. s \in A /\ g[s] = h[s]
            BY <3>1, <4>2
          <5>2. h[s] = IF s = {} THEN 0 ELSE f[Pick(s)] + h[s \ {Pick(s)}]
            BY <2>3, <5>1 DEF IsSum
          <5>3. s # {} => g[s \ {Pick(s)}] = h[s \ {Pick(s)}]
            <6> SUFFICES ASSUME s # {} PROVE g[s \ {Pick(s)}] = h[s \ {Pick(s)}]
              OBVIOUS
            <6>1. s \ {Pick(s)} \in A
              BY <2>5, <5>1
            <6> QED
              BY <2>4, <6>1
          <5> QED
            BY <5>1, <5>2, <5>3
        <4> QED
          BY <4>1, <4>2
      <3> HIDE DEF v
      <3>2. g = [s \in A \cup {t} |-> g[s]]
        OBVIOUS
      <3> HIDE DEF g
      <3> QED
        BY <3>1, <3>2 DEF IsSum
    <2>7. D \in T
      <3>1. ASSUME NEW s \in (SUBSET S) \ D, s # {} PROVE s \ {Pick(s)} \notin D
        BY <2>2, <2>4, <2>5, <3>1
      <3>2. \E hh : IsSum(hh, f, (SUBSET S) \ D)
        BY <2>4, <2>6
      <3>3. D \in SUBSET (SUBSET S)
        BY <1>3
      <3> QED
        BY <3>1, <3>2, <3>3, Zenon
    <2>8. D \subseteq C /\ D # C
      BY <2>1
    <2> QED
      BY <1>3, <2>7, <2>8
  <1> QED
    BY <1>4, <1>5

(* The sum of the library is that solution.                                *)
LEMMA SumIs ==
  ASSUME NEW S, IsFiniteSet(S), NEW f
  PROVE  \E h : IsSum(h, f, SUBSET S) /\ SumFunctionOnSet(f, S) = h[S]
  <1> DEFINE iter == CHOOSE h : IsSum(h, f, SUBSET S)
  <1>1. SumFunctionOnSet(f, S) = iter[S]
    BY Zenon
    DEF SumFunctionOnSet, FoldFunctionOnSet, MapThenFoldSet, IsSum, Pick
  <1>2. IsSum(iter, f, SUBSET S)
    BY SumExists, Zenon
  <1> QED
    BY <1>1, <1>2

(* One sum bounds another: where the terms may differ by m, each counts m. *)
LEMMA SumBound ==
  ASSUME NEW S, IsFiniteSet(S), NEW f \in [S -> Nat], NEW g \in [S -> Nat],
         NEW E \in SUBSET S, NEW m \in Nat,
         \A x \in S : f[x] <= g[x] \/ (x \in E /\ f[x] <= g[x] + m)
  PROVE  /\ SumFunctionOnSet(f, S) \in Nat /\ SumFunctionOnSet(g, S) \in Nat
         /\ SumFunctionOnSet(f, S)
              <= SumFunctionOnSet(g, S) + Cardinality(E) * m
  <1>1. PICK h : IsSum(h, f, SUBSET S) /\ SumFunctionOnSet(f, S) = h[S]
    BY SumIs
  <1>2. PICK i : IsSum(i, g, SUBSET S) /\ SumFunctionOnSet(g, S) = i[S]
    BY SumIs
  <1> DEFINE Bounded(s) == /\ h[s] \in Nat /\ i[s] \in Nat
                           /\ h[s] <= i[s] + Cardinality(E \cap s) * m
             Bad == {s \in SUBSET S : ~Bounded(s)}
  <1>3. ASSUME NEW s \in SUBSET S, s # {}, Bounded(s \ {Pick(s)})
        PROVE  Bounded(s)
    <2>1. PICK c \in S : c = Pick(s) /\ c \in s
      BY <1>3, PickIn
    <2>2. PICK u \in SUBSET S : u = s \ {c}
      OBVIOUS
    <2>3. h[s] = f[c] + h[u] /\ i[s] = g[c] + i[u]
      BY <1>1, <1>2, <1>3, <2>1, <2>2 DEF IsSum
    <2>4. /\ f[c] \in Nat /\ g[c] \in Nat /\ h[u] \in Nat /\ i[u] \in Nat
          /\ h[u] <= i[u] + Cardinality(E \cap u) * m
      BY <1>3, <2>1, <2>2
    <2>5. IsFiniteSet(E \cap u) /\ Cardinality(E \cap u) \in Nat
      <3>1. E \cap u \subseteq S
        OBVIOUS
      <3>2. IsFiniteSet(E \cap u)
        BY <3>1, FS_Subset
      <3> QED
        BY <3>2, FS_CardinalityType
    <2>6. CASE c \in E
      <3>1. E \cap s = (E \cap u) \cup {c} /\ c \notin E \cap u
        BY <2>1, <2>2, <2>6
      <3>2. Cardinality(E \cap s) = Cardinality(E \cap u) + 1
        BY <2>5, <3>1, FS_AddElement
      <3>3. PICK n \in Nat : n = Cardinality(E \cap u)
        BY <2>5
      <3>4. (n + 1) * m = n * m + m /\ n * m \in Nat
        OBVIOUS
      <3>5. f[c] <= g[c] + m
        BY <2>4
      <3> QED
        BY <2>3, <2>4, <3>2, <3>3, <3>4, <3>5
    <2>7. CASE c \notin E
      <3>1. E \cap s = E \cap u
        BY <2>1, <2>2, <2>7
      <3>2. f[c] <= g[c]
        BY <2>7
      <3>3. PICK w \in Nat : w = Cardinality(E \cap u) * m
        BY <2>5
      <3>4. h[u] <= i[u] + w
        BY <2>4, <3>3
      <3>5. h[s] \in Nat /\ i[s] \in Nat /\ h[s] <= i[s] + w
        BY <2>3, <2>4, <3>2, <3>4
      <3>6. Cardinality(E \cap s) * m = w
        BY <3>1, <3>3, Zenon
      <3> QED
        BY <3>5, <3>6, Zenon
    <2> QED
      BY <2>6, <2>7
  <1>4. Bounded({})
    <2>1. h[{}] = 0 /\ i[{}] = 0
      BY <1>1, <1>2 DEF IsSum
    <2>2. E \cap {} = {} /\ Cardinality({}) = 0
      BY FS_EmptySet
    <2> QED
      BY <2>1, <2>2
  <1>5. Bad = {}
    <2> SUFFICES ASSUME Bad # {} PROVE FALSE
      OBVIOUS
    <2>1. PICK t \in Bad : \A u \in Bad : u \subseteq t => u = t
      <3> HIDE DEF Bad
      <3>1. Bad \subseteq SUBSET S
        BY DEF Bad
      <3> QED
        BY <3>1, SmallestSubset
    <2> HIDE DEF Bounded
    <2>2. t \in SUBSET S /\ ~Bounded(t)
      OBVIOUS
    <2>3. t # {}
      BY <1>4, <2>2
    <2>4. t \ {Pick(t)} \subseteq t /\ t \ {Pick(t)} # t
      BY <2>3, PickIn
    <2>5. t \ {Pick(t)} \in SUBSET S /\ t \ {Pick(t)} \notin Bad
      BY <2>1, <2>2, <2>4
    <2>6. Bounded(t \ {Pick(t)})
      BY <2>5
    <2> QED
      BY <1>3, <2>2, <2>3, <2>6
  <1>6. Bounded(S)
    <2> HIDE DEF Bounded
    <2> QED
      BY <1>5
  <1>7. E \cap S = E
    OBVIOUS
  <1> QED
    BY <1>1, <1>2, <1>6, <1>7

-----------------------------------------------------------------------------
(* Spend.                                                                  *)

(* The accounted total is a natural number, and grows with its rows.       *)
LEMMA AccountedGrows ==
  ASSUME TypeOK, TypeOK', NEW k \in Request, NEW m \in Nat,
         \A x \in Request : x # k => Counted(x)' = Counted(x),
         Counted(k)' <= Counted(k) + m
  PROVE  Accounted \in Nat /\ Accounted' \in Nat /\ Accounted' <= Accounted + m
  <1> DEFINE f == [x \in Request |-> Counted(x)']
             g == [x \in Request |-> Counted(x)]
  <1>1. /\ \A x \in Request : Counted(x) \in Nat
        /\ \A x \in Request : Counted(x)' \in Nat
    BY DEF TypeOK, Counted
  <1>2. PICK E \in SUBSET Request : E = {k}
    OBVIOUS
  <1>3. Cardinality(E) * m = m
    <2>1. Cardinality(E) = 1
      BY <1>2, FS_Singleton
    <2>2. 1 * m = m
      OBVIOUS
    <2> QED
      BY <2>1, <2>2, Zenon
  <1>4. f \in [Request -> Nat] /\ g \in [Request -> Nat]
    BY <1>1
  <1>5. \A x \in Request : f[x] <= g[x] \/ (x \in E /\ f[x] <= g[x] + m)
    <2> SUFFICES ASSUME NEW x \in Request
                 PROVE  f[x] <= g[x] \/ (x \in E /\ f[x] <= g[x] + m)
      OBVIOUS
    <2>1. f[x] = Counted(x)' /\ g[x] = Counted(x)
      OBVIOUS
    <2>2. CASE x = k
      BY <1>2, <2>1, <2>2
    <2>3. CASE x # k
      BY <1>1, <2>1, <2>3
    <2> QED
      BY <2>2, <2>3
  <1>6. Accounted' = SumFunctionOnSet(f, Request)
        /\ Accounted = SumFunctionOnSet(g, Request)
    BY DEF Accounted
  <1> HIDE DEF f, g
  <1>7. /\ SumFunctionOnSet(f, Request) \in Nat
        /\ SumFunctionOnSet(g, Request) \in Nat
        /\ SumFunctionOnSet(f, Request)
             <= SumFunctionOnSet(g, Request) + Cardinality(E) * m
    BY <1>4, <1>5, CostConstants, SumBound
  <1> QED
    BY <1>3, <1>6, <1>7

LEMMA AccountedIsNat ==
  ASSUME TypeOK
  PROVE  Accounted \in Nat
  <1> DEFINE g == [x \in Request |-> Counted(x)]
  <1>1. g \in [Request -> Nat]
    BY DEF TypeOK, Counted
  <1>2. {} \in SUBSET Request /\ 0 \in Nat
    OBVIOUS
  <1>3. \A x \in Request : g[x] <= g[x] \/ (x \in {} /\ g[x] <= g[x] + 0)
    BY <1>1
  <1>4. Accounted = SumFunctionOnSet(g, Request)
    BY DEF Accounted
  <1> HIDE DEF g
  <1> QED
    BY <1>1, <1>2, <1>3, <1>4, CostConstants, SumBound

(* How many processes may still settle.                                    *)
LEMMA SendingFinite ==
  /\ IsFiniteSet(Process) /\ Cardinality(Process) \in Nat
  /\ IsFiniteSet(Sending) /\ Cardinality(Sending) \in Nat
  /\ Cardinality(Sending) <= Cardinality(Process)
  <1>1. IsFiniteSet(Process)
    BY CostConstants
  <1>2. Sending \subseteq Process
    BY DEF Sending
  <1> QED
    BY <1>1, <1>2, FS_Subset, FS_CardinalityType

(* A reservation is authorised within the limit.                           *)
LEMMA ReserveSpend ==
  ASSUME CostInv, CostInv', SpendShape, NEW p \in Process, NEW k \in Request,
         NEW usd \in Price, Reserve(p, k, usd)
  PROVE  SpendShape'
  <1>0. TypeOK /\ TypeOK' /\ usd \in Nat
    BY CostConstants DEF CostInv
  <1>1. /\ phase[p] = "idle" /\ rowState[k] = "NONE" /\ usd <= Limit - Accounted
        /\ rowState' = [rowState EXCEPT ![k] = "RESERVED"]
        /\ reserved' = [reserved EXCEPT ![k] = usd]
        /\ phase' = [phase EXCEPT ![p] = "reserved"]
        /\ current' = [current EXCEPT ![p] = k]
        /\ UNCHANGED <<actual, sends, billed>>
    BY DEF Reserve, providerVars
  <1>2. /\ \A x \in Request : x # k => Counted(x)' = Counted(x)
        /\ Counted(k)' <= Counted(k) + usd
    BY <1>0, <1>1 DEF TypeOK, Counted, SpendShape
  <1>3. Accounted \in Nat /\ Accounted' \in Nat /\ Accounted' <= Accounted + usd
    BY <1>0, <1>2, AccountedGrows
  <1>4. Limit \in Int
    BY CostConstants DEF Limit
  <1>5. Accounted' <= Limit
    BY <1>0, <1>1, <1>3, <1>4
  <1>6. Cardinality(Sending') <= Cardinality(Process)
        /\ Cardinality(Sending') \in Nat /\ Cardinality(Process) \in Nat
    <2>1. Sending' \subseteq Process /\ IsFiniteSet(Process)
      BY CostConstants DEF Sending
    <2> QED
      BY <2>1, FS_Subset, FS_CardinalityType
  <1>7. Accounted' + Cardinality(Sending') * MaxError
          <= Limit + Cardinality(Process) * MaxError
    <2>1. ASSUME NEW a \in Nat, NEW b \in Nat, NEW m \in Nat, a <= b
          PROVE  a * m <= b * m /\ a * m \in Nat /\ b * m \in Nat
      BY <2>1
    <2>2. MaxError \in Nat
      BY CostConstants
    <2>3. PICK s \in Nat, t \in Nat :
             /\ s = Cardinality(Sending') * MaxError
             /\ t = Cardinality(Process) * MaxError /\ s <= t
      BY <1>6, <2>1, <2>2
    <2> QED
      BY <1>3, <1>4, <1>5, <2>3
  <1>8. \A q \in Process : phase'[q] = "idle" => current'[q] = Nobody
    BY <1>0, <1>1 DEF SpendShape, TypeOK
  <1>9. ASSUME NEW x \in Request
        PROVE  /\ rowState'[x] = "NONE" => reserved'[x] = 0
               /\ sends'[x] = 0 => billed'[x] = 0
               /\ billed'[x] <= reserved'[x] + MaxError
    <2>1. CASE x # k
      BY <1>1, <2>1 DEF SpendShape
    <2>2. CASE x = k
      <3>1. sends[k] = 0 /\ billed[k] = 0
        BY <1>1 DEF CostInv, SendShape, SpendShape
      <3> QED
        BY <1>0, <1>1, <2>2, <3>1, CostConstants DEF TypeOK
    <2> QED
      BY <2>1, <2>2
  <1> QED
    BY <1>7, <1>8, <1>9 DEF SpendShape, Limit

(* A process that ends its send leaves the room it had.                    *)
LEMMA SenderLeaves ==
  ASSUME TypeOK, NEW p \in Process, phase[p] # "idle",
         phase' = [phase EXCEPT ![p] = "idle"]
  PROVE  /\ Cardinality(Sending') + 1 = Cardinality(Sending)
         /\ Cardinality(Sending') \in Nat
  <1>1. Sending' = Sending \ {p} /\ p \in Sending
    BY DEF Sending, TypeOK
  <1>2. IsFiniteSet(Sending) /\ Cardinality(Sending) \in Nat
    BY SendingFinite
  <1>3. IsFiniteSet(Sending \ {p}) /\ Cardinality(Sending \ {p}) = Cardinality(Sending) - 1
    BY <1>1, <1>2, FS_RemoveElement
  <1>4. Cardinality(Sending \ {p}) \in Nat
    BY <1>3, FS_CardinalityType
  <1> QED
    BY <1>1, <1>2, <1>3, <1>4

LEMMA RoomKept ==
  ASSUME CostInv, SpendShape, NEW p \in Process, phase[p] # "idle",
         phase' = [phase EXCEPT ![p] = "idle"],
         NEW m \in Nat, m <= MaxError,
         Accounted' \in Nat, Accounted' <= Accounted + m
  PROVE  Accounted' + Cardinality(Sending') * MaxError
           <= Limit + Cardinality(Process) * MaxError
  <1>0. TypeOK
    BY DEF CostInv
  <1>1. Accounted \in Nat
    BY <1>0, AccountedIsNat
  <1>2. MaxError \in Nat /\ Limit \in Int
    BY CostConstants DEF Limit
  <1>3. PICK n \in Nat : Cardinality(Sending') = n /\ Cardinality(Sending) = n + 1
    BY <1>0, SenderLeaves
  <1>4. PICK w \in Nat : w = n * MaxError
    BY <1>2
  <1>5. (n + 1) * MaxError = w + MaxError
    BY <1>2, <1>4
  <1>6. PICK t \in Nat : t = Cardinality(Process) * MaxError
    BY <1>2, SendingFinite
  <1>7. Accounted + (w + MaxError) <= Limit + t
    <2>1. Accounted + Cardinality(Sending) * MaxError
            <= Limit + Cardinality(Process) * MaxError
      BY DEF SpendShape
    <2>2. Cardinality(Sending) * MaxError = w + MaxError
      BY <1>3, <1>5, Zenon
    <2> QED
      BY <1>6, <2>1, <2>2, Zenon
  <1>8. Accounted' + w <= Limit + t
    <2>1. ASSUME NEW a \in Nat, NEW b \in Nat, NEW e \in Nat, NEW z \in Int,
                 m <= e, b <= a + m, a + (w + e) <= z + t
          PROVE  b + w <= z + t
      BY <2>1
    <2> QED
      BY <1>1, <1>2, <1>7, <2>1
  <1>9. Cardinality(Sending') * MaxError = w
    BY <1>3, <1>4, Zenon
  <1> QED
    BY <1>6, <1>8, <1>9, Zenon

(* Only a reservation and a settlement change the accounted total.         *)
LEMMA AccountedKept == ASSUME UNCHANGED ledgerVars PROVE Accounted' = Accounted
  BY DEF Accounted, Counted, ledgerVars

(* The provider charges a request once, within its reservation and error.  *)
LEMMA ChargeBounded ==
  ASSUME CostInv, SpendShape, NEW p \in Process, NEW bill \in Bill(p),
         phase[p] = "reserved", Charge(p, bill), UNCHANGED ledgerVars
  PROVE  \A x \in Request :
           /\ rowState'[x] = "NONE" => reserved'[x] = 0
           /\ sends'[x] = 0 => billed'[x] = 0
           /\ billed'[x] <= reserved'[x] + MaxError
  <1>1. PICK k \in Request : k = current[p]
    BY DEF CostInv, SendShape
  <1>2. sends[k] = 0 /\ billed[k] = 0
    BY <1>1 DEF CostInv, SendShape, SpendShape
  <1>3. bill \in 0..(reserved[k] + MaxError)
    BY <1>1 DEF Bill
  <1>4. /\ sends' = [sends EXCEPT ![k] = sends[k] + 1]
        /\ billed' = [billed EXCEPT ![k] = billed[k] + bill]
        /\ reserved' = reserved /\ rowState' = rowState
    BY <1>1 DEF Charge, ledgerVars
  <1> QED
    BY <1>2, <1>3, <1>4, CostConstants DEF CostInv, TypeOK, SpendShape

LEMMA AnswerSpend ==
  ASSUME CostInv, SpendShape, NEW p \in Process, NEW bill \in Bill(p),
         Answer(p, bill)
  PROVE  SpendShape'
  <1>1. /\ phase[p] = "reserved" /\ Charge(p, bill)
        /\ phase' = [phase EXCEPT ![p] = "answered"]
        /\ current' = current /\ UNCHANGED ledgerVars
    BY DEF Answer
  <1>2. Accounted' = Accounted
    BY <1>1, AccountedKept
  <1>3. Sending' = Sending
    BY <1>1 DEF Sending, CostInv, TypeOK
  <1>4. \A q \in Process : phase'[q] = "idle" => current'[q] = Nobody
    BY <1>1 DEF SpendShape, CostInv, TypeOK
  <1>5. \A x \in Request :
           /\ rowState'[x] = "NONE" => reserved'[x] = 0
           /\ sends'[x] = 0 => billed'[x] = 0
           /\ billed'[x] <= reserved'[x] + MaxError
    BY <1>1, ChargeBounded
  <1>6. Accounted' + Cardinality(Sending') * MaxError
          <= Limit + Cardinality(Process) * MaxError
    BY <1>2, <1>3, Zenon DEF SpendShape
  <1> QED
    BY <1>4, <1>5, <1>6 DEF SpendShape, Limit

LEMMA LoseAnswerSpend ==
  ASSUME CostInv, SpendShape, NEW p \in Process, NEW bill \in Bill(p),
         LoseAnswer(p, bill)
  PROVE  SpendShape'
  <1>1. /\ phase[p] = "reserved" /\ Charge(p, bill)
        /\ phase' = [phase EXCEPT ![p] = "idle"]
        /\ current' = [current EXCEPT ![p] = Nobody] /\ UNCHANGED ledgerVars
    BY DEF LoseAnswer
  <1>2. Accounted' = Accounted /\ Accounted \in Nat
    BY <1>1, AccountedKept, AccountedIsNat DEF CostInv
  <1>3. 0 \in Nat /\ 0 <= MaxError /\ Accounted' \in Nat
        /\ Accounted' <= Accounted + 0 /\ phase[p] # "idle"
    BY <1>1, <1>2, CostConstants
  <1>4. \A q \in Process : phase'[q] = "idle" => current'[q] = Nobody
    BY <1>1 DEF SpendShape, CostInv, TypeOK
  <1>5. \A x \in Request :
           /\ rowState'[x] = "NONE" => reserved'[x] = 0
           /\ sends'[x] = 0 => billed'[x] = 0
           /\ billed'[x] <= reserved'[x] + MaxError
    BY <1>1, ChargeBounded
  <1>6. Accounted' + Cardinality(Sending') * MaxError
          <= Limit + Cardinality(Process) * MaxError
    BY <1>1, <1>3, RoomKept
  <1> QED
    BY <1>4, <1>5, <1>6 DEF SpendShape, Limit

LEMMA CrashSpend ==
  ASSUME CostInv, SpendShape, NEW p \in Process, Crash(p)
  PROVE  SpendShape'
  <1>1. /\ phase[p] # "idle" /\ phase' = [phase EXCEPT ![p] = "idle"]
        /\ current' = [current EXCEPT ![p] = Nobody]
        /\ UNCHANGED ledgerVars /\ UNCHANGED <<sends, billed>>
    BY DEF Crash, providerVars
  <1>2. Accounted' = Accounted /\ Accounted \in Nat
    BY <1>1, AccountedKept, AccountedIsNat DEF CostInv
  <1>3. 0 \in Nat /\ 0 <= MaxError /\ Accounted' \in Nat
        /\ Accounted' <= Accounted + 0
    BY <1>2, CostConstants
  <1>4. \A q \in Process : phase'[q] = "idle" => current'[q] = Nobody
    BY <1>1 DEF SpendShape, CostInv, TypeOK
  <1>5. \A x \in Request :
           /\ rowState'[x] = "NONE" => reserved'[x] = 0
           /\ sends'[x] = 0 => billed'[x] = 0
           /\ billed'[x] <= reserved'[x] + MaxError
    BY <1>1 DEF SpendShape, ledgerVars
  <1>6. Accounted' + Cardinality(Sending') * MaxError
          <= Limit + Cardinality(Process) * MaxError
    BY <1>1, <1>3, RoomKept
  <1> QED
    BY <1>4, <1>5, <1>6 DEF SpendShape, Limit

(* Settlement spends the room its process had.                             *)
LEMMA SettleSpend ==
  ASSUME CostInv, CostInv', SpendShape, NEW p \in Process, Settle(p)
  PROVE  SpendShape'
  <1>0. TypeOK /\ TypeOK' /\ MaxError \in Nat
    BY CostConstants DEF CostInv
  <1>1. PICK k \in Request : k = current[p] /\ rowState[k] = "RESERVED"
    BY DEF CostInv, SendShape, Settle
  <1>2. /\ phase[p] # "idle" /\ phase' = [phase EXCEPT ![p] = "idle"]
        /\ current' = [current EXCEPT ![p] = Nobody]
        /\ rowState' = [rowState EXCEPT ![k] = "SETTLED"]
        /\ actual' = [actual EXCEPT ![k] = billed[k]]
        /\ UNCHANGED <<reserved, sends, billed>>
    BY <1>1 DEF Settle, providerVars
  <1>3. /\ \A x \in Request : x # k => Counted(x)' = Counted(x)
        /\ Counted(k)' <= Counted(k) + MaxError
    <2>1. \A x \in Request : x # k => Counted(x)' = Counted(x)
      BY <1>0, <1>2 DEF TypeOK, Counted
    <2>2. billed[k] <= reserved[k] + MaxError
      BY DEF SpendShape
    <2>3. Counted(k) = reserved[k]
      BY <1>1 DEF Counted
    <2>4. Counted(k)' = IF billed[k] > reserved[k] THEN billed[k] ELSE reserved[k]
      BY <1>0, <1>2 DEF TypeOK, Counted
    <2>5. billed[k] \in Nat /\ reserved[k] \in Nat
      BY <1>0 DEF TypeOK
    <2> QED
      BY <1>0, <2>1, <2>2, <2>3, <2>4, <2>5
  <1>4. Accounted \in Nat /\ Accounted' \in Nat
        /\ Accounted' <= Accounted + MaxError /\ MaxError <= MaxError
    BY <1>0, <1>3, AccountedGrows
  <1>5. \A q \in Process : phase'[q] = "idle" => current'[q] = Nobody
    BY <1>2 DEF SpendShape, CostInv, TypeOK
  <1>6. \A x \in Request :
           /\ rowState'[x] = "NONE" => reserved'[x] = 0
           /\ sends'[x] = 0 => billed'[x] = 0
           /\ billed'[x] <= reserved'[x] + MaxError
    BY <1>0, <1>2 DEF SpendShape, TypeOK
  <1>7. Accounted' + Cardinality(Sending') * MaxError
          <= Limit + Cardinality(Process) * MaxError
    BY <1>0, <1>2, <1>4, RoomKept
  <1> QED
    BY <1>5, <1>6, <1>7 DEF SpendShape, Limit

(* Nothing is accounted at first, and the buffer is within the ceiling.    *)
LEMMA InitSpend == Init => SpendShape
  <1> SUFFICES ASSUME Init PROVE SpendShape
    OBVIOUS
  <1> DEFINE f == [x \in Request |-> Counted(x)]
             z == [x \in Request |-> 0]
  <1>1. f = z
    BY DEF Init, Counted
  <1>2. Sending = {} /\ Cardinality(Sending) = 0
    BY FS_EmptySet DEF Init, Sending
  <1>3. Accounted = SumFunctionOnSet(z, Request)
    BY <1>1, Zenon DEF Accounted
  <1>4. SumFunctionOnSet(z, Request) = 0
    <2>1. PICK h : IsSum(h, z, SUBSET Request) /\ SumFunctionOnSet(z, Request) = h[Request]
      BY CostConstants, SumIs
    <2> DEFINE Bad == {s \in SUBSET Request : h[s] # 0}
    <2>2. Bad = {}
      <3> SUFFICES ASSUME Bad # {} PROVE FALSE
        OBVIOUS
      <3>1. Bad \subseteq SUBSET Request
        OBVIOUS
      <3>2. PICK t \in Bad : \A y \in Bad : y \subseteq t => y = t
        <4> HIDE DEF Bad
        <4> QED
          BY <3>1, CostConstants, SmallestSubset
      <3>3. t \in SUBSET Request /\ h[t] # 0
        OBVIOUS
      <3>4. t # {}
        BY <2>1, <3>3 DEF IsSum
      <3>5. PICK c \in Request : c = Pick(t) /\ c \in t
        BY <3>3, <3>4, PickIn
      <3>6. t \ {c} \in SUBSET Request /\ h[t \ {c}] = 0
        BY <3>2, <3>3, <3>5
      <3>7. h[t] = z[c] + h[t \ {c}]
        BY <2>1, <3>3, <3>4, <3>5 DEF IsSum
      <3>8. z[c] = 0
        OBVIOUS
      <3> QED
        BY <3>3, <3>6, <3>7, <3>8
    <2> QED
      BY <2>1, <2>2
  <1>5. PICK t \in Nat : t = Cardinality(Process) * MaxError
    BY CostConstants, SendingFinite
  <1>6. Limit \in Nat
    BY CostConstants DEF Limit
  <1>7. 0 * MaxError = 0
    BY CostConstants
  <1>8. Accounted + Cardinality(Sending) * MaxError
          <= Limit + Cardinality(Process) * MaxError
    <2>1. Accounted = 0
      BY <1>3, <1>4, Zenon
    <2>2. 0 + 0 <= Limit + t
      BY <1>5, <1>6
    <2> QED
      BY <1>2, <1>5, <1>7, <2>1, <2>2, Zenon
  <1>9. /\ \A p \in Process : phase[p] = "idle" => current[p] = Nobody
        /\ \A k \in Request :
              /\ rowState[k] = "NONE" => reserved[k] = 0
              /\ sends[k] = 0 => billed[k] = 0
              /\ billed[k] <= reserved[k] + MaxError
    BY CostConstants DEF Init
  <1> QED
    BY <1>8, <1>9 DEF SpendShape

LEMMA StepSpend == CostInv /\ CostInv' /\ SpendShape /\ [Next]_vars => SpendShape'
  <1> SUFFICES ASSUME CostInv, CostInv', SpendShape, [Next]_vars PROVE SpendShape'
    OBVIOUS
  <1>1. CASE UNCHANGED vars
    BY <1>1 DEF vars, SpendShape, Accounted, Counted, Sending
  <1>2. ASSUME NEW p \in Process, NEW k \in Request, NEW usd \in Price,
               Reserve(p, k, usd)
        PROVE  SpendShape'
    BY <1>2, ReserveSpend
  <1>3. ASSUME NEW p \in Process, NEW bill \in Bill(p),
               Answer(p, bill) \/ LoseAnswer(p, bill)
        PROVE  SpendShape'
    BY <1>3, AnswerSpend, LoseAnswerSpend
  <1>4. ASSUME NEW p \in Process, Settle(p) \/ Crash(p)
        PROVE  SpendShape'
    BY <1>4, SettleSpend, CrashSpend
  <1> QED
    BY <1>1, <1>2, <1>3, <1>4 DEF Next

(* A charged request that is not settled is lost, or its sender is alive:  *)
(* at most one such request for each sender.                               *)
LEMMA ExposedIsLostOrSending ==
  ASSUME CostInv, SpendShape
  PROVE  /\ Cardinality(Exposed) \in Nat /\ Cardinality(Lost) \in Nat
         /\ Cardinality(Exposed) <= Cardinality(Lost) + Cardinality(Sending)
  <1> DEFINE f == [p \in Sending |-> current[p]]
             T == {f[p] : p \in Sending}
  <1>1. f \in Surjection(Sending, T)
    BY DEF Surjection
  <1>2. Exposed \subseteq Lost \cup T
    <2> SUFFICES ASSUME NEW k \in Exposed, k \notin Lost PROVE k \in T
      OBVIOUS
    <2>1. PICK p \in Process : current[p] = k
      BY DEF Exposed, Lost
    <2>2. p \in Sending
      BY <2>1, CostConstants DEF SpendShape, Sending, Exposed
    <2>3. f[p] = k
      BY <2>1, <2>2
    <2> QED
      BY <2>2, <2>3
  <1> HIDE DEF f, T
  <1>3. IsFiniteSet(T) /\ Cardinality(T) <= Cardinality(Sending)
    BY <1>1, SendingFinite, FS_Surjection
  <1>4. IsFiniteSet(Lost)
    <2>1. Lost \subseteq Request
      BY DEF Lost
    <2> QED
      BY <2>1, CostConstants, FS_Subset
  <1>5. /\ IsFiniteSet(Lost \cup T)
        /\ Cardinality(Lost \cup T)
             = Cardinality(Lost) + Cardinality(T) - Cardinality(Lost \cap T)
    BY <1>3, <1>4, FS_Union
  <1>6. IsFiniteSet(Exposed) /\ Cardinality(Exposed) <= Cardinality(Lost \cup T)
    BY <1>2, <1>5, FS_Subset
  <1>7. Cardinality(Lost \cap T) \in Nat
    <2>1. Lost \cap T \subseteq T
      OBVIOUS
    <2> QED
      BY <1>3, <2>1, FS_Subset, FS_CardinalityType
  <1>8. /\ Cardinality(Exposed) \in Nat /\ Cardinality(Lost) \in Nat
        /\ Cardinality(T) \in Nat /\ Cardinality(Lost \cup T) \in Nat
    BY <1>3, <1>4, <1>5, <1>6, FS_CardinalityType
  <1> QED
    BY <1>3, <1>5, <1>6, <1>7, <1>8, SendingFinite

(* A settled row counts its charge in full; another misses an error.       *)
LEMMA SpendWithinAccounted ==
  ASSUME CostInv, SpendShape
  PROVE  /\ RealSpend \in Nat /\ Accounted \in Nat
         /\ RealSpend <= Accounted + Cardinality(Exposed) * MaxError
  <1> DEFINE g == [x \in Request |-> Counted(x)]
  <1>1. billed \in [Request -> Nat] /\ g \in [Request -> Nat]
    BY DEF CostInv, TypeOK, Counted
  <1>2. Exposed \in SUBSET Request /\ MaxError \in Nat
    BY CostConstants DEF Exposed
  <1>3. \A x \in Request : billed[x] <= g[x] \/ (x \in Exposed /\ billed[x] <= g[x] + MaxError)
    <2> SUFFICES ASSUME NEW x \in Request
                 PROVE  billed[x] <= g[x] \/ (x \in Exposed /\ billed[x] <= g[x] + MaxError)
      OBVIOUS
    <2>1. /\ billed[x] \in Nat /\ reserved[x] \in Nat /\ actual[x] \in Nat
          /\ sends[x] \in Nat /\ g[x] = Counted(x)
      BY DEF CostInv, TypeOK
    <2>2. CASE sends[x] = 0
      BY <1>1, <2>1, <2>2 DEF SpendShape
    <2>3. CASE rowState[x] = "SETTLED"
      <3>1. actual[x] = billed[x]
        BY <2>3 DEF CostInv, SendShape
      <3> QED
        BY <2>1, <2>3, <3>1 DEF Counted
    <2>4. CASE sends[x] > 0 /\ rowState[x] # "SETTLED"
      BY <2>1, <2>4 DEF Counted, SpendShape, Exposed
    <2> QED
      BY <2>1, <2>2, <2>3, <2>4
  <1>4. Accounted = SumFunctionOnSet(g, Request) /\ RealSpend = SumFunctionOnSet(billed, Request)
    BY DEF Accounted, RealSpend
  <1> HIDE DEF g
  <1>5. /\ SumFunctionOnSet(billed, Request) \in Nat
        /\ SumFunctionOnSet(g, Request) \in Nat
        /\ SumFunctionOnSet(billed, Request)
             <= SumFunctionOnSet(g, Request) + Cardinality(Exposed) * MaxError
    BY <1>1, <1>2, <1>3, CostConstants, SumBound
  <1> QED
    BY <1>4, <1>5

(* What was really charged stays within the limit, one estimation error    *)
(* per process and one per request whose answer was lost.                  *)
THEOREM SpendStaysBounded == Spec => []RealSpendBounded
  <1>1. CostInv /\ SpendShape => RealSpendBounded
    <2> SUFFICES ASSUME CostInv, SpendShape PROVE RealSpendBounded
      OBVIOUS
    <2>1. PICK e \in Nat, l \in Nat, s \in Nat, c \in Nat :
             /\ e = Cardinality(Exposed) /\ l = Cardinality(Lost)
             /\ s = Cardinality(Sending) /\ c = Cardinality(Process)
             /\ e <= l + s
      BY ExposedIsLostOrSending, SendingFinite
    <2>2. PICK m \in Nat : m = MaxError
      BY CostConstants
    <2>3. PICK r \in Nat, a \in Nat, z \in Int :
             r = RealSpend /\ a = Accounted /\ z = Limit
      BY SpendWithinAccounted, CostConstants DEF Limit
    <2>4. r <= a + e * m
      BY <2>1, <2>2, <2>3, SpendWithinAccounted
    <2>5. a + s * m <= z + c * m
      BY <2>1, <2>2, <2>3 DEF SpendShape
    <2>6. e * m <= (l + s) * m
      BY <2>1
    <2>7. (l + s) * m = l * m + s * m /\ (c + l) * m = c * m + l * m
      OBVIOUS
    <2>8. PICK em \in Nat, lm \in Nat, sm \in Nat, cm \in Nat :
             em = e * m /\ lm = l * m /\ sm = s * m /\ cm = c * m
      OBVIOUS
    <2>9. r <= z + (cm + lm)
      BY <2>4, <2>5, <2>6, <2>7, <2>8
    <2> QED
      BY <2>1, <2>2, <2>3, <2>7, <2>8, <2>9 DEF RealSpendBounded
  <1> QED
    BY <1>1, InitInv, StepInv, InitSpend, StepSpend, PTL DEF Spec
=============================================================================
