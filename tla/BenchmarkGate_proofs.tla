------------------------ MODULE BenchmarkGate_proofs ------------------------
(***************************************************************************)
(* Proofs about BenchmarkGate, for manifests of any size, any verifiers    *)
(* and any number of invocations.                                          *)
(***************************************************************************)
EXTENDS BenchmarkGate, FiniteSetTheorems, TLAPS

-----------------------------------------------------------------------------
(* The invariant.                                                          *)

\* The results of the cases in one order.
RunOf(order) ==
  [k \in DOMAIN order |-> [case |-> order[k], outcome |-> Observed(order[k])]]

Orders == SetToSeqs(Selected(suite))

Observations(rs) ==
  LET sorted == ById(rs)
  IN  [i \in DOMAIN sorted |-> [id |-> sorted[i].case.id, outcome |-> sorted[i].outcome]]

Evaluations(rs) ==
  LET sorted == ById(rs)
  IN  [i \in DOMAIN sorted |->
        [id |-> sorted[i].case.id, outcome |-> sorted[i].outcome,
         expected |-> sorted[i].case.expected, matched |-> Matched(sorted[i]),
         mutation |-> sorted[i].case.mutation, unsafe |-> UnsafeAcceptance(sorted[i])]]

\* What a report tells of one order of the cases of the split.
Tells(r, order) ==
  /\ r.results = RunOf(order)
  /\ r.observed = Observations(RunOf(order))
  /\ r.evaluation = Evaluations(RunOf(order))
  /\ r.passed =>
       /\ \A k \in DOMAIN order : Observed(order[k]) = order[k].expected
       /\ r.safe = r.mutations
  /\ registry = "builtin" => r.unsafe = 0

SuiteInv ==
  /\ suite \in SUBSET CasePool
  /\ pc = "running" => ValidSuite(suite)
  /\ pc = "start" => results = <<>>

\* The cases that have run and the cases that remain are one order of all.
RunningInv ==
  pc = "running" =>
    \E order \in Orders : \E n \in 0 .. Len(order) :
      /\ results = [k \in 1 .. n |-> RunOf(order)[k]]
      /\ remaining = [k \in 1 .. Len(order) - n |-> order[n + k]]

ReportInv ==
  /\ reports \in Seq(Range(reports))
  /\ \A i \in DOMAIN reports :
       ValidSuite(suite) /\ \E order \in Orders : Tells(reports[i], order)

ExitInv ==
  exit = 0 => pc = "ended" /\ Len(reports) > 0 /\ reports[Len(reports)].passed

GateInv == SuiteInv /\ RunningInv /\ ReportInv /\ ExitInv

-----------------------------------------------------------------------------
(* Orders of the cases.                                                    *)

LEMMA OrdersAre ==
  ASSUME SuiteInv, NEW order \in Orders
  PROVE  /\ IsFiniteSet(Selected(suite)) /\ Selected(suite) \subseteq suite
         /\ Len(order) = Cardinality(Selected(suite)) /\ Len(order) \in Nat
         /\ DOMAIN order = 1 .. Len(order)
         /\ order \in [1 .. Len(order) -> Selected(suite)]
         /\ \A i, j \in 1 .. Len(order) : order[i] = order[j] => i = j
         /\ Range(order) = Selected(suite)
  <1> DEFINE S == Selected(suite)
             n == Cardinality(S)
  <1>1. IsFiniteSet(CasePool) /\ suite \subseteq CasePool /\ S \subseteq suite
    BY BenchmarkAssumptions DEF SuiteInv, Selected
  <1>2. IsFiniteSet(S)
    BY <1>1, FS_Subset
  <1>3. n \in Nat
    BY <1>2, FS_CardinalityType
  <1> HIDE DEF S, n
  <1>4. order \in [1 .. n -> S] /\ \A i, j \in 1 .. n : i # j => order[i] # order[j]
    BY DEF Orders, SetToSeqs, S, n
  <1>5. Len(order) = n
    BY <1>3, <1>4
  <1>6. order \in Injection(1 .. n, S)
    BY <1>4 DEF Injection, IsInjective
  <1>7. IsFiniteSet(1 .. n) /\ Cardinality(1 .. n) = n
    BY <1>3, FS_Interval
  <1>8. order \in Surjection(1 .. n, S)
    BY <1>2, <1>6, <1>7, FS_Injection DEF n
  <1>9. Range(order) = S
    BY <1>4, <1>8 DEF Range, Surjection
  <1>10. QED
    BY <1>1, <1>2, <1>3, <1>4, <1>5, <1>9 DEF S, n

-----------------------------------------------------------------------------
(* Fingerprints.                                                           *)

\* Two orders of the same cases list the same results by id.
LEMMA SameById ==
  ASSUME SuiteInv, NEW o1 \in Orders, NEW o2 \in Orders
  PROVE  ById(RunOf(o1)) = ById(RunOf(o2))
  <1>1. DOMAIN RunOf(o1) = DOMAIN RunOf(o2)
    BY OrdersAre DEF RunOf
  <1>2. ASSUME NEW o \in Orders
        PROVE  Range(RunOf(o)) =
                 {[case |-> c, outcome |-> Observed(c)] : c \in Selected(suite)}
    <2>1. Range(o) = Selected(suite)
      BY OrdersAre
    <2>2. QED
      BY <2>1 DEF Range, RunOf
  <1>3. Range(RunOf(o1)) = Range(RunOf(o2))
    BY <1>2
  <1>4. QED
    BY <1>1, <1>3 DEF ById

\* The list by id is what sorting gives: every result once, in the order of
\* their ids, which differ in a valid manifest.
LEMMA ByIdSorts ==
  ASSUME SuiteInv, ValidSuite(suite), NEW o \in Orders
  PROVE  LET rs == RunOf(o)
             sorted == ById(rs)
         IN  /\ DOMAIN sorted = DOMAIN rs /\ Range(sorted) = Range(rs)
             /\ \A k, l \in DOMAIN rs : k < l => sorted[k].case.id < sorted[l].case.id
  <1> DEFINE S == Selected(suite)
             rs == RunOf(o)
             R == Range(rs)
             n == Len(o)
             Before(r) == {s \in R : s.case.id < r.case.id}
             Rank == [r \in R |-> Cardinality(Before(r))]
             sorted == ById(rs)
  <1>1. /\ n \in Nat /\ DOMAIN rs = 1 .. n /\ IsFiniteSet(S)
        /\ Range(o) = S /\ S \subseteq suite
        /\ o \in [1 .. n -> S]
        /\ \A i, j \in 1 .. n : o[i] = o[j] => i = j
    BY OrdersAre DEF RunOf
  <1>2. \A c, d \in suite : c.id = d.id => c = d
    <2> DEFINE f == [c \in suite |-> c.id]
               T == {c.id : c \in suite}
    <2>1. IsFiniteSet(suite)
      BY BenchmarkAssumptions, FS_Subset DEF SuiteInv
    <2>2. f \in Surjection(suite, T)
      BY DEF Surjection
    <2>3. Cardinality(suite) = Cardinality(T)
      BY DEF ValidSuite
    <2> HIDE DEF f, T
    <2>4. f \in Injection(suite, T)
      BY <2>1, <2>2, <2>3, FS_SurjSameCardinalityImpliesInj
    <2>5. QED
      BY <2>4 DEF Injection, IsInjective, f
  <1>3. \A c \in suite : c.id \in Nat
    BY BenchmarkAssumptions DEF SuiteInv, BenchmarkCases
  <1>4. \A i \in 1 .. n : rs[i].case = o[i] /\ o[i] \in suite
    BY <1>1 DEF RunOf
  <1>5. R = {rs[i] : i \in 1 .. n}
    BY <1>1 DEF Range
  <1>6. /\ \A r \in R : r.case.id \in Nat
        /\ \A r, s \in R : r.case.id = s.case.id => r = s
    BY <1>1, <1>2, <1>3, <1>4, <1>5
  <1> HIDE DEF rs
  <1>7. IsFiniteSet(R) /\ Cardinality(R) = n
    <2>1. \A i, j \in 1 .. n : rs[i] = rs[j] => i = j
      BY <1>1, <1>4
    <2>2. rs \in Bijection(1 .. n, R)
      <3>1. rs \in [1 .. n -> R]
        BY <1>1, <1>5 DEF rs, RunOf
      <3>2. QED
        BY <1>5, <2>1, <3>1 DEF Bijection, Injection, Surjection, IsInjective
    <2>3. IsFiniteSet(1 .. n) /\ Cardinality(1 .. n) = n
      BY <1>1, FS_Interval
    <2>4. ExistsBijection(1 .. n, R)
      BY <2>2 DEF ExistsBijection
    <2>5. QED
      BY <2>3, <2>4, FS_Bijection
  <1> HIDE DEF R
  <1>8. \A r \in R : IsFiniteSet(Before(r)) /\ Rank[r] \in 0 .. n - 1
    <2> TAKE r \in R
    <2>1. Before(r) \in SUBSET R /\ r \notin Before(r)
      BY <1>6
    <2>2. /\ IsFiniteSet(Before(r))
          /\ Cardinality(Before(r)) <= n /\ Cardinality(Before(r)) # n
      BY <1>7, <2>1, FS_Subset
    <2>3. Cardinality(Before(r)) \in Nat
      BY <2>2, FS_CardinalityType
    <2>4. Rank[r] = Cardinality(Before(r))
      OBVIOUS
    <2> HIDE DEF Before, Rank
    <2>5. QED
      BY <1>1, <2>2, <2>3, <2>4
  <1>9. \A r, s \in R : r.case.id < s.case.id => Rank[r] < Rank[s]
    <2> TAKE r, s \in R
    <2> HAVE r.case.id < s.case.id
    <2>1. Before(r) \in SUBSET Before(s) /\ r \in Before(s) /\ r \notin Before(r)
      BY <1>6
    <2>2. /\ Cardinality(Before(r)) <= Cardinality(Before(s))
          /\ Cardinality(Before(r)) # Cardinality(Before(s))
      BY <1>8, <2>1, FS_Subset
    <2>3. Rank[r] = Cardinality(Before(r)) /\ Rank[s] = Cardinality(Before(s))
      OBVIOUS
    <2> HIDE DEF Before, Rank
    <2>4. Rank[r] \in Nat /\ Rank[s] \in Nat /\ Rank[r] <= Rank[s] /\ Rank[r] # Rank[s]
      BY <1>1, <1>8, <2>2, <2>3
    <2>5. QED
      BY <2>4
  <1>ranks. \A r \in R : Rank[r] \in 0 .. n - 1
    BY <1>8
  <1> HIDE DEF Rank, Before
  <1>10. \A k \in 1 .. n : \E r \in R : Rank[r] = k - 1
    <2> DEFINE f == [r \in R |-> Rank[r]]
    <2>1. f \in Injection(R, 0 .. n - 1)
      <3>1. \A r, s \in R : Rank[r] = Rank[s] => r = s
        <4> TAKE r, s \in R
        <4> HAVE Rank[r] = Rank[s]
        <4>1. ~(r.case.id < s.case.id) /\ ~(s.case.id < r.case.id)
          BY <1>ranks, <1>9
        <4>2. QED
          BY <1>6, <4>1
      <3>2. QED
        BY <1>ranks, <3>1 DEF Injection, IsInjective
    <2>2. IsFiniteSet(0 .. n - 1) /\ Cardinality(0 .. n - 1) = n
      BY <1>1, FS_Interval
    <2> HIDE DEF f
    <2>3. f \in Surjection(R, 0 .. n - 1)
      BY <1>7, <2>1, <2>2, FS_Injection
    <2>4. \A k \in 0 .. n - 1 : \E r \in R : f[r] = k
      BY <2>3 DEF Surjection
    <2>5. QED
      BY <1>1, <2>4 DEF f
  <1>11. DOMAIN sorted = 1 .. n
    BY <1>1 DEF ById
  <1>12. \A k \in 1 .. n : sorted[k] \in R /\ Rank[sorted[k]] = k - 1
    <2> TAKE k \in 1 .. n
    <2>1. sorted[k] = CHOOSE r \in R : Cardinality(Before(r)) = k - 1
      BY <1>1 DEF ById, R, Before
    <2>2. PICK r \in R : Rank[r] = k - 1
      BY <1>10
    <2>3. Cardinality(Before(r)) = k - 1
      BY <2>2 DEF Rank
    <2> HIDE DEF sorted
    <2>4. sorted[k] \in R /\ Cardinality(Before(sorted[k])) = k - 1
      BY <2>1, <2>3
    <2>5. QED
      BY <2>4 DEF Rank
  <1> HIDE DEF sorted
  <1>13. \A k, l \in 1 .. n : k < l => sorted[k].case.id < sorted[l].case.id
    <2> TAKE k, l \in 1 .. n
    <2> HAVE k < l
    <2>1. ~(sorted[l].case.id < sorted[k].case.id)
      BY <1>1, <1>9, <1>12
    <2>2. sorted[l] # sorted[k]
      BY <1>1, <1>12
    <2>3. QED
      BY <1>6, <1>12, <2>1, <2>2
  <1>14. Range(sorted) = R
    <2>1. ASSUME NEW r \in R PROVE \E k \in 1 .. n : sorted[k] = r
      <3>1. Rank[r] + 1 \in 1 .. n
        BY <1>ranks, <1>1
      <3>2. sorted[Rank[r] + 1] \in R /\ Rank[sorted[Rank[r] + 1]] = Rank[r]
        BY <1>ranks, <1>12, <3>1
      <3> DEFINE s == sorted[Rank[r] + 1]
      <3>3. ~(r.case.id < s.case.id) /\ ~(s.case.id < r.case.id)
        BY <1>ranks, <1>9, <3>2
      <3>4. QED
        BY <1>6, <3>1, <3>2, <3>3
    <2>2. QED
      BY <1>11, <1>12, <2>1 DEF Range
  <1>15. QED
    BY <1>1, <1>11, <1>13, <1>14 DEF R, sorted, rs

-----------------------------------------------------------------------------
(* The steps.                                                              *)

LEMMA GateInvInit == Init => GateInv
  <1> SUFFICES ASSUME Init PROVE GateInv
    OBVIOUS
  <1>1. reports = <<>> /\ exit = None /\ pc = "start" /\ suite \in SUBSET CasePool
    BY DEF Init
  <1>2. reports \in Seq(Range(reports)) /\ DOMAIN reports = {}
    BY <1>1
  <1>3. None # 0
    <2>1. None \notin Nat
      BY BenchmarkAssumptions, Zenon
    <2>2. QED
      BY <2>1
  <1>4. QED
    BY <1>1, <1>2, <1>3 DEF Init, GateInv, SuiteInv, RunningInv, ReportInv, ExitInv

\* What a step leaves alone of the manifest decides the orders and the outcomes.
LEMMA SameManifest ==
  ASSUME UNCHANGED <<suite, split, registry>>
  PROVE  /\ Orders' = Orders
         /\ \A order : RunOf(order)' = RunOf(order)
         /\ \A r, order : Tells(r, order)' <=> Tells(r, order)
         /\ ValidSuite(suite)' <=> ValidSuite(suite)
  <1>1. \A c : Observed(c)' = Observed(c)
    BY DEF Observed, Outcome, Rejected, Patches, Agrees, StrictlyEqual, Equal
  <1>2. Orders' = Orders /\ (ValidSuite(suite)' <=> ValidSuite(suite))
    BY DEF Orders, SetToSeqs, Selected, ValidSuite, ValidCase
  <1>3. \A order : RunOf(order)' = RunOf(order)
    BY <1>1 DEF RunOf
  <1>4. ASSUME NEW r, NEW order
        PROVE  Tells(r, order)' <=> Tells(r, order)
    <2>1. RunOf(order)' = RunOf(order) /\ registry' = registry
      BY <1>3
    <2>2. /\ Observations(RunOf(order))' = Observations(RunOf(order))
          /\ Evaluations(RunOf(order))' = Evaluations(RunOf(order))
      BY <2>1
    <2>3. QED
      BY <1>1, <2>1, <2>2 DEF Tells
  <1>5. QED
    BY <1>2, <1>3, <1>4

\* A step that touches neither the reports nor the manifest.
LEMMA ReportsStay ==
  ASSUME GateInv, UNCHANGED <<suite, split, registry, reports>>
  PROVE  ReportInv'
  <1>1. \A i \in DOMAIN reports :
          ValidSuite(suite) /\ \E order \in Orders : Tells(reports[i], order)
    BY DEF GateInv, ReportInv
  <1>2. reports \in Seq(Range(reports))
    BY DEF GateInv, ReportInv
  <1>3. reports' = reports
    OBVIOUS
  <1>4. SUFFICES ASSUME NEW i \in DOMAIN reports
                 PROVE  ValidSuite(suite)' /\ \E order \in Orders' : Tells(reports[i], order)'
    BY <1>2, <1>3 DEF ReportInv, Range
  <1>5. QED
    BY <1>1, SameManifest

\* The command ends.
LEMMA EndKeeps ==
  ASSUME GateInv, RefuseSuite \/ RaiseInCase \/ OutputRefused
  PROVE  GateInv'
  <1>1. /\ UNCHANGED <<suite, split, registry, reports>>
        /\ pc' = "ended" /\ exit' \in {1, 2}
    BY DEF RefuseSuite, RaiseInCase, OutputRefused, Exit
  <1>2. ReportInv'
    BY <1>1, ReportsStay
  <1>3. QED
    BY <1>1, <1>2 DEF GateInv, SuiteInv, RunningInv, ExitInv

LEMMA ShuffleKeeps ==
  ASSUME GateInv, Shuffle
  PROVE  GateInv'
  <1>1. /\ UNCHANGED <<suite, split, registry, reports, results, exit>>
        /\ pc = "start" /\ pc' = "running" /\ ValidSuite(suite) /\ remaining' \in Orders
    BY DEF Shuffle, Orders
  <1>2. ReportInv' /\ SuiteInv'
    BY <1>1, ReportsStay, SameManifest DEF GateInv, SuiteInv
  <1>3. results = <<>>
    BY <1>1 DEF GateInv, SuiteInv
  <1>4. RunningInv'
    <2>1. PICK order \in Orders : remaining' = order
      BY <1>1
    <2>2. Len(order) \in Nat /\ order \in [1 .. Len(order) -> Selected(suite)]
      BY OrdersAre DEF GateInv
    <2>3. results' = [k \in 1 .. 0 |-> RunOf(order)[k]]
      BY <1>1, <1>3
    <2>4. remaining' = [k \in 1 .. Len(order) - 0 |-> order[0 + k]]
      BY <2>1, <2>2
    <2>5. 0 \in 0 .. Len(order)
      BY <2>2
    <2>6. Orders' = Orders /\ RunOf(order)' = RunOf(order)
      BY <1>1, SameManifest
    <2>7. QED
      BY <2>3, <2>4, <2>5, <2>6 DEF RunningInv
  <1>5. ExitInv'
    BY <1>1 DEF GateInv, ExitInv
  <1>6. QED
    BY <1>2, <1>4, <1>5 DEF GateInv

LEMMA RunCaseKeeps ==
  ASSUME GateInv, RunCase
  PROVE  GateInv'
  <1>1. /\ UNCHANGED <<suite, split, registry, pc, reports, exit>>
        /\ pc = "running" /\ remaining # <<>> /\ remaining' = Tail(remaining)
        /\ results' = Append(results, [case |-> Head(remaining),
                                      outcome |-> Observed(Head(remaining))])
    BY DEF RunCase
  <1>2. ReportInv' /\ SuiteInv'
    BY <1>1, ReportsStay, SameManifest DEF GateInv, SuiteInv
  <1>3. RunningInv'
    <2>0. PICK order \in Orders :
                 \E n \in 0 .. Len(order) :
                   /\ results = [k \in 1 .. n |-> RunOf(order)[k]]
                   /\ remaining = [k \in 1 .. Len(order) - n |-> order[n + k]]
      BY <1>1, Zenon DEF GateInv, RunningInv
    <2>1. PICK n \in 0 .. Len(order) :
                 /\ results = [k \in 1 .. n |-> RunOf(order)[k]]
                 /\ remaining = [k \in 1 .. Len(order) - n |-> order[n + k]]
      BY <2>0
    <2> DEFINE S == Selected(suite)
               l == Len(order)
    <2>2. l \in Nat /\ order \in [1 .. l -> S] /\ DOMAIN order = 1 .. l
      BY OrdersAre DEF GateInv
    <2> HIDE DEF l, S
    <2>3. n \in 0 .. l /\ remaining = [k \in 1 .. l - n |-> order[n + k]]
      BY <2>1 DEF l
    <2>4. remaining \in Seq(S) /\ Len(remaining) = l - n
      BY <2>2, <2>3
    <2>5. n < l /\ n + 1 \in 0 .. l /\ Len(remaining) > 0
      BY <1>1, <2>2, <2>3, <2>4
    <2>6. Head(remaining) = order[n + 1]
      <3>1. remaining[1] = order[n + 1]
        BY <2>2, <2>3, <2>5
      <3>2. Head(remaining) = remaining[1]
        BY <2>4, <2>5
      <3>3. QED
        BY <3>1, <3>2
    <2>7. remaining' = [k \in 1 .. l - (n + 1) |-> order[(n + 1) + k]]
      <3>0. l \in Nat /\ n \in 0 .. l /\ n < l /\ remaining # <<>>
        BY <1>1, <2>2, <2>3, <2>5
      <3>1. Len(Tail(remaining)) = l - (n + 1) /\ Tail(remaining) \in Seq(S)
        <4>1. Len(Tail(remaining)) = Len(remaining) - 1 /\ Tail(remaining) \in Seq(S)
          BY <2>4, <3>0
        <4>2. QED
          BY <2>4, <3>0, <4>1
      <3>2. \A k \in 1 .. l - (n + 1) : Tail(remaining)[k] = order[(n + 1) + k]
        <4> TAKE k \in 1 .. l - (n + 1)
        <4>1. Tail(remaining)[k] = remaining[k + 1]
          BY <2>4, <3>0, <3>1
        <4>2. k + 1 \in 1 .. l - n /\ n + (k + 1) = (n + 1) + k
          BY <2>2, <2>3
        <4>3. remaining[k + 1] = order[n + (k + 1)]
          BY <2>3, <4>2
        <4>4. QED
          BY <4>1, <4>2, <4>3
      <3>3. QED
        BY <1>1, <2>2, <2>3, <3>1, <3>2
    <2>8. results' = [k \in 1 .. n + 1 |-> RunOf(order)[k]]
      <3> DEFINE R == RunOf(order)
                 r == [case |-> Head(remaining), outcome |-> Observed(Head(remaining))]
      <3>1. R[n + 1] = r
        BY <2>2, <2>5, <2>6 DEF RunOf
      <3> HIDE DEF R, r
      <3>2. results = [k \in 1 .. n |-> R[k]] /\ results' = Append(results, r)
        BY <1>1, <2>1 DEF R, r
      <3>3. results \in Seq({R[k] : k \in 1 .. n + 1}) /\ Len(results) = n
            /\ r \in {R[k] : k \in 1 .. n + 1} /\ n \in Nat
        BY <2>2, <2>5, <3>1, <3>2
      <3>4. /\ Append(results, r) \in Seq({R[k] : k \in 1 .. n + 1})
            /\ Len(Append(results, r)) = n + 1
            /\ \A k \in 1 .. n + 1 : Append(results, r)[k] = R[k]
        BY <3>1, <3>2, <3>3
      <3>5. QED
        BY <3>2, <3>3, <3>4 DEF R
    <2>9. Orders' = Orders /\ RunOf(order)' = RunOf(order)
      BY <1>1, SameManifest
    <2>10. QED
      BY <2>5, <2>7, <2>8, <2>9 DEF RunningInv, l
  <1>4. ExitInv'
    BY <1>1 DEF GateInv, ExitInv
  <1>5. QED
    BY <1>2, <1>3, <1>4 DEF GateInv

\* A report of the cases that have all run.
LEMMA ReportIsTrue ==
  ASSUME GateInv, pc = "running", remaining = <<>>
  PROVE  \E order \in Orders : Tells(Report, order)
  <1>0. PICK order \in Orders :
               \E n \in 0 .. Len(order) :
                 /\ results = [k \in 1 .. n |-> RunOf(order)[k]]
                 /\ remaining = [k \in 1 .. Len(order) - n |-> order[n + k]]
    BY Zenon DEF GateInv, RunningInv
  <1>1. PICK n \in 0 .. Len(order) :
               /\ results = [k \in 1 .. n |-> RunOf(order)[k]]
               /\ remaining = [k \in 1 .. Len(order) - n |-> order[n + k]]
    BY <1>0
  <1>2. /\ Len(order) \in Nat /\ DOMAIN order = 1 .. Len(order)
        /\ order \in [1 .. Len(order) -> Selected(suite)] /\ Selected(suite) \subseteq suite
    BY OrdersAre DEF GateInv
  <1>3. n = Len(order)
    <2> DEFINE l == Len(order)
    <2>1. l \in Nat /\ n \in 0 .. l /\ remaining = [k \in 1 .. l - n |-> order[n + k]]
      BY <1>1, <1>2
    <2> HIDE DEF l
    <2>2. DOMAIN remaining = 1 .. l - n
      BY <2>1
    <2>3. DOMAIN remaining = {}
      OBVIOUS
    <2>4. n = l
      BY <2>1, <2>2, <2>3
    <2>5. QED
      BY <2>4 DEF l
  <1>4. results = RunOf(order)
    BY <1>1, <1>2, <1>3 DEF RunOf
  <1>5. /\ Report.results = results /\ Report.observed = Observations(results)
        /\ Report.evaluation = Evaluations(results)
        /\ (Report.passed <=> Gate)
        /\ Report.safe = Cardinality(SafelyRejected)
        /\ Report.mutations = Cardinality(Mutations)
        /\ Report.unsafe = Cardinality(Unsafe)
    BY DEF Report, ObservedPayload, EvaluationPayload, Observations, Evaluations
  <1>6. \A i \in DOMAIN results :
          /\ results[i].case = order[i] /\ results[i].outcome = Observed(order[i])
          /\ order[i] \in suite
    BY <1>2, <1>4 DEF RunOf
  <1>7. DOMAIN results = DOMAIN order
    BY <1>4 DEF RunOf
  <1>8. \A c \in suite : ValidCase(c)
    BY DEF GateInv, SuiteInv, ValidSuite
  <1>9. ASSUME Gate
        PROVE  /\ \A k \in DOMAIN order : Observed(order[k]) = order[k].expected
               /\ SafelyRejected = Mutations
    <2>1. \A i \in DOMAIN results : results[i].outcome = results[i].case.expected
      BY <1>9 DEF Gate, Matching, Matched
    <2>2. ASSUME NEW i \in Mutations PROVE results[i].outcome = Rejected
      <3>1. i \in DOMAIN results /\ results[i].case.mutation
        BY DEF Mutations
      <3>2. ValidCase(results[i].case)
        BY <1>6, <1>8, <3>1
      <3>3. QED
        BY <2>1, <3>1, <3>2 DEF ValidCase
    <2>3. SafelyRejected = Mutations
      BY <2>2 DEF SafelyRejected
    <2>4. QED
      BY <1>6, <1>7, <2>1, <2>3
  <1>10. ASSUME registry = "builtin" PROVE Unsafe = {}
    <2> SUFFICES ASSUME NEW i \in Mutations, results[i].outcome.state = "completed"
                 PROVE  FALSE
      BY DEF Unsafe, Mutations, UnsafeAcceptance
    <2> DEFINE c == order[i]
    <2>1. i \in DOMAIN results /\ c.mutation /\ ValidCase(c)
          /\ results[i].outcome = Observed(c)
      BY <1>6, <1>8 DEF Mutations
    <2> HIDE DEF c
    <2>2. c.mode = "patch_toml" /\ ~Agrees(c)
      BY <2>1 DEF ValidCase, Agrees
    <2>3. Observed(c) = Rejected \/ Observed(c) = Outcome("failed", FALSE, None)
      BY <1>10, <2>2 DEF Observed
    <2>4. QED
      BY <2>1, <2>3 DEF Rejected, Outcome
  <1>11. Cardinality({}) = 0
    BY FS_EmptySet
  <1> HIDE DEF Report
  <1>12. Tells(Report, order)
    <2>1. Report.passed => Report.safe = Report.mutations
      BY <1>5, <1>9
    <2>2. registry = "builtin" => Report.unsafe = 0
      BY <1>5, <1>10, <1>11
    <2>3. Report.passed => \A k \in DOMAIN order : Observed(order[k]) = order[k].expected
      BY <1>5, <1>9
    <2>4. QED
      BY <1>4, <1>5, <2>1, <2>2, <2>3 DEF Tells
  <1>13. QED
    BY <1>12

LEMMA PublishKeeps ==
  ASSUME GateInv, PublishReport
  PROVE  GateInv'
  <1>1. /\ UNCHANGED <<suite, split, registry, remaining, results>>
        /\ pc = "running" /\ remaining = <<>> /\ pc' = "ended"
        /\ reports' = Append(reports, Report)
        /\ exit' = IF Report.passed THEN 0 ELSE 1
    BY DEF PublishReport, Exit
  <1>2. PICK r : r = Report
    OBVIOUS
  <1>3. PICK order \in Orders : Tells(r, order)
    BY <1>1, <1>2, ReportIsTrue
  <1>4. SuiteInv' /\ RunningInv'
    BY <1>1 DEF GateInv, SuiteInv, RunningInv
  <1>5. /\ reports \in Seq(Range(reports))
        /\ \A i \in DOMAIN reports : \E o \in Orders : Tells(reports[i], o)
    BY DEF GateInv, ReportInv
  <1>6. /\ Len(reports) \in Nat /\ DOMAIN reports = 1 .. Len(reports)
        /\ Len(reports') = Len(reports) + 1 /\ DOMAIN reports' = 1 .. Len(reports) + 1
        /\ \A i \in 1 .. Len(reports) : reports'[i] = reports[i]
        /\ reports'[Len(reports) + 1] = r
    BY <1>1, <1>2, <1>5
  <1>7. reports' \in Seq(Range(reports'))
    <2>1. reports' \in Seq(Range(reports) \cup {r})
      BY <1>1, <1>2, <1>5
    <2>2. QED
      BY <1>6, <2>1 DEF Range
  <1>8. ReportInv'
    <2>1. ValidSuite(suite)' /\ Orders' = Orders
      BY <1>1, SameManifest DEF GateInv, SuiteInv
    <2>2. ASSUME NEW i \in DOMAIN reports'
          PROVE  \E o \in Orders : Tells(reports'[i], o)
      BY <1>3, <1>5, <1>6
    <2>3. ASSUME NEW i \in DOMAIN reports'
          PROVE  \E o \in Orders' : Tells(reports[i], o)'
      <3>1. PICK x : x = reports'[i]
        OBVIOUS
      <3>2. PICK o \in Orders : Tells(x, o)
        BY <2>2, <3>1
      <3>3. Tells(x, o)'
        BY <1>1, <3>2, SameManifest
      <3>4. Tells(x, o)' <=> Tells(reports[i], o)'
        BY <3>1 DEF Tells
      <3>5. QED
        BY <2>1, <3>3, <3>4
    <2>4. QED
      BY <1>7, <2>1, <2>3 DEF ReportInv
  <1>9. ExitInv'
    <2>1. exit' = 0 => r.passed
      BY <1>1, <1>2
    <2>2. QED
      BY <1>1, <1>6, <2>1 DEF ExitInv
  <1>10. QED
    BY <1>4, <1>8, <1>9 DEF GateInv

LEMMA RunAgainKeeps ==
  ASSUME GateInv, RunAgain
  PROVE  GateInv'
  <1>1. /\ UNCHANGED <<suite, split, registry, reports>>
        /\ pc' = "start" /\ exit' = None /\ results' = <<>>
    BY DEF RunAgain
  <1>2. None # 0
    <2>1. None \notin Nat
      BY BenchmarkAssumptions, Zenon
    <2>2. QED
      BY <2>1
  <1>3. QED
    BY <1>1, <1>2, ReportsStay DEF GateInv, SuiteInv, RunningInv, ExitInv

LEMMA GateStep ==
  ASSUME GateInv, [Next]_vars
  PROVE  GateInv'
  <1>1. CASE Next
    BY <1>1, EndKeeps, ShuffleKeeps, RunCaseKeeps, PublishKeeps, RunAgainKeeps DEF Next
  <1>2. CASE UNCHANGED vars
    <2>1. ReportInv'
      BY <1>2, ReportsStay DEF vars
    <2>2. Orders' = Orders /\ (\A order : RunOf(order)' = RunOf(order))
          /\ (ValidSuite(suite)' <=> ValidSuite(suite))
      BY <1>2, SameManifest DEF vars
    <2>3. SuiteInv' /\ ExitInv'
      BY <1>2, <2>2 DEF vars, GateInv, SuiteInv, ExitInv
    <2>4. RunningInv'
      BY <1>2, <2>2 DEF vars, GateInv, RunningInv
    <2>5. QED
      BY <2>1, <2>3, <2>4 DEF GateInv
  <1>3. QED
    BY <1>1, <1>2

LEMMA GateIsInvariant == Spec => []GateInv
  BY GateInvInit, GateStep, PTL DEF Spec

-----------------------------------------------------------------------------
(* The theorems.                                                           *)

\* No mutation slips through: a gate that opened saw every mutation executed and
\* rejected by the verifier, whatever the verifiers do, and the verifiers of the
\* package accept no valid one (BenchmarkCase, BenchmarkRunner.run).
THEOREM MutationsStayCaught == Spec => []MutationsAreCaught
  <1>1. GateInv => MutationsAreCaught
    BY DEF GateInv, ReportInv, Tells, MutationsAreCaught, OpenGateMeansRejected,
           BuiltinsCatchMutations
  <1>2. QED
    BY <1>1, GateIsInvariant, PTL

\* The fingerprints of two reports of one manifest and split are equal, whatever
\* the orders their cases ran in (BenchmarkRunner.run sorts by identifier).
THEOREM FingerprintsAreStable == Spec => []FingerprintsIgnoreOrder
  <1>1. ASSUME GateInv, NEW i \in DOMAIN reports, NEW j \in DOMAIN reports
        PROVE  /\ reports[i].observed = reports[j].observed
               /\ reports[i].evaluation = reports[j].evaluation
    <2>1. PICK o1 \in Orders : Tells(reports[i], o1)
      BY <1>1 DEF GateInv, ReportInv
    <2>2. PICK o2 \in Orders : Tells(reports[j], o2)
      BY <1>1 DEF GateInv, ReportInv
    <2>3. ById(RunOf(o1)) = ById(RunOf(o2))
      BY <1>1, SameById DEF GateInv
    <2>4. /\ Observations(RunOf(o1)) = Observations(RunOf(o2))
          /\ Evaluations(RunOf(o1)) = Evaluations(RunOf(o2))
      BY <2>3 DEF Observations, Evaluations
    <2>5. QED
      BY <2>1, <2>2, <2>4 DEF Tells
  <1>2. GateInv => FingerprintsIgnoreOrder
    BY <1>1 DEF FingerprintsIgnoreOrder
  <1>3. QED
    BY <1>2, GateIsInvariant, PTL

\* Exit code 0 tells that every case of the selected split ran exactly once and
\* came to what the manifest expects, and that no other case ran (cli.py,
\* benchmark_command).
THEOREM ExitStaysTrue == Spec => []ExitTellsTheSplit
  <1>1. ASSUME GateInv, exit = 0
        PROVE  LET last == reports[Len(reports)].results
               IN  /\ \A i, j \in DOMAIN last : last[i].case = last[j].case => i = j
                   /\ {last[i].case : i \in DOMAIN last} =
                        {c \in suite : split = None \/ c.split = split}
                   /\ \A i \in DOMAIN last : last[i].outcome = last[i].case.expected
    <2> DEFINE r == reports[Len(reports)]
               last == r.results
    <2>1. r.passed /\ Len(reports) \in DOMAIN reports
      <3>1. reports \in Seq(Range(reports))
        BY <1>1 DEF GateInv, ReportInv
      <3>2. QED
        BY <1>1, <3>1 DEF GateInv, ExitInv
    <2>2. PICK o \in Orders : Tells(r, o)
      BY <1>1, <2>1 DEF GateInv, ReportInv
    <2> HIDE DEF r
    <2>3. last = RunOf(o) /\ \A k \in DOMAIN o : Observed(o[k]) = o[k].expected
      BY <2>1, <2>2 DEF Tells
    <2> HIDE DEF last
    <2>4. /\ DOMAIN o = 1 .. Len(o) /\ Range(o) = Selected(suite)
          /\ \A i, j \in DOMAIN o : o[i] = o[j] => i = j
      <3>1. SuiteInv
        BY <1>1 DEF GateInv
      <3>2. QED
        BY <3>1, OrdersAre
    <2>5. /\ DOMAIN last = DOMAIN o
          /\ \A i \in DOMAIN o : last[i].case = o[i] /\ last[i].outcome = Observed(o[i])
      BY <2>3 DEF RunOf
    <2>6. {last[i].case : i \in DOMAIN last} = Range(o)
      BY <2>5 DEF Range
    <2>7. Selected(suite) = {c \in suite : split = None \/ c.split = split}
      BY DEF Selected
    <2>8. QED
      BY <2>3, <2>4, <2>5, <2>6, <2>7 DEF last, r
  <1>2. GateInv => ExitTellsTheSplit
    BY <1>1 DEF ExitTellsTheSplit
  <1>3. QED
    BY <1>2, GateIsInvariant, PTL
=============================================================================
