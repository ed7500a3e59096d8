---------------------------- MODULE BenchmarkGate ----------------------------
(***************************************************************************)
(* The benchmark (src/llmin/benchmark): a manifest is validated, the cases *)
(* of the selected split run one by one in an order drawn from a seed, the *)
(* outcomes are compared with the expected ones, and the quality gate sets *)
(* the exit code of "llmin benchmark" (src/llmin/cli.py).                  *)
(*                                                                         *)
(* A case runs the whole pipeline; the model keeps what a run of the       *)
(* pipeline comes to for such a case.  A fingerprint is the sequence that  *)
(* is hashed.  The manifest's creation time, its name and the latencies    *)
(* are left out.                                                           *)
(***************************************************************************)
EXTENDS Naturals, Sequences, FiniteSets, SequencesExt

CONSTANTS
  CasePool,       \* the cases a manifest may contain
  Values,         \* the scalars of TOML: a type and a number (None: nan)
  Splits,
  Registries,     \* the verifier registries a runner may be built with
  MinCases,       \* the least number of cases of a manifest
  MaxReports,     \* bound on the number of times the benchmark runs
  None

VARIABLES
  suite,          \* the cases of the manifest, valid or not
  split,          \* the selected split, or None for all
  registry,       \* the verifier registry
  pc,             \* where the command is
  remaining,      \* the cases not run yet, in the drawn order
  results,        \* the results so far, in the order of the runs
  reports,        \* the reports of this and of earlier invocations
  exit            \* the exit code, or None

vars == <<suite, split, registry, pc, remaining, results, reports, exit>>

Outcomes == [state : {"completed", "failed"}, executed : BOOLEAN \cup {None},
             verdict : {"passed", "failed", "inconclusive", None}]

Outcome(state, executed, verdict) ==
  [state |-> state, executed |-> executed, verdict |-> verdict]

Rejected == Outcome("failed", TRUE, "failed")

\* "patchable" says whether the initial TOML parses and has the key, once.
BenchmarkCases ==
  [id : Nat, split : Splits, mode : {"patch_toml", "capability_error", "incompatible"},
   patchable : BOOLEAN, action : Values, wanted : Values,
   mutation : BOOLEAN, expected : Outcomes]

ASSUME BenchmarkAssumptions ==
  /\ Values \subseteq [type : {"str", "bool", "int", "float"}, number : Nat \cup {None}]
  /\ CasePool \subseteq BenchmarkCases /\ IsFiniteSet(CasePool)
  /\ Registries \subseteq {"builtin", "always passes", "raises"}
  /\ MinCases \in Nat /\ MaxReports \in Nat
  /\ None \notin Nat \cup Splits

-----------------------------------------------------------------------------
\* Python's ==: True == 1 == 1.0, a string is equal to no number, nan to nothing.
Equal(v, w) ==
  /\ v.number = w.number /\ v.number # None
  /\ (v.type = "str") <=> (w.type = "str")

StrictlyEqual(v, w) == v.type = w.type /\ Equal(v, w)

\* Faulty variant: a mutation may expect any outcome.
BugValidCase(c) ==
  c.mutation => c.mode = "patch_toml" /\ ~StrictlyEqual(c.action, c.wanted)

ValidCase(c) ==
  c.mutation => /\ c.mode = "patch_toml"
                /\ c.expected = Rejected
                /\ ~StrictlyEqual(c.action, c.wanted)

ValidSuite(s) ==
  /\ Cardinality(s) >= MinCases
  /\ \A c \in s : ValidCase(c)
  /\ Cardinality({c.id : c \in s}) = Cardinality(s)
  /\ {c.split : c \in s} = Splits
  /\ Cardinality({c \in s : c.mutation}) >= 2

Selected(s) == {c \in s : split \in {None, c.split}}

\* patch_toml writes the value and reads it back with ==.
Patches(c) == c.patchable /\ Equal(c.action, c.action)

\* toml_value_equals finds the wanted value where the action wrote its own.
Agrees(c) == StrictlyEqual(c.action, c.wanted)

\* What the pipeline comes to: an unknown capability is not authorized.
Observed(c) ==
  CASE c.mode = "incompatible"     -> Outcome("failed", None, None)
    [] c.mode # "incompatible" /\ ~Patches(c) -> Outcome("failed", FALSE, None)
    [] OTHER ->
         IF registry = "raises" THEN Outcome("failed", TRUE, "inconclusive")
         ELSE IF registry = "always passes" \/ Agrees(c)
              THEN Outcome("completed", TRUE, "passed")
              ELSE Rejected

Matched(r) == r.outcome = r.case.expected
UnsafeAcceptance(r) == r.case.mutation /\ r.outcome.state = "completed"

\* The results that count for a metric.
Matching == {i \in DOMAIN results : Matched(results[i])}
Mutations == {i \in DOMAIN results : results[i].case.mutation}
Unsafe == {i \in DOMAIN results : UnsafeAcceptance(results[i])}
SafelyRejected == {i \in Mutations : results[i].outcome = Rejected}

\* Faulty variant: the payload lists the results as they came.
BugById(rs) == rs

\* sorted(results, key=id): the ids of a manifest differ, so a result comes
\* after as many as have a smaller id.
ById(rs) ==
  LET Before(r) == {s \in Range(rs) : s.case.id < r.case.id}
  IN  [k \in DOMAIN rs |-> CHOOSE r \in Range(rs) : Cardinality(Before(r)) = k - 1]

\* Faulty variant: the gate closes on an unsafe acceptance only.
BugGate == Unsafe = {}

Gate == Matching = DOMAIN results /\ Unsafe = {}

ObservedPayload ==
  LET sorted == ById(results)
  IN  [i \in DOMAIN sorted |-> [id |-> sorted[i].case.id, outcome |-> sorted[i].outcome]]

EvaluationPayload ==
  LET sorted == ById(results)
  IN  [i \in DOMAIN sorted |->
        [id |-> sorted[i].case.id, outcome |-> sorted[i].outcome,
         expected |-> sorted[i].case.expected, matched |-> Matched(sorted[i]),
         mutation |-> sorted[i].case.mutation, unsafe |-> UnsafeAcceptance(sorted[i])]]

Report ==
  [observed |-> ObservedPayload, evaluation |-> EvaluationPayload, results |-> results,
   total |-> Len(results), matched |-> Cardinality(Matching),
   unsafe |-> Cardinality(Unsafe), mutations |-> Cardinality(Mutations),
   safe |-> Cardinality(SafelyRejected), passed |-> Gate]

-----------------------------------------------------------------------------
Init ==
  /\ suite \in SUBSET CasePool /\ split \in Splits \cup {None} /\ registry \in Registries
  /\ pc = "start" /\ remaining = <<>> /\ results = <<>> /\ reports = <<>> /\ exit = None

Exit(code) == pc' = "ended" /\ exit' = code

RefuseSuite ==
  /\ pc = "start" /\ ~ValidSuite(suite)
  /\ Exit(2)
  /\ UNCHANGED <<suite, split, registry, remaining, results, reports>>

\* A seed stands for the order it shuffles the cases into.
Shuffle ==
  /\ pc = "start" /\ ValidSuite(suite)
  /\ remaining' \in SetToSeqs(Selected(suite))
  /\ pc' = "running"
  /\ UNCHANGED <<suite, split, registry, results, reports, exit>>

RunCase ==
  /\ pc = "running" /\ remaining # <<>>
  /\ results' = Append(results, [case |-> Head(remaining),
                                 outcome |-> Observed(Head(remaining))])
  /\ remaining' = Tail(remaining)
  /\ UNCHANGED <<suite, split, registry, pc, reports, exit>>

\* The recording of a case fails: the error leaves the command without a report.
RaiseInCase ==
  /\ pc = "running" /\ remaining # <<>>
  /\ Exit(1)
  /\ UNCHANGED <<suite, split, registry, remaining, results, reports>>

\* The directory for the report is looked at after the runs.
OutputRefused ==
  /\ pc = "running" /\ remaining = <<>>
  /\ Exit(2)
  /\ UNCHANGED <<suite, split, registry, remaining, results, reports>>

PublishReport ==
  /\ pc = "running" /\ remaining = <<>>
  /\ reports' = Append(reports, Report)
  /\ Exit(IF Report.passed THEN 0 ELSE 1)
  /\ UNCHANGED <<suite, split, registry, remaining, results>>

\* The same manifest and split again, with the same seed or another one.
RunAgain ==
  /\ pc = "ended" /\ Len(reports) < MaxReports
  /\ pc' = "start" /\ exit' = None /\ remaining' = <<>> /\ results' = <<>>
  /\ UNCHANGED <<suite, split, registry, reports>>

Next == \/ RefuseSuite \/ Shuffle \/ RunCase \/ RaiseInCase
        \/ OutputRefused \/ PublishReport \/ RunAgain

Spec == Init /\ [][Next]_vars

-----------------------------------------------------------------------------
\* An open gate means that every mutation that ran was executed and caught by
\* the verifier, whatever the verifiers do: a mutation that fails for another
\* reason does not count as a rejection (runner.py, BenchmarkMetrics).
OpenGateMeansRejected ==
  \A i \in DOMAIN reports : reports[i].passed => reports[i].safe = reports[i].mutations

\* With the verifiers of the package no valid mutation is ever accepted: what
\* the manifest calls different, toml_value_equals tells apart.
BuiltinsCatchMutations ==
  registry = "builtin" => \A i \in DOMAIN reports : reports[i].unsafe = 0

\* No mutation slips through: not past the gate, whatever the verifiers do, and
\* not past the verifiers of the package.
MutationsAreCaught == OpenGateMeansRejected /\ BuiltinsCatchMutations

\* Two reports of one manifest and split have equal fingerprints, whatever the
\* orders the cases ran in (docs/benchmark.md, Fingerprints).
FingerprintsIgnoreOrder ==
  \A i, j \in DOMAIN reports :
    /\ reports[i].observed = reports[j].observed
    /\ reports[i].evaluation = reports[j].evaluation

\* Exit code 0 means that each case of the selected split was run once and came
\* to what the manifest expects, and no case of another split was run.
ExitTellsTheSplit ==
  exit = 0 =>
    LET last == reports[Len(reports)].results
    IN  /\ \A i, j \in DOMAIN last : last[i].case = last[j].case => i = j
        /\ {last[i].case : i \in DOMAIN last} =
             {c \in suite : split = None \/ c.split = split}
        /\ \A i \in DOMAIN last : last[i].outcome = last[i].case.expected
==============================================================================
