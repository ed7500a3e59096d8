# A verification project for llmin

llmin plans a task with a language model, executes the plan with typed
capabilities inside a file sandbox, verifies the result independently and keeps
a durable, auditable record of every attempt in SQLite. This directory holds
TLA+ models of the parts that carry this promise, TLC configurations that check
them on small instances, and proofs checked by TLAPS.

Paths below are relative to the repository (`src/llmin/...` is the package).

## 1. Inventory

| Component | Code | State it keeps | Operations | Module |
|---|---|---|---|---|
| Orchestrator state machine | `orchestrator/state_machine.py` | current state, history | `transition` | `TaskLifecycle` |
| Pipeline | `pipeline.py` | one run: plan, reports | `run` | `AttemptCoordinator` |
| Coordinator, recorder | `memory/recorder.py` | one call: where it is, its answer | `AttemptCoordinator.run`, `AttemptRecorder.record[_with_receipt]` | `AttemptCoordinator` |
| Attempt tables | `memory/sqlite.py`, `memory/models.py` | `attempts`, `trace_events`, `evidence`, `recording_receipts` | `begin_attempt`, `append_trace`/`emit`, `append_evidence`, `finalize_attempt_with_receipt`, `get_attempt`, `reconstruct_attempt` | `AttemptStore`, `AttemptPromise`, `AttemptReader` |
| Episodes, relations, contradictions, costs | `memory/sqlite.py`, `memory/models.py` | `episodes`, `episode_transitions`, `artifact_relations`, `contradictions`, `cost_entries` | `create_episode`, `transition_episode`, `append_*` | `EpisodeStore` |
| Schema migration | `memory/sqlite.py` | `schema_metadata(singleton, version)`, the encoding of every document, receipts | `_migrate`, `_migrate_documents_to_v4` | `SchemaMigration` |
| Artifact store | `memory/artifacts.py` | files by hash, temporary files, a lock per process | `put`, `read` | `ArtifactStore`, `BlobPromise` |
| Sandbox, transaction | `execution/sandbox.py` | files of a workspace, snapshots | `read_text`, `write_text_atomic`, `commit`, `rollback` | `SandboxTransaction` |
| Executor, capabilities | `execution/executor.py`, `execution/capabilities.py` | results so far | `authorize`, `execute` | `PlanExecutor` |
| Verification | `verification/` | coverage, evidence, errors | `verify` | `VerificationService` |
| Planner | `planning.py` | requests made | `plan` | `OpenRouterPlanner` |
| Benchmark | `benchmark/` | manifest, order, case results, report | `BenchmarkRunner.run` | `BenchmarkGate` |
| Command line | `cli.py` | exit code | `show-attempt`, `benchmark` | `AttemptReader`, `BenchmarkGate` (partly) |
| Trace, redaction | `observability/trace.py` | sinks | `emit`, `redact` | partly, in `AttemptStore` |
| JSON types, environment probe | `domain/json_types.py`, `memory/environment.py` | none | conversion and I/O | not modelled |

How they interact. `AttemptCoordinator.run` looks an attempt up, opens its
envelope with `begin_attempt` and calls `Pipeline.run` with the store as trace
sink. The pipeline walks the orchestrator's states (received, routed, planned,
authorized, executed, verified, or failed from any of them), emitting an event
before each change of state, and calls planner, executor and verification
service in between; each of these emits its own events into the same journal.
The recorder then stores artifact payloads and calls
`finalize_attempt_with_receipt`, which validates the whole journal, appends the
transitions to `recorded` and `completed`, links the evidence, replaces the row
and writes a receipt, all in one `BEGIN IMMEDIATE` transaction. A caller may also
run a pipeline itself and hand the result to `AttemptRecorder.record`. Episodes
are distilled from attempts: they cite their events, evidence, reports and
environments. Every process that opens the database migrates it first. The
benchmark runs the whole pipeline once per case.

What is hard here, and what makes each part correct:

* Several processes share the database, and one logical operation of the
  coordinator is many transactions. Calls may crash or fail between any two of
  them and be repeated. Correct means: finalization is all or nothing, a record
  tells a single run, an answer stays true, a repeated recording is answered with
  the same record, an envelope exists before its events, and an attempt is not
  executed twice.
* The journal is written by components that do not know each other, and
  `append_trace` checks nothing; the validation at the end must reject every
  journal that does not show a lawful life, and accept every journal a pipeline
  can leave.
* A reader puts an attempt together from several SELECTs that no transaction
  spans. Correct means: what it shows as final is proved by what it shows.
* Records other than attempts are looked up and inserted in two steps. The
  provenance of an episode is compared with rows that may come into being, or
  change, in between. Correct means: what was checked stays true, references
  hold, and the audit trail of an episode tells its state.
* A migration reads before it locks, while other processes may already use the
  database it migrates. Correct means: nothing another process did is undone.
* The quota of the artifact store is a directory scan under a lock that other
  processes do not see, and each file operation may fail half way. Correct means:
  no torn payload, no lost lock, a bounded directory.
* The sandbox promises a group of writes that is undone as a whole, on an
  operating system where each call may fail before or after its effect. Correct
  means: the report tells what happened to the files.
* The verdict aggregates required and optional conditions that match, mismatch
  or cannot be inspected. Correct means: it never claims more than was seen.
* A provider's response is unconstrained, and budgets have boundaries. Correct
  means: a plan that comes back is within them, and a response that fits is not
  lost.
* The benchmark's gate must not be opened by a mutation that fails for another
  reason than the verifier's verdict, nor depend on the order of the cases.

## 2. Modules

`TaskLifecycle` holds the states, the allowed transitions and one orchestrator
run (`state`, `length` of its history).

`AttemptStore` EXTENDS it with the four tables as functions and sequences:
`attempts[a]` is a row or `None`, `journal[a]` the events of `a` by sequence,
`evidence[id]` the attempt a row is linked to, `receipts[a]` a receipt. One
action per operation: `BeginAttempt`, `AppendTrace`, `AppendEvidence`,
`FinalizeAttempt`. The first, the second and the last run in one transaction each,
so each is one action, and a rejected one changes nothing. `append_evidence` looks
before it inserts; here it is the effect it has in the end, and `EpisodeStore`
takes its two steps apart. `StoreSpec` lets arbitrary callers append any event of
`CallerEvents` and finalize with any outcome of `CallerOutcomes`.

`AttemptPromise` is the abstract specification: an identifier is opened once
with an envelope and answered once with an acceptable outcome. `AttemptStore`
implements it with `envelope` the identity and environment of the row and
`outcome` the row when it is finalized (`PromiseKept`).

`AttemptReader` EXTENDS `AttemptStore` with `show_attempt`: three SELECTs (row,
journal, evidence), each an action, in the code's order (`ReadingOrder`).

`AttemptCoordinator` EXTENDS `AttemptStore` with the calls: `client[c]` is the
local state of call `c` (program counter, orchestrator run, plan, reports,
payloads, answer) and `blobs` the stored payloads. An action is one database
transaction together with the local computation that precedes it: nothing else
is visible to other calls. `Crash` and `DatabaseFails` may strike between any
two transactions, `RecordAgain` repeats a recording.

`EpisodeStore` EXTENDS `AttemptStore` with the other five tables and the authors'
calls. The `sqlite3` module opens a transaction at the first INSERT, not at a
SELECT, so `create_episode`, `append_relation`, `append_contradiction`,
`append_cost` and `append_evidence` are two actions each: `Look` (find an equal
row, or check what the document refers to) and `Insert`, with the check of an
episode's parents that directly precedes it, which raises `IntegrityError`
("raised") if the identifier has been taken since. `TransitionEpisode`
is one `BEGIN IMMEDIATE` transaction and one action. The attempt tables move
meanwhile (`AttemptsMove`).

`SchemaMigration` is a database (`version`, documents of four groups of tables,
attempt status, receipts) and processes that open, use and close it. The reads
before the first UPDATE are actions of their own; from there on the migration
holds the write lock and is one action, `Migrate`, which writes back what it read
of the first table with rows. `Use` is what a process does once it has the
store: begin, append, create, transition, finalize.

`ArtifactStore` is `put` step by step: lock, look, count, create, write, replace,
sync, clean up, verify, each with its failure, in threads of several processes
that may die and leave a temporary file. `BlobPromise` is the abstract
specification, a set of payloads that only grows and callers that are told of
payloads in it; `ArtifactStore` implements it (its `PromiseKept`).

`SandboxTransaction` is the disk (`path -> content and permissions, or None`),
the ordered snapshots and the transaction. A write is one action, because
`os.replace` is the single point at which the disk changes; its failures
(`WriteRefused`, `StatFails`, `ReplaceFails`, `SyncFails`) are told apart by what
they leave behind. A rollback is one action per file.

`PlanExecutor` EXTENDS it with `Executor.execute`: authorization, the action
loop with the three built-in capabilities, commit, rollback, report. Events
appear as possible failures (`"emit"`), since where emission raises decides what
is undone.

`VerificationService` EXTENDS that with `VerificationService.verify` on the disk
the execution left, so that a verdict can be compared with the actual files and
with the change records of the execution report.

`OpenRouterPlanner` is one call of `plan`: budget check, request, the checks of
the response in the order of the code, the validator of `ExecutionPlan`, and then
`Executor.authorize`, which the pipeline calls with the result.

`BenchmarkGate` is `llmin benchmark`: manifest validation, selection and order of
the cases, one outcome per case, metrics, gate, report and exit code, twice in a
row.

`MC*` modules give values to the constants; each `X_proofs` EXTENDS `X` (those
about the coordinator and the episodes also `AttemptStore_proofs`, whose lemmas
they build on) and holds its theorems; those about `AttemptReader` are in
`AttemptStore_proofs`.

### Abstractions

* Documents are records of what the code compares. A plan is known by the run
  that made it, its task and whether redaction would change its text ("secret")
  or did ("redacted"). A trace event is known by its content, which the real
  `event_id` makes unique. A receipt holds the document in place of its hash, an
  environment stands for its fingerprint, a file content for its bytes and hash.
* In the journal an execution is summarised by the last event the executor
  emits; the events of single actions carry nothing that the store inspects.
  `execution.rolled_back` stands for both rollback events.
* The record validator, the lifecycle validation, the envelope comparison and the
  provenance checks are modelled condition by condition; field formats and sizes
  are not.
* In `SchemaMigration` a document is its revision, whether it is canonical and
  whether its model can read it; ten tables are four groups, told apart by what
  happens to their documents after they are written (nothing, transitions,
  finalization).
* The recorder refuses a result of another task or one that is not terminal; neither
  is what a run returns, so clients of the model do not meet it. The comparison of
  the plan's task in `Executor.authorize` is in `AttemptCoordinator`; the plans of
  `PlanExecutor` are those of the task.
* `patch_toml` is a function from content to content that may refuse; a verifier
  is the set of contents it accepts and the set it cannot inspect. Allowlists are
  sets of paths that passed normalization and the symlink checks.
* A response of the provider is what `plan` tells apart: an error, the shape of
  the first choice, the items of its list (an object, a valid action, known
  capability, own id), and the cost.
* A fingerprint is the sequence that is hashed. TOML scalars are a type and a
  number, which is what Python's `==` and the strict comparison tell apart.
* Code outside the models (SQLite itself, the operating system) does what the
  code expects: transactions are atomic and serialised, `os.replace` is atomic.

## 3. Runs

| Run | Question | Instance |
|---|---|---|
| `store` | Do the attempt tables keep their promises, and readers see the truth, whatever callers append and finalize? | three workloads: seven events of one attempt in any order with four outcomes; two attempts, two traces and shared evidence, secret and plain plans; a reader of one attempt. Two timestamps |
| `shared_attempt` | What if two coordinators are given the same identifier? | two runs, one attempt |
| `recording` | Are results recordable, repeatable and backed by payloads, and is the store used as `StoreSpec` says? | a coordinated and a standalone run, two record calls each; with crashes, database failures and quota and a plain plan, or with plain, secret and foreign plans and no crash or database failure |
| `finalization` | Is every opened attempt finalized when nothing fails? | the same two runs, no faults, fairness |
| `execution` | Do reports and verdicts tell the truth about the files, whatever fails? | every plan of up to three actions out of seven with one task, or three plans with every task of one or two of twelve conditions; two paths, up to eight starting disks |
| `episodes` | Do provenance, references and audit trails hold while calls interleave? | two authors; three workloads: two episodes that may cite each other and an attempt that begins and ends; one episode, three moves; relations, and closings of closings, of two episodes |
| `artifacts` | Are payloads whole, the directory bounded, answers durable, and do puts end? | three threads of two processes, one put each, four payloads of which not all fit, every fault, crashes |
| `migration` | Does a database survive being opened by two processes at once? | eight databases: absent, version 2, 3, 5, with and without rows, one with an unreadable document; two attempts |
| `planning` | Is a returned plan allowed, and a fitting response planned? | budgets 0 to 2, costs below, at and above them, malformed costs, every response of up to two items |
| `benchmark` | Do gate, fingerprints and exit code tell what the cases came to? | every manifest over nine cases, every split, order and registry, two invocations |
| `executed_twice` | An attempt is executed twice (section 6) | two runs, one attempt |
| `stale_migration` | A migration overwrites a finalized attempt (section 6) | a database of version 3 without rows, two processes |

Several runs unite instances. A variable of the MC module that is chosen once
(`workload`, `found`), a choice of initial states (`Chosen`), or in `recording` a
state constraint on what was chosen at the start (`PlanOrFault`), selects the
inputs of a behaviour; TLC explores the union of the instances and not their product,
which would be too large and ask nothing new.

Several properties are conjunctions of named parts, each stated and explained
where it is defined: for example `ReferencesHold` is the type invariant of
`EpisodeStore` with `LineageIsGrounded` and `RecordsAreGrounded`.

What the properties of the runs say:

* `store`: `FinalizationIsAtomic` (final row, receipt, evidence links and the
  store's own transitions come together), `CompletedIsVerified`, `HistoryIsKept`,
  `StoredPlansAreRedacted`, `PromiseKept`, `ViewsAreFaithful` (a view shown as
  final contains its proof, and nothing it shows is taken back), `StoreTypeOK`.
* `shared_attempt`: `RecordTellsOneRun`, `EnvelopeBeforeEvents`, `AnswerIsDurable`.
* `recording`: `RepeatedRecordingIsAccepted` and `ResultIsRecordable`, each with
  the exceptions named in its definition (section 6); `RecordsAreSound` (a final
  record refers only to stored payloads); `StoreSpec`.
* `execution`: `SuccessTellsTheDisk`, `RolledBackIsRestored`,
  `FailureIsAllOrNothing` (by report or by exception), `FilesAreWhole` (also after
  a crash in the middle), `VerdictIsJustified`, `TransactionEnds`, `VerifyTypeOK`.
* `episodes`: `ProvenanceHolds` (what was compared when an episode was stored is
  still so), `ReferencesHold`, `HistoryTellsState`, `AnsweredIsStored`,
  `EpisodesAreKept`.
* `artifacts`: `FilesAreSound` (no torn payload; locks and temporary files belong
  to a put), `QuotaHolds`, `PromiseKept`, `PutEnds`.
* `migration`: `ReceiptsMatch`, `VersionIsTrue` (all documents of version 4 are
  canonical), `NothingIsUndone`, `RefusalIsJustified` (a process that raises met an
  unknown version, or an unreadable document and then the database is still the old
  one; with one exception, the loser of a race to create a database, section 6).
* `planning`: `ReturnedPlanIsAllowed`, `FittingResponseIsPlanned` (against a
  reference definition, `Fits`).
* `benchmark`: `MutationsAreCaught`, `FingerprintsIgnoreOrder`, `ExitTellsTheSplit`.

Bounds and why they are enough. `MaxRecordCalls` bounds how often one result is
recorded: once and again is all the code distinguishes (open row, finalized row).
`Clock` has one timestamp more than a finalization needs, so that a retry that
restamped would be seen. Two runs suffice for interference on one identifier,
because the store relates an attempt's row only to one candidate at a time; two
attempts suffice for evidence that belongs to another. Journals are bounded by
the events one run can emit. Three actions suffice for a rollback that has one
file to restore before and after a failing one; the plan of four exceeds the
budget. `MaxTransitions` = 3 reaches a tombstone by every path through the other
states with a detour. Two authors suffice for a look that another call
invalidates, since a call looks at most once. `MaxCalls` = 1 put per thread lets
two threads queue for one lock while the third races from outside it.
`MaxRevision` = 1 tells a changed episode from an unchanged one. `MinCases` is 3
where the manifest requires ten: the least number the other rules allow, so that
every rule is still at its boundary. `MaxReports` = 2 because a fingerprint needs
something to be compared with. In `shared_attempt` no faults are injected: a crash
or a database failure only stops a call, and every prefix of its steps is already
a reachable state, so safety loses nothing; the two runs have the same arguments,
which makes the symmetry sound (no liveness is checked there).

In `migration` old databases without events are opened and not used (`Quiet`):
using one while another process still migrates it is what `stale_migration`
shows. `execution` leaves out the fault `"stat"` for the reason in section 6.

Deadlock is not checked in runs whose calls end (coordinator, executor and
verification, artifacts, planner, benchmark): a finished call is a real end. The
store, episode and migration runs never stop and are checked.

Fairness. `FairSpec` of the coordinator and of the artifact store assumes weak
fairness of each call's next step: a call runs in its caller's thread, and while
it has a next step, nothing but a failure keeps it from being taken (SQLite
grants its write lock to a waiting caller within its timeout; exceeding it is
`DatabaseFails`, not part of that run; a thread that waits for the artifact lock
gets it once it stays free, and threads put finitely often). Execution assumes it of
the executor's thread. `finalization` uses plain plans only, since what it asks is
whether every path of the pipeline leaves a journal that validates; the plans that
are refused are in `recording`. Crashes, failures and repeated recordings are under no
fairness.

## 4. Proofs

`AttemptStore_proofs` proves, for all attempts, runs, traces, events, outcomes
and timestamps, of `StoreSpec`:

* `StoreTypeCorrect`: `StoreTypeOK`.
* `AtomicFinalization`: `FinalizationIsAtomic`. It is inductive together with the
  type invariant. The argument at a commit: the attempt was not final before, so
  no event of the store is in its journal; and evidence is linked only if it is
  free or already this attempt's, so no other attempt loses a link it records.
* `KeepsHistory`: `HistoryIsKept`, a property of steps; it needs
  `FinalizationIsAtomic`, since a receipt is written only where none is.
* `StoresRedactedPlans`: `StoredPlansAreRedacted`.
* `CompletesVerified`: `CompletedIsVerified`. What a commit establishes is kept
  because journals only grow; what the commit itself shows follows from the
  lifecycle validation of the journal with its two terminal transitions.
* `KeepsPromise`: the tables implement `AttemptPromise`.

They rest on `StoreAssumptions` only: `None` is none of the documents, the
store's mark is not a run, and callers append and finalize well-formed documents
(pydantic rejects others before the store sees them). TLC evaluates it in every
store run.

`ArtifactStore_proofs` proves, for all payloads, sizes, quotas, threads, processes
and sets of failures, of `Spec` (no fairness is needed):

* `FilesStaySound`: `FilesAreSound`, the type invariant with the invariant of the
  lock and `StoredIsWhole`. It is not inductive: what replaces a payload must be
  known to be whole. `PutsAreSound` says so (a put about to replace has written
  everything, and its payload passed the checks). Two lemmas carry the steps:
  `GoingOn` for those that keep the lock, `Leaving` for those that release it.
* `StoreKeepsPromise`: the store implements `BlobPromise`. Calling and dying
  forget, replacing keeps, answering tells, every other step is invisible.

* `QuotaStays`: `QuotaHolds`, for finitely many processes (the bound counts them)
  and any number of threads and payloads. The sum of what is in the directory is
  not inductive: what a scan has let pass is not there yet, and what others are
  writing may have been missed by it. `QuotaInv` bounds the payloads in place, the
  leaked bytes and the `Claim` of every process together: from its scan on, the
  holder of a lock claims the size of its payload, or what is in its temporary
  file. A scan that lets a put pass counted all but the claims of the others, at
  most one payload each (`CountingFits`); every other step turns a claim into
  bytes or drops it (`Adds`), and only the process that steps changes its claim
  (`OthersClaim`).

Sums need facts about `SumFunctionOnSet`, a recursive function over subsets, for
every finite set: that any element may be taken first (`SumRemoves`), that a sum is
at most another if its terms can be paired with as large ones (`SumAlong`), that n
terms of at most M add up to n * M at most (`SumIsLimited`). The induction they
need is not taken from a theorem with an operator parameter but from one about
sets: a nonempty set of subsets of a finite set has a smallest member
(`SmallestSet`, from `WFMin`), so a smallest counterexample is assumed and refuted.
That the recursive definition has a solution at all is proved in the same way
(`TotalsExist`).

They rest on `ArtifactAssumptions` (sizes are numbers, `None` is no payload, thread
or number), which the run `artifacts` evaluates.

`AttemptCoordinator_proofs` proves of `Spec`, for any number of runs that share
attempts, identities and environments in any way, with any faults:

* `RunsUseTheStore`: `Spec => StoreSpec`. Each of the twenty-odd actions is a step
  of `StoreNext` or leaves the tables alone, because a call's plan and reports are
  its own (`CallsAreOwn`), so that what it emits is in `CallerEvents` and what it
  records in `CallerOutcomes`. With it every theorem about the tables holds of the
  coordinator by proof.
* `RecordsStaySound`: `RecordsAreSound`. A payload is put before the transaction
  that refers to it, and none is removed.
* `EnvelopeComesFirst`: `EnvelopeBeforeEvents`. Beyond "lookup" and "begin" a
  coordinated call's attempt has a row of its identity, and rows keep theirs.
* `AnswersAreDurable`: `AnswerIsDurable`. An answer is given of a finalized row,
  and those stay (`RowsStay`).
* `RecordsTellOneRun`: `RecordTellsOneRun`, the deepest of them. The lifecycle
  check compares states and numbers only, so why does it never accept a mixture of
  two runs' transitions? Because a run emits its transitions from number 1 on, and
  an accepted lifecycle has exactly one transition numbered 1 (`OneFirst`). The
  invariant `FirstsAreShown` says that whatever a run has left in a journal or in an
  open row, and whatever it is about to record, its first transition is in that
  journal: were two runs involved, there would be two of them (`OneRunFinalizes`).
* `RepeatedRecordingsAreAccepted`: `RepeatedRecordingIsAccepted`, for constants
  with `OneTaskPerAttempt` (calls with the same attempt have the same identity).
  Without it a standalone call with another task appends its events to the journal
  of a finalized attempt and spoils it for a retry, which TLC finds;
  `AttemptCoordinator.run` and `OrchestratorRun` make a fresh UUID unless they are
  given one, so that an identifier is shared only on purpose, for the same task.
  `EventsAreOwned` says whose identity each event carries, `AnswersFit` that an
  answered call still holds what its row says.
* `ResultsAreRecordable`: `ResultIsRecordable`, for constants with
  `OneCallPerAttempt`; two calls that share an attempt spoil each other's journal,
  and then TLC finds a result that cannot be recorded. It is the converse of the
  above: the pipeline's way through its states is one that
  `_validate_lifecycle_trace` accepts. Until a call is answered, `JournalTells` says
  that its journal is a chain of the transitions it has made (`Chain`), that only
  the last event can be an end of it (`Settled`) and that its report was announced;
  `RowFits` that its row is open and holds no plan but that of a standalone call;
  `EvidenceIsOwn` that its evidence is free or its own. `ChainIsAccepted` turns the
  chain, with the store's two terminal transitions, into a valid lifecycle.

`AttemptStore_proofs` also proves `ViewsStayFaithful` (`ViewsAreFaithful`) of
`ReaderSpec`. The invariant `ViewsFit` says, of every prefix of the three reads, how
what was read relates to what the tables hold now; `FinalIsShown` adds to the
store's invariants that a final row's state is shown by its journal. It needs
`row` to be read first: journals grow and links stay, so what is read later proves
at least as much.

`EpisodeStore_proofs` proves of `EpisodeSpec`, for all requests and authors:

* `ProvenanceStays` (`ProvenanceHolds`): events stay in a journal, evidence stays
  linked, a cited report is that of a finalized row (`OpenRowsAreBare`), which
  stays; and if the attempt begins after the episode was stored, `begin_attempt`
  compares the identity with the journal, in which the cited events are.
* `ReferencesStay` (`ReferencesHold`): between the two steps of a call nothing it
  looked at is undone (`InsertsAreCleared`), and a new episode is nobody's parent yet.
* `HistoriesTell` (`HistoryTellsState`), `AnswersAreStored` (`AnsweredIsStored`) and
  the action property `EpisodesStay` (`EpisodesAreKept`).

The attempt tables take part in it through the lemmas of `AttemptStore_proofs`
(`JournalGrows`, `RowsStay`), applied to each step by `AttemptsStay`.

`SchemaMigration_proofs` proves `VersionStaysTrue` (`VersionIsTrue`) of
`MigrationSpec`, for any number of processes and any database that some version of
the program can have left (`IsConsistent`). Until somebody has
migrated, a process has seen what there is: nothing in the tables it has still to
read, every row of the one it reads (`SeenInv`). An attempt that waits for its
receipt is final in its row and in what any process has seen of it (`ReceiptInv`).

`RefusalsAreJustified` (`RefusalIsJustified`) is of the same specification. A process
finds a document unreadable only while the version is the old one: if a process is
still migrating when the version is 4 already, another has read every document, so
all are readable, and so is what this one has read (`ReadableInv`).

`ReceiptsMatch` and `NothingIsUndone` fail in general, which is the finding of
`stale_migration`. What is proved is that this finding is the only way in which they
fail:

* `ReceiptsStay` and `NoneIsUndone`: if the receipts match in the database that is
  found, both hold as long as nobody uses the store while a process is about to
  write back what it has read (`UsedWithCare`, a property of steps), unless what it
  has read is a table whose rows never change after they are written (`Immutable`).
  `CareInv` says that then what such a process holds is what the database holds.
* `RecordedIsMigratedSafely`: databases in which an event was recorded need no such
  care (`EventsRecorded`, an assumption on what is found; the group stands for
  evidence and cost entries too). The first table with rows is then an immutable one, and from the first UPDATE on the migration holds
  the write lock. So the danger is confined to databases without any of these: empty
  ones, or those of processes that died between `begin_attempt` and their first
  event.

`VerificationService_proofs` proves of `RunSpec`, for all plans, files, tasks and
faults, over `SandboxTransaction`, `PlanExecutor` and `VerificationService`:

* `FilesStayWhole` (`FilesAreWhole`), `SuccessIsTrue` (`SuccessTellsTheDisk`),
  `VerifyTypeCorrect` (`VerifyTypeOK`) and `VerdictsAreJustified`
  (`VerdictIsJustified`).
* `RollbackRestores` (`RolledBackIsRestored`) and `FailuresAreAllOrNothing`
  (`FailureIsAllOrNothing`), both for constants with `"stat" \notin Faults`: a
  failure of `stat()` between the bytes and the mode of a file leaves the file out
  of the snapshots, and then the property is false (section 6), so the hypothesis is
  as weak as the code allows.

Their invariant `RunInv` follows the transaction: a snapshot holds what `before`
held, a file without a snapshot is as it was, a file the rollback has passed is
back, the changes recorded are those between the disk and `before`; then, of the
verification, what was counted as covered, mismatched or evidence of it.
The effect of a plan is a fold over a sequence in `FailureIsAllOrNothing`, and the
end of a chain of disks, one per action, in the invariant (`Effect`); that the two
are equal, `EffectIsFold`, is proved by a smallest counterexample, as for sums.

`OpenRouterPlanner_proofs` proves `PlansAreAllowed` (`ReturnedPlanIsAllowed`) and
`FittingIsPlanned` (`FittingResponseIsPlanned`) of its `Spec`, for all tasks and
responses.

`BenchmarkGate_proofs` proves of `Spec`, for all manifests, orders, registries and
outcomes:

* `MutationsStayCaught` (`MutationsAreCaught`) and `ExitStaysTrue`
  (`ExitTellsTheSplit`): the report counts exactly the selected cases, so a gate
  that opens has seen every mutation fail by the verdict.
* `FingerprintsAreStable` (`FingerprintsIgnoreOrder`): two reports over the same
  cases and outcomes have one fingerprint. It needs that sorting by id has one
  result for one set of cases: `ByIdSorts` shows that `ById`, which ranks each case
  by the number of smaller ids, orders any sequence with distinct ids.

The assumptions of these modules (`CoordinatorAssumptions`, `AnswerAssumption`,
`EpisodeAssumptions`, `MigrationAssumptions`, `SandboxAssumptions`,
`ExecutorAssumptions`, `PlannerAssumptions` and that of `BenchmarkGate`) say that
constants have their types and that `None` is none of the values it stands beside;
TLC evaluates each in the run of its module.

Every safety property of a passing run is the subject of a theorem, some of those of
the coordinator, `SchemaMigration`, `PlanExecutor` and `ArtifactStore` under the
hypotheses named above. What stays
with TLC is liveness, because TLAPS does not reason about fairness here: `PutEnds`,
`TransactionEnds`, `OpenedIsFinalized`; and the two violations.

## 5. What is not modelled

Not modelled: JSON freezing and canonicalisation (a pure conversion of data; the
models compare documents as values), prompt building and HTTP, the environment
probe, the commands that only wire components together and print, trace sinks
other than the store, the recursion of `redact` over JSON. Of the artifact store:
power loss (and with it the fsync of a shard's parent directory) and the branch
for a file that exists already on Windows. SQLite's lock timeouts appear as
`DatabaseFails` in the coordinator only. Concurrent changes of one workspace are
excluded by `docs/sandbox.md`.

## 6. Disagreements found

Shown by a run:

* An attempt can be executed twice (`executed_twice`): lookup and begin are two
  transactions, and begin accepts an identical open row. `docs/memory.md`: "An
  existing open attempt cannot be executed again". What is recorded in the end
  still tells one run (`RecordTellsOneRun` holds).
* A second migration may write an open attempt over a finalized one
  (`stale_migration`): `_migrate_documents_to_v4` reads the first table with rows
  before it has the write lock, and writes back what it read. The receipt of the
  finalized attempt then proves a document that is not there.

Seen while modelling; each is reproduced by changing one configuration:

* Recording a result again is refused if redaction changed its plan: the stored,
  redacted plan is compared with the raw one (`docs/memory.md`: repeating with
  identical content is idempotent). A standalone run's result with such a plan is
  refused the first time already, by the begin that precedes its finalization.
  Drop `RedactionChangesPlan` from `RepeatedRecordingIsAccepted` or
  `ResultIsRecordable` (`Recording.cfg`).
* The failed result of a plan for another task cannot be recorded, although every
  `PipelineResult` is said to be. Drop the exception from `ResultIsRecordable`.
* A rollback may be reported as completed while earlier writes remain, when
  `stat()` fails between saving a file's bytes and its mode. Add `"stat"` to the
  faults of `Execution.cfg`: `RolledBackIsRestored` is violated.
* Two calls that store the same record at once: the INSERT of the second raises
  instead of finding the row. Check `RepeatIsAccepted` in `Episodes.cfg`.
* `append_evidence` of a known row is answered although the row is linked to
  another attempt. Check `AnsweredEvidenceIsLinked` in `Episodes.cfg`.
* An episode stored before its attempt exists never has to name the attempt's
  environment. Check `EnvironmentIncluded` in `Episodes.cfg`.
* The states of an episode: "Allowed states" of `docs/memory.md` has no way out of
  quarantine but a tombstone, and no tombstone but from quarantine;
  `_ALLOWED_TRANSITIONS` also leads from quarantined back to active and cold, and
  from active and cold to tombstoned. `docs/improvement-plan.md` asks that both show
  the same graph, and that an episode leaves quarantine only by a revalidation.
  `HistoryTellsState` goes by the code; check `DocumentedMovesOnly` in
  `Episodes.cfg`.
* Two processes that create one database at once: the INSERT of the version by the
  second raises `sqlite3.IntegrityError`, which nobody catches, although the database
  is one it could use. `RefusalIsJustified` names the exception; check
  `UsableIsOpened` in `Migration.cfg`.
* Two closings may supersede one contradiction (`RecordsAreGrounded` does not
  forbid it; `docs/improvement-plan.md` plans to).
* Each further process may exceed the artifact quota by one payload, since the
  lock is per process (`docs/memory.md` promises a quota). `QuotaHolds` states the
  bound that holds; check `Occupied <= MaxTotal` in `Artifacts.cfg`.
* A response whose choice is no object, or whose actions share an id, makes
  `plan()` raise something else than `PlanningError`. Check
  `RefusalIsPlanningError` in `Planning.cfg`.

## 7. Running

    tlc -config Store.cfg MCAttemptStore.tla
    tlc -config SharedAttempt.cfg MCAttemptCoordinator.tla
    tlc -config Finalization.cfg MCAttemptCoordinator.tla
    tlc -config Recording.cfg MCAttemptCoordinator.tla
    tlc -config Execution.cfg MCVerificationService.tla
    tlc -config Episodes.cfg MCEpisodeStore.tla
    tlc -config Artifacts.cfg MCArtifactStore.tla
    tlc -config Migration.cfg MCSchemaMigration.tla
    tlc -config Planning.cfg MCOpenRouterPlanner.tla
    tlc -config Benchmark.cfg MCBenchmarkGate.tla
    tlc -config ExecutedTwice.cfg MCAttemptCoordinator.tla    (a violation)
    tlc -config StaleMigration.cfg MCSchemaMigration.tla      (a violation)
    tlapm AttemptStore_proofs.tla
    tlapm ArtifactStore_proofs.tla
    tlapm AttemptCoordinator_proofs.tla
    tlapm EpisodeStore_proofs.tla
    tlapm SchemaMigration_proofs.tla
    tlapm VerificationService_proofs.tla
    tlapm OpenRouterPlanner_proofs.tla
    tlapm BenchmarkGate_proofs.tla

Operators named `Bug...` are faulty variants of the definition that follows
them; no specification uses them. `PROJECT.json` names, for every property, the
variant that breaks it.
