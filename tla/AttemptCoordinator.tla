------------------------- MODULE AttemptCoordinator -------------------------
(***************************************************************************)
(* The attempt boundary: AttemptCoordinator.run and AttemptRecorder        *)
(* (src/llmin/memory/recorder.py) around Pipeline.run                      *)
(* (src/llmin/pipeline.py), on top of the tables of AttemptStore.          *)
(*                                                                         *)
(* Each element of Runs is one call, in its own thread or process: a       *)
(* coordinated one goes through AttemptCoordinator.run; a standalone one   *)
(* calls Pipeline.run with the store as trace sink and hands the result to *)
(* AttemptRecorder.record.  Only database transactions are visible to      *)
(* other calls, so an action is one transaction together with the local    *)
(* computation before it.  Several runs may be given the same attempt      *)
(* identifier.                                                             *)
(***************************************************************************)
EXTENDS AttemptStore

CONSTANTS
  AttemptOf,       \* run -> the attempt_id it is called with
  IdentityOf,      \* run -> its (trace_id, TaskSpec)
  EnvironmentOf,   \* run -> its environment
  Coordinated,     \* the runs that go through AttemptCoordinator.run
  PlanChoices,     \* the [task, text] a planner may return
  Faults,          \* what may fail: "crash", "io", "quota"
  MaxRecordCalls   \* bound on the record() calls a caller makes for one result

VARIABLES
  client,          \* run -> the local state of the call
  blobs            \* the artifact payloads in the content-addressed store

vars == <<attempts, journal, evidence, receipts, client, blobs>>

ASSUME CoordinatorAssumptions ==
  /\ AttemptOf \in [Runs -> Attempts]
  /\ IdentityOf \in [Runs -> Identities]
  /\ EnvironmentOf \in [Runs -> Environments]
  /\ Coordinated \subseteq Runs
  /\ PlanChoices \subseteq [task : Identities, text : {"plain", "secret"}]
  /\ MaxRecordCalls \in Nat /\ 1 .. MaxRecordCalls \subseteq Clock

-----------------------------------------------------------------------------
(* What a run produces.                                                    *)

PlanOf(c, choice) == [run |-> c, task |-> choice.task, text |-> choice.text]

ExecutionOf(c, success) ==
  [plan |-> c, task |-> IdentityOf[c], success |-> success]

\* The evidence of a report is one set of rows of the run; only an inconclusive
\* report may have none (VerificationService).
VerificationOf(c, verdict, gathered) ==
  [run |-> c, task |-> IdentityOf[c], attempt |-> AttemptOf[c],
   verdict |-> verdict, evidence |-> gathered]

Verdicts == {"passed", "failed", "inconclusive"}

\* The states a pipeline run goes through; it is at the n-th after n - 1
\* transitions, and may fail from each.
PipelinePath ==
  <<"received", "routed", "planned", "authorized", "executed", "verified">>

\* The store is used only with the events and the outcomes of these runs.
EventsOf(c) ==
  {TransitionEvent(AttemptOf[c], IdentityOf[c], c, n, PipelinePath[n], to) :
     n \in 1 .. 5, to \in {"failed", "routed", "planned", "authorized",
                           "executed", "verified"}}
  \cup {StepEvent(AttemptOf[c], IdentityOf[c], c, type, report) :
          type \in EventTypes, report \in {c, None}}

EmittedEvents == UNION {EventsOf(c) : c \in Runs}

OutcomesOf(c) ==
  [plan : {PlanOf(c, choice) : choice \in PlanChoices} \cup {None},
   final : {"completed", "failed"},
   execution : {ExecutionOf(c, success) : success \in BOOLEAN} \cup {None},
   verification : {VerificationOf(c, verdict, gathered) :
                     verdict \in Verdicts, gathered \in {{}, {c}}} \cup {None},
   artifacts : {{}, {c}}]

RecordedOutcomes == UNION {OutcomesOf(c) : c \in Runs}

ASSUME StoreServesTheRuns ==
  EmittedEvents \subseteq CallerEvents /\ RecordedOutcomes \subseteq CallerOutcomes

-----------------------------------------------------------------------------
(* The local state of a call.                                              *)

PipelineSteps == {"route", "plan", "authorize", "execute",
                  "executed", "verify", "verified", "fail"}
RecordSteps == {"record", "envelope", "put", "finalize"}

\* "refused": the coordinator would not run the attempt; "rejected": recording
\* was refused by a validation or a quota; "raised": a call to the database
\* failed; "crashed": the process is gone.
Ended == {"acked", "refused", "rejected", "raised", "crashed"}

Steps == {"lookup", "begin"} \cup PipelineSteps \cup RecordSteps \cup Ended

Answers == [record : AttemptRecords, receipt : Receipts]

ASSUME AnswerAssumption == None \notin Answers

Clients ==
  [pc : Steps,
   run : OrchestratorRuns, plan : Plans \cup {None},
   execution : ExecutionReports \cup {None},
   verification : VerificationReports \cup {None},
   artifacts : SUBSET Runs, calls : 0 .. MaxRecordCalls,
   answer : Answers \cup {None}]

StartOf(c) ==
  [pc |-> IF c \in Coordinated THEN "lookup" ELSE "route",
   run |-> NewRun, plan |-> None, execution |-> None, verification |-> None,
   artifacts |-> {}, calls |-> 0, answer |-> None]

Row(c) == attempts[AttemptOf[c]]

At(c, step) == client[c].pc = step

Goto(c, step) == client' = [client EXCEPT ![c].pc = step]

\* The pipeline has returned a PipelineResult: its state is what run() returns.
HasResult(c) == client[c].run.state \in {"verified", "failed"}

\* The result handed to the recorder: the coordinator replaces "verified" by
\* "completed", as callers of a standalone pipeline do.
OutcomeOf(c) ==
  [plan |-> client[c].plan,
   final |-> IF client[c].run.state = "verified" THEN "completed"
             ELSE client[c].run.state,
   execution |-> client[c].execution, verification |-> client[c].verification,
   artifacts |-> client[c].artifacts]

-----------------------------------------------------------------------------
(* AttemptCoordinator.run up to the pipeline.                              *)

\* Faulty variant: the pipeline starts before the attempt is opened.
BugRunBeforeBegin(c) ==
  /\ At(c, "lookup")
  /\ Goto(c, IF Row(c) = None THEN "route" ELSE "refused")
  /\ UNCHANGED <<storeVars, blobs>>

\* get_attempt, in a transaction of its own: a row that exists is refused.
Lookup(c) ==
  /\ At(c, "lookup")
  /\ Goto(c, IF Row(c) = None THEN "begin" ELSE "refused")
  /\ UNCHANGED <<storeVars, blobs>>

\* begin_attempt with plan=None; an identical open row is accepted as well.
Begin(c) ==
  /\ At(c, "begin")
  /\ BeginAttempt(AttemptOf[c], IdentityOf[c], EnvironmentOf[c], None)
  /\ Goto(c, "route")
  /\ UNCHANGED blobs

BeginRefused(c) ==
  /\ At(c, "begin")
  /\ ~BeginAccepts(AttemptOf[c], IdentityOf[c], EnvironmentOf[c], None)
  /\ Goto(c, "refused")
  /\ UNCHANGED <<storeVars, blobs>>

-----------------------------------------------------------------------------
(* Pipeline.run.  OrchestratorRun.transition emits the event first and     *)
(* changes its own state only if that succeeded.                           *)

Emit(c, type, report) ==
  AppendTrace(StepEvent(AttemptOf[c], IdentityOf[c], c, type, report))

\* Faulty variant: the sequence is the length of the history.
BugSequenceFromZero(c, target) ==
  /\ CanTransition(client[c].run, target)
  /\ AppendTrace(TransitionEvent(AttemptOf[c], IdentityOf[c], c,
                                 client[c].run.length,
                                 client[c].run.state, target))

Transition(c, target) ==
  /\ CanTransition(client[c].run, target)
  /\ AppendTrace(TransitionEvent(AttemptOf[c], IdentityOf[c], c,
                                 client[c].run.length + 1,
                                 client[c].run.state, target))

\* The transition to target, after which the call goes on at next.
Advance(c, target, next) ==
  /\ Transition(c, target)
  /\ client' = [client EXCEPT ![c].run = AfterTransition(@, target),
                              ![c].pc = next]
  /\ UNCHANGED blobs

Route(c) == At(c, "route") /\ Advance(c, "routed", "plan")

\* The planner returns a plan, and the run becomes "planned".
PlanReturned(c) ==
  /\ At(c, "plan")
  /\ Transition(c, "planned")
  /\ \E choice \in PlanChoices :
       client' = [client EXCEPT
                    ![c].plan = PlanOf(c, choice),
                    ![c].run = AfterTransition(@, "planned"),
                    ![c].pc = "authorize"]
  /\ UNCHANGED blobs

PlanFailed(c) ==
  /\ At(c, "plan")
  /\ Emit(c, "planning.failed", None)
  /\ Goto(c, "fail")
  /\ UNCHANGED blobs

\* Executor.authorize refuses a plan of another task, and may refuse any plan
\* (budget, capabilities not allowed or not registered).
Authorized(c) ==
  /\ At(c, "authorize")
  /\ client[c].plan.task = IdentityOf[c]
  /\ Advance(c, "authorized", "execute")

Denied(c) ==
  /\ At(c, "authorize")
  /\ Emit(c, "authorization.failed", None)
  /\ Goto(c, "fail")
  /\ UNCHANGED blobs

\* Executor.execute, as far as the journal and the report tell its outcomes
\* apart: the last event it emits, and the report it returns.  The events of
\* the actions before it are left out.
ExecutionEnds(c, type, success, next) ==
  /\ At(c, "execute")
  /\ Emit(c, type, None)
  /\ client' = [client EXCEPT ![c].execution = ExecutionOf(c, success),
                              ![c].pc = next]
  /\ UNCHANGED blobs

ExecutionRejected(c) ==
  ExecutionEnds(c, "execution.preflight_rejected", FALSE, "fail")

ExecutionCompleted(c) == ExecutionEnds(c, "execution.completed", TRUE, "executed")

ExecutionRolledBack(c) == ExecutionEnds(c, "execution.rolled_back", FALSE, "fail")

\* An exception out of execute, a failing emit included, leaves no report.
ExecutionRaised(c) ==
  /\ At(c, "execute")
  /\ Goto(c, "fail")
  /\ UNCHANGED <<storeVars, blobs>>

Executed(c) == At(c, "executed") /\ Advance(c, "executed", "verify")

\* VerificationService.verify emits verification.completed before it returns.
Verify(c) ==
  /\ At(c, "verify")
  /\ Emit(c, "verification.completed", c)
  /\ \E verdict \in Verdicts, gathered \in {{}, {c}} :
       /\ gathered = {} => verdict = "inconclusive"
       /\ client' = [client EXCEPT
         ![c].verification = VerificationOf(c, verdict, gathered),
         ![c].pc = IF verdict = "passed" THEN "verified" ELSE "fail"]
  /\ UNCHANGED blobs

VerifyRaised(c) ==
  /\ At(c, "verify")
  /\ Goto(c, "fail")
  /\ UNCHANGED <<storeVars, blobs>>

Verified(c) == At(c, "verified") /\ Advance(c, "verified", "record")

\* Faulty variant: the run fails without a transition event.
BugSilentFailure(c) ==
  /\ At(c, "fail")
  /\ client' = [client EXCEPT ![c].run.state = "failed", ![c].pc = "record"]
  /\ UNCHANGED <<storeVars, blobs>>

Fail(c) == At(c, "fail") /\ Advance(c, "failed", "record")

PipelineStep(c) ==
  \/ Route(c)
  \/ PlanReturned(c) \/ PlanFailed(c)
  \/ Authorized(c) \/ Denied(c)
  \/ ExecutionRejected(c) \/ ExecutionCompleted(c)
  \/ ExecutionRolledBack(c) \/ ExecutionRaised(c)
  \/ Executed(c)
  \/ Verify(c) \/ VerifyRaised(c)
  \/ Verified(c)
  \/ Fail(c)

-----------------------------------------------------------------------------
(* AttemptRecorder.record_with_receipt.  It refuses a result whose task is *)
(* not the requested one, or whose last state is not terminal; a client    *)
(* records what its own run returned (OutcomeOf), which is neither.        *)

\* The payloads handed over: only a completed run has any.  A caller who
\* records again may hand over others.
Payloads(c) == IF client[c].run.state = "verified" THEN {{}, {c}} ELSE {{}}

\* _validate_retry, for a row that exists.
RetryMatches(c) ==
  /\ Row(c).identity = IdentityOf[c]
  /\ Row(c).environment = EnvironmentOf[c]
  /\ Row(c).plan # None => Row(c).plan = Sanitized(client[c].plan)

\* get_attempt decides between opening the envelope and validating it.
RecordLookup(c) ==
  /\ At(c, "record") /\ client[c].calls < MaxRecordCalls
  /\ \E payload \in Payloads(c) :
       client' = [client EXCEPT
         ![c].artifacts = payload,
         ![c].calls = @ + 1,
         ![c].pc = IF Row(c) = None THEN "envelope"
                   ELSE IF RetryMatches(c) THEN "put" ELSE "rejected"]
  /\ UNCHANGED <<storeVars, blobs>>

RecordBegin(c) ==
  /\ At(c, "envelope")
  /\ BeginAttempt(AttemptOf[c], IdentityOf[c], EnvironmentOf[c], client[c].plan)
  /\ Goto(c, "put")
  /\ UNCHANGED blobs

RecordBeginRejected(c) ==
  /\ At(c, "envelope")
  /\ ~BeginAccepts(AttemptOf[c], IdentityOf[c], EnvironmentOf[c], client[c].plan)
  /\ Goto(c, "rejected")
  /\ UNCHANGED <<storeVars, blobs>>

\* The payloads are stored before the transaction that refers to them.
PutArtifacts(c) ==
  /\ At(c, "put")
  /\ blobs' = blobs \cup client[c].artifacts
  /\ Goto(c, "finalize")
  /\ UNCHANGED storeVars

\* Faulty variant: a rejected payload is ignored.
BugPutIgnored(c) ==
  /\ At(c, "put") /\ "quota" \in Faults
  /\ ~(client[c].artifacts \subseteq blobs)
  /\ Goto(c, "finalize")
  /\ UNCHANGED <<storeVars, blobs>>

PutRejected(c) ==
  /\ At(c, "put") /\ "quota" \in Faults
  /\ ~(client[c].artifacts \subseteq blobs)
  /\ Goto(c, "rejected")
  /\ UNCHANGED <<storeVars, blobs>>

\* The caller is answered with the committed row and receipt.
Finalize(c) ==
  /\ At(c, "finalize")
  /\ FinalizeAttempt(AttemptOf[c], OutcomeOf(c), client[c].calls)
  /\ client' = [client EXCEPT
       ![c].pc = "acked",
       ![c].answer = [record |-> attempts'[AttemptOf[c]],
                      receipt |-> receipts'[AttemptOf[c]]]]
  /\ UNCHANGED blobs

FinalizeRejected(c) ==
  /\ At(c, "finalize")
  /\ ~FinalizeAccepts(AttemptOf[c], OutcomeOf(c), client[c].calls)
  /\ Goto(c, "rejected")
  /\ UNCHANGED <<storeVars, blobs>>

RecordStep(c) ==
  \/ RecordLookup(c)
  \/ RecordBegin(c) \/ RecordBeginRejected(c)
  \/ PutArtifacts(c) \/ PutRejected(c)
  \/ Finalize(c) \/ FinalizeRejected(c)

\* A caller that holds the result records it again: after an answer, and, when
\* it ran the pipeline itself, after an exception too.
RecordAgain(c) ==
  /\ HasResult(c) /\ client[c].calls \in 1 .. MaxRecordCalls - 1
  /\ \/ At(c, "acked")
     \/ c \notin Coordinated /\ client[c].pc \in {"rejected", "raised"}
  /\ Goto(c, "record")
  /\ UNCHANGED <<storeVars, blobs>>

-----------------------------------------------------------------------------
(* Failures.                                                               *)

\* A transaction fails (database locked, disk full): the exception leaves the
\* call.  execute and verify are inside a try and are covered by ...Raised.
DatabaseFails(c) ==
  /\ "io" \in Faults
  /\ client[c].pc \notin Ended \cup {"execute", "verify", "put"}
  /\ Goto(c, "raised")
  /\ UNCHANGED <<storeVars, blobs>>

\* The process dies between two transactions; what it had not written is lost.
Crash(c) ==
  /\ "crash" \in Faults
  /\ client[c].pc \notin Ended
  /\ client' = [client EXCEPT
       ![c] = [StartOf(c) EXCEPT !.pc = "crashed", !.answer = client[c].answer]]
  /\ UNCHANGED <<storeVars, blobs>>

Init ==
  /\ StoreInit
  /\ client = [c \in Runs |-> StartOf(c)]
  /\ blobs = {}

Step(c) ==
  Lookup(c) \/ Begin(c) \/ BeginRefused(c) \/ PipelineStep(c) \/ RecordStep(c)

Next ==
  \E c \in Runs : Step(c) \/ RecordAgain(c) \/ DatabaseFails(c) \/ Crash(c)

Spec == Init /\ [][Next]_vars

\* A call that is not blocked goes on: it runs in its caller's thread.
FairSpec == Spec /\ \A c \in Runs : WF_vars(Step(c))

-----------------------------------------------------------------------------
(* What the boundary promises its callers.                                 *)

\* Every call, document and payload is well formed.
CoordinatorTypeOK ==
  /\ StoreTypeOK
  /\ client \in [Runs -> Clients]
  /\ blobs \subseteq Runs

\* The record and the receipt a caller was answered with are the ones the
\* database holds from then on, and the receipt is one of this record
\* (AttemptCoordinator._validate_receipt).
AnswerIsDurable ==
  \A c \in Runs :
    client[c].answer # None =>
      /\ Row(c) = client[c].answer.record
      /\ receipts[AttemptOf[c]] = client[c].answer.receipt
      /\ client[c].answer.receipt.document = client[c].answer.record

\* A coordinated run has its durable envelope before its first event: no crash
\* can leave a trace without an attempt (recorder.py: "Create the durable
\* attempt envelope before any pipeline event is emitted").
EnvelopeBeforeEvents ==
  \A a \in Attempts : \A i \in DOMAIN journal[a] :
    LET e == journal[a][i] IN
      e.run \in Coordinated =>
        attempts[a] # None /\ attempts[a].identity = e.identity

\* The part of a journal up to its first terminal transition.
LifecycleOf(events) ==
  {i \in TransitionsIn(events) :
     \A j \in TransitionsIn(events) : events[j].to \in TerminalStates => i <= j}

\* A final record tells one run: when runs share an attempt identifier, the
\* transitions that were validated, the plan, the reports and the artifacts all
\* come from the same run.
RecordTellsOneRun ==
  \A a \in Attempts :
    Finalized(a) =>
      \E c \in Runs :
        /\ \A i \in LifecycleOf(journal[a]) : journal[a][i].run \in {c, Store}
        /\ attempts[a].plan # None => attempts[a].plan.run = c
        /\ attempts[a].verification # None => attempts[a].verification.run = c
        /\ attempts[a].artifacts \subseteq {c}

\* A final record refers only to payloads that are stored: they are put before
\* the transaction and never removed.
ArtifactsAreStored ==
  \A a \in Attempts : Finalized(a) => attempts[a].artifacts \subseteq blobs

\* Whatever fails or stops, rows, calls and payloads are well formed and no final
\* record refers to a payload that is not there.
RecordsAreSound == CoordinatorTypeOK /\ ArtifactsAreStored

\* finalize_attempt_with_receipt compares the stored plan, which is redacted,
\* with the plan as given.
RedactionChangesPlan(c) == client[c].plan # Sanitized(client[c].plan)

\* Recording the same result again with the same payloads is answered again,
\* never refused (memory.md: "Repeating either persistence operation with
\* identical content is idempotent"), except when redaction changed its plan.
RepeatedRecordingIsAccepted ==
  \A c \in Runs :
    At(c, "rejected") /\ client[c].answer # None =>
      \/ client[c].artifacts # client[c].answer.record.artifacts
      \/ RedactionChangesPlan(c)

\* The journal of any result the pipeline returns is one the store accepts: the
\* first recording of a result is refused only for a payload, for a plan of
\* another task, or for a plan that redaction changes when record() itself
\* opened the attempt with it.
ResultIsRecordable ==
  \A c \in Runs :
    At(c, "rejected") /\ client[c].answer = None =>
      \/ ~(client[c].artifacts \subseteq blobs)
      \/ client[c].plan # None /\ client[c].plan.task # IdentityOf[c]
      \/ c \notin Coordinated /\ RedactionChangesPlan(c)

\* An attempt that exists is never executed again (recorder.py: "an existing
\* attempt cannot be re-executed"): its journal shows one completed execution.
ExecutedOnce ==
  \A a \in Attempts : \A i, j \in DOMAIN journal[a] :
    /\ journal[a][i].type = "execution.completed"
    /\ journal[a][j].type = "execution.completed"
    => i = j

\* An attempt that was opened is finalized in the end.
OpenedIsFinalized ==
  \A a \in Attempts : (attempts[a] # None) ~> Finalized(a)
=============================================================================
